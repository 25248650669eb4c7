------------------------------- MODULE Runit -------------------------------
(***************************************************************************)
(* Process 1 of AQJ OS: runit(8), src/runit/src/runit.c, with runit-init(8)*)
(* ("init 0", "init 6") and the stage scripts /etc/runit/3 and ctrlaltdel. *)
(*                                                                         *)
(* runit runs the stages 1, 2 and 3 one after the other.  A request to     *)
(* leave stage 2 is a SIGCONT together with the execute bit of             *)
(* /etc/runit/stopit; whether the machine then reboots or halts is left in *)
(* /etc/runit/reboot.  Both files survive a power cycle.                   *)
(***************************************************************************)
EXTENDS Naturals, FiniteSets

CONSTANTS
  Inits,      \* the init 0 and init 6 processes a user may start during one boot
  Polls,      \* rounds runit waits for stage 2 to end (5 in the source)
  ExecFails   \* TRUE: stage 3 may find no reboot or poweroff program

ASSUME PollsAssumption == Polls \in Nat
ASSUME ExecAssumption == ExecFails \in BOOLEAN

VARIABLES
  st,       \* st: the stage, 0..2, and 3 behind the loop
  pc,       \* where runit is in main()
  kid,      \* the child pid of the stage: none, run, or its exit status
  script,   \* where /etc/runit/3 is
  sigc, sigi,  \* sigc, sigi (only tested for zero)
  selfpipe, \* a byte waits in selfpipe[]
  pending,  \* blocked signals sent to runit
  i,        \* rounds waited since SIGTERM to stage 2
  stopit,   \* /etc/runit/stopit: absent, plain, or x (execute by owner)
  reboot,   \* /etc/runit/reboot, likewise
  rofs,     \* the root file system is mounted read-only
  init,     \* the steps of the init processes
  asked,    \* history: what was asked for since power on
  granted,  \* history: the init requests carried out to the end
  power     \* on, rebooted, or off

files == <<stopit, reboot, rofs>>
signals == <<sigc, sigi, selfpipe, pending>>
users == <<init, asked, granted>>
vars == <<st, pc, kid, script, signals, i, files, users, power>>

\* How a stage can end: exit 0, another code, the codes runit looks for, or a
\* signal ("crash").
Ends == {"ok", "fail", "100", "111", "crash"}
InitSteps == {"idle", "0_open", "0_chmod", "0_reboot", "0_cont",
              "6_open", "6_chmod", "6_reboot", "6_chmod_reboot", "6_cont", "done"}

TypeOK ==
  /\ st \in 0..3
  /\ pc \in {"fork", "poll", "reap", "signals", "cad", "stop", "term", "final", "end"}
  /\ kid \in {"none", "run"} \cup Ends
  /\ script \in {"none", "stop", "umount", "decide"}
  /\ sigc \in BOOLEAN /\ sigi \in BOOLEAN /\ selfpipe \in BOOLEAN
  /\ pending \subseteq {"CHLD", "CONT", "INT"}
  /\ i \in 0..Polls
  /\ stopit \in {"absent", "plain", "x"} /\ reboot \in {"absent", "plain", "x"}
  /\ rofs \in BOOLEAN
  /\ init \in [Inits -> InitSteps]
  /\ asked \subseteq {"halt", "reboot", "cad"} /\ granted \subseteq {"halt", "reboot"}
  /\ power \in {"on", "rebooted", "off"}

-----------------------------------------------------------------------------
(* runit.c *)

On == power = "on"

\* wait.h: the exit code is zero for a process that was ended by a signal.
wait_crashed(w) == w = "crash"
wait_exitcode(w) == CASE w = "100" -> 100 [] w = "111" -> 111 [] w = "fail" -> 1 [] OTHER -> 0

\* The machine is switched on for the first time: no request files yet.
Init ==
  /\ st = 0 /\ pc = "fork" /\ kid = "none" /\ script = "none"
  /\ sigc = FALSE /\ sigi = FALSE /\ selfpipe = FALSE /\ pending = {} /\ i = 0
  /\ stopit = "absent" /\ reboot = "absent" /\ rofs = FALSE
  /\ init = [n \in Inits |-> "idle"] /\ asked = {} /\ granted = {}
  /\ power = "on"

\* fork() (retried until it succeeds) and execve() of /etc/runit/<st + 1>
Fork ==
  /\ On /\ pc = "fork"
  /\ pc' = "poll"
  /\ kid' = "run"
  /\ script' = IF st = 2 THEN "stop" ELSE "none"
  /\ UNCHANGED <<st, signals, i, files, users, power>>

\* The handlers run only while runit waits in poll().
Deliver(sig) ==
  /\ On /\ pc = "poll" /\ sig \in pending
  /\ pending' = pending \ {sig}
  /\ sigc' = (sigc \/ sig = "CONT")
  /\ sigi' = (sigi \/ sig = "INT")
  /\ selfpipe' = TRUE
  /\ UNCHANGED <<st, pc, kid, script, i, files, users, power>>

\* poll() returns, for a byte in the self-pipe or after 14 seconds.
Wake ==
  /\ On /\ pc = "poll"
  /\ pc' = "reap"
  /\ selfpipe' = FALSE
  /\ UNCHANGED <<st, kid, script, sigc, sigi, pending, i, files, users, power>>

\* The child of the stage has ended: the stage to go to.
NextStage(w) ==
  IF wait_exitcode(w) # 0 /\ st = 0 /\ (wait_crashed(w) \/ wait_exitcode(w) = 100) THEN 2
  ELSE IF wait_exitcode(w) # 0 /\ st = 1 /\ (wait_crashed(w) \/ wait_exitcode(w) = 111) THEN 1
  ELSE st + 1

\* Leave the loop over the stages behind stage 3, else start the next one.
EnterStage(n) == st' = n /\ pc' = IF n = 3 THEN "final" ELSE "fork"

\* Mutation: a new stage starts without the requests that came in before.
Reap_Forgets ==
  /\ On /\ pc = "reap" /\ kid \in Ends
  /\ EnterStage(NextStage(kid))
  /\ kid' = "none"
  /\ sigc' = FALSE /\ sigi' = FALSE
  /\ UNCHANGED <<script, selfpipe, pending, i, files, users, power>>

Reap ==
  /\ On /\ pc = "reap" /\ kid \in Ends
  /\ EnterStage(NextStage(kid))
  /\ kid' = "none"
  /\ UNCHANGED <<script, signals, i, files, users, power>>

\* wait_nohang() has nothing more, other than orphans, to collect.
ReapNone ==
  /\ On /\ pc = "reap" /\ kid = "run"
  /\ pc' = "signals"
  /\ UNCHANGED <<st, kid, script, signals, i, files, users, power>>

\* sig?  Only in stage 2; /etc/runit/ctrlaltdel of AQJ OS is executable.
Signals ==
  /\ On /\ pc = "signals"
  /\ pc' = CASE ~sigc /\ ~sigi -> "poll"
             [] (sigc \/ sigi) /\ st # 1 -> "poll"
             [] OTHER -> IF sigi THEN "cad" ELSE "stop"
  /\ IF st # 1 THEN sigc' = FALSE /\ sigi' = FALSE ELSE UNCHANGED <<sigc, sigi>>
  /\ UNCHANGED <<st, kid, script, selfpipe, pending, i, files, users, power>>

\* /etc/runit/ctrlaltdel: touch /etc/runit/reboot and ask the services to stop
CtrlAltDel ==
  /\ On /\ pc = "cad"
  /\ pc' = "stop"
  /\ reboot' = IF reboot = "absent" /\ ~rofs THEN "plain" ELSE reboot
  /\ sigi' = FALSE /\ sigc' = TRUE
  /\ UNCHANGED <<st, kid, script, selfpipe, pending, i, stopit, rofs, users, power>>

\* if (sigc && stopit is executable) chmod(STOPIT, 0), SIGTERM to stage 2
StopRequested ==
  /\ On /\ pc = "stop" /\ sigc /\ stopit = "x"
  /\ pc' = "term"
  /\ stopit' = "plain"
  /\ i' = 0
  /\ UNCHANGED <<st, kid, script, signals, reboot, rofs, users, power>>

NoRequest ==
  /\ On /\ pc = "stop" /\ ~(sigc /\ stopit = "x")
  /\ pc' = "poll"
  /\ sigc' = FALSE /\ sigi' = FALSE
  /\ UNCHANGED <<st, kid, script, selfpipe, pending, i, files, users, power>>

\* Wait up to Polls seconds for stage 2, then kill it.
TermWait ==
  /\ On /\ pc = "term" /\ kid = "run" /\ i < Polls
  /\ i' = i + 1
  /\ UNCHANGED <<st, pc, kid, script, signals, files, users, power>>

\* stage 2 was seen to end, or SIGKILL and wait_pid() after the last round
TermDone ==
  /\ On /\ pc = "term" /\ (kid \in Ends \/ i = Polls)
  /\ kid' = "none"
  /\ sigc' = FALSE
  /\ EnterStage(2)
  /\ UNCHANGED <<script, sigi, selfpipe, pending, i, files, users, power>>

\* Behind stage 3: kill everything, look at /etc/runit/reboot.
Final ==
  /\ On /\ pc = "final"
  /\ pc' = "end"
  /\ power' = IF reboot = "x" THEN "rebooted" ELSE "off"
  /\ UNCHANGED <<st, kid, script, signals, i, files, users>>

RunitStep ==
  \/ Fork \/ Wake \/ Reap \/ ReapNone \/ Signals \/ CtrlAltDel
  \/ StopRequested \/ NoRequest \/ TermWait \/ TermDone \/ Final

-----------------------------------------------------------------------------
(* The stages *)

\* Stage 1 or 2 ends; runit gets a SIGCHLD.
StageEnds(w) ==
  /\ On /\ kid = "run" /\ st < 2 /\ w \in Ends
  /\ kid' = w
  /\ pending' = pending \cup {"CHLD"}
  /\ UNCHANGED <<st, pc, script, sigc, sigi, selfpipe, i, files, users, power>>

\* /etc/runit/3: stop the services, then kill every other process
Stage3Kill ==
  /\ On /\ script = "stop"
  /\ script' = "umount"
  /\ init' = [n \in Inits |-> IF init[n] = "idle" THEN "idle" ELSE "done"]
  /\ UNCHANGED <<st, pc, kid, signals, i, files, asked, granted, power>>

\* umount -a -r || mount -o remount,ro / || true
Stage3Umount ==
  /\ On /\ script = "umount"
  /\ script' = "decide"
  /\ rofs' \in BOOLEAN
  /\ UNCHANGED <<st, pc, kid, signals, i, stopit, reboot, users, power>>

\* [ -x /etc/runit/reboot ] || [ -f /etc/runit/reboot ]
Stage3Reboots == reboot # "absent"

\* Mutation: the script gives up when it cannot remove the file.
Stage3Decide_NeedsRm ==
  /\ On /\ script = "decide" /\ ~(Stage3Reboots /\ rofs)
  /\ script' = "none"
  /\ reboot' = IF Stage3Reboots THEN "absent" ELSE reboot
  /\ power' = IF Stage3Reboots THEN "rebooted" ELSE "off"
  /\ UNCHANGED <<st, pc, kid, signals, i, stopit, rofs, users>>

\* rm -f (without effect on a read-only file system), then exec reboot -f or
\* poweroff -f
Stage3Decide ==
  /\ On /\ script = "decide"
  /\ script' = "none"
  /\ reboot' = IF Stage3Reboots /\ ~rofs THEN "absent" ELSE reboot
  /\ \/ power' = (IF Stage3Reboots THEN "rebooted" ELSE "off") /\ UNCHANGED <<kid, pending>>
     \/ ExecFails /\ kid' = "fail" /\ pending' = pending \cup {"CHLD"} /\ UNCHANGED power
  /\ UNCHANGED <<st, pc, sigc, sigi, selfpipe, i, stopit, rofs, users>>

StageStep == Stage3Kill \/ Stage3Umount \/ Stage3Decide

-----------------------------------------------------------------------------
(* runit-init.c, one system call per step *)

Goto(n, step) == init' = [init EXCEPT ![n] = step]
machine == <<st, pc, kid, script, signals, i, power>>

\* "init 0" or "init 6" is started, by a process stage 3 has not killed yet.
InitStart(n) ==
  /\ On /\ init[n] = "idle" /\ script \notin {"umount", "decide"}
  /\ \/ Goto(n, "0_open") /\ asked' = asked \cup {"halt"}
     \/ Goto(n, "6_open") /\ asked' = asked \cup {"reboot"}
  /\ UNCHANGED <<machine, files, granted>>

\* open_trunc(STOPIT), fatal on a read-only file system
InitOpen(n) ==
  /\ On /\ init[n] \in {"0_open", "6_open"}
  /\ stopit' = IF stopit = "absent" /\ ~rofs THEN "plain" ELSE stopit
  /\ Goto(n, IF rofs THEN "done" ELSE IF init[n] = "0_open" THEN "0_chmod" ELSE "6_chmod")
  /\ UNCHANGED <<machine, reboot, rofs, asked, granted>>

\* chmod(STOPIT, 0100)
InitChmod(n) ==
  /\ On /\ init[n] \in {"0_chmod", "6_chmod"}
  /\ stopit' = IF rofs THEN stopit ELSE "x"
  /\ Goto(n, IF rofs THEN "done" ELSE IF init[n] = "0_chmod" THEN "0_reboot" ELSE "6_reboot")
  /\ UNCHANGED <<machine, reboot, rofs, asked, granted>>

\* runit_halt: chmod(REBOOT, 0), which may not exist
InitHalt(n) ==
  /\ On /\ init[n] = "0_reboot"
  /\ reboot' = IF reboot = "x" /\ ~rofs THEN "plain" ELSE reboot
  /\ Goto(n, IF rofs /\ reboot # "absent" THEN "done" ELSE "0_cont")
  /\ UNCHANGED <<machine, stopit, rofs, asked, granted>>

\* Mutation: the file that asks for a reboot is not created when missing.
InitReboot_NoCreate(n) ==
  /\ On /\ init[n] = "6_reboot"
  /\ Goto(n, IF rofs THEN "done" ELSE "6_cont")
  /\ UNCHANGED <<machine, files, asked, granted>>

\* runit_reboot: open_trunc(REBOOT)
InitReboot(n) ==
  /\ On /\ init[n] = "6_reboot"
  /\ reboot' = IF reboot = "absent" /\ ~rofs THEN "plain" ELSE reboot
  /\ Goto(n, IF rofs THEN "done" ELSE "6_chmod_reboot")
  /\ UNCHANGED <<machine, stopit, rofs, asked, granted>>

\* runit_reboot: chmod(REBOOT, 0100)
InitChmodReboot(n) ==
  /\ On /\ init[n] = "6_chmod_reboot"
  /\ reboot' = IF rofs \/ reboot = "absent" THEN reboot ELSE "x"
  /\ Goto(n, IF rofs \/ reboot = "absent" THEN "done" ELSE "6_cont")
  /\ UNCHANGED <<machine, stopit, rofs, asked, granted>>

\* kill(1, SIGCONT)
InitCont(n) ==
  /\ On /\ init[n] \in {"0_cont", "6_cont"}
  /\ pending' = pending \cup {"CONT"}
  /\ granted' = granted \cup {IF init[n] = "0_cont" THEN "halt" ELSE "reboot"}
  /\ Goto(n, "done")
  /\ UNCHANGED <<st, pc, kid, script, sigc, sigi, selfpipe, i, files, asked, power>>

InitStep(n) ==
  InitOpen(n) \/ InitChmod(n) \/ InitHalt(n) \/ InitReboot(n) \/ InitChmodReboot(n) \/ InitCont(n)

-----------------------------------------------------------------------------
(* The user and the machine *)

PressCtrlAltDel ==
  /\ On
  /\ pending' = pending \cup {"INT"}
  /\ asked' = asked \cup {"cad"}
  /\ UNCHANGED <<st, pc, kid, script, sigc, sigi, selfpipe, i, files, init, granted, power>>

\* Power comes back: only the files are left.
PowerOn ==
  /\ ~On
  /\ st' = 0 /\ pc' = "fork" /\ kid' = "none" /\ script' = "none"
  /\ sigc' = FALSE /\ sigi' = FALSE /\ selfpipe' = FALSE /\ pending' = {} /\ i' = 0
  /\ rofs' = FALSE
  /\ init' = [n \in Inits |-> "idle"] /\ asked' = {} /\ granted' = {}
  /\ power' = "on"
  /\ UNCHANGED <<stopit, reboot>>

Next ==
  \/ RunitStep \/ StageStep
  \/ \E sig \in {"CHLD", "CONT", "INT"} : Deliver(sig)
  \/ \E w \in Ends : StageEnds(w)
  \/ \E n \in Inits : InitStart(n) \/ InitStep(n)
  \/ PressCtrlAltDel \/ PowerOn

Spec == Init /\ [][Next]_vars

\* runit, the scripts and the signals make progress; init processes are
\* scheduled.  Nobody has to ask for anything and no stage has to end.
Fairness ==
  /\ WF_vars(RunitStep) /\ WF_vars(StageStep)
  /\ \A sig \in {"CHLD", "CONT", "INT"} : SF_vars(Deliver(sig))
  /\ \A n \in Inits : WF_vars(InitStep(n))

FairSpec == Spec /\ Fairness

-----------------------------------------------------------------------------
(* Properties *)

\* No stage is forked, and the machine is not stopped by runit, while the child
\* of the stage before is uncollected: stage 3 never overlaps stage 2
\* (runit.c:253-277 waits for it, killing it if it must).
OneStage == pc \in {"fork", "final"} => kid = "none"

\* Once stopit was consumed the machine only goes down: stage 2 is not started
\* again, not even if it exits 111 on its SIGTERM, and no stage follows stage 3.
ShutdownIsFinal ==
  [][On /\ (pc = "term" \/ st >= 2) => pc' = "term" \/ st' >= 2]_vars

\* Stage 3 never turns a completed "init 6" into a power off, not even by a halt
\* asked for at the same time: the file it made executable outlives every call of
\* the other (runit-init.c:19-42, configs/runit/3:37-44).  When the exec of
\* reboot fails the script has removed the file and runit itself halts (st = 3).
RebootReboots == power = "off" /\ st # 3 => "reboot" \notin granted

\* A shutdown is orderly: stages follow each other without overlap, and the machine
\* reboots if that was asked for (runit.c:94-310, runit-init.c, configs/runit/3).
ShutdownOrderly == OneStage /\ RebootReboots

\* runit has been told to shut down: runit.c:242 will find both halves.
Told == On /\ st = 1 /\ stopit = "x" /\ (sigc \/ "CONT" \in pending)

\* A shutdown request that reaches runit in stage 2 leads to stage 3, whatever
\* signals come together and however often stage 2 was restarted before,
\* provided stage 2 at last stops exiting 111 (runit.c:188-197, 242-283).
RequestHonoured == <>[](kid # "111") => (Told ~> st >= 2)

\* Stage 3 ends with the machine off or rebooted, under all interleavings with
\* late init processes (configs/runit/3, runit.c:297-342).
ShutdownEnds == st = 2 ~> power # "on"

\* "if it crashes ... it will be restarted" and "crashes ... will skip stage 2"
\* (runit.8:20-24, 29-30): what follows on a stage ended by a signal.
CrashHandled ==
  [][On /\ pc = "reap" /\ kid = "crash" /\ st < 2 => st' = (IF st = 0 THEN 2 ELSE 1)]_vars

\* "init 0" halts the machine (runit-init.8): without a request to reboot since
\* power on, a machine that was told to halt does not reboot.
HaltHalts == power = "rebooted" /\ asked = {"halt"} => granted = {}
=============================================================================
