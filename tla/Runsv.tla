------------------------------- MODULE Runsv -------------------------------
(***************************************************************************)
(* runsv(8), src/runit/src/runsv.c: one process that starts, restarts and  *)
(* stops one service (svd[0]) and, when the service directory has a log/   *)
(* directory, its log service (svd[1]), connected by a pipe.               *)
(*                                                                         *)
(* runsv is a single thread that runs the loop of main(): start what is    *)
(* down and wanted up, sleep in iopause() with signals unblocked, collect  *)
(* dead children, handle at most one byte of each control fifo, handle a   *)
(* SIGTERM, and see whether it may exit.  The variable pc says where in    *)
(* that loop it is.  Around it run the users (sv, runsvctrl: they write    *)
(* the fifos), the children, and the kernel (signals, the pipe, pids).     *)
(***************************************************************************)
EXTENDS Naturals, Sequences, FiniteSets

CONSTANTS
  Pid,          \* process ids the kernel hands out
  NoPid,        \* pid 0: no process
  StalePid,     \* a pid left in supervise/ by an earlier runsv that was killed
  Commands,     \* bytes users write into supervise/control
  LogCommands,  \* bytes users write into log/supervise/control
  QLen,         \* bound: bytes waiting in one fifo
  FsFaults,     \* TRUE: writing a file below supervise/ may fail
  Scripts       \* TRUE: control/t, control/k, ... may exist

\* "a" stands for the bytes a h i q 1 2, whose signal leaves no trace in runsv.
AllCommands == {"d", "u", "x", "t", "k", "p", "c", "o", "a"}

ASSUME PidAssumption == NoPid \notin Pid /\ StalePid \notin Pid
ASSUME CommandAssumption == Commands \subseteq AllCommands /\ LogCommands \subseteq AllCommands
ASSUME ParameterAssumption == QLen \in Nat /\ FsFaults \in BOOLEAN /\ Scripts \in BOOLEAN

VARIABLES
  svd,       \* struct svdir svd[2]: pid, state, ctrl, want of service and log
  haslog,    \* haslog
  logpipe,   \* runsv still holds both ends of logpipe[]
  pc,        \* where runsv is in main()
  sigterm,   \* sigterm, set by s_term()
  selfpipe,  \* a byte waits in selfpipe[]
  sup,       \* supervise/pid and supervise/status of both, and pidchanged
  fifo,      \* supervise/control and log/supervise/control
  pending,   \* signals sent to runsv and not delivered to it yet
  prog,      \* what each process executes; "none" if it is dead or unused
  zombie,    \* children that have died and are not waited for
  stopped,   \* children stopped by SIGSTOP
  termed,    \* children that got SIGTERM
  killed     \* children that got SIGKILL

kernel == <<prog, zombie, stopped, termed, killed>>
vars == <<svd, haslog, logpipe, pc, sigterm, selfpipe, sup, fifo, pending, kernel>>

\* The processes that run, or are stopped.
live == {p \in Pid : prog[p] # "none"}

Svc == {0, 1}
PidOrNone == Pid \cup {NoPid}

Svdir == [pid : PidOrNone, state : {"down", "run", "finish"},
          ctrl : SUBSET {"TERM", "PAUSE"}, want : {"up", "down", "exit"}]

\* The bytes 12..19 of supervise/status: W_EXIT is stored as 'd'.
Status == [pid : PidOrNone \cup {StalePid}, paused : BOOLEAN, want : {"u", "d"},
           term : BOOLEAN, state : {"down", "run", "finish"}]

Supervise == [pid : [Svc -> PidOrNone \cup {StalePid}], status : [Svc -> Status],
              pidchanged : BOOLEAN]

TypeOK ==
  /\ svd \in [Svc -> Svdir]
  /\ haslog \in BOOLEAN /\ logpipe \in BOOLEAN
  /\ pc \in {"boot", "startlog", "start", "pause", "reap", "ctl", "ctllog", "term", "exit", "gone"}
  /\ sigterm \in BOOLEAN /\ selfpipe \in BOOLEAN
  /\ sup \in Supervise
  /\ fifo \in [Svc -> Seq(AllCommands)]
  /\ pending \subseteq {"CHLD", "TERM"}
  /\ prog \in [Pid -> {"none", "run", "finish", "log", "fail"}]
  /\ zombie \subseteq Pid
  /\ stopped \subseteq live /\ termed \subseteq live /\ killed \subseteq live

-----------------------------------------------------------------------------
(* Files *)

Summary(s) == [pid |-> s.pid, paused |-> "PAUSE" \in s.ctrl, term |-> "TERM" \in s.ctrl,
               want |-> IF s.want = "up" THEN "u" ELSE "d", state |-> s.state]

\* What may become of the files written by one call: all replaced, the call
\* abandoned at pid.new, or abandoned between pid and status.
Outcome == IF FsFaults THEN {"ok", "nopid", "nostatus"} ELSE {"ok"}

\* update_status(&svd[i]) with svd[i] = s on the files f.  The flag pidchanged
\* is one global for both services.  supervise/stat has the contents of status.
update_status(f, i, s, o) ==
  LET g == IF f.pidchanged /\ o # "nopid"
           THEN [f EXCEPT !.pid = [@ EXCEPT ![i] = s.pid], !.pidchanged = FALSE]
           ELSE f
  IN  IF g.pidchanged \/ o = "nostatus" THEN g
      ELSE [g EXCEPT !.status = [@ EXCEPT ![i] = Summary(s)]]

-----------------------------------------------------------------------------
(* Signals to children, control scripts *)

\* kill(p, sig) for every sig of sigs; a zombie is not affected.
Signal(p, sigs) ==
  /\ termed' = IF "TERM" \in sigs THEN termed \cup ({p} \cap live) ELSE termed
  /\ killed' = IF "KILL" \in sigs THEN killed \cup ({p} \cap live) ELSE killed
  /\ stopped' = CASE "CONT" \in sigs -> stopped \ {p}
                  [] "STOP" \in sigs -> stopped \cup ({p} \cap live)
                  [] OTHER -> stopped

\* What custom() may return: whether control/<c> ran and took over the action.
\* There are no such scripts for the log service.
custom(i) == IF i = 1 \/ ~Scripts THEN {FALSE} ELSE BOOLEAN

-----------------------------------------------------------------------------
(* stopservice() and startservice().  s is *svd[i] and f the files when the   *)
(* function is entered; handled says what custom(s, 't') returned.            *)

SendsTerm(s, handled) == s.pid # NoPid /\ ~handled

\* Mutation: no SIGCONT after SIGTERM.
StopSignals_NoCont(s, handled) == IF SendsTerm(s, handled) THEN {"TERM"} ELSE {}

StopSignals(s, handled) ==
  (IF SendsTerm(s, handled) THEN {"TERM"} ELSE {}) \cup
  (IF s.want # "up" THEN {"CONT"} ELSE {})

StopSvdir(s, handled) ==
  IF SendsTerm(s, handled) THEN [s EXCEPT !.ctrl = @ \cup {"TERM"}] ELSE s

StopFiles(f, i, s, handled, o) ==
  IF SendsTerm(s, handled) THEN update_status(f, i, StopSvdir(s, handled), o) ELSE f

stopservice(i, s, f) ==
  \E handled \in custom(i), o \in Outcome :
    /\ svd' = [svd EXCEPT ![i] = StopSvdir(s, handled)]
    /\ sup' = StopFiles(f, i, s, handled, o)
    /\ Signal(s.pid, StopSignals(s, handled))
    /\ UNCHANGED <<prog, zombie>>

\* The child of startservice(): without a pipe to attach to it exits 111
\* before it executes the program.
Program(i, s) ==
  IF haslog /\ ~logpipe THEN "fail"
  ELSE IF i = 1 THEN "log"
  ELSE IF s.state = "finish" THEN "finish" ELSE "run"

\* fork() is retried until there is a free pid.
startservice(i, s, f) ==
  \E p \in Pid \ (live \cup zombie), handled \in custom(i), o1 \in Outcome, o2 \in Outcome :
    LET stop == s.pid # NoPid
        g    == IF stop THEN StopFiles(f, i, s, handled, o1) ELSE f
        t    == [pid |-> p, state |-> IF s.state = "finish" THEN "finish" ELSE "run",
                 ctrl |-> {}, want |-> s.want]
    IN  /\ svd' = [svd EXCEPT ![i] = t]
        /\ sup' = update_status([g EXCEPT !.pidchanged = TRUE], i, t, o2)
        /\ Signal(s.pid, IF stop THEN StopSignals(s, handled) ELSE {})
        /\ prog' = [prog EXCEPT ![p] = Program(i, s)]
        /\ UNCHANGED zombie

-----------------------------------------------------------------------------
(* ctrl(): one byte of a control fifo *)

Skip == UNCHANGED <<svd, sup, kernel>>

\* Mutation: the status is not written when there is nothing to stop.
CtrlDown_NoStatus(i, want) ==
  LET s == [svd[i] EXCEPT !.want = want]
  IN  IF s.state = "run" THEN stopservice(i, s, sup)
      ELSE svd' = [svd EXCEPT ![i] = s] /\ UNCHANGED <<sup, kernel>>

\* case 'd' and, for the service only, case 'x'
CtrlDown(i, want) ==
  \E o \in Outcome :
    LET s == [svd[i] EXCEPT !.want = want]
        f == update_status(sup, i, s, o)
    IN  IF s.state = "run" THEN stopservice(i, s, f)
        ELSE svd' = [svd EXCEPT ![i] = s] /\ sup' = f /\ UNCHANGED kernel

\* case 'u' and case 'o'
CtrlUp(i, want) ==
  \E o \in Outcome :
    LET s == [svd[i] EXCEPT !.want = want]
        f == update_status(sup, i, s, o)
    IN  IF s.state = "down" THEN startservice(i, s, f)
        ELSE svd' = [svd EXCEPT ![i] = s] /\ sup' = f /\ UNCHANGED kernel

CtrlTerm(i) == IF svd[i].state = "run" THEN stopservice(i, svd[i], sup) ELSE Skip

\* The signal of case 'k', 'p' and 'c', unless control/<c> takes over.
Forward(i, sig) ==
  \E handled \in custom(i) :
    Signal(svd[i].pid, IF svd[i].state = "run" /\ ~handled THEN {sig} ELSE {})

CtrlKill(i) ==
  /\ Forward(i, "KILL")
  /\ svd' = [svd EXCEPT ![i].state = "down"]
  /\ UNCHANGED <<sup, prog, zombie>>

\* case 'p' and case 'c': c is the new value of s->ctrl
CtrlPause(i, sig, c) ==
  \E o \in Outcome :
    LET s == [svd[i] EXCEPT !.ctrl = c]
    IN  /\ Forward(i, sig)
        /\ svd' = [svd EXCEPT ![i] = s]
        /\ sup' = update_status(sup, i, s, o)
        /\ UNCHANGED <<prog, zombie>>

ctrl(i, c) ==
  \/ c = "d" /\ CtrlDown(i, "down")
  \/ c = "x" /\ i = 0 /\ CtrlDown(i, "exit")
  \/ c = "x" /\ i = 1 /\ Skip
  \/ c = "u" /\ CtrlUp(i, "up")
  \/ c = "o" /\ CtrlUp(i, "down")
  \/ c = "t" /\ CtrlTerm(i)
  \/ c = "k" /\ CtrlKill(i)
  \/ c = "p" /\ CtrlPause(i, "STOP", svd[i].ctrl \cup {"PAUSE"})
  \/ c = "c" /\ CtrlPause(i, "CONT", svd[i].ctrl \ {"PAUSE"})
  \/ c = "a" /\ Skip

-----------------------------------------------------------------------------
(* main() *)

Initial(want) == [pid |-> NoPid, state |-> "down", ctrl |-> {}, want |-> want]

\* supervise/ holds what an earlier runsv left: after a clean exit no pid,
\* after a kill -9 the pids of the children it had.
Left(p) == [pid |-> p, paused |-> FALSE, want |-> "d", term |-> FALSE,
            state |-> IF p = NoPid THEN "down" ELSE "run"]

Init ==
  /\ svd = [i \in Svc |-> Initial("up")]
  /\ haslog = FALSE /\ logpipe = FALSE
  /\ pc = "boot"
  /\ sigterm = FALSE /\ selfpipe = FALSE
  /\ \E p \in {NoPid, StalePid} :
       sup = [pid |-> [i \in Svc |-> p], status |-> [i \in Svc |-> Left(p)], pidchanged |-> TRUE]
  /\ fifo = [i \in Svc |-> <<>>]
  /\ pending = {}
  /\ prog = [p \in Pid |-> "none"]
  /\ zombie = {} /\ stopped = {} /\ termed = {} /\ killed = {}

\* Everything before the loop: ./down, ./log, ./log/down, the pipe, the locks
\* and the fifos.  A failure, the lock held by another runsv included, is fatal.
BootFails == pc = "boot" /\ pc' = "gone"
             /\ UNCHANGED <<svd, haslog, logpipe, sigterm, selfpipe, sup, fifo, pending, kernel>>

Boot ==
  /\ pc = "boot"
  /\ pc' = "startlog"
  /\ haslog' \in BOOLEAN
  /\ logpipe' = haslog'
  /\ \E w \in {"up", "down"}, l \in {"up", "down"}, o1 \in Outcome, o2 \in Outcome :
       LET f == update_status(sup, 0, Initial(w), o1)
       IN  /\ svd' = [i \in Svc |-> IF i = 0 THEN Initial(w)
                                    ELSE IF haslog' THEN Initial(l) ELSE Initial("up")]
           /\ sup' = IF haslog' THEN update_status(f, 1, Initial(l), o2) ELSE f
  /\ UNCHANGED <<sigterm, selfpipe, fifo, pending, kernel>>

\* if (! svd[1].pid && (svd[1].want == W_UP)) startservice(&svd[1]);
StartLog ==
  /\ pc = "startlog"
  /\ pc' = "start"
  /\ IF haslog /\ svd[1].pid = NoPid /\ svd[1].want = "up"
     THEN startservice(1, svd[1], sup) ELSE Skip
  /\ UNCHANGED <<haslog, logpipe, sigterm, selfpipe, fifo, pending>>

\* Mutation: only ./finish is started here.
Start_FinishOnly ==
  /\ pc = "start"
  /\ pc' = "pause"
  /\ IF svd[0].pid = NoPid /\ svd[0].state = "finish" THEN startservice(0, svd[0], sup) ELSE Skip
  /\ UNCHANGED <<haslog, logpipe, sigterm, selfpipe, fifo, pending>>

\* if (! svd[0].pid) if ((svd[0].want == W_UP) || (svd[0].state == S_FINISH)) ...
Start ==
  /\ pc = "start"
  /\ pc' = "pause"
  /\ IF svd[0].pid = NoPid /\ (svd[0].want = "up" \/ svd[0].state = "finish")
     THEN startservice(0, svd[0], sup) ELSE Skip
  /\ UNCHANGED <<haslog, logpipe, sigterm, selfpipe, fifo, pending>>

\* The handlers s_child() and s_term() run only while iopause() waits.
Deliver(sig) ==
  /\ pc = "pause" /\ sig \in pending
  /\ pending' = pending \ {sig}
  /\ selfpipe' = TRUE
  /\ sigterm' = (sigterm \/ sig = "TERM")
  /\ UNCHANGED <<svd, haslog, logpipe, pc, sup, fifo, kernel>>

\* iopause() returns, the signals are blocked again and the self-pipe drained.
Resume ==
  /\ pc = "pause"
  /\ pc' = "reap"
  /\ selfpipe' = FALSE
  /\ UNCHANGED <<svd, haslog, logpipe, sigterm, sup, fifo, pending, kernel>>

Wake == (selfpipe \/ fifo[0] # <<>> \/ (haslog /\ fifo[1] # <<>>)) /\ Resume

\* The deadline of iopause() passes.
Timeout == selfpipe = FALSE /\ fifo = [i \in Svc |-> <<>>] /\ Resume

Bury(p) == zombie' = zombie \ {p} /\ UNCHANGED <<prog, stopped, termed, killed>>

\* Mutation: the pid of the dead child is kept.
ReapService_KeepsPid(p) ==
  /\ p = svd[0].pid
  /\ \E finish \in BOOLEAN, o \in Outcome :
       LET s == [svd[0] EXCEPT !.ctrl = @ \ {"TERM"},
                   !.state = IF svd[0].state # "finish" /\ finish THEN "finish" ELSE "down"]
       IN  svd' = [svd EXCEPT ![0] = s] /\ sup' = update_status(sup, 0, s, o)

\* Mutation: ./finish follows ./finish.
ReapService_Refinish(p) ==
  /\ p = svd[0].pid
  /\ \E finish \in BOOLEAN, o \in Outcome :
       LET s == [svd[0] EXCEPT !.pid = NoPid, !.ctrl = @ \ {"TERM"},
                   !.state = IF finish THEN "finish" ELSE "down"]
       IN  /\ svd' = [svd EXCEPT ![0] = s]
           /\ sup' = update_status([sup EXCEPT !.pidchanged = TRUE], 0, s, o)

\* child == svd[0].pid; finish says whether ./finish could be opened.
ReapService(p) ==
  /\ p = svd[0].pid
  /\ \E finish \in BOOLEAN, o \in Outcome :
       LET s == [svd[0] EXCEPT !.pid = NoPid, !.ctrl = @ \ {"TERM"},
                   !.state = IF svd[0].state # "finish" /\ finish THEN "finish" ELSE "down"]
       IN  /\ svd' = [svd EXCEPT ![0] = s]
           /\ sup' = update_status([sup EXCEPT !.pidchanged = TRUE], 0, s, o)

ReapLog(p) ==
  /\ p # svd[0].pid /\ haslog /\ p = svd[1].pid
  /\ \E o \in Outcome :
       LET s == [svd[1] EXCEPT !.pid = NoPid, !.ctrl = @ \ {"TERM"}, !.state = "down"]
       IN  /\ svd' = [svd EXCEPT ![1] = s]
           /\ sup' = update_status([sup EXCEPT !.pidchanged = TRUE], 1, s, o)

ReapOther(p) == p # svd[0].pid /\ ~(haslog /\ p = svd[1].pid) /\ UNCHANGED <<svd, sup>>

\* One round of the wait_nohang() loop.
Reap ==
  /\ pc = "reap"
  /\ \E p \in zombie : Bury(p) /\ (ReapService(p) \/ ReapLog(p) \/ ReapOther(p))
  /\ UNCHANGED <<haslog, logpipe, pc, sigterm, selfpipe, fifo, pending>>

\* Mutation: at most one child is collected per wake-up.
ReapDone_Once ==
  /\ pc = "reap"
  /\ pc' = "ctl"
  /\ UNCHANGED <<svd, haslog, logpipe, sigterm, selfpipe, sup, fifo, pending, kernel>>

ReapDone ==
  /\ pc = "reap" /\ zombie = {}
  /\ pc' = "ctl"
  /\ UNCHANGED <<svd, haslog, logpipe, sigterm, selfpipe, sup, fifo, pending, kernel>>

\* if (read(svd[i].fdcontrol, &ch, 1) == 1) ctrl(&svd[i], ch);
ReadControl(i) ==
  IF fifo[i] = <<>> \/ (i = 1 /\ ~haslog) THEN Skip /\ UNCHANGED fifo
  ELSE ctrl(i, Head(fifo[i])) /\ fifo' = [fifo EXCEPT ![i] = Tail(@)]

Control ==
  /\ pc = "ctl"
  /\ pc' = "ctllog"
  /\ ReadControl(0)
  /\ UNCHANGED <<haslog, logpipe, sigterm, selfpipe, pending>>

ControlLog ==
  /\ pc = "ctllog"
  /\ pc' = "term"
  /\ ReadControl(1)
  /\ UNCHANGED <<haslog, logpipe, sigterm, selfpipe, pending>>

\* if (sigterm) { ctrl(&svd[0], 'x'); sigterm =0; }
HandleTerm ==
  /\ pc = "term"
  /\ pc' = "exit"
  /\ IF sigterm THEN ctrl(0, "x") ELSE Skip
  /\ sigterm' = FALSE
  /\ UNCHANGED <<haslog, logpipe, selfpipe, fifo, pending>>

\* The check at the end of the loop: leave, or close the log pipe.
MayExit == svd[0].want = "exit" /\ svd[0].state = "down"

Exit ==
  /\ pc = "exit" /\ MayExit /\ svd[1].pid = NoPid
  /\ pc' = "gone"
  /\ zombie' = {}
  /\ UNCHANGED <<svd, haslog, logpipe, sigterm, selfpipe, sup, fifo, pending>>
  /\ UNCHANGED <<prog, stopped, termed, killed>>

\* Mutation: the write end of the log pipe stays open.
CloseLog_KeepsPipe ==
  /\ pc = "exit" /\ MayExit /\ svd[1].pid # NoPid /\ svd[1].want # "exit"
  /\ pc' = "startlog"
  /\ svd' = [svd EXCEPT ![1].want = "exit"]
  /\ \E o \in Outcome : sup' = update_status(sup, 1, svd'[1], o)
  /\ UNCHANGED <<haslog, logpipe, sigterm, selfpipe, fifo, pending, kernel>>

CloseLog ==
  /\ pc = "exit" /\ MayExit /\ svd[1].pid # NoPid /\ svd[1].want # "exit"
  /\ pc' = "startlog"
  /\ svd' = [svd EXCEPT ![1].want = "exit"]
  /\ \E o \in Outcome : sup' = update_status(sup, 1, svd'[1], o)
  /\ logpipe' = FALSE
  /\ UNCHANGED <<haslog, sigterm, selfpipe, fifo, pending, kernel>>

Stay ==
  /\ pc = "exit" /\ ~(MayExit /\ (svd[1].pid = NoPid \/ svd[1].want # "exit"))
  /\ pc' = "startlog"
  /\ UNCHANGED <<svd, haslog, logpipe, sigterm, selfpipe, sup, fifo, pending, kernel>>

RunsvStep ==
  \/ BootFails \/ Boot \/ StartLog \/ Start
  \/ Wake \/ Reap \/ ReapDone \/ Control \/ ControlLog \/ HandleTerm
  \/ Exit \/ CloseLog \/ Stay

-----------------------------------------------------------------------------
(* The world around runsv *)

Running == pc \notin {"boot", "gone"}

\* sv(8) and others write a byte into a fifo runsv reads.
UserControl(i) ==
  /\ Running /\ (i = 0 \/ haslog) /\ Len(fifo[i]) < QLen
  /\ \E c \in IF i = 0 THEN Commands ELSE LogCommands : fifo' = [fifo EXCEPT ![i] = Append(@, c)]
  /\ UNCHANGED <<svd, haslog, logpipe, pc, sigterm, selfpipe, sup, pending, kernel>>

\* Someone sends runsv a SIGTERM, as runsvdir does when it shuts down.
UserTerm ==
  /\ Running
  /\ pending' = pending \cup {"TERM"}
  /\ UNCHANGED <<svd, haslog, logpipe, pc, sigterm, selfpipe, sup, fifo, kernel>>

\* A child that is not stopped ends for a reason of its own or on a signal;
\* SIGKILL ends a stopped one too.  It stays a zombie while runsv lives.
ChildExit(p) ==
  /\ p \in live /\ (p \notin stopped \/ p \in killed)
  /\ prog' = [prog EXCEPT ![p] = "none"]
  /\ zombie' = IF Running THEN zombie \cup {p} ELSE zombie
  /\ stopped' = stopped \ {p} /\ termed' = termed \ {p} /\ killed' = killed \ {p}
  /\ pending' = IF Running THEN pending \cup {"CHLD"} ELSE pending
  /\ UNCHANGED <<svd, haslog, logpipe, pc, sigterm, selfpipe, sup, fifo>>

Next ==
  \/ RunsvStep
  \/ Timeout
  \/ \E sig \in {"CHLD", "TERM"} : Deliver(sig)
  \/ \E i \in Svc : UserControl(i)
  \/ UserTerm
  \/ \E p \in Pid : ChildExit(p)

Spec == Init /\ [][Next]_vars

-----------------------------------------------------------------------------
(* Fairness *)

\* A log program ends when its input does: no process holds the write end.
HoldsWriteEnd(p) == prog[p] \in {"run", "finish"}
LogEof(p) == prog[p] = "log" /\ (~logpipe \/ pc = "gone") /\ \A q \in live : ~HoldsWriteEnd(q)

\* The ends a child may not put off for ever: SIGKILL; and, unless it is
\* stopped, SIGTERM, the end of ./finish, of a failed child, of the log input.
MustExit(p) == p \in killed \/ (p \notin stopped /\ (p \in termed \/ prog[p] \in {"finish", "fail"} \/ LogEof(p)))

\* runsv is scheduled, and the kernel delivers its signals.
Fairness ==
  /\ WF_vars(RunsvStep)
  /\ \A sig \in {"CHLD", "TERM"} : WF_vars(Deliver(sig))
  /\ \A p \in Pid : WF_vars(MustExit(p) /\ ChildExit(p))

FairSpec == Spec /\ Fairness

-----------------------------------------------------------------------------
(* Properties *)

\* Every kill() of runsv reaches a child of its own that has not been waited
\* for: a service in state S_RUN has a pid (kill(0, ...) would signal runsv's
\* own process group), no stored pid can have been recycled by the kernel, and
\* the service and the log service never share one.
OwnChild ==
  Running =>
    /\ \A i \in Svc : svd[i].state = "run" => svd[i].pid # NoPid
    /\ \A i \in Svc : svd[i].pid # NoPid => svd[i].pid \in live \cup zombie
    /\ svd[0].pid # NoPid => svd[0].pid # svd[1].pid

\* runsv knows every child it has: none is forgotten by startservice()
\* storing a new pid over the old one, so that no program of the service runs
\* twice ("should never happen" in startservice()).
NoOrphan == live \cup zombie \subseteq {svd[0].pid, svd[1].pid}

\* runsv leaves nothing behind: when it exits neither the service nor its
\* log service has a process left.
CleanExit == pc = "gone" => live = {}

\* No end of a child is missed: if one waits to be collected while runsv is
\* about to sleep in iopause(), a SIGCHLD or a byte in the self-pipe will
\* wake it up.  The loop around wait_nohang() and the signal mask see to it.
NoLostChild == pc = "pause" /\ zombie # {} => "CHLD" \in pending \/ selfpipe

\* When runsv sleeps, the status files say what it knows (files can be written).
StatusFresh ==
  pc = "pause" /\ ~FsFaults =>
    \A i \in Svc : i = 0 \/ haslog => sup.status[i] = Summary(svd[i])

\* With 'k' the state byte lags behind, and nothing else: CtrlKill writes no
\* status, so the file may show a state that runsv has replaced by S_DOWN.
StatusFreshButState ==
  pc = "pause" /\ ~FsFaults =>
    \A i \in Svc : i = 0 \/ haslog =>
      /\ [sup.status[i] EXCEPT !.state = svd[i].state] = Summary(svd[i])
      /\ sup.status[i].state # svd[i].state => svd[i].state = "down"

\* runsv keeps hold of its children from fork() to wait: it knows every one, misses
\* no end of one, and exits only when none is left (startservice(), the reap loop,
\* the exit check).
ChildrenKept == NoOrphan /\ NoLostChild /\ CleanExit

\* The command k, which changes the state before the process is collected, can make
\* runsv neither signal a process that is not its own nor report anything wrong but
\* the state (ctrl(), stopservice(), update_status()).
SafeUnderKill == OwnChild /\ StatusFreshButState

\* The abstract state: what the service is doing, and the processes executing
\* one of its two programs.
Phase == CASE pc = "gone" -> "gone"
           [] pc # "gone" /\ svd[0].pid # NoPid -> svd[0].state
           [] OTHER -> IF svd[0].state = "finish" THEN "due" ELSE "down"
Alive == {p \in live : prog[p] \in {"run", "finish"}}
Life == INSTANCE ServiceLife WITH phase <- Phase, alive <- Alive

\* runsv implements ServiceLife: ./run is started only when nothing of the
\* service is left, ./finish at most once in between, and runsv exits only from
\* down (startservice(), the reap loop and the exit check together).
FollowsLifeCycle == Life!Spec
=============================================================================
