----------------------------- MODULE SvControl -----------------------------
(***************************************************************************)
(* The clients of one runsv: sv(8) (src/runit/src/sv.c), svwaitdown and    *)
(* svwaitup, run one after the other. They know runsv only by its files:   *)
(* whether supervise/ok has a reader, the status file, the control fifo.   *)
(* Composed with Runsv, for a service without log service and without      *)
(* other users. Time is in whole seconds, as in the status file.           *)
(***************************************************************************)
EXTENDS Runsv

CONSTANTS
  Actions,    \* bound: the invocations, one after the other: a set of sequences of names
  wait,       \* seconds sv waits for a command to take effect
  sec,        \* seconds svwaitdown and svwaitup wait, at least 1
  MaxClock    \* bound: seconds; the last one stands for all later ones

ASSUME TimeAssumption == wait \in Nat /\ sec \in Nat /\ MaxClock \in Nat

VARIABLES
  sv,     \* the client process
  clock,  \* the time of day
  since,  \* svd[0].start, which update_status() stores
  hist    \* history: invocations to come, whether one of them began with bytes
          \* in the fifo (overlap) or with a process that k left (uncollected); pid
          \* and start of the process the last one found, and whether it has ended

svars == <<sv, clock, since, hist>>

\* The switch of main(): bytes to send, kill on time-out, wait for the effect.
Do(acts, check, kll) == [tool |-> "sv", acts |-> acts, check |-> check, kll |-> kll]
Action ==
  [up |-> Do(<<"u">>, FALSE, FALSE), down |-> Do(<<"d">>, FALSE, FALSE),
   once |-> Do(<<"o">>, TRUE, FALSE), pause |-> Do(<<"p">>, TRUE, FALSE),
   cont |-> Do(<<"c">>, TRUE, FALSE), exit |-> Do(<<"x">>, FALSE, FALSE),
   start |-> Do(<<"u">>, TRUE, FALSE), stop |-> Do(<<"d">>, TRUE, FALSE),
   shutdown |-> Do(<<"x">>, TRUE, FALSE), restart |-> Do(<<"t", "c", "u">>, TRUE, FALSE),
   tryrestart |-> Do(<<"t", "c">>, TRUE, FALSE), forcestop |-> Do(<<"d">>, TRUE, TRUE),
   forcerestart |-> Do(<<"t", "c", "u">>, TRUE, TRUE), forceshutdown |-> Do(<<"x">>, TRUE, TRUE),
   check |-> Do(<<"C">>, TRUE, FALSE),
   waitup |-> [Do(<<>>, FALSE, FALSE) EXCEPT !.tool = "waitup"],
   waitdown |-> [Do(<<"d">>, TRUE, FALSE) EXCEPT !.tool = "waitdown"],
   waitdownx |-> [Do(<<"d", "x">>, TRUE, TRUE) EXCEPT !.tool = "waitdown"]]

ASSUME ActionsAssumption == Actions \subseteq Seq(DOMAIN Action)

Idle == [pc |-> "idle", cmd |-> Do(<<>>, FALSE, FALSE), st |-> Summary(Initial("up")), when |-> 0,
         tstart |-> 0, rc |-> 0, result |-> "none"]

Invoke ==
  /\ pc # "boot" /\ sv.pc \in {"idle", "done"} /\ hist.todo # <<>>
  /\ LET cmd == Action[Head(hist.todo)]
     IN  sv' = [Idle EXCEPT !.cmd = cmd, !.tstart = clock,
                  !.pc = CASE cmd.tool # "sv" -> cmd.tool
                           [] cmd.tool = "sv" /\ cmd.acts[1] = "C" -> "check"
                           [] OTHER -> "get"]
  /\ hist' = [todo |-> Tail(hist.todo), pid |-> svd[0].pid, since |-> since,
              ended |-> svd[0].pid \notin live, overlap |-> hist.overlap \/ fifo[0] # <<>>,
              uncollected |-> hist.uncollected \/ (svd[0].state = "down" /\ svd[0].pid # NoPid)]
  /\ UNCHANGED <<vars, clock, since>>

\* The process ends; rc counts what went wrong.
Done(result, wrong) == sv' = [sv EXCEPT !.pc = "done", !.st = Idle.st, !.when = 0, !.result = result, !.rc = @ + wrong]
Send(bytes) ==
  /\ fifo' = [fifo EXCEPT ![0] = @ \o bytes]
  /\ UNCHANGED <<svd, haslog, logpipe, pc, sigterm, selfpipe, sup, pending, kernel>>

\* svstatus_get(): supervise/ok has no reader, or the status is read into st. That
\* a file cannot be read is Unreadable, below.
NoRunsv == Done(IF sv.cmd.acts[1] = "x" THEN "ok" ELSE "norunsv", IF sv.cmd.acts[1] = "x" THEN 0 ELSE 1)
NoStatus == ~Running /\ NoRunsv
Got == [sv EXCEPT !.st = sup.status[0], !.when = since]

Local == UNCHANGED <<vars, clock, since, hist>>

\* control(): nothing is sent if the status shows that wish already.
ControlGet ==
  /\ sv.pc = "get"
  /\ NoStatus \/ (Running /\ sv' = [Got EXCEPT !.pc = "act"])
  /\ Local
\* Mutation: a d is held back also if it came from a once.
Skips_Once(c) == sv.st.want = c
Skips(c) == sv.st.want = c /\ (c # "d" \/ sv.st.term)

\* Mutation: nothing is sent if the service is in the wanted state.
ControlAct_Reached ==
  /\ sv.pc = "act"
  /\ LET next == IF sv.cmd.check THEN sv' = [sv EXCEPT !.pc = "check"] ELSE Done("sent", 0)
     IN  IF <<sv.cmd.acts[1], sv.st.state>> \in {<<"u", "run">>, <<"d", "down">>} THEN next /\ UNCHANGED vars
         ELSE IF ~Running THEN NoRunsv /\ UNCHANGED vars
         ELSE next /\ Send(sv.cmd.acts)
  /\ UNCHANGED <<clock, since, hist>>

ControlAct ==
  /\ sv.pc = "act"
  /\ LET next == IF sv.cmd.check THEN sv' = [sv EXCEPT !.pc = "check"] ELSE Done("sent", 0)
     IN  IF Skips(sv.cmd.acts[1]) THEN next /\ UNCHANGED vars
         ELSE IF ~Running THEN NoRunsv /\ UNCHANGED vars
         ELSE next /\ Send(sv.cmd.acts)
  /\ UNCHANGED <<clock, since, hist>>

\* Mutation: any running process is taken for the restarted one.
Reached_AnyStart(c, st, when, script) ==
  LET up == st.pid # NoPid
  IN  CASE c = "x" -> FALSE
        [] c = "u" -> up /\ st.state = "run" /\ script
        [] c = "d" -> ~up /\ st.state = "down"
        [] c = "C" -> up => script
        [] c = "t" -> (~up /\ st.want = "d") \/ (up /\ ~st.term /\ script)
        [] c = "o" -> IF up THEN st.want = "d" ELSE sv.tstart <= when
        [] c = "p" -> up => st.paused
        [] c = "c" -> up => ~st.paused

\* check() with the status st, start time when; script is what ./check exits with,
\* and TRUE if there is none.
Reached(c, st, when, script) ==
  LET up == st.pid # NoPid
  IN  CASE c = "x" -> FALSE
        [] c = "u" -> up /\ st.state = "run" /\ script
        [] c = "d" -> ~up /\ st.state = "down"
        [] c = "C" -> up => script
        [] c = "t" -> (~up /\ st.want = "d") \/ (sv.tstart <= when /\ up /\ ~st.term /\ script)
        [] c = "o" -> IF up THEN st.want = "d" ELSE sv.tstart <= when
        [] c = "p" -> up => st.paused
        [] c = "c" -> up => ~st.paused

\* Mutation: the time is not looked at.
Late_Never(now) == FALSE

\* One round of the wait loop: the time, the status, the verdict. The first round
\* is judged by the time sv was started.
Late(now) == now - sv.tstart > wait \/ now = MaxClock
check ==
  /\ sv.pc \in {"check", "again"}
  /\ \/ NoStatus
     \/ /\ Running
        /\ \E script \in BOOLEAN :
             IF \A i \in DOMAIN sv.cmd.acts : Reached(sv.cmd.acts[i], sup.status[0], since, script)
             THEN Done("ok", 0)
             ELSE sv' = [sv EXCEPT !.pc = IF Late(IF sv.pc = "again" THEN clock ELSE sv.tstart)
                                          THEN "late" ELSE "again"]
  /\ Local

\* The time-out: the status once more, and control("k").
TimedOut ==
  /\ sv.pc = "late"
  /\ LET seen == IF Running \/ sv.cmd.acts[1] # "x" THEN 1 ELSE 0
     IN  IF sv.cmd.kll THEN sv' = [sv EXCEPT !.pc = "kget", !.rc = @ + seen] ELSE Done("timeout", seen)
  /\ Local
KillGet ==
  /\ sv.pc = "kget"
  /\ NoStatus \/ (Running /\ sv' = [sv EXCEPT !.pc = "kill"])
  /\ Local
KillSend ==
  /\ sv.pc = "kill"
  /\ IF Running THEN Done("killed", 0) /\ Send(<<"k">>) ELSE Done("norunsv", 1) /\ UNCHANGED vars
  /\ UNCHANGED <<clock, since, hist>>

-----------------------------------------------------------------------------
(* svwaitdown [-x -k] and svwaitup *)

\* A failure to send is "bummer": the loop will find out.
WaitDownSend ==
  /\ sv.pc = "waitdown"
  /\ sv' = [sv EXCEPT !.pc = "poll", !.tstart = clock]
  /\ IF Running THEN Send(sv.cmd.acts) ELSE UNCHANGED vars
  /\ UNCHANGED <<clock, since, hist>>
WaitDownPoll ==
  /\ sv.pc = "poll"
  /\ \/ ~Running /\ Done("ok", 0)
     \/ Running /\ sv' = [sv EXCEPT !.st = sup.status[0], !.pc = "judge"]
  /\ Local
WaitDownJudge ==
  /\ sv.pc = "judge"
  /\ LET next == IF clock - sv.tstart >= sec \/ clock = MaxClock THEN "limit" ELSE "sleep"
     IN  IF Len(sv.cmd.acts) = 1 /\ sv.st.pid = NoPid THEN Done("ok", 0) /\ UNCHANGED vars
         ELSE IF sv.st.want = "d" THEN sv' = [sv EXCEPT !.pc = next, !.when = clock + 1] /\ UNCHANGED vars
         ELSE IF ~Running THEN Done("nocontrol", 1) /\ UNCHANGED vars
         ELSE sv' = [sv EXCEPT !.pc = next, !.when = clock + 1] /\ Send(sv.cmd.acts)
  /\ UNCHANGED <<clock, since, hist>>
WaitDownSleep ==
  /\ sv.pc = "sleep" /\ (clock >= sv.when \/ clock = MaxClock)
  /\ sv' = [sv EXCEPT !.pc = "poll"]
  /\ Local
\* -k first changes to the service directory again, which fails for a relative name.
WaitDownLimit ==
  /\ sv.pc = "limit"
  /\ \/ ~sv.cmd.kll /\ Done("timeout", 111) /\ UNCHANGED vars
     \/ sv.cmd.kll /\ Done("nodir", 1) /\ UNCHANGED vars
     \/ sv.cmd.kll /\ ~Running /\ Done("ok", 0) /\ UNCHANGED vars
     \/ sv.cmd.kll /\ Running /\ Done("killed", 111) /\ Send(<<"k">>)
  /\ UNCHANGED <<clock, since, hist>>

WaitUp ==
  /\ sv.pc = "waitup"
  /\ IF ~Running \/ sup.status[0].pid = NoPid THEN Done("down", 1)
     ELSE IF clock - since >= sec \/ clock = MaxClock THEN Done("ok", 0)
     ELSE sv' = [sv EXCEPT !.pc = "napping", !.when = since + sec]
  /\ Local
WaitUpNap ==
  /\ sv.pc = "napping" /\ (clock >= sv.when \/ clock = MaxClock)
  /\ sv' = [sv EXCEPT !.pc = "waitup"]
  /\ Local

\* supervise/ok or the status file cannot be opened or read.
Unreadable ==
  /\ sv.pc \in {"get", "check", "again", "kget", "poll", "waitup"}
  /\ Done("unreadable", 1)
  /\ Local

SvStep ==
  \/ ControlGet \/ ControlAct \/ check \/ TimedOut \/ KillGet \/ KillSend
  \/ WaitDownSend \/ WaitDownPoll \/ WaitDownJudge \/ WaitDownSleep \/ WaitDownLimit \/ WaitUp \/ WaitUpNap

-----------------------------------------------------------------------------
(* runsv, its children, the clock *)

Supervisor ==
  /\ \/ RunsvStep \/ Timeout
     \/ \E sig \in {"CHLD", "TERM"} : Deliver(sig)
     \/ \E p \in Pid : ChildExit(p)
  /\ ~haslog'
  /\ since' = IF pc = "boot" \/ (svd'[0].pid # svd[0].pid /\ svd'[0].state # "finish") THEN clock ELSE since
  /\ hist' = [hist EXCEPT !.ended = @ \/ hist.pid \notin live']
  /\ UNCHANGED <<sv, clock>>

Tick == clock < MaxClock /\ clock' = clock + 1 /\ UNCHANGED <<vars, sv, since, hist>>

SvInit ==
  /\ Init /\ sup.pid[0] = NoPid
  /\ sv = Idle /\ clock = 0 /\ since = 0
  /\ \E todo \in Actions :
       hist = [todo |-> todo, pid |-> NoPid, since |-> 0, ended |-> TRUE, overlap |-> FALSE,
               uncollected |-> FALSE]

SvNext == Invoke \/ SvStep \/ Unreadable \/ Supervisor \/ Tick

SvSpec == SvInit /\ [][SvNext]_<<vars, svars>>

\* The client is scheduled, and time passes; nothing is asked of runsv, and no file
\* has to become unreadable.
SvFairSpec == SvSpec /\ WF_<<vars, svars>>(SvStep) /\ WF_<<vars, svars>>(Tick)

-----------------------------------------------------------------------------
(* Properties *)

\* When sv decides from the status file not to send u or d (sv.c:253), runsv has
\* that wish already, unless a byte of an earlier command was still in the fifo;
\* and a d that is held back has led to a SIGTERM or was not needed.
SkipsOnlyDone ==
  sv.pc = "act" /\ Running /\ ~hist.overlap /\ Skips(sv.cmd.acts[1]) =>
    /\ (svd[0].want = "up") = (sv.cmd.acts[1] = "u")
    /\ sv.cmd.acts[1] = "d" /\ svd[0].state = "run" =>
         svd[0].pid \in termed \cup zombie \/ "TERM" \in svd[0].ctrl

Restarts == \E i \in DOMAIN sv.cmd.acts : sv.cmd.acts[i] = "t"

\* A restart is reported only after the process was replaced, if that was started
\* in an earlier second than sv and no earlier command is in the way (sv.c:235): no
\* byte in the fifo, and no process that k made runsv take for down.
RestartReplaces ==
  sv.result = "ok" /\ Restarts /\ ~hist.overlap /\ ~hist.uncollected /\ hist.since < sv.tstart =>
    hist.ended

Took(c) == sv.result = "ok" /\ sv.cmd.acts = <<c>> /\ ~hist.overlap /\ Running
Sent(c) == fifo[0] # <<>> /\ fifo[0][Len(fifo[0])] = c

\* A start or stop that is reported as done is not undone: runsv has the wish, or
\* will read it, if no earlier command was in the fifo (control() and check() on a
\* status that may be older than the command, against ctrl() of runsv).
ReportHolds ==
  /\ Took("u") => svd[0].want = "up" \/ Sent("u")
  /\ Took("d") => svd[0].want # "up" \/ Sent("d")

\* sv and svwaitdown come to an end whatever runsv and the service do.
ClientEnds == sv.pc \notin {"idle", "done", "waitup", "napping"} ~> sv.pc = "done"
=============================================================================
