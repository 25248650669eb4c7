-------------------------- MODULE SvControlProofs --------------------------
(***************************************************************************)
(* Proofs about the clients of runsv in SvControl, for every set of pids,  *)
(* every sequence of invocations, any waiting times, with and without      *)
(* control scripts, if files can be written.                               *)
(***************************************************************************)
EXTENDS SvControl, RunsvProofs, SequenceTheorems

-----------------------------------------------------------------------------
(* Types *)

\* What main() of sv.c, svwaitup.c and svwaitdown.c may be asked for: no byte k,
\* and a restart begins with t.
Plain == AllCommands \ {"k"}
CmdOK(cmd) ==
  /\ cmd.tool \in {"sv", "waitup", "waitdown"}
  /\ cmd.acts \in Seq(Plain) \/ cmd.acts = <<"C">>
  /\ cmd.tool # "sv" => cmd.acts \in Seq(Plain)
  /\ cmd.tool = "waitup" => cmd.acts = <<>>
  /\ (\E i \in DOMAIN cmd.acts : cmd.acts[i] = "t") => cmd.tool = "sv" /\ cmd.acts[1] # "x"

LEMMA ActionOK == \A a \in DOMAIN Action : CmdOK(Action[a])
<1>. DEFINE Ok(acts) == /\ acts \in Seq(Plain) \/ acts = <<"C">>
                        /\ (\E i \in DOMAIN acts : acts[i] = "t") => acts[1] # "x"
<1>1. \A c \in Plain : Ok(<<c>>)
  BY DEF Plain
<1>2. Ok(<<"t", "c">>) /\ Ok(<<"t", "c", "u">>) /\ Ok(<<"C">>)
  BY DEF Plain, AllCommands
<1>3. /\ <<>> \in Seq(Plain) /\ <<"d">> \in Seq(Plain) /\ <<"d", "x">> \in Seq(Plain)
      /\ \A acts \in {<<>>, <<"d">>, <<"d", "x">>} : \A i \in DOMAIN acts : acts[i] # "t"
  BY DEF Plain, AllCommands
<1>4. ASSUME NEW acts, Ok(acts), NEW b, NEW k PROVE CmdOK(Do(acts, b, k))
  BY <1>4 DEF CmdOK, Do
<1>5. ASSUME NEW acts \in {<<>>, <<"d">>, <<"d", "x">>}, NEW b, NEW k, NEW tool \in {"waitup", "waitdown"},
             tool = "waitup" => acts = <<>>
      PROVE  CmdOK([Do(acts, b, k) EXCEPT !.tool = tool])
  BY <1>3, <1>5 DEF CmdOK, Do
<1>6. {"d", "u", "x", "p", "c", "o"} \subseteq Plain
  BY DEF Plain, AllCommands
<1>. HIDE DEF Ok
<1>7. /\ CmdOK(Action.up) /\ CmdOK(Action.down) /\ CmdOK(Action.once) /\ CmdOK(Action.pause)
      /\ CmdOK(Action.cont) /\ CmdOK(Action.exit)
  BY <1>1, <1>4, <1>6 DEF Action
<1>8. /\ CmdOK(Action.start) /\ CmdOK(Action.stop) /\ CmdOK(Action.shutdown)
      /\ CmdOK(Action.forcestop) /\ CmdOK(Action.forceshutdown)
  BY <1>1, <1>4, <1>6 DEF Action
<1>9. /\ CmdOK(Action.restart) /\ CmdOK(Action.tryrestart) /\ CmdOK(Action.forcerestart)
      /\ CmdOK(Action.check)
  BY <1>2, <1>4 DEF Action
<1>10. CmdOK(Action.waitup) /\ CmdOK(Action.waitdown) /\ CmdOK(Action.waitdownx)
  BY <1>5 DEF Action
<1>11. DOMAIN Action = {"up", "down", "once", "pause", "cont", "exit", "start", "stop", "shutdown",
                        "restart", "tryrestart", "forcestop", "forcerestart", "forceshutdown",
                        "check", "waitup", "waitdown", "waitdownx"}
  BY DEF Action
<1>. QED
  BY <1>7, <1>8, <1>9, <1>10, <1>11

Cmd == {Action[a] : a \in DOMAIN Action} \cup {Do(<<>>, FALSE, FALSE)}

LEMMA CmdsOK == \A cmd \in Cmd : CmdOK(cmd)
<1>1. CmdOK(Do(<<>>, FALSE, FALSE))
  BY DEF CmdOK, Do
<1>. QED
  BY <1>1, ActionOK DEF Cmd

Client ==
  [pc : {"idle", "get", "act", "check", "again", "late", "kget", "kill", "waitdown", "poll", "judge",
         "sleep", "limit", "waitup", "napping", "done"},
   cmd : Cmd, st : Status, when : Nat, tstart : Nat, rc : Nat,
   result : {"none", "sent", "ok", "norunsv", "timeout", "killed", "nocontrol", "nodir", "down",
             "unreadable"}]

History ==
  [todo : Seq(DOMAIN Action), pid : PidOrNone, since : Nat, ended : BOOLEAN, overlap : BOOLEAN,
   uncollected : BOOLEAN]

\* Inductive: the types of the client, and which tool is at which place; bytes are
\* sent by a place that is not reached with a C, the check without a command.
SvTypeOK ==
  /\ TypeOK
  /\ sv \in Client
  /\ clock \in Nat /\ since \in Nat
  /\ hist \in History
  /\ sv.pc \in {"get", "act"} => sv.cmd.acts \in Seq(Plain)
  /\ sv.pc \in {"get", "act", "check", "again", "late", "kget", "kill"} => sv.cmd.tool = "sv"
  /\ sv.pc \in {"waitdown", "poll", "judge", "sleep", "limit"} => sv.cmd.tool = "waitdown"
  /\ sv.pc \in {"waitup", "napping"} => sv.cmd.tool = "waitup"

\* The steps that are not runsv's leave it alone, except for its fifo.
Apart == UNCHANGED <<svd, haslog, logpipe, pc, sigterm, selfpipe, sup, pending, kernel>>
Bytes == {sv.cmd.acts, <<"k">>}

LEMMA ClientApart ==
  ASSUME Invoke \/ SvStep \/ Unreadable \/ Tick
  PROVE  /\ Apart /\ UNCHANGED since
         /\ fifo' = fifo \/ \E b \in Bytes : fifo' = [fifo EXCEPT ![0] = @ \o b]
<1>1. ASSUME UNCHANGED vars PROVE Apart /\ fifo' = fifo
  BY <1>1 DEF vars, Apart
<1>2. ASSUME NEW b, Send(b) PROVE Apart /\ fifo' = [fifo EXCEPT ![0] = @ \o b]
  BY <1>2 DEF Send, Apart
<1>3. CASE Invoke \/ Tick
  BY <1>1, <1>3 DEF Invoke, Tick
<1>4. CASE ControlGet \/ check \/ TimedOut \/ KillGet \/ WaitDownPoll \/ WaitDownSleep \/ WaitUp
           \/ WaitUpNap \/ Unreadable
  BY <1>1, <1>4 DEF ControlGet, check, TimedOut, KillGet, WaitDownPoll, WaitDownSleep, WaitUp,
                    WaitUpNap, Unreadable, Local
<1>5. CASE ControlAct \/ WaitDownSend
  BY <1>1, <1>2, <1>5 DEF ControlAct, WaitDownSend, Bytes
<1>6. CASE KillSend \/ WaitDownLimit
  BY <1>1, <1>2, <1>6 DEF KillSend, WaitDownLimit, Bytes
<1>7. CASE WaitDownJudge
  BY <1>1, <1>2, <1>7 DEF WaitDownJudge, Bytes
<1>. QED
  BY <1>3, <1>4, <1>5, <1>6, <1>7 DEF SvStep

\* The end of a client.
LEMMA DoneFields ==
  ASSUME sv \in Client, NEW result, NEW wrong, Done(result, wrong)
  PROVE  /\ sv'.pc = "done" /\ sv'.result = result
         /\ sv'.cmd = sv.cmd /\ sv'.tstart = sv.tstart
         /\ wrong \in Nat /\ result \in {"sent", "ok", "norunsv", "timeout", "killed", "nocontrol",
                                         "nodir", "down", "unreadable"} => sv' \in Client
<1>1. Idle.st \in Status
  BY DEF Idle, Status, Summary, Initial, PidOrNone
<1>2. sv' = [sv EXCEPT !.pc = "done", !.st = Idle.st, !.when = 0, !.result = result, !.rc = sv.rc + wrong]
  BY DEF Done, Client
<1>3. sv'.pc = "done" /\ sv'.result = result /\ sv'.cmd = sv.cmd /\ sv'.tstart = sv.tstart
  BY <1>2 DEF Client
<1>4. wrong \in Nat => sv.rc + wrong \in Nat
  BY DEF Client
<1>. QED
  BY <1>1, <1>2, <1>3, <1>4 DEF Client

LEMMA NoRunsvFields ==
  ASSUME sv \in Client, NoRunsv
  PROVE  /\ sv' \in Client /\ sv'.pc = "done" /\ sv'.cmd = sv.cmd /\ sv'.tstart = sv.tstart
         /\ sv'.result = IF sv.cmd.acts[1] = "x" THEN "ok" ELSE "norunsv"
BY DoneFields DEF NoRunsv

LEMMA ClientType ==
  ASSUME SvTypeOK, Invoke \/ SvStep \/ Unreadable \/ Tick
  PROVE  SvTypeOK'
<1>0. sv \in Client /\ CmdOK(sv.cmd) /\ sup.status[0] \in Status /\ since \in Nat /\ clock \in Nat
  BY CmdsOK DEF SvTypeOK, Client, TypeOK, Supervise, Svc
<1>f. ASSUME fifo' = fifo \/ \E b \in Seq(AllCommands) : fifo' = [fifo EXCEPT ![0] = @ \o b]
      PROVE  TypeOK'
  <2>1. Apart
    BY ClientApart
  <2>2. fifo' \in [Svc -> Seq(AllCommands)]
    <3>1. fifo \in [Svc -> Seq(AllCommands)] /\ 0 \in Svc
      BY DEF SvTypeOK, TypeOK, Svc
    <3>2. \A b \in Seq(AllCommands) : fifo[0] \o b \in Seq(AllCommands)
      BY <3>1
    <3>. QED
      BY <1>f, <3>1, <3>2
  <2>3. live' = live
    BY <2>1 DEF Apart, kernel, live
  <2>. QED
    BY <2>1, <2>2, <2>3 DEF SvTypeOK, TypeOK, Apart, kernel
<1>b. /\ \A b : b \in Seq(Plain) => b \in Seq(AllCommands)
      /\ <<"k">> \in Seq(AllCommands)
  BY DEF Plain, AllCommands
<1>1. CASE Invoke
  <2>. DEFINE cmd == Action[Head(hist.todo)]
  <2>1. hist.todo # <<>> /\ Head(hist.todo) \in DOMAIN Action
    BY <1>1 DEF Invoke, SvTypeOK, History
  <2>2. cmd \in Cmd /\ CmdOK(cmd)
    BY <2>1, ActionOK DEF Cmd
  <2>i. Idle \in Client
    BY DEF Client, Cmd, Idle, Status, Summary, Initial, PidOrNone
  <2>3. sv' = [Idle EXCEPT !.cmd = cmd, !.tstart = clock,
                 !.pc = CASE cmd.tool # "sv" -> cmd.tool
                          [] cmd.tool = "sv" /\ cmd.acts[1] = "C" -> "check"
                          [] OTHER -> "get"]
    BY <1>1 DEF Invoke
  <2>4. hist' \in History
    <3>. DEFINE D == DOMAIN Action
                ended == svd[0].pid \notin live
                overlap == hist.overlap \/ fifo[0] # <<>>
                uncollected == hist.uncollected \/ (svd[0].state = "down" /\ svd[0].pid # NoPid)
    <3>1. hist' = [todo |-> Tail(hist.todo), pid |-> svd[0].pid, since |-> since, ended |-> ended,
                   overlap |-> overlap, uncollected |-> uncollected]
      BY <1>1, Zenon DEF Invoke
    <3>2. hist.todo \in Seq(D) /\ hist.todo # <<>> /\ svd[0].pid \in PidOrNone
      BY <2>1 DEF SvTypeOK, History, TypeOK, Svdir, Svc
    <3>. HIDE DEF D
    <3>3. Tail(hist.todo) \in Seq(D)
      BY <3>2
    <3>4. ended \in BOOLEAN /\ overlap \in BOOLEAN /\ uncollected \in BOOLEAN
      BY <1>0, Zenon
    <3>. HIDE DEF ended, overlap, uncollected
    <3>. QED
      BY <1>0, <3>1, <3>2, <3>3, <3>4 DEF D, History
  <2>5. TypeOK' /\ UNCHANGED <<clock, since>>
    BY <1>1, <1>f DEF Invoke, vars
  <2>. HIDE DEF cmd
  <2>6. PICK place : /\ place = CASE cmd.tool # "sv" -> cmd.tool
                                   [] cmd.tool = "sv" /\ cmd.acts[1] = "C" -> "check"
                                   [] OTHER -> "get"
                     /\ sv' = [Idle EXCEPT !.cmd = cmd, !.tstart = clock, !.pc = place]
    BY <2>3
  <2>7. \/ place = "get" /\ cmd.acts \in Seq(Plain) /\ cmd.tool = "sv"
        \/ place = "check" /\ cmd.tool = "sv"
        \/ place \in {"waitup", "waitdown"} /\ cmd.tool = place
    BY <2>2, <2>6 DEF CmdOK
  <2>8. sv' \in Client /\ sv'.cmd = cmd /\ sv'.pc = place
    BY <1>0, <2>2, <2>i, <2>6, <2>7 DEF Client
  <2>. QED
    BY <1>0, <2>4, <2>5, <2>7, <2>8 DEF SvTypeOK
<1>2. CASE Tick
  BY <1>2, <1>f DEF Tick, SvTypeOK, vars
<1>3. ASSUME UNCHANGED <<clock, since, hist>>, sv' \in Client, sv'.cmd = sv.cmd, TypeOK',
             \/ sv'.pc = "done"
             \/ sv'.pc = "act" /\ sv.pc = "get"
             \/ sv'.pc \in {"check", "again", "late", "kget", "kill"} /\ sv.cmd.tool = "sv"
             \/ sv'.pc \in {"waitdown", "poll", "judge", "sleep", "limit"} /\ sv.cmd.tool = "waitdown"
             \/ sv'.pc \in {"waitup", "napping"} /\ sv.cmd.tool = "waitup"
      PROVE  SvTypeOK'
  BY <1>3 DEF SvTypeOK
<1>4. ASSUME UNCHANGED <<clock, since, hist>>, TypeOK', NEW r, NEW w \in Nat,
             r \in {"sent", "ok", "norunsv", "timeout", "killed", "nocontrol", "nodir", "down",
                    "unreadable"}, Done(r, w)
      PROVE  SvTypeOK'
  BY <1>0, <1>3, <1>4, DoneFields
<1>5. ASSUME UNCHANGED <<clock, since, hist>>, TypeOK', NoRunsv PROVE SvTypeOK'
  BY <1>0, <1>3, <1>5, NoRunsvFields
<1>6. CASE ControlGet
  <2>1. TypeOK' /\ UNCHANGED <<clock, since, hist>> /\ sv.cmd.tool = "sv" /\ sv.pc = "get"
    BY <1>6, <1>f DEF ControlGet, Local, vars, SvTypeOK
  <2>2. CASE NoRunsv
    BY <1>5, <2>1, <2>2
  <2>3. CASE sv' = [Got EXCEPT !.pc = "act"]
    <3>1. sv' \in Client /\ sv'.cmd = sv.cmd /\ sv'.pc = "act"
      BY <1>0, <2>3 DEF Got, Client
    <3>. QED
      BY <1>3, <2>1, <3>1
  <2>. QED
    BY <1>6, <2>2, <2>3 DEF ControlGet, NoStatus
<1>7. CASE ControlAct
  <2>1. /\ UNCHANGED <<clock, since, hist>> /\ sv.cmd.tool = "sv" /\ sv.cmd.acts \in Seq(Plain)
        /\ UNCHANGED vars \/ Send(sv.cmd.acts)
        /\ NoRunsv \/ sv' = [sv EXCEPT !.pc = "check"] \/ Done("sent", 0)
    BY <1>7 DEF ControlAct, SvTypeOK
  <2>2. TypeOK'
    BY <1>b, <1>f, <2>1 DEF Send, vars
  <2>3. CASE sv' = [sv EXCEPT !.pc = "check"]
    <3>1. sv' \in Client /\ sv'.cmd = sv.cmd /\ sv'.pc = "check"
      BY <1>0, <2>3 DEF Client
    <3>. QED
      BY <1>3, <2>1, <2>2, <3>1
  <2>. QED
    BY <1>4, <1>5, <2>1, <2>2, <2>3
<1>8. CASE check
  <2>1. TypeOK' /\ UNCHANGED <<clock, since, hist>> /\ sv.cmd.tool = "sv"
    BY <1>8, <1>f DEF check, Local, vars, SvTypeOK
  <2>2. NoRunsv \/ Done("ok", 0) \/ \E p \in {"late", "again"} : sv' = [sv EXCEPT !.pc = p]
    BY <1>8 DEF check, NoStatus
  <2>3. ASSUME NEW p \in {"late", "again"}, sv' = [sv EXCEPT !.pc = p] PROVE SvTypeOK'
    <3>1. sv' \in Client /\ sv'.cmd = sv.cmd /\ sv'.pc = p
      BY <1>0, <2>3 DEF Client
    <3>. QED
      BY <1>3, <2>1, <3>1
  <2>. QED
    BY <1>4, <1>5, <2>1, <2>2, <2>3
<1>9. CASE TimedOut
  <2>1. TypeOK' /\ UNCHANGED <<clock, since, hist>> /\ sv.cmd.tool = "sv"
    BY <1>9, <1>f DEF TimedOut, Local, vars, SvTypeOK
  <2>2. \E n \in {0, 1} : Done("timeout", n) \/ sv' = [sv EXCEPT !.pc = "kget", !.rc = @ + n]
    BY <1>9 DEF TimedOut
  <2>3. ASSUME NEW n \in {0, 1}, sv' = [sv EXCEPT !.pc = "kget", !.rc = @ + n] PROVE SvTypeOK'
    <3>1. sv.rc + n \in Nat
      BY <1>0 DEF Client
    <3>2. sv' \in Client /\ sv'.cmd = sv.cmd /\ sv'.pc = "kget"
      BY <1>0, <2>3, <3>1 DEF Client
    <3>. QED
      BY <1>3, <2>1, <3>2
  <2>. QED
    BY <1>4, <2>1, <2>2, <2>3
<1>10. CASE KillGet
  <2>1. TypeOK' /\ UNCHANGED <<clock, since, hist>> /\ sv.cmd.tool = "sv"
    BY <1>10, <1>f DEF KillGet, Local, vars, SvTypeOK
  <2>2. NoRunsv \/ sv' = [sv EXCEPT !.pc = "kill"]
    BY <1>10 DEF KillGet, NoStatus
  <2>3. CASE sv' = [sv EXCEPT !.pc = "kill"]
    <3>1. sv' \in Client /\ sv'.cmd = sv.cmd /\ sv'.pc = "kill"
      BY <1>0, <2>3 DEF Client
    <3>. QED
      BY <1>3, <2>1, <3>1
  <2>. QED
    BY <1>5, <2>1, <2>2, <2>3
<1>11. CASE KillSend
  <2>1. /\ UNCHANGED <<clock, since, hist>>
        /\ UNCHANGED vars \/ Send(<<"k">>)
        /\ Done("killed", 0) \/ Done("norunsv", 1)
    BY <1>11 DEF KillSend
  <2>2. TypeOK'
    BY <1>b, <1>f, <2>1 DEF Send, vars
  <2>. QED
    BY <1>4, <2>1, <2>2
<1>12. CASE WaitDownSend
  <2>1. /\ UNCHANGED <<clock, since, hist>> /\ sv.cmd.tool = "waitdown"
        /\ UNCHANGED vars \/ Send(sv.cmd.acts)
        /\ sv' = [sv EXCEPT !.pc = "poll", !.tstart = clock]
    BY <1>12 DEF WaitDownSend, SvTypeOK
  <2>2. TypeOK'
    BY <1>0, <1>b, <1>f, <2>1 DEF Send, vars, CmdOK
  <2>3. sv' \in Client /\ sv'.cmd = sv.cmd /\ sv'.pc = "poll"
    BY <1>0, <2>1 DEF Client
  <2>. QED
    BY <1>3, <2>1, <2>2, <2>3
<1>13. CASE WaitDownPoll
  <2>1. TypeOK' /\ UNCHANGED <<clock, since, hist>> /\ sv.cmd.tool = "waitdown"
    BY <1>13, <1>f DEF WaitDownPoll, Local, vars, SvTypeOK
  <2>2. Done("ok", 0) \/ sv' = [sv EXCEPT !.st = sup.status[0], !.pc = "judge"]
    BY <1>13 DEF WaitDownPoll
  <2>3. CASE sv' = [sv EXCEPT !.st = sup.status[0], !.pc = "judge"]
    <3>1. sv' \in Client /\ sv'.cmd = sv.cmd /\ sv'.pc = "judge"
      BY <1>0, <2>3 DEF Client
    <3>. QED
      BY <1>3, <2>1, <3>1
  <2>. QED
    BY <1>4, <2>1, <2>2, <2>3
<1>14. CASE WaitDownJudge
  <2>1. /\ UNCHANGED <<clock, since, hist>> /\ sv.cmd.tool = "waitdown"
        /\ UNCHANGED vars \/ Send(sv.cmd.acts)
        /\ \/ Done("ok", 0) \/ Done("nocontrol", 1)
           \/ \E p \in {"limit", "sleep"} : sv' = [sv EXCEPT !.pc = p, !.when = clock + 1]
    BY <1>14 DEF WaitDownJudge, SvTypeOK
  <2>2. TypeOK'
    BY <1>0, <1>b, <1>f, <2>1 DEF Send, vars, CmdOK
  <2>3. ASSUME NEW p \in {"limit", "sleep"}, sv' = [sv EXCEPT !.pc = p, !.when = clock + 1]
        PROVE  SvTypeOK'
    <3>1. clock + 1 \in Nat
      BY <1>0
    <3>2. sv' \in Client /\ sv'.cmd = sv.cmd /\ sv'.pc = p
      BY <1>0, <2>3, <3>1 DEF Client
    <3>. QED
      BY <1>3, <2>1, <2>2, <3>2
  <2>. QED
    BY <1>4, <2>1, <2>2, <2>3
<1>15. CASE WaitDownSleep
  <2>1. TypeOK' /\ UNCHANGED <<clock, since, hist>> /\ sv.cmd.tool = "waitdown"
    BY <1>15, <1>f DEF WaitDownSleep, Local, vars, SvTypeOK
  <2>2. sv' \in Client /\ sv'.cmd = sv.cmd /\ sv'.pc = "poll"
    BY <1>0, <1>15 DEF WaitDownSleep, Client
  <2>. QED
    BY <1>3, <2>1, <2>2
<1>16. CASE WaitDownLimit
  <2>1. /\ UNCHANGED <<clock, since, hist>>
        /\ UNCHANGED vars \/ Send(<<"k">>)
        /\ Done("timeout", 111) \/ Done("nodir", 1) \/ Done("ok", 0) \/ Done("killed", 111)
    BY <1>16 DEF WaitDownLimit
  <2>2. TypeOK'
    BY <1>b, <1>f, <2>1 DEF Send, vars
  <2>. QED
    BY <1>4, <2>1, <2>2
<1>17. CASE WaitUp \/ WaitUpNap
  <2>1. TypeOK' /\ UNCHANGED <<clock, since, hist>> /\ sv.cmd.tool = "waitup"
    BY <1>17, <1>f DEF WaitUp, WaitUpNap, Local, vars, SvTypeOK
  <2>2. \/ Done("down", 1) \/ Done("ok", 0) \/ sv' = [sv EXCEPT !.pc = "waitup"]
        \/ sv' = [sv EXCEPT !.pc = "napping", !.when = since + sec]
    BY <1>17 DEF WaitUp, WaitUpNap
  <2>3. CASE sv' = [sv EXCEPT !.pc = "waitup"] \/ sv' = [sv EXCEPT !.pc = "napping", !.when = since + sec]
    <3>1. since + sec \in Nat
      BY <1>0, TimeAssumption
    <3>2. sv' \in Client /\ sv'.cmd = sv.cmd /\ sv'.pc \in {"waitup", "napping"}
      BY <1>0, <2>3, <3>1 DEF Client
    <3>. QED
      BY <1>3, <2>1, <3>2
  <2>. QED
    BY <1>4, <2>1, <2>2, <2>3
<1>18. CASE Unreadable
  <2>1. TypeOK' /\ UNCHANGED <<clock, since, hist>> /\ Done("unreadable", 1)
    BY <1>18, <1>f DEF Unreadable, Local, vars
  <2>. QED
    BY <1>4, <2>1
<1>. QED
  BY <1>1, <1>2, <1>6, <1>7, <1>8, <1>9, <1>10, <1>11, <1>12, <1>13, <1>14, <1>15, <1>16, <1>17,
     <1>18 DEF SvStep

\* runsv steps in the life of its clients.
LEMMA SupervisorIsRunsv ==
  ASSUME Supervisor
  PROVE  /\ Next /\ UNCHANGED <<sv, clock>> /\ since' \in {clock, since}
         /\ hist' = [hist EXCEPT !.ended = @ \/ hist.pid \notin live']
BY DEF Supervisor, Next

LEMMA SvTypeStep ==
  ASSUME SvTypeOK, [SvNext]_<<vars, svars>>
  PROVE  SvTypeOK'
<1>1. CASE Supervisor
  <2>1. TypeOK'
    BY <1>1, SupervisorIsRunsv, TypeStep DEF SvTypeOK
  <2>2. hist' \in History
    <3>. DEFINE ended == hist.ended \/ hist.pid \notin live'
    <3>1. hist' = [hist EXCEPT !.ended = ended]
      BY <1>1, SupervisorIsRunsv, Zenon
    <3>2. ended \in BOOLEAN
      BY Zenon
    <3>. HIDE DEF ended
    <3>. QED
      BY <3>1, <3>2 DEF History, SvTypeOK
  <2>. QED
    BY <1>1, <2>1, <2>2, SupervisorIsRunsv DEF SvTypeOK
<1>2. CASE UNCHANGED <<vars, svars>>
  BY <1>2 DEF vars, svars, kernel, SvTypeOK, TypeOK, live
<1>. QED
  BY <1>1, <1>2, ClientType DEF SvNext

-----------------------------------------------------------------------------
(* runsv as its clients see it *)

\* Nobody else sends runsv a signal, there is no log service, and the clients start
\* after it.
Solo ==
  /\ haslog = FALSE /\ sigterm = FALSE /\ "TERM" \notin pending
  /\ pc = "boot" => svd[0].pid = NoPid /\ fifo[0] = <<>> /\ sv.pc = "idle" /\ hist.ended

\* What is known of runsv whatever its clients do.
RunsvInv == SvTypeOK /\ OwnChildInv /\ LagInv /\ Solo

LEMMA SoloStep ==
  ASSUME SvTypeOK, Solo, [SvNext]_<<vars, svars>>
  PROVE  Solo'
<1>1. CASE Invoke \/ SvStep \/ Unreadable \/ Tick
  <2>1. Apart
    BY <1>1, ClientApart
  <2>2. pc # "boot" \/ Tick
    BY <1>1 DEF Invoke, SvStep, Unreadable, Solo, ControlGet, ControlAct, check, TimedOut, KillGet,
                KillSend, WaitDownSend, WaitDownPoll, WaitDownJudge, WaitDownSleep, WaitDownLimit,
                WaitUp, WaitUpNap
  <2>. QED
    BY <2>1, <2>2 DEF Solo, Apart, Tick, vars
<1>2. CASE Supervisor
  <2>1. haslog' \in BOOLEAN /\ ~haslog'
    BY <1>2, SvTypeStep DEF Supervisor, SvTypeOK, TypeOK, SvNext
  <2>2. haslog' = FALSE
    BY <2>1, Zenon
  <2>3. sigterm' = FALSE /\ "TERM" \notin pending'
    BY <1>2 DEF Supervisor, Solo, RunsvStep, BootFails, Boot, StartLog, Start, Wake, Timeout, Resume,
                Reap, ReapDone, Control, ControlLog, HandleTerm, Exit, CloseLog, Stay, Deliver, ChildExit
  <2>4. pc' = "boot" => pc = "boot" /\ UNCHANGED <<svd, fifo>>
    BY <1>2 DEF Supervisor, RunsvStep, BootFails, Boot, StartLog, Start, Wake, Timeout, Resume,
                Reap, ReapDone, Control, ControlLog, HandleTerm, Exit, CloseLog, Stay, Deliver, ChildExit
  <2>5. hist.ended => hist'.ended
    BY <1>2, SupervisorIsRunsv DEF SvTypeOK, History
  <2>6. UNCHANGED sv
    BY <1>2, SupervisorIsRunsv
  <2>. QED
    BY <2>2, <2>3, <2>4, <2>5, <2>6 DEF Solo
<1>3. CASE UNCHANGED <<vars, svars>>
  BY <1>3 DEF vars, svars, Solo
<1>. QED
  BY <1>1, <1>2, <1>3 DEF SvNext

LEMMA RunsvInvStep ==
  ASSUME RunsvInv, [SvNext]_<<vars, svars>>
  PROVE  RunsvInv'
<1>1. SvTypeOK' /\ Solo'
  BY SvTypeStep, SoloStep DEF RunsvInv
<1>2. CASE Next
  BY <1>1, <1>2, OwnChildStep, LagStep DEF RunsvInv, SvTypeOK
<1>3. CASE Apart \/ UNCHANGED <<vars, svars>>
  <2>1. Apart
    BY <1>3 DEF Apart, vars
  <2>2. OwnChildInv'
    BY <2>1 DEF Apart, kernel, RunsvInv, OwnChildInv, OwnChild, Running, live
  <2>3. LagInv'
    BY <2>1 DEF Apart, RunsvInv, LagInv, Lags, Running
  <2>. QED
    BY <1>1, <2>2, <2>3 DEF RunsvInv
<1>. QED
  BY <1>2, <1>3, SupervisorIsRunsv, ClientApart DEF SvNext

\* What a step of runsv may do to its service: nothing; start it, or ./finish;
\* collect its process; read a byte.
Unmoved ==
  /\ svd'[0] = svd[0] /\ fifo'[0] = fifo[0]
  /\ live' \subseteq live /\ live' \cup zombie' \subseteq live \cup zombie
Started ==
  /\ svd[0].pid = NoPid /\ (svd[0].want = "up" \/ svd[0].state = "finish")
  /\ Forks(0) /\ svd'[0].want = svd[0].want /\ fifo'[0] = fifo[0]
Collected ==
  /\ svd[0].pid \in zombie /\ zombie' = zombie \ {svd[0].pid} /\ live' = live
  /\ svd'[0].pid = NoPid /\ svd'[0].want = svd[0].want /\ svd'[0].state # "run"
  /\ fifo'[0] = fifo[0]
Reads ==
  /\ fifo[0] # <<>> /\ fifo'[0] = Tail(fifo[0])
  /\ ctrl(0, Head(fifo[0]))

LEMMA ServiceStep ==
  ASSUME RunsvInv, Supervisor, pc # "boot"
  PROVE  Unmoved \/ Started \/ Collected \/ Reads
<1>0. svd[0] \in Svdir /\ svd \in [Svc -> Svdir] /\ fifo \in [Svc -> Seq(AllCommands)] /\ 0 \in Svc
  BY DEF RunsvInv, SvTypeOK, TypeOK, Svc
<1>a. ASSUME UNCHANGED <<svd, fifo, prog>>, zombie' \subseteq zombie PROVE Unmoved
  BY <1>a DEF Unmoved, live
<1>b. haslog = FALSE /\ sigterm = FALSE /\ svd[1].pid = NoPid
  BY DEF RunsvInv, Solo, OwnChildInv
<1>1. CASE StartLog \/ ControlLog \/ HandleTerm
  BY <1>1, <1>a, <1>b DEF StartLog, ControlLog, ReadControl, HandleTerm, Skip, kernel
<1>2. CASE Wake \/ Timeout \/ ReapDone \/ Stay \/ Exit
  BY <1>2, <1>a DEF Wake, Timeout, Resume, ReapDone, Stay, Exit, kernel
<1>3. CASE \E sig \in {"CHLD", "TERM"} : Deliver(sig)
  BY <1>3, <1>a DEF Deliver, kernel
<1>4. CASE \E p \in Pid : ChildExit(p)
  BY <1>4 DEF ChildExit, Unmoved, RunsvInv, SvTypeOK, TypeOK, live
<1>5. CASE CloseLog
  BY <1>5, <1>b DEF CloseLog
<1>6. CASE Start
  <2>1. CASE Skip
    BY <1>6, <1>a, <2>1 DEF Start, Skip, kernel
  <2>2. CASE startservice(0, svd[0], sup) /\ svd[0].pid = NoPid /\ (svd[0].want = "up" \/ svd[0].state = "finish")
    <3>1. Forks(0)
      BY <1>0, <2>2, StartEffect DEF RunsvInv, SvTypeOK
    <3>2. svd'[0].want = svd[0].want
      BY <1>0, <2>2 DEF startservice
    <3>. QED
      BY <1>6, <2>2, <3>1, <3>2 DEF Started, Start
  <2>. QED
    BY <1>6, <2>1, <2>2 DEF Start
<1>7. CASE Reap
  <2>1. PICK p \in zombie : Bury(p) /\ (ReapService(p) \/ ReapLog(p) \/ ReapOther(p))
    BY <1>7 DEF Reap
  <2>2. CASE ReapService(p)
    <3>1. PICK finish \in BOOLEAN :
            svd' = [svd EXCEPT ![0] = [svd[0] EXCEPT !.pid = NoPid, !.ctrl = @ \ {"TERM"},
                      !.state = IF svd[0].state # "finish" /\ finish THEN "finish" ELSE "down"]]
      BY <2>2 DEF ReapService
    <3>2. svd'[0].pid = NoPid /\ svd'[0].want = svd[0].want /\ svd'[0].state # "run"
      BY <1>0, <3>1 DEF Svdir
    <3>. QED
      BY <1>7, <2>1, <2>2, <3>2 DEF Collected, Reap, ReapService, Bury, live
  <2>3. CASE ReapOther(p)
    BY <1>7, <1>a, <2>1, <2>3 DEF Reap, ReapOther, Bury
  <2>. QED
    BY <1>b, <2>1, <2>2, <2>3 DEF ReapLog
<1>8. CASE Control
  BY <1>0, <1>8, <1>a DEF Control, ReadControl, Skip, kernel, Reads
<1>. QED
  BY <1>1, <1>2, <1>3, <1>4, <1>5, <1>6, <1>7, <1>8 DEF Supervisor, RunsvStep, BootFails, Boot

-----------------------------------------------------------------------------
(* What is skipped was done, what is reported holds *)

LEMMA CtrlWant ==
  ASSUME RunsvInv, NEW c \in {"u", "d"}, ctrl(0, c)
  PROVE  svd'[0].want = IF c = "u" THEN "up" ELSE "down"
<1>0. svd[0] \in Svdir /\ svd \in [Svc -> Svdir] /\ 0 \in Svc
  BY DEF RunsvInv, SvTypeOK, TypeOK, Svc
<1>1. ASSUME NEW w \in {"up", "down", "exit"}
      PROVE  LET s == [svd[0] EXCEPT !.want = w]
             IN  s \in Svdir /\ s.want = w
  BY <1>0 DEF Svdir
<1>2. CASE c = "d"
  <2>. DEFINE s == [svd[0] EXCEPT !.want = "down"]
  <2>1. (\E f : stopservice(0, s, f)) \/ svd' = [svd EXCEPT ![0] = s]
    BY <1>2 DEF ctrl, CtrlDown
  <2>2. s \in Svdir /\ s.want = "down"
    BY <1>1
  <2>. HIDE DEF s
  <2>3. \A handled : StopSvdir(s, handled).want = "down"
    BY <2>2 DEF StopSvdir, Svdir
  <2>. QED
    BY <1>0, <1>2, <2>1, <2>2, <2>3 DEF stopservice
<1>3. CASE c = "u"
  <2>. DEFINE s == [svd[0] EXCEPT !.want = "up"]
  <2>1. (\E f : startservice(0, s, f)) \/ svd' = [svd EXCEPT ![0] = s]
    BY <1>3 DEF ctrl, CtrlUp
  <2>2. s \in Svdir /\ s.want = "up"
    BY <1>1
  <2>. HIDE DEF s
  <2>3. CASE svd' = [svd EXCEPT ![0] = s]
    BY <1>0, <1>3, <2>2, <2>3
  <2>4. ASSUME NEW f, startservice(0, s, f) PROVE svd'[0].want = "up"
    <3>1. PICK p : svd' = [svd EXCEPT ![0] = [pid |-> p,
                             state |-> IF s.state = "finish" THEN "finish" ELSE "run",
                             ctrl |-> {}, want |-> s.want]]
      BY <2>4 DEF startservice
    <3>. QED
      BY <1>0, <2>2, <3>1
  <2>. QED
    BY <1>3, <2>1, <2>3, <2>4
<1>. QED
  BY <1>2, <1>3

\* Until a client sends its bytes the fifo is empty, so the wish it has read is the
\* one runsv has, and a service that got its SIGTERM is not started again.
Untouched == sv.pc \in {"get", "act", "waitdown"} /\ ~hist.overlap => fifo[0] = <<>>
StatusKept ==
  sv.pc = "act" /\ ~hist.overlap /\ Running =>
    /\ sv.st.want = "u" <=> svd[0].want = "up"
    /\ sv.st.want = "d" /\ sv.st.term /\ svd[0].state = "run" => "TERM" \in svd[0].ctrl

\* From then on until the client has its answer the byte it has sent is on its way or
\* has been obeyed.
Obeyed(c) == fifo[0] \in Seq({c}) /\ (fifo[0] = <<>> => (svd[0].want = "up" <=> c = "u"))
Awaits == sv.pc \in {"check", "again", "poll", "judge", "sleep", "limit"} \/ sv.result = "ok"
AnswerInv ==
  \A c \in {"u", "d"} : Awaits /\ sv.cmd.acts = <<c>> /\ ~hist.overlap /\ Running => Obeyed(c)

ClientInv ==
  /\ sv.pc # "done" => sv.result = "none"
  /\ Untouched /\ StatusKept /\ AnswerInv

LEMMA ClientInvSupervisor ==
  ASSUME RunsvInv, ClientInv, ~FsFaults, Supervisor
  PROVE  ClientInv'
<1>0. sv' = sv /\ hist'.overlap = hist.overlap /\ Next
  BY SupervisorIsRunsv DEF RunsvInv, SvTypeOK, History
<1>1. CASE pc = "boot"
  <2>1. sv.pc = "idle" /\ sv.result = "none"
    BY <1>1 DEF RunsvInv, Solo, ClientInv
  <2>. QED
    BY <1>0, <2>1 DEF ClientInv, Untouched, StatusKept, AnswerInv, Awaits
<1>2. CASE pc # "boot"
  <2>1. Running' => Running
    BY <1>0, <1>2, HaslogKept
  <2>2. Unmoved \/ Started \/ Collected \/ Reads
    BY <1>2, ServiceStep
  <2>3. Untouched'
    BY <1>0, <2>2 DEF ClientInv, Untouched, Unmoved, Started, Collected, Reads
  <2>4. StatusKept'
    <3>. SUFFICES ASSUME sv.pc = "act", ~hist.overlap, Running'
                  PROVE  /\ sv.st.want = "u" <=> svd'[0].want = "up"
                         /\ sv.st.want = "d" /\ sv.st.term /\ svd'[0].state = "run" => "TERM" \in svd'[0].ctrl
      BY <1>0 DEF StatusKept
    <3>1. fifo[0] = <<>> /\ Running
      BY <2>1 DEF ClientInv, Untouched
    <3>2. CASE Unmoved
      BY <3>1, <3>2 DEF ClientInv, StatusKept, Unmoved
    <3>3. CASE Started
      BY <3>1, <3>3 DEF ClientInv, StatusKept, Started, Forks
    <3>4. CASE Collected
      BY <3>1, <3>4 DEF ClientInv, StatusKept, Collected
    <3>. QED
      BY <2>2, <3>1, <3>2, <3>3, <3>4 DEF Reads
  <2>5. AnswerInv'
    <3>. SUFFICES ASSUME NEW c \in {"u", "d"}, Awaits, sv.cmd.acts = <<c>>, ~hist.overlap, Running'
                  PROVE  Obeyed(c)'
      BY <1>0 DEF AnswerInv, Awaits
    <3>1. Obeyed(c)
      BY <2>1 DEF ClientInv, AnswerInv
    <3>2. CASE Unmoved \/ Started \/ Collected
      BY <3>1, <3>2 DEF Obeyed, Unmoved, Started, Collected
    <3>3. CASE Reads
      <4>1. fifo[0] \in Seq({c}) /\ fifo[0] # <<>>
        BY <3>1, <3>3 DEF Obeyed, Reads
      <4>2. Head(fifo[0]) = c /\ Tail(fifo[0]) \in Seq({c})
        BY <4>1
      <4>3. svd'[0].want = IF c = "u" THEN "up" ELSE "down"
        BY <3>3, <4>2, CtrlWant DEF Reads
      <4>. QED
        BY <3>3, <4>2, <4>3 DEF Obeyed, Reads
    <3>. QED
      BY <2>2, <3>2, <3>3
  <2>. QED
    BY <1>0, <2>3, <2>4, <2>5 DEF ClientInv
<1>. QED
  BY <1>1, <1>2

LEMMA ClientInvClient ==
  ASSUME RunsvInv, ClientInv, ~FsFaults, Invoke \/ SvStep \/ Unreadable \/ Tick
  PROVE  ClientInv'
<1>0. /\ sv \in Client /\ CmdOK(sv.cmd) /\ sup.status[0] \in Status /\ svd[0] \in Svdir
      /\ fifo \in [Svc -> Seq(AllCommands)] /\ 0 \in Svc
  BY CmdsOK DEF RunsvInv, SvTypeOK, Client, TypeOK, Supervise, Svc
<1>1. svd' = svd /\ (Running' <=> Running)
  BY ClientApart DEF Apart, Running
<1>s. ASSUME NEW b, Send(b) PROVE fifo'[0] = fifo[0] \o b
  BY <1>0, <1>s DEF Send
<1>a. ASSUME sv'.pc = "done", sv'.result # "ok" \/ ~Running PROVE ClientInv'
  BY <1>1, <1>a DEF ClientInv, Untouched, StatusKept, AnswerInv, Awaits
<1>b. ASSUME NEW r, NEW w, Done(r, w), r # "ok" \/ ~Running PROVE ClientInv'
  BY <1>0, <1>a, <1>b, DoneFields
<1>c. ASSUME NoRunsv, ~Running PROVE ClientInv'
  BY <1>0, <1>a, <1>c, NoRunsvFields
<1>d. ASSUME UNCHANGED hist, sv'.cmd = sv.cmd, fifo'[0] = fifo[0], Awaits,
             \/ sv'.pc = "done"
             \/ sv'.result = sv.result /\ sv'.pc \notin {"get", "act", "waitdown", "done"} /\ sv.pc # "done"
      PROVE  ClientInv'
  BY <1>1, <1>d DEF ClientInv, Untouched, StatusKept, AnswerInv, Obeyed
<1>e. ASSUME sv'.result = sv.result, sv.pc # "done", sv'.pc \in {"late", "kget", "kill", "waitup", "napping"}
      PROVE  ClientInv'
  BY <1>e DEF ClientInv, Untouched, StatusKept, AnswerInv, Awaits
<1>2. CASE Invoke
  <2>1. /\ sv'.result = "none" /\ sv'.pc # "act" /\ fifo' = fifo
        /\ hist'.overlap <=> hist.overlap \/ fifo[0] # <<>>
        /\ sv'.pc = "check" => sv'.cmd.acts[1] = "C"
        /\ sv'.pc \in {"get", "check", "waitdown", "waitup"}
    <3>. DEFINE cmd == Action[Head(hist.todo)]
    <3>1. Head(hist.todo) \in DOMAIN Action
      BY <1>2 DEF Invoke, RunsvInv, SvTypeOK, History
    <3>2. CmdOK(cmd)
      BY <3>1, ActionOK
    <3>3. sv' = [Idle EXCEPT !.cmd = cmd, !.tstart = clock,
                   !.pc = CASE cmd.tool # "sv" -> cmd.tool
                            [] cmd.tool = "sv" /\ cmd.acts[1] = "C" -> "check"
                            [] OTHER -> "get"]
      BY <1>2 DEF Invoke
    <3>. HIDE DEF cmd
    <3>4. /\ sv'.result = "none" /\ sv'.pc \in {"get", "check", "waitdown", "waitup"}
          /\ sv'.pc = "check" => sv'.cmd.acts[1] = "C"
      BY <3>2, <3>3 DEF Idle, CmdOK
    <3>5. fifo' = fifo /\ (hist'.overlap <=> hist.overlap \/ fifo[0] # <<>>)
      BY <1>2 DEF Invoke, vars
    <3>. QED
      BY <3>4, <3>5
  <2>. QED
    BY <2>1 DEF ClientInv, Untouched, StatusKept, AnswerInv, Awaits
<1>3. CASE Tick
  BY <1>1, <1>3 DEF Tick, vars, ClientInv, Untouched, StatusKept, AnswerInv, Awaits, Obeyed
<1>4. CASE ControlGet
  <2>1. CASE NoStatus
    BY <1>c, <2>1 DEF NoStatus
  <2>2. CASE Running /\ sv' = [Got EXCEPT !.pc = "act"]
    <3>1. /\ sv'.pc = "act" /\ sv'.st = sup.status[0] /\ sv'.result = sv.result /\ sv.pc = "get"
          /\ UNCHANGED <<hist, fifo>>
      BY <1>0, <1>4, <2>2 DEF ControlGet, Got, Client, Local, vars
    <3>2. [sup.status[0] EXCEPT !.state = svd[0].state] = Summary(svd[0])
      BY <1>0, <2>2 DEF RunsvInv, LagInv, Lags
    <3>3. /\ sup.status[0].want = IF svd[0].want = "up" THEN "u" ELSE "d"
          /\ sup.status[0].term <=> "TERM" \in svd[0].ctrl
      BY <1>0, <3>2 DEF Summary, Status
    <3>. QED
      BY <1>1, <3>1, <3>3 DEF ClientInv, Untouched, StatusKept, AnswerInv, Awaits
  <2>. QED
    BY <1>4, <2>1, <2>2 DEF ControlGet
<1>5. CASE ControlAct
  <2>. DEFINE c == sv.cmd.acts[1]
  <2>1. UNCHANGED hist /\ sv.pc = "act"
    BY <1>5 DEF ControlAct
  <2>2. CASE Done("sent", 0)
    BY <1>b, <2>2
  <2>3. CASE NoRunsv /\ ~Running
    BY <1>c, <2>3
  <2>4. CASE sv' = [sv EXCEPT !.pc = "check"]
    <3>1. sv'.pc = "check" /\ sv'.result = sv.result /\ sv'.cmd = sv.cmd
      BY <1>0, <2>4 DEF Client
    <3>2. ASSUME NEW d \in {"u", "d"}, sv.cmd.acts = <<d>>, ~hist.overlap, Running PROVE Obeyed(d)'
      <4>1. fifo[0] = <<>> /\ c = d
        BY <2>1, <3>2 DEF ClientInv, Untouched
      <4>2. CASE Skips(c) /\ UNCHANGED vars
        <5>1. sv.st.want = d
          BY <4>1, <4>2 DEF Skips
        <5>2. sv.st.want = "u" <=> svd[0].want = "up"
          BY <2>1, <3>2 DEF ClientInv, StatusKept
        <5>3. svd[0].want = "up" <=> d = "u"
          BY <5>1, <5>2
        <5>4. fifo'[0] = <<>>
          BY <4>1, <4>2 DEF vars
        <5>5. <<>> \in Seq({d})
          OBVIOUS
        <5>. QED
          BY <1>1, <5>3, <5>4, <5>5 DEF Obeyed
      <4>3. CASE Send(sv.cmd.acts)
        <5>1. fifo'[0] = <<d>>
          BY <1>s, <3>2, <4>1, <4>3
        <5>2. <<d>> \in Seq({d}) /\ <<d>> # <<>>
          OBVIOUS
        <5>. QED
          BY <5>1, <5>2 DEF Obeyed
      <4>. QED
        BY <1>5, <3>1, <3>2, <4>2, <4>3, NoRunsvFields DEF ControlAct
    <3>. QED
      BY <1>1, <2>1, <3>1, <3>2 DEF ClientInv, Untouched, StatusKept, AnswerInv
  <2>. QED
    BY <1>5, <2>2, <2>3, <2>4 DEF ControlAct
<1>6. CASE check
  <2>1. UNCHANGED <<hist, fifo>> /\ Awaits /\ sv.pc # "done"
    BY <1>6 DEF check, Local, vars, Awaits
  <2>2. CASE NoStatus
    BY <1>c, <2>2 DEF NoStatus
  <2>3. CASE Done("ok", 0)
    BY <1>0, <1>d, <2>1, <2>3, DoneFields
  <2>4. ASSUME NEW p \in {"late", "again"}, sv' = [sv EXCEPT !.pc = p] PROVE ClientInv'
    BY <1>0, <1>d, <2>1, <2>4 DEF Client
  <2>. QED
    BY <1>6, <2>2, <2>3, <2>4 DEF check
<1>7. CASE TimedOut
  <2>1. \E n \in {0, 1} : Done("timeout", n) \/ sv' = [sv EXCEPT !.pc = "kget", !.rc = @ + n]
    BY <1>7 DEF TimedOut
  <2>2. ASSUME NEW n, sv' = [sv EXCEPT !.pc = "kget", !.rc = @ + n] PROVE ClientInv'
    BY <1>0, <1>7, <1>e, <2>2 DEF Client, TimedOut
  <2>. QED
    BY <1>b, <2>1, <2>2
<1>8. CASE KillGet
  <2>1. NoStatus \/ sv' = [sv EXCEPT !.pc = "kill"]
    BY <1>8 DEF KillGet
  <2>2. CASE sv' = [sv EXCEPT !.pc = "kill"]
    BY <1>0, <1>8, <1>e, <2>2 DEF Client, KillGet
  <2>. QED
    BY <1>c, <2>1, <2>2 DEF NoStatus
<1>9. CASE KillSend \/ Unreadable
  BY <1>b, <1>9 DEF KillSend, Unreadable
<1>10. CASE WaitDownSend
  <2>1. UNCHANGED hist /\ sv.pc = "waitdown" /\ (Running => fifo'[0] = fifo[0] \o sv.cmd.acts)
    BY <1>10, <1>s DEF WaitDownSend
  <2>2. sv'.pc = "poll" /\ sv'.result = sv.result /\ sv'.cmd = sv.cmd
    BY <1>0, <1>10 DEF WaitDownSend, Client
  <2>3. ASSUME NEW d \in {"u", "d"}, sv.cmd.acts = <<d>>, ~hist.overlap, Running PROVE Obeyed(d)'
    <3>1. fifo'[0] = <<d>>
      BY <2>1, <2>3 DEF ClientInv, Untouched
    <3>2. <<d>> \in Seq({d}) /\ <<d>> # <<>>
      OBVIOUS
    <3>. QED
      BY <3>1, <3>2 DEF Obeyed
  <2>. QED
    BY <1>1, <2>1, <2>2, <2>3 DEF ClientInv, Untouched, StatusKept, AnswerInv
<1>11. CASE WaitDownPoll
  <2>1. UNCHANGED <<hist, fifo>> /\ Awaits /\ sv.pc = "poll"
    BY <1>11 DEF WaitDownPoll, Local, vars, Awaits
  <2>2. CASE sv' = [sv EXCEPT !.st = sup.status[0], !.pc = "judge"]
    BY <1>0, <1>d, <2>1, <2>2 DEF Client
  <2>. QED
    BY <1>11, <1>b, <2>2 DEF WaitDownPoll
<1>12. CASE WaitDownJudge
  <2>1. UNCHANGED hist /\ Awaits /\ sv.pc = "judge"
    BY <1>12 DEF WaitDownJudge, Awaits
  <2>2. CASE UNCHANGED vars
    <3>1. Done("ok", 0) \/ Done("nocontrol", 1) \/
          \E p \in {"limit", "sleep"} : sv' = [sv EXCEPT !.pc = p, !.when = clock + 1]
      BY <1>12 DEF WaitDownJudge
    <3>2. ASSUME NEW p \in {"limit", "sleep"}, sv' = [sv EXCEPT !.pc = p, !.when = clock + 1]
          PROVE  ClientInv'
      BY <1>0, <1>d, <2>1, <2>2, <3>2 DEF Client, vars
    <3>3. CASE Done("ok", 0)
      BY <1>0, <1>d, <2>1, <2>2, <3>3, DoneFields DEF vars
    <3>. QED
      BY <1>b, <3>1, <3>2, <3>3
  <2>3. CASE Send(sv.cmd.acts) /\ ~UNCHANGED vars
    <3>1. PICK p \in {"limit", "sleep"} : sv' = [sv EXCEPT !.pc = p, !.when = clock + 1]
      BY <1>12, <2>3 DEF WaitDownJudge
    <3>2. sv'.pc = p /\ sv'.result = sv.result /\ sv'.cmd = sv.cmd
      BY <1>0, <3>1 DEF Client
    <3>3. fifo'[0] = fifo[0] \o sv.cmd.acts
      BY <1>s, <2>3
    <3>4. ASSUME NEW d \in {"u", "d"}, sv.cmd.acts = <<d>>, ~hist.overlap, Running PROVE Obeyed(d)'
      <4>1. fifo[0] \in Seq({d})
        BY <2>1, <3>4 DEF ClientInv, AnswerInv, Obeyed
      <4>2. fifo[0] \o <<d>> \in Seq({d}) /\ fifo[0] \o <<d>> # <<>>
        BY <4>1
      <4>. QED
        BY <3>3, <3>4, <4>2 DEF Obeyed
    <3>. QED
      BY <1>1, <2>1, <3>2, <3>4 DEF ClientInv, Untouched, StatusKept, AnswerInv
  <2>. QED
    BY <1>12, <2>2, <2>3 DEF WaitDownJudge
<1>13. CASE WaitDownSleep
  BY <1>0, <1>13, <1>d DEF WaitDownSleep, Client, Local, vars, Awaits
<1>14. CASE WaitDownLimit
  BY <1>14, <1>b DEF WaitDownLimit
<1>15. CASE WaitUp
  <2>1. CASE Done("ok", 0)
    <3>1. sv.cmd.tool = "waitup"
      BY <1>15 DEF WaitUp, RunsvInv, SvTypeOK
    <3>2. sv'.cmd.acts = <<>> /\ sv'.pc = "done"
      BY <1>0, <2>1, <3>1, DoneFields DEF CmdOK
    <3>. QED
      BY <3>2 DEF ClientInv, Untouched, StatusKept, AnswerInv
  <2>2. CASE Done("down", 1)
    BY <1>b, <2>2
  <2>3. CASE sv' = [sv EXCEPT !.pc = "napping", !.when = since + sec]
    BY <1>0, <1>15, <1>e, <2>3 DEF Client, WaitUp
  <2>. QED
    BY <1>15, <2>1, <2>2, <2>3 DEF WaitUp
<1>16. CASE WaitUpNap
  BY <1>0, <1>16, <1>e DEF Client, WaitUpNap
<1>. QED
  BY <1>2, <1>3, <1>4, <1>5, <1>6, <1>7, <1>8, <1>9, <1>10, <1>11, <1>12, <1>13, <1>14, <1>15, <1>16
     DEF SvStep

LEMMA SvInitInv ==
  ASSUME SvInit
  PROVE  RunsvInv /\ ClientInv
<1>1. TypeOK /\ ~Running
  BY TypeInit DEF SvInit, Init, Running
<1>2. Idle \in Client
  BY SMTT(40) DEF Client, Cmd, Idle, Status, Summary, Initial, PidOrNone
<1>3. hist \in History
  BY ActionsAssumption DEF SvInit, History, PidOrNone
<1>4. sv = Idle /\ sv.pc = "idle" /\ sv.result = "none" /\ sv.cmd.acts = <<>> /\ hist.ended
  BY SMTT(40) DEF SvInit, Idle, Do
<1>5. SvTypeOK
  BY <1>1, <1>2, <1>3, <1>4 DEF SvInit, SvTypeOK
<1>6. OwnChildInv
  BY <1>1 DEF SvInit, Init, OwnChildInv, OwnChild, Initial, Svc
<1>7. LagInv
  BY <1>1 DEF LagInv
<1>8. Solo
  BY <1>4 DEF SvInit, Init, Solo, Initial, Svc
<1>9. ClientInv
  BY <1>1, <1>4 DEF ClientInv, Untouched, StatusKept, AnswerInv, Awaits
<1>. QED
  BY <1>5, <1>6, <1>7, <1>8, <1>9 DEF RunsvInv

LEMMA ClientInvariant ==
  ASSUME ~FsFaults
  PROVE  SvSpec => [](RunsvInv /\ ClientInv)
<1>1. ASSUME RunsvInv, ClientInv, [SvNext]_<<vars, svars>> PROVE ClientInv'
  <2>1. CASE UNCHANGED <<vars, svars>>
    BY <1>1, <2>1 DEF vars, svars, ClientInv, Untouched, StatusKept, AnswerInv, Awaits, Obeyed, Running
  <2>. QED
    BY <1>1, <2>1, ClientInvSupervisor, ClientInvClient DEF SvNext
<1>. QED
  BY <1>1, SvInitInv, RunsvInvStep, PTL DEF SvSpec

\* What sv holds back because of the status file (sv.c:253) runsv has already been
\* told, for every sequence of invocations and any delays between their steps, if
\* files can be written and no earlier command is in the fifo.
THEOREM SkipsAreDone ==
  ASSUME ~FsFaults
  PROVE  SvSpec => []SkipsOnlyDone
<1>1. RunsvInv /\ ClientInv => SkipsOnlyDone
  <2>. SUFFICES ASSUME RunsvInv, ClientInv, sv.pc = "act", Running, ~hist.overlap, Skips(sv.cmd.acts[1])
                PROVE  /\ (svd[0].want = "up") = (sv.cmd.acts[1] = "u")
                       /\ sv.cmd.acts[1] = "d" /\ svd[0].state = "run" =>
                            svd[0].pid \in termed \cup zombie \/ "TERM" \in svd[0].ctrl
    BY DEF SkipsOnlyDone
  <2>1. sv.st.want = sv.cmd.acts[1] /\ (sv.cmd.acts[1] # "d" \/ sv.st.term)
    BY DEF Skips
  <2>2. /\ sv.st.want = "u" <=> svd[0].want = "up"
        /\ sv.st.want = "d" /\ sv.st.term /\ svd[0].state = "run" => "TERM" \in svd[0].ctrl
    BY DEF ClientInv, StatusKept
  <2>. QED
    BY <2>1, <2>2
<1>. QED
  BY <1>1, ClientInvariant, PTL

\* A start or stop that was reported as done is what runsv wants or is about to read
\* (control() and check() of sv.c against ctrl() of runsv.c), under the same provisos.
THEOREM ReportsHold ==
  ASSUME ~FsFaults
  PROVE  SvSpec => []ReportHolds
<1>1. RunsvInv /\ ClientInv => ReportHolds
  <2>. SUFFICES ASSUME RunsvInv, ClientInv, NEW c \in {"u", "d"}, Took(c)
                PROVE  (svd[0].want = "up" <=> c = "u") \/ Sent(c)
    BY DEF ReportHolds
  <2>1. Obeyed(c)
    BY DEF Took, ClientInv, AnswerInv, Awaits
  <2>2. CASE fifo[0] # <<>>
    <3>1. fifo[0] \in Seq({c}) /\ fifo[0] # <<>>
      BY <2>1, <2>2 DEF Obeyed
    <3>2. fifo[0][Len(fifo[0])] = c
      BY <3>1
    <3>. QED
      BY <2>2, <3>2 DEF Sent
  <2>. QED
    BY <2>1, <2>2 DEF Obeyed
<1>. QED
  BY <1>1, ClientInvariant, PTL

-----------------------------------------------------------------------------
(* A restart that is reported replaced the process *)

Clear == ~hist.overlap /\ ~hist.uncollected

\* Inductive: a k is the last byte of a client that has ended, so no command finds a
\* process that k has marked down, and runsv knows every process there is.
KillInv ==
  Clear =>
    /\ \A j \in 1 .. Len(fifo[0]) : fifo[0][j] = "k" => j = Len(fifo[0]) /\ sv.pc \in {"idle", "done"}
    /\ svd[0].state = "down" /\ svd[0].pid # NoPid => fifo[0] = <<>> /\ sv.pc \in {"idle", "done"}
    /\ live \cup zombie \subseteq {svd[0].pid}

\* Inductive: as long as the process that a client found is alive runsv has it and
\* its start time.
SameProcess ==
  Clear /\ ~hist.ended => hist.pid \in live /\ svd[0].pid = hist.pid /\ since = hist.since

LEMMA TailK ==
  ASSUME NEW q \in Seq(AllCommands), q # <<>>,
         \A j \in 1 .. Len(q) : q[j] = "k" => j = Len(q) /\ sv.pc \in {"idle", "done"}
  PROVE  /\ \A j \in 1 .. Len(Tail(q)) :
              Tail(q)[j] = "k" => j = Len(Tail(q)) /\ sv.pc \in {"idle", "done"}
         /\ Head(q) = "k" => Tail(q) = <<>> /\ sv.pc \in {"idle", "done"}
<1>. DEFINE t == Tail(q)
            h == Head(q)
            n == Len(q)
            K(j) == j = n /\ sv.pc \in {"idle", "done"}
<1>1. n \in Nat /\ n # 0
  BY EmptySeq
<1>2. t \in Seq(AllCommands) /\ Len(t) = n - 1 /\ h = q[1]
  BY HeadTailProperties
<1>3. \A j \in 1 .. n - 1 : t[j] = q[j + 1]
  BY HeadTailProperties
<1>4. \A j \in 1 .. n : q[j] = "k" => K(j)
  OBVIOUS
<1>5. Len(t) = 0 => t = <<>>
  BY <1>2, EmptySeq
<1>6. ASSUME n \in Nat, n # 0, NEW m, m = n - 1
      PROVE  1 \in 1 .. n /\ (1 = n => m = 0)
             /\ \A j \in 1 .. m : j \in 1 .. n - 1 /\ j + 1 \in 1 .. n /\ (j + 1 = n => j = m)
  <2>. HIDE DEF n
  <2>. QED
    BY <1>6
<1>. HIDE DEF n, t, h
<1>7. ASSUME h = "k" PROVE t = <<>> /\ sv.pc \in {"idle", "done"}
  BY <1>1, <1>2, <1>4, <1>5, <1>6, <1>7
<1>8. ASSUME NEW j \in 1 .. Len(t), t[j] = "k" PROVE j = Len(t) /\ sv.pc \in {"idle", "done"}
  <2>1. j \in 1 .. n - 1 /\ j + 1 \in 1 .. n /\ (j + 1 = n => j = Len(t))
    BY <1>1, <1>2, <1>6
  <2>2. q[j + 1] = "k"
    BY <1>3, <1>8, <2>1
  <2>. QED
    BY <1>4, <2>1, <2>2
<1>. QED
  BY <1>7, <1>8 DEF t, h

\* A process is forked when there is none, or the last one is collected.
LEMMA ForkReplaces ==
  ASSUME RunsvInv, KillInv, SameProcess, Clear, Forks(0), svd[0].pid = NoPid
  PROVE  /\ live' \cup zombie' \subseteq {svd'[0].pid} /\ svd'[0].state # "down"
         /\ hist.ended
<1>1. PICK p \in Pid \ (live \cup zombie) :
        /\ svd'[0].pid = p /\ svd'[0].state # "down"
        /\ prog' = [prog EXCEPT ![p] = prog'[p]] /\ zombie' = zombie
  BY DEF Forks
<1>2. live = {} /\ zombie = {}
  BY PidAssumption DEF KillInv, RunsvInv, SvTypeOK, TypeOK, live
<1>3. live' \subseteq {p}
  BY <1>1, <1>2 DEF live, RunsvInv, SvTypeOK, TypeOK
<1>. QED
  BY <1>1, <1>2, <1>3 DEF SameProcess

LEMMA KillSupervisor ==
  ASSUME RunsvInv, KillInv, SameProcess, Supervisor
  PROVE  KillInv' /\ SameProcess'
<1>0. /\ sv' = sv /\ hist'.overlap = hist.overlap /\ hist'.uncollected = hist.uncollected
      /\ hist'.pid = hist.pid /\ hist'.since = hist.since /\ Next
      /\ hist'.ended <=> hist.ended \/ hist.pid \notin live'
  BY SupervisorIsRunsv DEF RunsvInv, SvTypeOK, History
<1>1. fifo[0] \in Seq(AllCommands) /\ zombie \subseteq Pid /\ live \subseteq Pid /\ live \cap zombie = {}
  BY DEF RunsvInv, SvTypeOK, TypeOK, Svc, live, OwnChildInv
<1>. SUFFICES ASSUME Clear PROVE KillInv' /\ SameProcess'
  BY <1>0 DEF Clear, KillInv, SameProcess
<1>a. ASSUME Unmoved, pc # "boot" \/ hist.ended PROVE KillInv' /\ SameProcess'
  <2>1. KillInv'
    BY <1>0, <1>a DEF Unmoved, KillInv, Clear
  <2>2. since' = since \/ hist.ended
    BY <1>a DEF Unmoved, Supervisor
  <2>3. SameProcess'
    BY <1>0, <1>a, <2>2 DEF Unmoved, SameProcess, Clear
  <2>. QED
    BY <2>1, <2>3
<1>b. ASSUME hist.ended, fifo'[0] = fifo[0], svd'[0].pid = NoPid \/ svd'[0].state # "down",
             live' \cup zombie' \subseteq {svd'[0].pid}
      PROVE  KillInv' /\ SameProcess'
  BY <1>0, <1>b DEF KillInv, SameProcess, Clear
<1>2. CASE pc = "boot"
  <2>1. svd[0].pid = NoPid /\ fifo[0] = <<>> /\ hist.ended
    BY <1>2 DEF RunsvInv, Solo
  <2>2. Boot \/ BootFails \/ \E p \in Pid : ChildExit(p)
    BY <1>2 DEF Supervisor, RunsvStep, StartLog, Start, Wake, Timeout, Resume, Reap, ReapDone,
                Control, ControlLog, HandleTerm, Exit, CloseLog, Stay, Deliver
  <2>3. CASE Boot
    <3>1. svd'[0].pid = NoPid
      BY <2>3, BootEffect DEF Svc
    <3>2. live' = live /\ zombie' = zombie /\ fifo' = fifo
      BY <2>3 DEF Boot, kernel, live
    <3>. QED
      BY <1>b, <2>1, <3>1, <3>2 DEF KillInv
  <2>4. CASE BootFails
    BY <1>a, <2>1, <2>4 DEF BootFails, kernel, Unmoved, live
  <2>5. CASE \E p \in Pid : ChildExit(p)
    <3>1. Unmoved
      BY <2>5 DEF ChildExit, Unmoved, RunsvInv, SvTypeOK, TypeOK, live
    <3>. QED
      BY <1>a, <2>1, <3>1
  <2>. QED
    BY <2>2, <2>3, <2>4, <2>5
<1>3. CASE pc # "boot"
  <2>1. CASE Unmoved
    BY <1>3, <1>a, <2>1
  <2>2. CASE Started
    BY <1>b, <2>2, ForkReplaces DEF Started
  <2>3. CASE Collected
    <3>1. live = {} /\ zombie' = {} /\ live' = {}
      BY <1>1, <2>3 DEF Collected, KillInv
    <3>2. hist.ended
      BY <3>1 DEF SameProcess
    <3>. QED
      BY <1>b, <2>3, <3>1, <3>2 DEF Collected
  <2>4. CASE Reads
    <3>. DEFINE c == Head(fifo[0])
    <3>1. fifo[0] # <<>> /\ fifo'[0] = Tail(fifo[0]) /\ ctrl(0, c)
      BY <2>4 DEF Reads
    <3>2. /\ \A j \in 1 .. Len(fifo'[0]) : fifo'[0][j] = "k" => j = Len(fifo'[0]) /\ sv.pc \in {"idle", "done"}
          /\ c = "k" => fifo'[0] = <<>> /\ sv.pc \in {"idle", "done"}
      BY <1>1, <3>1, TailK DEF KillInv
    <3>3. svd[0].state = "down" => svd[0].pid = NoPid
      BY <3>1 DEF KillInv
    <3>. HIDE DEF c
    <3>4. CASE Forks(0) /\ svd[0].state = "down"
      BY <1>0, <3>2, <3>3, <3>4, ForkReplaces DEF KillInv, SameProcess, Clear
    <3>5. CASE Keeps(0, IF c = "k" THEN {"down"} ELSE {})
      <4>1. /\ svd'[0].pid = svd[0].pid /\ live' = live /\ zombie' = zombie
            /\ svd'[0].state = svd[0].state \/ c = "k"
        BY <3>5 DEF Keeps, live
      <4>2. since' = since
        BY <1>3, <4>1 DEF Supervisor
      <4>3. KillInv'
        BY <1>0, <3>2, <3>3, <4>1 DEF KillInv, Clear
      <4>4. SameProcess'
        BY <1>0, <4>1, <4>2 DEF SameProcess, Clear
      <4>. QED
        BY <4>3, <4>4
    <3>6. 0 \in Svc
      BY DEF Svc
    <3>. QED
      BY <3>1, <3>4, <3>5, <3>6, CtrlEffect DEF RunsvInv, SvTypeOK
  <2>. QED
    BY <1>3, <2>1, <2>2, <2>3, <2>4, ServiceStep
<1>. QED
  BY <1>2, <1>3


\* What a client may append to the fifo: its bytes, or a k with which it ends.
LEMMA ClientSends ==
  ASSUME SvTypeOK, SvStep \/ Unreadable
  PROVE  /\ sv.pc \notin {"idle", "done"} /\ hist' = hist /\ sv'.cmd = sv.cmd
         /\ \/ fifo'[0] = fifo[0]
            \/ \E b \in Seq(Plain) : fifo'[0] = fifo[0] \o b
            \/ fifo'[0] = fifo[0] \o <<"k">> /\ sv'.pc = "done"
<1>0. sv \in Client /\ CmdOK(sv.cmd) /\ fifo \in [Svc -> Seq(AllCommands)] /\ 0 \in Svc
  BY CmdsOK DEF SvTypeOK, Client, TypeOK, Svc
<1>s. ASSUME NEW b, Send(b) PROVE fifo'[0] = fifo[0] \o b
  BY <1>0, <1>s DEF Send
<1>e. ASSUME NEW r, NEW w, Done(r, w) PROVE sv'.cmd = sv.cmd /\ sv'.pc = "done"
  BY <1>0, <1>e, DoneFields
<1>f. ASSUME UNCHANGED vars PROVE fifo'[0] = fifo[0]
  BY <1>f DEF vars
<1>1. CASE ControlGet
  <2>1. sv.pc = "get" /\ UNCHANGED <<vars, hist>> /\ (NoRunsv \/ sv' = [Got EXCEPT !.pc = "act"])
    BY <1>1 DEF ControlGet, NoStatus, Local
  <2>2. sv'.cmd = sv.cmd
    BY <1>0, <2>1, NoRunsvFields DEF Got, Client
  <2>. QED
    BY <1>f, <2>1, <2>2
<1>2. CASE ControlAct
  <2>1. /\ sv.pc = "act" /\ hist' = hist /\ sv.cmd.acts \in Seq(Plain)
        /\ UNCHANGED vars \/ Send(sv.cmd.acts)
        /\ NoRunsv \/ sv' = [sv EXCEPT !.pc = "check"] \/ Done("sent", 0)
    BY <1>2 DEF ControlAct, SvTypeOK
  <2>2. sv'.cmd = sv.cmd
    BY <1>0, <1>e, <2>1, NoRunsvFields DEF Client
  <2>. QED
    BY <1>f, <1>s, <2>1, <2>2
<1>3. CASE check
  <2>1. /\ sv.pc \in {"check", "again"} /\ UNCHANGED <<vars, hist>>
        /\ NoRunsv \/ Done("ok", 0) \/ \E p \in {"late", "again"} : sv' = [sv EXCEPT !.pc = p]
    BY <1>3 DEF check, NoStatus, Local
  <2>2. sv'.cmd = sv.cmd
    BY <1>0, <1>e, <2>1, NoRunsvFields DEF Client
  <2>. QED
    BY <1>f, <2>1, <2>2
<1>4. CASE TimedOut
  <2>1. /\ sv.pc = "late" /\ UNCHANGED <<vars, hist>>
        /\ \E n \in {0, 1} : Done("timeout", n) \/ sv' = [sv EXCEPT !.pc = "kget", !.rc = @ + n]
    BY <1>4 DEF TimedOut, Local
  <2>2. sv'.cmd = sv.cmd
    BY <1>0, <1>e, <2>1 DEF Client
  <2>. QED
    BY <1>f, <2>1, <2>2
<1>5. CASE KillGet
  <2>1. sv.pc = "kget" /\ UNCHANGED <<vars, hist>> /\ (NoRunsv \/ sv' = [sv EXCEPT !.pc = "kill"])
    BY <1>5 DEF KillGet, NoStatus, Local
  <2>2. sv'.cmd = sv.cmd
    BY <1>0, <2>1, NoRunsvFields DEF Client
  <2>. QED
    BY <1>f, <2>1, <2>2
<1>6. CASE KillSend \/ WaitDownLimit
  <2>1. /\ sv.pc \in {"kill", "limit"} /\ hist' = hist
        /\ UNCHANGED vars \/ Send(<<"k">>)
        /\ \E r, w : Done(r, w)
    BY <1>6 DEF KillSend, WaitDownLimit
  <2>. QED
    BY <1>e, <1>f, <1>s, <2>1
<1>7. CASE WaitDownSend \/ WaitDownJudge
  <2>1. /\ sv.pc \in {"waitdown", "judge"} /\ hist' = hist
        /\ UNCHANGED vars \/ Send(sv.cmd.acts)
        /\ \/ Done("ok", 0) \/ Done("nocontrol", 1)
           \/ sv' = [sv EXCEPT !.pc = "poll", !.tstart = clock]
           \/ \E p \in {"limit", "sleep"} : sv' = [sv EXCEPT !.pc = p, !.when = clock + 1]
    BY <1>7 DEF WaitDownSend, WaitDownJudge
  <2>2. sv'.cmd = sv.cmd
    BY <1>0, <1>e, <2>1 DEF Client
  <2>3. sv.cmd.acts \in Seq(Plain)
    BY <1>0, <2>1 DEF CmdOK, SvTypeOK
  <2>. QED
    BY <1>f, <1>s, <2>1, <2>2, <2>3
<1>8. CASE WaitDownPoll \/ WaitDownSleep
  <2>1. /\ sv.pc \in {"poll", "sleep"} /\ UNCHANGED <<vars, hist>>
        /\ \/ Done("ok", 0) \/ sv' = [sv EXCEPT !.st = sup.status[0], !.pc = "judge"]
           \/ sv' = [sv EXCEPT !.pc = "poll"]
    BY <1>8 DEF WaitDownPoll, WaitDownSleep, Local
  <2>2. sv'.cmd = sv.cmd
    BY <1>0, <1>e, <2>1 DEF Client
  <2>. QED
    BY <1>f, <2>1, <2>2
<1>9. CASE WaitUp \/ WaitUpNap \/ Unreadable
  <2>1. /\ sv.pc \notin {"idle", "done"} /\ UNCHANGED <<vars, hist>>
        /\ \/ \E r, w : Done(r, w)
           \/ sv' = [sv EXCEPT !.pc = "napping", !.when = since + sec]
           \/ sv' = [sv EXCEPT !.pc = "waitup"]
    BY <1>9 DEF WaitUp, WaitUpNap, Unreadable, Local
  <2>2. sv'.cmd = sv.cmd
    BY <1>0, <1>e, <2>1 DEF Client
  <2>. QED
    BY <1>f, <2>1, <2>2
<1>. QED
  BY <1>1, <1>2, <1>3, <1>4, <1>5, <1>6, <1>7, <1>8, <1>9 DEF SvStep

\* A client with a t is told "ok" only by check(), on a status that shows it done.
LEMMA RestartOk ==
  ASSUME SvTypeOK, sv.result = "none", Restarts, SvStep \/ Unreadable, sv'.result = "ok"
  PROVE  /\ Running /\ sv'.tstart = sv.tstart
         /\ \E script \in BOOLEAN : Reached("t", sup.status[0], since, script)
<1>0. sv \in Client /\ sv.cmd.tool = "sv" /\ sv.cmd.acts[1] # "x"
  BY CmdsOK DEF SvTypeOK, Client, CmdOK, Restarts
<1>1. sv.pc \notin {"waitdown", "poll", "judge", "sleep", "limit", "waitup", "napping"}
  BY <1>0 DEF SvTypeOK
<1>e. ASSUME NEW r, NEW w, Done(r, w) PROVE r = "ok"
  BY <1>0, <1>e, DoneFields
<1>2. ~NoRunsv
  BY <1>0, NoRunsvFields
<1>3. ~ControlGet
  <2>1. ASSUME sv' = [Got EXCEPT !.pc = "act"] PROVE sv'.result = "none"
    BY <1>0, <2>1 DEF Got, Client
  <2>. QED
    BY <1>2, <2>1 DEF ControlGet, NoStatus
<1>4. ~ControlAct
  <2>1. ASSUME sv' = [sv EXCEPT !.pc = "check"] PROVE sv'.result = "none"
    BY <1>0, <2>1 DEF Client
  <2>. QED
    BY <1>2, <1>e, <2>1 DEF ControlAct
<1>5. ~TimedOut
  <2>1. ASSUME NEW n, sv' = [sv EXCEPT !.pc = "kget", !.rc = @ + n] PROVE sv'.result = "none"
    BY <1>0, <2>1 DEF Client
  <2>. QED
    BY <1>e, <2>1 DEF TimedOut
<1>6. ~KillGet
  <2>1. ASSUME sv' = [sv EXCEPT !.pc = "kill"] PROVE sv'.result = "none"
    BY <1>0, <2>1 DEF Client
  <2>. QED
    BY <1>2, <2>1 DEF KillGet, NoStatus
<1>7. ~KillSend /\ ~Unreadable
  BY <1>e DEF KillSend, Unreadable
<1>8. check
  BY <1>1, <1>3, <1>4, <1>5, <1>6, <1>7
     DEF SvStep, WaitDownSend, WaitDownPoll, WaitDownJudge, WaitDownSleep, WaitDownLimit, WaitUp, WaitUpNap
<1>9. ASSUME NEW p \in {"late", "again"}, sv' = [sv EXCEPT !.pc = p] PROVE sv'.result = "none"
  BY <1>0, <1>9 DEF Client
<1>10. Running /\ \E script \in BOOLEAN :
         /\ \A i \in DOMAIN sv.cmd.acts : Reached(sv.cmd.acts[i], sup.status[0], since, script)
         /\ Done("ok", 0)
  BY <1>2, <1>8, <1>9 DEF check, NoStatus
<1>. QED
  BY <1>0, <1>10, DoneFields DEF Restarts

LEMMA KillClient ==
  ASSUME RunsvInv, ClientInv, KillInv, SameProcess, Invoke \/ SvStep \/ Unreadable \/ Tick
  PROVE  KillInv' /\ SameProcess'
<1>0. /\ svd' = svd /\ live' = live /\ zombie' = zombie /\ since' = since
      /\ fifo[0] \in Seq(AllCommands)
  BY ClientApart DEF Apart, kernel, live, RunsvInv, SvTypeOK, TypeOK, Svc
<1>1. CASE Tick
  BY <1>0, <1>1 DEF Tick, vars, KillInv, SameProcess, Clear
<1>2. CASE Invoke
  <2>1. /\ hist'.overlap <=> hist.overlap \/ fifo[0] # <<>>
        /\ hist'.uncollected <=> hist.uncollected \/ (svd[0].state = "down" /\ svd[0].pid # NoPid)
        /\ hist'.ended <=> svd[0].pid \notin live
        /\ hist'.pid = svd[0].pid /\ hist'.since = since /\ fifo' = fifo
    BY <1>2 DEF Invoke, vars
  <2>. QED
    BY <1>0, <2>1, SMTT(40) DEF KillInv, SameProcess, Clear
<1>3. CASE SvStep \/ Unreadable
  <2>. DEFINE q == fifo[0]
  <2>1. /\ sv.pc \notin {"idle", "done"} /\ hist' = hist
        /\ \/ fifo'[0] = q
           \/ \E b \in Seq(Plain) : fifo'[0] = q \o b
           \/ fifo'[0] = q \o <<"k">> /\ sv'.pc = "done"
    BY <1>3, ClientSends DEF RunsvInv
  <2>2. SameProcess'
    BY <1>0, <2>1 DEF SameProcess, Clear
  <2>. SUFFICES ASSUME Clear PROVE KillInv'
    BY <2>1, <2>2 DEF KillInv, Clear
  <2>3. \A j \in 1 .. Len(q) : q[j] # "k"
    BY <2>1 DEF KillInv
  <2>4. /\ svd[0].state = "down" => svd[0].pid = NoPid
        /\ live \cup zombie \subseteq {svd[0].pid}
    BY <2>1 DEF KillInv
  <2>5. \A j \in 1 .. Len(fifo'[0]) : fifo'[0][j] = "k" => j = Len(fifo'[0]) /\ sv'.pc = "done"
    <3>1. CASE fifo'[0] = q
      BY <2>3, <3>1
    <3>2. ASSUME NEW b \in Seq(AllCommands), fifo'[0] = q \o b,
                 \A j \in 1 .. Len(b) : b[j] = "k" => j = Len(b) /\ sv'.pc = "done"
          PROVE  \A j \in 1 .. Len(fifo'[0]) : fifo'[0][j] = "k" => j = Len(fifo'[0]) /\ sv'.pc = "done"
      <4>. DEFINE m == Len(q)
                  n == Len(b)
                  r == q \o b
                  D(j) == j = m + n /\ sv'.pc = "done"
      <4>1. m \in Nat /\ n \in Nat /\ Len(r) = m + n
        BY <1>0, ConcatProperties
      <4>2. \A j \in 1 .. m + n : r[j] = IF j <= m THEN q[j] ELSE b[j - m]
        BY <1>0, ConcatProperties
      <4>3. /\ \A j \in 1 .. m : q[j] # "k"
            /\ \A j \in 1 .. n : b[j] = "k" => j = n /\ sv'.pc = "done"
        BY <2>3, <3>2
      <4>. HIDE DEF m, n, r, q
      <4>4. ASSUME NEW j \in 1 .. m + n, r[j] = "k" PROVE D(j)
        <5>1. j \in Int /\ 1 <= j /\ j <= m + n
          BY <4>1
        <5>2. ~(j <= m)
          BY <4>2, <4>3, <4>4, <5>1
        <5>3. j - m \in 1 .. n /\ b[j - m] = "k"
          BY <4>1, <4>2, <4>4, <5>1, <5>2
        <5>4. j - m = n /\ sv'.pc = "done"
          BY <4>3, <5>3
        <5>. QED
          BY <4>1, <5>1, <5>4
      <4>. QED
        BY <3>2, <4>1, <4>4 DEF r
    <3>3. <<"k">> \in Seq(AllCommands) /\ Len(<<"k">>) = 1
      BY DEF AllCommands
    <3>4. ASSUME NEW b \in Seq(Plain) PROVE b \in Seq(AllCommands) /\ \A j \in 1 .. Len(b) : b[j] # "k"
      BY DEF Plain
    <3>5. CASE \E b \in Seq(Plain) : fifo'[0] = q \o b
      BY <3>2, <3>4, <3>5
    <3>6. CASE fifo'[0] = q \o <<"k">> /\ sv'.pc = "done"
      <4>1. \A j \in 1 .. Len(<<"k">>) : j = Len(<<"k">>)
        BY <3>3
      <4>. QED
        BY <3>2, <3>3, <3>6, <4>1
    <3>. QED
      BY <2>1, <3>1, <3>5, <3>6
  <2>. QED
    BY <1>0, <2>4, <2>5 DEF KillInv
<1>. QED
  BY <1>1, <1>2, <1>3

LEMMA RestartStep ==
  ASSUME RunsvInv, ClientInv, SameProcess, RestartReplaces, ~FsFaults, [SvNext]_<<vars, svars>>
  PROVE  RestartReplaces'
<1>1. CASE UNCHANGED <<sv, hist>> \/ Supervisor
  <2>1. sv' = sv /\ hist'.overlap = hist.overlap /\ hist'.uncollected = hist.uncollected
        /\ hist'.since = hist.since /\ (hist.ended => hist'.ended)
    BY <1>1 DEF Supervisor, RunsvInv, SvTypeOK, History
  <2>. QED
    BY <2>1 DEF RestartReplaces, Restarts
<1>2. CASE Invoke
  <2>1. sv'.result = "none"
    BY <1>2 DEF Invoke, Idle
  <2>. QED
    BY <2>1 DEF RestartReplaces
<1>3. CASE SvStep \/ Unreadable
  <2>. SUFFICES ASSUME sv'.result = "ok", Restarts', Clear', hist'.since < sv'.tstart, ~hist'.ended
                PROVE  FALSE
    BY DEF RestartReplaces, Clear
  <2>1. hist' = hist /\ sv'.cmd = sv.cmd /\ sv.pc # "done"
    BY <1>3, ClientSends DEF RunsvInv
  <2>2. sv.result = "none" /\ Restarts /\ Clear /\ ~hist.ended
    BY <2>1 DEF ClientInv, Restarts, Clear
  <2>3. PICK script \in BOOLEAN : Reached("t", sup.status[0], since, script) /\ Running /\ sv'.tstart = sv.tstart
    BY <1>3, <2>2, RestartOk DEF RunsvInv
  <2>4. hist.pid \in live /\ svd[0].pid = hist.pid /\ since = hist.since
    BY <2>2 DEF SameProcess
  <2>5. [sup.status[0] EXCEPT !.state = svd[0].state] = Summary(svd[0]) /\ sup.status[0] \in Status
    BY <2>3 DEF RunsvInv, LagInv, Lags, Svc, SvTypeOK, TypeOK, Supervise
  <2>6. sup.status[0].pid = svd[0].pid
    BY <2>5 DEF Summary, Status
  <2>7. sup.status[0].pid # NoPid
    BY <2>4, <2>6, PidAssumption DEF live
  <2>8. sv.tstart <= since
    BY <2>3, <2>7 DEF Reached
  <2>. QED
    BY <2>1, <2>3, <2>4, <2>8, SMTT(40) DEF RunsvInv, SvTypeOK, Client, History
<1>. QED
  BY <1>1, <1>2, <1>3 DEF SvNext, Tick, svars

\* A restart that sv reports has replaced the process it was meant for, unless that
\* was started in the same second or an earlier command is in the way (check() of sv.c
\* on the status, which update_status() of runsv.c wrote), if files can be written.
THEOREM RestartsReplace ==
  ASSUME ~FsFaults
  PROVE  SvSpec => []RestartReplaces
<1>. DEFINE I == RunsvInv /\ ClientInv
            R == KillInv /\ SameProcess /\ RestartReplaces
<1>1. SvInit => R
  <2>. SUFFICES ASSUME SvInit PROVE R
    OBVIOUS
  <2>1. sv.result = "none" /\ hist.ended /\ fifo[0] = <<>> /\ svd[0].pid = NoPid
    BY SMTT(40) DEF SvInit, Idle, Init, Initial, Svc
  <2>2. live = {} /\ zombie = {}
    BY DEF SvInit, Init, live
  <2>. QED
    BY <2>1, <2>2 DEF KillInv, SameProcess, RestartReplaces
<1>2. ASSUME I, R, [SvNext]_<<vars, svars>> PROVE R'
  <2>1. CASE UNCHANGED <<vars, svars>>
    BY <1>2, <2>1 DEF vars, kernel, svars, KillInv, SameProcess, Clear, RestartReplaces, Restarts, live
  <2>2. KillInv' /\ SameProcess'
    BY <1>2, <2>1, KillSupervisor, KillClient DEF SvNext
  <2>. QED
    BY <1>2, <2>2, RestartStep
<1>. QED
  BY <1>1, <1>2, ClientInvariant, PTL DEF SvSpec
=============================================================================
