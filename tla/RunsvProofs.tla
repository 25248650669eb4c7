---------------------------- MODULE RunsvProofs ----------------------------
(***************************************************************************)
(* Proofs about Runsv for every set of pids and commands, every length of  *)
(* the fifos, with and without control scripts and failing file writes.    *)
(***************************************************************************)
EXTENDS Runsv, TLAPS

-----------------------------------------------------------------------------
(* Types *)

\* update_status() leaves well-formed files, whatever part of it fails.
LEMMA UpdateType ==
  ASSUME NEW f \in Supervise, NEW i \in Svc, NEW s \in Svdir, NEW o
  PROVE  update_status(f, i, s, o) \in Supervise
<1> DEFINE g == IF f.pidchanged /\ o # "nopid"
                THEN [f EXCEPT !.pid = [@ EXCEPT ![i] = s.pid], !.pidchanged = FALSE] ELSE f
<1>1. g \in Supervise
  BY DEF Supervise, Svdir
<1>2. Summary(s) \in Status
  BY DEF Summary, Status, Svdir
<1>3. [g EXCEPT !.status = [@ EXCEPT ![i] = Summary(s)]] \in Supervise
  BY <1>1, <1>2 DEF Supervise
<1> QED
  BY <1>1, <1>3 DEF update_status

\* What kill() does to the sets of stopped and signalled children.
LEMMA SignalType ==
  ASSUME TypeOK, NEW p, NEW sigs, Signal(p, sigs)
  PROVE  stopped' \subseteq live /\ termed' \subseteq live /\ killed' \subseteq live
BY DEF TypeOK, Signal

\* The part of the state that ctrl(), stopservice() and startservice() change.
TypeOKServices ==
  /\ svd \in [Svc -> Svdir]
  /\ sup \in Supervise
  /\ prog \in [Pid -> {"none", "run", "finish", "log", "fail"}]
  /\ zombie \subseteq Pid
  /\ stopped \subseteq live /\ termed \subseteq live /\ killed \subseteq live

LEMMA StopType ==
  ASSUME TypeOK, NEW i \in Svc, NEW s \in Svdir, NEW f \in Supervise, stopservice(i, s, f)
  PROVE  TypeOKServices'
<1>1. PICK handled \in custom(i), o \in Outcome :
        /\ svd' = [svd EXCEPT ![i] = StopSvdir(s, handled)]
        /\ sup' = StopFiles(f, i, s, handled, o)
        /\ Signal(s.pid, StopSignals(s, handled))
        /\ UNCHANGED <<prog, zombie>>
  BY DEF stopservice
<1>2. StopSvdir(s, handled) \in Svdir
  BY DEF StopSvdir, Svdir
<1>3. sup' \in Supervise
  BY <1>1, <1>2, UpdateType DEF StopFiles
<1>4. live' = live
  BY <1>1 DEF live
<1>5. stopped' \subseteq live /\ termed' \subseteq live /\ killed' \subseteq live
  BY <1>1, SignalType
<1> QED
  BY <1>1, <1>2, <1>3, <1>4, <1>5 DEF TypeOK, TypeOKServices

LEMMA StartType ==
  ASSUME TypeOK, NEW i \in Svc, NEW s \in Svdir, NEW f \in Supervise, startservice(i, s, f)
  PROVE  TypeOKServices'
<1> DEFINE t(p) == [pid |-> p, state |-> IF s.state = "finish" THEN "finish" ELSE "run",
                    ctrl |-> {}, want |-> s.want]
           g(handled, o) == IF s.pid # NoPid THEN StopFiles(f, i, s, handled, o) ELSE f
<1>1. PICK p \in Pid \ (live \cup zombie), handled \in custom(i), o1 \in Outcome, o2 \in Outcome :
        /\ svd' = [svd EXCEPT ![i] = t(p)]
        /\ sup' = update_status([g(handled, o1) EXCEPT !.pidchanged = TRUE], i, t(p), o2)
        /\ Signal(s.pid, IF s.pid # NoPid THEN StopSignals(s, handled) ELSE {})
        /\ prog' = [prog EXCEPT ![p] = Program(i, s)]
        /\ UNCHANGED zombie
  BY DEF startservice
<1>2. t(p) \in Svdir
  BY DEF Svdir, PidOrNone
<1>3. g(handled, o1) \in Supervise
  <2>1. StopSvdir(s, handled) \in Svdir
    BY DEF StopSvdir, Svdir
  <2> QED
    BY <2>1, UpdateType DEF StopFiles
<1>4. [g(handled, o1) EXCEPT !.pidchanged = TRUE] \in Supervise
  BY <1>3 DEF Supervise
<1>5. sup' \in Supervise
  BY <1>1, <1>2, <1>4, UpdateType
<1>6. Program(i, s) \in {"run", "finish", "log", "fail"}
  BY DEF Program
<1>7. prog' \in [Pid -> {"none", "run", "finish", "log", "fail"}] /\ live \subseteq live'
  BY <1>1, <1>6 DEF TypeOK, live
<1>8. stopped' \subseteq live /\ termed' \subseteq live /\ killed' \subseteq live
  BY <1>1, SignalType
<1> QED
  BY <1>1, <1>2, <1>5, <1>7, <1>8 DEF TypeOK, TypeOKServices

LEMMA CtrlType ==
  ASSUME TypeOK, NEW i \in Svc, NEW c, ctrl(i, c)
  PROVE  TypeOKServices'
<1>0. ASSUME NEW want \in {"up", "down", "exit"}, NEW o
      PROVE  /\ [svd[i] EXCEPT !.want = want] \in Svdir
             /\ update_status(sup, i, [svd[i] EXCEPT !.want = want], o) \in Supervise
  <2>0. svd[i] \in Svdir
    BY DEF TypeOK
  <2>1. [svd[i] EXCEPT !.want = want] \in Svdir
    BY <2>0 DEF Svdir
  <2> QED
    BY <2>1, UpdateType DEF TypeOK
<1>1. ASSUME NEW want \in {"up", "down", "exit"}, CtrlDown(i, want) PROVE TypeOKServices'
  <2> DEFINE s == [svd[i] EXCEPT !.want = want]
  <2>1. PICK o \in Outcome :
          IF s.state = "run" THEN stopservice(i, s, update_status(sup, i, s, o))
          ELSE svd' = [svd EXCEPT ![i] = s] /\ sup' = update_status(sup, i, s, o) /\ UNCHANGED kernel
    BY <1>1 DEF CtrlDown
  <2>2. s \in Svdir /\ update_status(sup, i, s, o) \in Supervise
    BY <1>0
  <2>3. CASE s.state = "run"
    BY <2>1, <2>2, <2>3, StopType
  <2>4. CASE s.state # "run"
    BY <2>1, <2>2, <2>4 DEF TypeOK, TypeOKServices, kernel, live
  <2> QED
    BY <2>3, <2>4
<1>2. ASSUME NEW want \in {"up", "down", "exit"}, CtrlUp(i, want) PROVE TypeOKServices'
  <2> DEFINE s == [svd[i] EXCEPT !.want = want]
  <2>1. PICK o \in Outcome :
          IF s.state = "down" THEN startservice(i, s, update_status(sup, i, s, o))
          ELSE svd' = [svd EXCEPT ![i] = s] /\ sup' = update_status(sup, i, s, o) /\ UNCHANGED kernel
    BY <1>2 DEF CtrlUp
  <2>2. s \in Svdir /\ update_status(sup, i, s, o) \in Supervise
    BY <1>0
  <2>3. CASE s.state = "down"
    BY <2>1, <2>2, <2>3, StartType
  <2>4. CASE s.state # "down"
    BY <2>1, <2>2, <2>4 DEF TypeOK, TypeOKServices, kernel, live
  <2> QED
    BY <2>3, <2>4
<1>3. ASSUME Skip PROVE TypeOKServices'
  BY <1>3 DEF Skip, TypeOK, TypeOKServices, kernel, live
<1>4. ASSUME CtrlTerm(i) PROVE TypeOKServices'
  <2>1. svd[i] \in Svdir /\ sup \in Supervise
    BY DEF TypeOK
  <2> QED
    BY <1>3, <1>4, <2>1, StopType DEF CtrlTerm
<1>5. ASSUME NEW sig, Forward(i, sig) PROVE stopped' \subseteq live /\ termed' \subseteq live /\ killed' \subseteq live
  BY <1>5, SignalType DEF Forward
<1>6. ASSUME CtrlKill(i) PROVE TypeOKServices'
  <2> DEFINE s == [svd[i] EXCEPT !.state = "down"]
  <2>a. svd' = [svd EXCEPT ![i] = s]
    BY <1>6 DEF CtrlKill
  <2>0. svd[i] \in Svdir
    BY DEF TypeOK
  <2>b. s \in Svdir
    BY <2>0 DEF Svdir
  <2>1. svd' \in [Svc -> Svdir]
    BY <2>a, <2>b DEF TypeOK
  <2>2. live' = live
    BY <1>6 DEF CtrlKill, live
  <2> QED
    BY <1>5, <1>6, <2>1, <2>2 DEF CtrlKill, TypeOK, TypeOKServices
<1>7. ASSUME NEW sig, NEW x \in SUBSET {"TERM", "PAUSE"}, CtrlPause(i, sig, x) PROVE TypeOKServices'
  <2> DEFINE s == [svd[i] EXCEPT !.ctrl = x]
  <2>1. PICK o \in Outcome :
          /\ Forward(i, sig)
          /\ svd' = [svd EXCEPT ![i] = s]
          /\ sup' = update_status(sup, i, s, o)
          /\ UNCHANGED <<prog, zombie>>
    BY <1>7 DEF CtrlPause
  <2>2. s \in Svdir
    BY DEF TypeOK, Svdir
  <2>3. sup' \in Supervise
    BY <2>1, <2>2, UpdateType DEF TypeOK
  <2>4. live' = live
    BY <2>1 DEF live
  <2> QED
    BY <1>5, <2>1, <2>2, <2>3, <2>4 DEF TypeOK, TypeOKServices
<1>8. svd[i].ctrl \cup {"PAUSE"} \in SUBSET {"TERM", "PAUSE"} /\ svd[i].ctrl \ {"PAUSE"} \in SUBSET {"TERM", "PAUSE"}
  BY DEF TypeOK, Svdir
<1> QED
  BY <1>1, <1>2, <1>3, <1>4, <1>6, <1>7, <1>8 DEF ctrl

LEMMA TypeInit ==
  ASSUME Init PROVE TypeOK
<1>1. \A p \in {NoPid, StalePid} : Left(p) \in Status
  BY DEF Left, Status, PidOrNone
<1>2. sup \in Supervise
  BY <1>1 DEF Init, Supervise, PidOrNone
<1>3. svd \in [Svc -> Svdir]
  BY DEF Init, Initial, Svdir, PidOrNone
<1>4. fifo \in [Svc -> Seq(AllCommands)]
  BY DEF Init
<1> QED
  BY <1>2, <1>3, <1>4 DEF Init, TypeOK

LEMMA TypeStep ==
  ASSUME TypeOK, [Next]_vars PROVE TypeOK'
<1>0. svd[0] \in Svdir /\ svd[1] \in Svdir /\ sup \in Supervise
  BY DEF TypeOK, Svc
<1>a. ASSUME Skip PROVE TypeOKServices'
  BY <1>a DEF Skip, TypeOK, TypeOKServices, kernel, live
<1>b. [sup EXCEPT !.pidchanged = TRUE] \in Supervise
  BY <1>0 DEF Supervise
<1>c. \A w \in {"up", "down"} : Initial(w) \in Svdir
  BY DEF Initial, Svdir, PidOrNone
<1>1. CASE BootFails
  BY <1>1 DEF BootFails, TypeOK, kernel, live
<1>2. CASE Boot
  <2>1. PICK w \in {"up", "down"}, l \in {"up", "down"}, o1 \in Outcome, o2 \in Outcome :
          /\ svd' = [i \in Svc |-> IF i = 0 THEN Initial(w)
                                   ELSE IF haslog' THEN Initial(l) ELSE Initial("up")]
          /\ sup' = IF haslog' THEN update_status(update_status(sup, 0, Initial(w), o1), 1, Initial(l), o2)
                    ELSE update_status(sup, 0, Initial(w), o1)
    BY <1>2 DEF Boot
  <2>2. update_status(sup, 0, Initial(w), o1) \in Supervise
    BY <1>0, <1>c, UpdateType DEF Svc
  <2>3. update_status(update_status(sup, 0, Initial(w), o1), 1, Initial(l), o2) \in Supervise
    BY <2>2, <1>c, UpdateType DEF Svc
  <2>4. svd' \in [Svc -> Svdir] /\ sup' \in Supervise
    BY <2>1, <2>2, <2>3, <1>c
  <2>5. live' = live
    BY <1>2 DEF Boot, kernel, live
  <2> QED
    BY <1>2, <2>4, <2>5 DEF Boot, TypeOK, kernel
<1>3. CASE StartLog
  <2>1. TypeOKServices'
    BY <1>0, <1>3, <1>a, StartType DEF StartLog, Svc
  <2> QED
    BY <1>3, <2>1 DEF StartLog, TypeOK, TypeOKServices
<1>4. CASE Start
  <2>1. TypeOKServices'
    BY <1>0, <1>4, <1>a, StartType DEF Start, Svc
  <2> QED
    BY <1>4, <2>1 DEF Start, TypeOK, TypeOKServices
<1>5. CASE Wake \/ Timeout
  BY <1>5 DEF Wake, Timeout, Resume, TypeOK, kernel, live
<1>6. ASSUME NEW sig \in {"CHLD", "TERM"}, Deliver(sig) PROVE TypeOK'
  BY <1>6 DEF Deliver, TypeOK, kernel, live
<1>7. CASE Reap
  <2>1. PICK p \in zombie : Bury(p) /\ (ReapService(p) \/ ReapLog(p) \/ ReapOther(p))
    BY <1>7 DEF Reap
  <2>2. svd' \in [Svc -> Svdir] /\ sup' \in Supervise
    <3>1. CASE ReapService(p)
      <4>1. PICK finish \in BOOLEAN, o \in Outcome :
              LET s == [svd[0] EXCEPT !.pid = NoPid, !.ctrl = @ \ {"TERM"},
                          !.state = IF svd[0].state # "finish" /\ finish THEN "finish" ELSE "down"]
              IN  /\ svd' = [svd EXCEPT ![0] = s]
                  /\ sup' = update_status([sup EXCEPT !.pidchanged = TRUE], 0, s, o)
        BY <3>1 DEF ReapService
      <4> DEFINE s == [svd[0] EXCEPT !.pid = NoPid, !.ctrl = @ \ {"TERM"},
                         !.state = IF svd[0].state # "finish" /\ finish THEN "finish" ELSE "down"]
      <4>2. s \in Svdir
        BY <1>0 DEF Svdir, PidOrNone
      <4>3. sup' \in Supervise
        BY <4>1, <4>2, <1>b, UpdateType DEF Svc
      <4> QED
        BY <4>1, <4>2, <4>3 DEF TypeOK
    <3>2. CASE ReapLog(p)
      <4> DEFINE s == [svd[1] EXCEPT !.pid = NoPid, !.ctrl = @ \ {"TERM"}, !.state = "down"]
      <4>1. PICK o \in Outcome :
              /\ svd' = [svd EXCEPT ![1] = s]
              /\ sup' = update_status([sup EXCEPT !.pidchanged = TRUE], 1, s, o)
        BY <3>2 DEF ReapLog
      <4>2. s \in Svdir
        BY <1>0 DEF Svdir, PidOrNone
      <4>3. sup' \in Supervise
        BY <4>1, <4>2, <1>b, UpdateType DEF Svc
      <4> QED
        BY <4>1, <4>2, <4>3 DEF TypeOK
    <3>3. CASE ReapOther(p)
      BY <3>3 DEF ReapOther, TypeOK
    <3> QED
      BY <2>1, <3>1, <3>2, <3>3
  <2>3. live' = live
    BY <2>1 DEF Bury, live
  <2> QED
    BY <1>7, <2>1, <2>2, <2>3 DEF Reap, Bury, TypeOK
<1>8. CASE ReapDone \/ Stay
  BY <1>8 DEF ReapDone, Stay, TypeOK, kernel, live
<1>9. ASSUME NEW i \in Svc, ReadControl(i)
      PROVE  TypeOKServices' /\ fifo' \in [Svc -> Seq(AllCommands)]
  <2>1. CASE fifo[i] = <<>> \/ (i = 1 /\ ~haslog)
    BY <1>9, <1>a, <2>1 DEF ReadControl, TypeOK
  <2>2. CASE ~(fifo[i] = <<>> \/ (i = 1 /\ ~haslog))
    <3>1. TypeOKServices'
      BY <1>9, <2>2, CtrlType DEF ReadControl
    <3>2. Tail(fifo[i]) \in Seq(AllCommands)
      BY <2>2 DEF TypeOK
    <3> QED
      BY <1>9, <2>2, <3>1, <3>2 DEF ReadControl, TypeOK
  <2> QED
    BY <2>1, <2>2
<1>10. CASE Control
  BY <1>9, <1>10 DEF Control, TypeOK, TypeOKServices, Svc
<1>11. CASE ControlLog
  BY <1>9, <1>11 DEF ControlLog, TypeOK, TypeOKServices, Svc
<1>12. CASE HandleTerm
  <2>1. TypeOKServices'
    BY <1>12, <1>a, CtrlType DEF HandleTerm, Svc
  <2> QED
    BY <1>12, <2>1 DEF HandleTerm, TypeOK, TypeOKServices
<1>13. CASE Exit
  BY <1>13 DEF Exit, TypeOK, live
<1>14. CASE CloseLog
  <2>1. svd' \in [Svc -> Svdir] /\ svd'[1] \in Svdir
    BY <1>14 DEF CloseLog, TypeOK, Svdir, Svc
  <2>2. sup' \in Supervise
    BY <1>14, <1>0, <2>1, UpdateType DEF CloseLog, Svc
  <2>3. live' = live
    BY <1>14 DEF CloseLog, kernel, live
  <2> QED
    BY <1>14, <2>1, <2>2, <2>3 DEF CloseLog, TypeOK, kernel
<1>15. ASSUME NEW i \in Svc, UserControl(i) PROVE TypeOK'
  <2>1. PICK c \in AllCommands : fifo' = [fifo EXCEPT ![i] = Append(@, c)]
    BY <1>15, CommandAssumption DEF UserControl
  <2>2. Append(fifo[i], c) \in Seq(AllCommands)
    BY DEF TypeOK
  <2> QED
    BY <1>15, <2>1, <2>2 DEF UserControl, TypeOK, kernel, live
<1>16. CASE UserTerm
  BY <1>16 DEF UserTerm, TypeOK, kernel, live
<1>17. ASSUME NEW p \in Pid, ChildExit(p) PROVE TypeOK'
  <2>1. live' = live \ {p}
    BY <1>17 DEF ChildExit, TypeOK, live
  <2> QED
    BY <1>17, <2>1 DEF ChildExit, TypeOK
<1>18. CASE UNCHANGED vars
  BY <1>18 DEF vars, kernel, TypeOK, live
<1> QED
  BY <1>1, <1>2, <1>3, <1>4, <1>5, <1>6, <1>7, <1>8, <1>10, <1>11, <1>12, <1>13, <1>14, <1>15,
     <1>16, <1>17, <1>18 DEF Next, RunsvStep

\* TypeOK is an invariant: in particular supervise/status always holds a
\* well-formed record and signals are only recorded for living children.
THEOREM TypeCorrect == Spec => []TypeOK
BY TypeInit, TypeStep, PTL DEF Spec

-----------------------------------------------------------------------------
(* What the functions of runsv may do to the processes.                      *)

\* svd[i] keeps its child; its state is kept too, unless a 'k' resets it.
Keeps(i, states) ==
  /\ svd' = [svd EXCEPT ![i] = svd'[i]]
  /\ svd'[i].pid = svd[i].pid
  /\ svd'[i].state \in {svd[i].state} \cup states
  /\ UNCHANGED <<prog, zombie>>

\* svd[i] gets a new child.
Forks(i) ==
  \E p \in Pid \ (live \cup zombie) :
    /\ svd' = [svd EXCEPT ![i] = svd'[i]]
    /\ svd'[i].pid = p
    /\ svd'[i].state = IF svd[i].state = "finish" THEN "finish" ELSE "run"
    /\ prog' = [prog EXCEPT ![p] = prog'[p]]
    /\ prog'[p] # "none"
    /\ prog'[p] \in IF i = 0 THEN {"run", "finish", "fail"} ELSE {"log", "fail"}
    /\ UNCHANGED zombie

LEMMA StopEffect ==
  ASSUME TypeOK, NEW i \in Svc, NEW s \in Svdir, NEW f, stopservice(i, s, f),
         s.pid = svd[i].pid, s.state = svd[i].state
  PROVE  Keeps(i, {})
<1>1. PICK handled \in custom(i) : svd' = [svd EXCEPT ![i] = StopSvdir(s, handled)]
  BY DEF stopservice
<1>2. StopSvdir(s, handled).pid = s.pid /\ StopSvdir(s, handled).state = s.state
  BY DEF StopSvdir, Svdir
<1>3. UNCHANGED <<prog, zombie>>
  BY DEF stopservice
<1> QED
  BY <1>1, <1>2, <1>3 DEF Keeps, TypeOK

LEMMA StartEffect ==
  ASSUME TypeOK, NEW i \in Svc, NEW s \in Svdir, NEW f, startservice(i, s, f),
         s.state = svd[i].state
  PROVE  Forks(i)
<1> DEFINE t(p) == [pid |-> p, state |-> IF s.state = "finish" THEN "finish" ELSE "run",
                    ctrl |-> {}, want |-> s.want]
<1>1. PICK p \in Pid \ (live \cup zombie) :
        svd' = [svd EXCEPT ![i] = t(p)] /\ prog' = [prog EXCEPT ![p] = Program(i, s)] /\ UNCHANGED zombie
  BY DEF startservice
<1>2. /\ Program(i, s) # "none"
      /\ Program(i, s) \in IF i = 0 THEN {"run", "finish", "fail"} ELSE {"log", "fail"}
  BY DEF Program, Svc
<1>3. svd'[i] = t(p) /\ prog'[p] = Program(i, s)
  BY <1>1 DEF TypeOK
<1>4. svd'[i].pid = p /\ svd'[i].state = IF svd[i].state = "finish" THEN "finish" ELSE "run"
  BY <1>3
<1>5. svd' = [svd EXCEPT ![i] = svd'[i]] /\ prog' = [prog EXCEPT ![p] = prog'[p]]
  BY <1>1, <1>3
<1> QED
  BY <1>1, <1>2, <1>3, <1>4, <1>5 DEF Forks

\* ctrl() keeps the child or, on 'u' and 'o' for a service in S_DOWN, forks.
LEMMA CtrlEffect ==
  ASSUME TypeOK, NEW i \in Svc, NEW c, ctrl(i, c)
  PROVE  \/ Keeps(i, IF c = "k" THEN {"down"} ELSE {})
         \/ Forks(i) /\ svd[i].state = "down"
<1>0. svd[i] \in Svdir
  BY DEF TypeOK
<1>a. ASSUME NEW w \in {"up", "down", "exit"}
      PROVE  LET s == [svd[i] EXCEPT !.want = w]
             IN  s \in Svdir /\ s.pid = svd[i].pid /\ s.state = svd[i].state
  BY <1>0 DEF Svdir
<1>b. ASSUME Skip PROVE Keeps(i, {})
  BY <1>b DEF Skip, Keeps, kernel, TypeOK
<1>1. ASSUME NEW w \in {"up", "down", "exit"}, CtrlDown(i, w) PROVE Keeps(i, {})
  <2> DEFINE s == [svd[i] EXCEPT !.want = w]
  <2>1. CASE s.state = "run"
    BY <1>1, <1>a, <2>1, StopEffect DEF CtrlDown
  <2>2. CASE s.state # "run"
    BY <1>1, <1>a, <2>2 DEF CtrlDown, Keeps, kernel, TypeOK
  <2> QED
    BY <2>1, <2>2
<1>2. ASSUME NEW w \in {"up", "down", "exit"}, CtrlUp(i, w)
      PROVE  Keeps(i, {}) \/ (Forks(i) /\ svd[i].state = "down")
  <2> DEFINE s == [svd[i] EXCEPT !.want = w]
  <2>1. CASE s.state = "down"
    BY <1>2, <1>a, <2>1, StartEffect DEF CtrlUp
  <2>2. CASE s.state # "down"
    BY <1>2, <1>a, <2>2 DEF CtrlUp, Keeps, kernel, TypeOK
  <2> QED
    BY <2>1, <2>2
<1>3. ASSUME CtrlTerm(i) PROVE Keeps(i, {})
  BY <1>0, <1>3, <1>b, StopEffect DEF CtrlTerm
<1>4. ASSUME CtrlKill(i) PROVE Keeps(i, {"down"})
  BY <1>0, <1>4 DEF CtrlKill, Keeps, TypeOK, Svdir
<1>5. ASSUME NEW sig, NEW x, CtrlPause(i, sig, x) PROVE Keeps(i, {})
  BY <1>0, <1>5 DEF CtrlPause, Keeps, TypeOK, Svdir
<1> QED
  BY <1>1, <1>2, <1>3, <1>4, <1>5, <1>b DEF ctrl, Keeps

-----------------------------------------------------------------------------
(* runsv signals only its own children.                                      *)

\* Boot leaves both services down and without a process.
LEMMA BootEffect ==
  ASSUME Boot
  PROVE  \A i \in Svc : svd'[i].pid = NoPid /\ svd'[i].state = "down"
<1>1. PICK w \in {"up", "down"}, l \in {"up", "down"} :
        svd' = [i \in Svc |-> IF i = 0 THEN Initial(w) ELSE IF haslog' THEN Initial(l) ELSE Initial("up")]
  BY Zenon DEF Boot
<1>2. \A want : Initial(want).pid = NoPid /\ Initial(want).state = "down"
  BY DEF Initial
<1>3. \A i \in Svc : svd'[i] \in {Initial(w), Initial(l), Initial("up")}
  BY <1>1
<1> QED
  BY <1>2, <1>3

\* The inductive strengthening of OwnChild: a dead child is not alive, and
\* without a log directory svd[1] stays empty (nobody would collect it).
OwnChildInv ==
  /\ live \cap zombie = {}
  /\ ~haslog => svd[1].pid = NoPid
  /\ OwnChild

LEMMA KeepsOwnChild ==
  ASSUME TypeOK, OwnChildInv, NEW i \in Svc, Keeps(i, {"down"}), i = 0 \/ haslog,
         Running, haslog' = haslog
  PROVE  OwnChildInv'
<1>1. live' = live /\ zombie' = zombie
  BY DEF Keeps, live
<1>2. \A j \in Svc : svd'[j].pid = svd[j].pid /\ svd'[j].state \in {svd[j].state, "down"}
  BY DEF Keeps, TypeOK
<1> QED
  BY <1>1, <1>2 DEF OwnChildInv, OwnChild, Svc

LEMMA ForksOwnChild ==
  ASSUME TypeOK, OwnChildInv, NEW i \in Svc, Forks(i), i = 0 \/ haslog,
         Running, haslog' = haslog
  PROVE  OwnChildInv'
<1>1. PICK p \in Pid \ (live \cup zombie) :
        /\ svd' = [svd EXCEPT ![i] = svd'[i]]
        /\ svd'[i].pid = p
        /\ prog' = [prog EXCEPT ![p] = prog'[p]]
        /\ prog'[p] # "none"
        /\ UNCHANGED zombie
  BY DEF Forks
<1>2. live' = live \cup {p}
  BY <1>1 DEF live, TypeOK
<1>3. \A j \in Svc \ {i} : svd'[j] = svd[j]
  BY <1>1 DEF TypeOK
<1>4. p # NoPid
  BY PidAssumption
<1> QED
  BY <1>1, <1>2, <1>3, <1>4 DEF OwnChildInv, OwnChild, Svc

LEMMA OwnChildStep ==
  ASSUME TypeOK, OwnChildInv, [Next]_vars PROVE OwnChildInv'
<1>0. svd[0] \in Svdir /\ svd[1] \in Svdir
  BY DEF TypeOK, Svc
<1>a. ASSUME Running, Running', UNCHANGED <<svd, haslog, prog, zombie>> PROVE OwnChildInv'
  BY <1>a DEF OwnChildInv, OwnChild, live
<1>b. ASSUME Running, haslog' = haslog, NEW i \in Svc, i = 0 \/ haslog, NEW c, ctrl(i, c) PROVE OwnChildInv'
  <2>1. Keeps(i, {"down"}) \/ Forks(i)
    BY <1>b, CtrlEffect DEF Keeps
  <2> QED
    BY <1>b, <2>1, KeepsOwnChild, ForksOwnChild
<1>1. CASE BootFails
  BY <1>1 DEF BootFails, OwnChildInv, OwnChild, Running, kernel, live
<1>2. CASE Boot
  <2>1. svd'[0].pid = NoPid /\ svd'[1].pid = NoPid /\ svd'[0].state = "down" /\ svd'[1].state = "down"
    BY <1>2 DEF Boot, Initial, Svc
  <2> QED
    BY <1>2, <2>1 DEF Boot, OwnChildInv, OwnChild, kernel, live, Svc
<1>3. CASE StartLog
  <2>1. CASE Skip
    BY <1>3, <1>a, <2>1 DEF StartLog, Skip, kernel, Running
  <2>2. CASE haslog /\ startservice(1, svd[1], sup)
    BY <1>0, <1>3, <2>2, StartEffect, ForksOwnChild DEF StartLog, Svc, Running
  <2> QED
    BY <1>3, <2>1, <2>2 DEF StartLog
<1>4. CASE Start
  <2>1. CASE Skip
    BY <1>4, <1>a, <2>1 DEF Start, Skip, kernel, Running
  <2>2. CASE startservice(0, svd[0], sup)
    BY <1>0, <1>4, <2>2, StartEffect, ForksOwnChild DEF Start, Svc, Running
  <2> QED
    BY <1>4, <2>1, <2>2 DEF Start
<1>5. CASE Wake \/ Timeout
  BY <1>5, <1>a DEF Wake, Timeout, Resume, kernel, Running
<1>6. ASSUME NEW sig \in {"CHLD", "TERM"}, Deliver(sig) PROVE OwnChildInv'
  BY <1>6, <1>a DEF Deliver, kernel, Running
<1>7. CASE Reap
  <2>1. PICK p \in zombie : Bury(p) /\ (ReapService(p) \/ ReapLog(p) \/ ReapOther(p))
    BY <1>7 DEF Reap
  <2>2. live' = live /\ zombie' = zombie \ {p} /\ haslog' = haslog /\ Running /\ Running'
    BY <1>7, <2>1 DEF Reap, Bury, live, Running
  <2>3. CASE ReapService(p)
    <3>1. svd'[0].pid = NoPid /\ svd'[0].state # "run" /\ svd'[1] = svd[1]
      BY <1>0, <2>3 DEF ReapService, TypeOK, Svc, Svdir
    <3> QED
      BY <2>2, <2>3, <3>1 DEF OwnChildInv, OwnChild, Svc, ReapService
  <2>4. CASE ReapLog(p)
    <3>1. svd'[1].pid = NoPid /\ svd'[1].state # "run" /\ svd'[0] = svd[0]
      BY <1>0, <2>4 DEF ReapLog, TypeOK, Svc, Svdir
    <3> QED
      BY <2>2, <2>4, <3>1 DEF OwnChildInv, OwnChild, Svc, ReapLog
  <2>5. CASE ReapOther(p)
    BY <2>2, <2>5 DEF OwnChildInv, OwnChild, Svc, ReapOther
  <2> QED
    BY <2>1, <2>3, <2>4, <2>5
<1>8. CASE ReapDone \/ Stay
  BY <1>8, <1>a DEF ReapDone, Stay, kernel, Running
<1>9. CASE Control
  BY <1>9, <1>a, <1>b DEF Control, ReadControl, Skip, kernel, Running, Svc
<1>10. CASE ControlLog
  BY <1>10, <1>a, <1>b DEF ControlLog, ReadControl, Skip, kernel, Running, Svc
<1>11. CASE HandleTerm
  BY <1>11, <1>a, <1>b DEF HandleTerm, Skip, kernel, Running, Svc
<1>12. CASE Exit
  BY <1>12 DEF Exit, OwnChildInv, OwnChild, Running, live
<1>13. CASE CloseLog
  <2>1. svd'[0] = svd[0] /\ svd'[1].pid = svd[1].pid /\ svd'[1].state = svd[1].state
    BY <1>0, <1>13 DEF CloseLog, TypeOK, Svc, Svdir
  <2> QED
    BY <1>13, <2>1 DEF CloseLog, OwnChildInv, OwnChild, Running, kernel, live, Svc
<1>14. ASSUME NEW i \in Svc, UserControl(i) PROVE OwnChildInv'
  BY <1>14, <1>a DEF UserControl, kernel, Running
<1>15. CASE UserTerm
  BY <1>15, <1>a DEF UserTerm, kernel, Running
<1>16. ASSUME NEW p \in Pid, ChildExit(p) PROVE OwnChildInv'
  <2>1. live' = live \ {p} /\ zombie' \subseteq zombie \cup {p} /\ (Running => p \in zombie')
    BY <1>16 DEF ChildExit, TypeOK, live
  <2>2. (Running => zombie' = zombie \cup {p}) /\ UNCHANGED <<svd, haslog, pc>>
    BY <1>16 DEF ChildExit
  <2> QED
    BY <2>1, <2>2 DEF OwnChildInv, OwnChild, Running
<1>17. CASE UNCHANGED vars
  BY <1>17 DEF vars, kernel, OwnChildInv, OwnChild, Running, live
<1> QED
  BY <1>1, <1>2, <1>3, <1>4, <1>5, <1>6, <1>7, <1>8, <1>9, <1>10, <1>11, <1>12, <1>13, <1>14, <1>15,
     <1>16, <1>17 DEF Next, RunsvStep

LEMMA OwnChildInvariant == Spec => []OwnChildInv
<1>1. Init => OwnChildInv
  <2> SUFFICES ASSUME Init PROVE OwnChildInv
    OBVIOUS
  <2>1. zombie = {} /\ svd[1].pid = NoPid /\ ~Running
    BY DEF Init, Initial, Running, Svc
  <2> QED
    BY <2>1 DEF OwnChildInv, OwnChild
<1> QED
  BY <1>1, OwnChildStep, TypeCorrect, PTL DEF Spec

\* Every kill() of runsv.c goes to a child that runsv has not waited for, for
\* every sequence of commands, 'k' included.
THEOREM SignalsOwnChildren == Spec => []OwnChild
<1>1. OwnChildInv => OwnChild
  BY DEF OwnChildInv
<1> QED
  BY <1>1, OwnChildInvariant, PTL

-----------------------------------------------------------------------------
(* No end of a child is missed.                                              *)

\* Inductive: outside the collecting loop a zombie has left a SIGCHLD pending
\* or a byte in the self-pipe.
WakeUpInv == zombie # {} => "CHLD" \in pending \/ selfpipe \/ pc = "reap"

\* runsv never goes to sleep over a dead child, for every sequence of commands.
THEOREM ChildrenCollected == Spec => []NoLostChild
<1>1. Init => WakeUpInv
  BY DEF Init, WakeUpInv
<1>2. TypeOK /\ WakeUpInv /\ [Next]_vars => WakeUpInv'
  <2> SUFFICES ASSUME TypeOK, WakeUpInv, [Next]_vars PROVE WakeUpInv'
    OBVIOUS
  <2>0. svd[0] \in Svdir /\ svd[1] \in Svdir
    BY DEF TypeOK, Svc
  <2>a. ASSUME pc # "reap", UNCHANGED <<zombie, selfpipe, pending>> PROVE WakeUpInv'
    BY <2>a DEF WakeUpInv
  <2>b. ASSUME NEW i \in Svc, NEW c, ctrl(i, c) PROVE zombie' = zombie
    BY <2>b, CtrlEffect DEF Keeps, Forks
  <2>c. ASSUME NEW i \in Svc, startservice(i, svd[i], sup) PROVE zombie' = zombie
    BY <2>c DEF startservice
  <2>1. CASE BootFails \/ Boot \/ Stay \/ CloseLog
    BY <2>1, <2>a DEF BootFails, Boot, Stay, CloseLog, kernel
  <2>2. CASE StartLog \/ Start
    BY <2>2, <2>a, <2>c DEF StartLog, Start, Skip, kernel, Svc
  <2>3. CASE Control \/ ControlLog \/ HandleTerm
    BY <2>3, <2>a, <2>b DEF Control, ControlLog, HandleTerm, ReadControl, Skip, kernel, Svc
  <2>4. CASE Wake \/ Timeout
    BY <2>4 DEF Wake, Timeout, Resume, WakeUpInv
  <2>5. ASSUME NEW sig \in {"CHLD", "TERM"}, Deliver(sig) PROVE WakeUpInv'
    BY <2>5 DEF Deliver, WakeUpInv
  <2>6. CASE Reap
    BY <2>6 DEF Reap, WakeUpInv
  <2>7. CASE ReapDone
    BY <2>7 DEF ReapDone, kernel, WakeUpInv
  <2>8. CASE Exit
    BY <2>8 DEF Exit, WakeUpInv
  <2>9. ASSUME NEW i \in Svc, UserControl(i) PROVE WakeUpInv'
    BY <2>9 DEF UserControl, kernel, WakeUpInv
  <2>10. CASE UserTerm
    BY <2>10 DEF UserTerm, kernel, WakeUpInv
  <2>11. ASSUME NEW p \in Pid, ChildExit(p) PROVE WakeUpInv'
    BY <2>11 DEF ChildExit, WakeUpInv
  <2>12. CASE UNCHANGED vars
    BY <2>12 DEF vars, kernel, WakeUpInv
  <2> QED
    BY <2>1, <2>2, <2>3, <2>4, <2>5, <2>6, <2>7, <2>8, <2>9, <2>10, <2>11, <2>12 DEF Next, RunsvStep
<1>3. WakeUpInv => NoLostChild
  BY DEF WakeUpInv, NoLostChild
<1> QED
  BY <1>1, <1>2, <1>3, TypeCorrect, PTL DEF Spec

-----------------------------------------------------------------------------
(* Without 'k' runsv has at most one child per service, and leaves none.     *)

NoKill == "k" \notin Commands \cup LogCommands

\* Inductive: S_DOWN means that there is no child, and every child is known.
\* 'k' breaks the first of these: it sets S_DOWN without waiting for the child.
NoOrphanInv ==
  /\ fifo \in [Svc -> Seq(Commands \cup LogCommands)]
  /\ \A i \in Svc : svd[i].state = "down" => svd[i].pid = NoPid
  /\ pc = "boot" => svd[0].pid = NoPid /\ svd[1].pid = NoPid
  /\ NoOrphan
  /\ CleanExit

LEMMA KeepsNoOrphan ==
  ASSUME TypeOK, NoOrphanInv, NEW i \in Svc, Keeps(i, {}), Running, Running',
         fifo' \in [Svc -> Seq(Commands \cup LogCommands)]
  PROVE  NoOrphanInv'
<1>1. live' = live /\ zombie' = zombie
  BY DEF Keeps, live
<1>2. \A j \in Svc : svd'[j].pid = svd[j].pid /\ svd'[j].state = svd[j].state
  BY DEF Keeps, TypeOK
<1> QED
  BY <1>1, <1>2 DEF NoOrphanInv, NoOrphan, CleanExit, Running, Svc

LEMMA ForksNoOrphan ==
  ASSUME TypeOK, NoOrphanInv, NEW i \in Svc, Forks(i), svd[i].pid = NoPid, Running, Running',
         fifo' \in [Svc -> Seq(Commands \cup LogCommands)]
  PROVE  NoOrphanInv'
<1>1. PICK p \in Pid \ (live \cup zombie) :
        /\ svd' = [svd EXCEPT ![i] = svd'[i]]
        /\ svd'[i].pid = p
        /\ svd'[i].state # "down"
        /\ prog' = [prog EXCEPT ![p] = prog'[p]]
        /\ prog'[p] # "none"
        /\ UNCHANGED zombie
  BY DEF Forks
<1>2. live' = live \cup {p}
  BY <1>1 DEF live, TypeOK
<1>3. \A j \in Svc \ {i} : svd'[j] = svd[j]
  BY <1>1 DEF TypeOK
<1>4. NoPid \notin live \cup zombie
  BY PidAssumption DEF live, TypeOK
<1> QED
  BY <1>1, <1>2, <1>3, <1>4 DEF NoOrphanInv, NoOrphan, CleanExit, Running, Svc

LEMMA NoOrphanStep ==
  ASSUME NoKill, TypeOK, OwnChildInv, NoOrphanInv, [Next]_vars
  PROVE  NoOrphanInv'
<1>0. svd[0] \in Svdir /\ svd[1] \in Svdir /\ NoPid \notin live \cup zombie
  BY PidAssumption DEF TypeOK, Svc, live
<1>a. ASSUME Running, Running', UNCHANGED <<svd, prog, zombie>>,
             fifo' \in [Svc -> Seq(Commands \cup LogCommands)]
      PROVE  NoOrphanInv'
  BY <1>a DEF NoOrphanInv, NoOrphan, CleanExit, Running, live
<1>b. ASSUME NEW i \in Svc, NEW c \in AllCommands \ {"k"}, ctrl(i, c), Running, Running',
             fifo' \in [Svc -> Seq(Commands \cup LogCommands)]
      PROVE  NoOrphanInv'
  <2>1. Keeps(i, {}) \/ (Forks(i) /\ svd[i].pid = NoPid)
    BY <1>b, CtrlEffect DEF NoOrphanInv
  <2> QED
    BY <1>b, <2>1, KeepsNoOrphan, ForksNoOrphan
<1>c. fifo \in [Svc -> Seq(Commands \cup LogCommands)]
  BY DEF NoOrphanInv
<1>d. ASSUME NEW i \in Svc, ReadControl(i), Running, Running' PROVE NoOrphanInv'
  <2>1. CASE fifo[i] = <<>> \/ (i = 1 /\ ~haslog)
    BY <1>a, <1>c, <1>d, <2>1 DEF ReadControl, Skip, kernel
  <2>2. CASE ~(fifo[i] = <<>> \/ (i = 1 /\ ~haslog))
    <3>1. Head(fifo[i]) \in Commands \cup LogCommands /\ Tail(fifo[i]) \in Seq(Commands \cup LogCommands)
      BY <1>c, <2>2
    <3>2. Head(fifo[i]) \in AllCommands \ {"k"}
      BY <3>1, CommandAssumption DEF NoKill
    <3>3. fifo' \in [Svc -> Seq(Commands \cup LogCommands)]
      BY <1>c, <1>d, <2>2, <3>1 DEF ReadControl
    <3> QED
      BY <1>b, <1>d, <2>2, <3>2, <3>3 DEF ReadControl
  <2> QED
    BY <2>1, <2>2
<1>1. CASE BootFails
  <2>1. live = {}
    BY <1>0, <1>1 DEF BootFails, NoOrphanInv, NoOrphan
  <2> QED
    BY <1>1, <2>1 DEF BootFails, NoOrphanInv, NoOrphan, CleanExit, kernel, live
<1>2. CASE Boot
  <2>1. live \cup zombie = {}
    BY <1>0, <1>2 DEF Boot, NoOrphanInv, NoOrphan
  <2>2. live' = live /\ zombie' = zombie
    BY <1>2 DEF Boot, kernel, live
  <2>3. svd'[0].pid = NoPid /\ svd'[1].pid = NoPid
    BY <1>2, BootEffect DEF Svc
  <2> QED
    BY <1>2, <1>c, <2>1, <2>2, <2>3 DEF Boot, NoOrphanInv, NoOrphan, CleanExit, Svc
<1>3. CASE StartLog
  <2>1. CASE Skip
    BY <1>3, <1>a, <1>c, <2>1 DEF StartLog, Skip, kernel, Running
  <2>2. CASE svd[1].pid = NoPid /\ startservice(1, svd[1], sup)
    BY <1>0, <1>3, <1>c, <2>2, StartEffect, ForksNoOrphan DEF StartLog, Svc, Running
  <2> QED
    BY <1>3, <2>1, <2>2 DEF StartLog
<1>4. CASE Start
  <2>1. CASE Skip
    BY <1>4, <1>a, <1>c, <2>1 DEF Start, Skip, kernel, Running
  <2>2. CASE svd[0].pid = NoPid /\ startservice(0, svd[0], sup)
    BY <1>0, <1>4, <1>c, <2>2, StartEffect, ForksNoOrphan DEF Start, Svc, Running
  <2> QED
    BY <1>4, <2>1, <2>2 DEF Start
<1>5. CASE Wake \/ Timeout
  BY <1>5, <1>a, <1>c DEF Wake, Timeout, Resume, kernel, Running
<1>6. ASSUME NEW sig \in {"CHLD", "TERM"}, Deliver(sig) PROVE NoOrphanInv'
  BY <1>6, <1>a, <1>c DEF Deliver, kernel, Running
<1>7. CASE Reap
  <2>1. PICK p \in zombie : Bury(p) /\ (ReapService(p) \/ ReapLog(p) \/ ReapOther(p))
    BY <1>7 DEF Reap
  <2>2. live' = live /\ zombie' = zombie \ {p} /\ fifo' = fifo /\ pc' = pc /\ pc = "reap"
    BY <1>7, <2>1 DEF Reap, Bury, live
  <2>3. p \notin live
    BY <2>1 DEF OwnChildInv
  <2>4. CASE ReapService(p)
    <3>1. svd'[0].pid = NoPid /\ svd'[1] = svd[1] /\ p = svd[0].pid
      BY <1>0, <2>4 DEF ReapService, TypeOK, Svc, Svdir
    <3> QED
      BY <2>2, <2>3, <3>1 DEF NoOrphanInv, NoOrphan, CleanExit, Svc
  <2>5. CASE ReapLog(p)
    <3>1. svd'[1].pid = NoPid /\ svd'[0] = svd[0] /\ p = svd[1].pid
      BY <1>0, <2>5 DEF ReapLog, TypeOK, Svc, Svdir
    <3> QED
      BY <2>2, <2>3, <3>1 DEF NoOrphanInv, NoOrphan, CleanExit, Svc
  <2>6. CASE ReapOther(p)
    BY <2>2, <2>6 DEF NoOrphanInv, NoOrphan, CleanExit, ReapOther
  <2> QED
    BY <2>1, <2>4, <2>5, <2>6
<1>8. CASE ReapDone \/ Stay
  BY <1>8, <1>a, <1>c DEF ReapDone, Stay, kernel, Running
<1>9. CASE Control
  BY <1>9, <1>d DEF Control, Running, Svc
<1>10. CASE ControlLog
  BY <1>10, <1>d DEF ControlLog, Running, Svc
<1>11. CASE HandleTerm
  <2>1. "x" \in AllCommands \ {"k"}
    BY DEF AllCommands
  <2> QED
    BY <1>11, <1>a, <1>b, <1>c, <2>1 DEF HandleTerm, Skip, kernel, Running, Svc
<1>12. CASE Exit
  <2>1. live = {}
    BY <1>0, <1>12 DEF Exit, MayExit, NoOrphanInv, NoOrphan, Svc
  <2> QED
    BY <1>12, <2>1 DEF Exit, NoOrphanInv, NoOrphan, CleanExit, live
<1>13. CASE CloseLog
  <2>1. svd'[0] = svd[0] /\ svd'[1].pid = svd[1].pid /\ svd'[1].state = svd[1].state
    BY <1>0, <1>13 DEF CloseLog, TypeOK, Svc, Svdir
  <2> QED
    BY <1>13, <2>1 DEF CloseLog, NoOrphanInv, NoOrphan, CleanExit, kernel, live, Svc
<1>14. ASSUME NEW i \in Svc, UserControl(i) PROVE NoOrphanInv'
  <2>1. PICK c \in Commands \cup LogCommands : fifo' = [fifo EXCEPT ![i] = Append(@, c)]
    BY <1>14 DEF UserControl
  <2>2. Append(fifo[i], c) \in Seq(Commands \cup LogCommands)
    BY <1>c
  <2>3. fifo' \in [Svc -> Seq(Commands \cup LogCommands)]
    BY <1>c, <2>1, <2>2
  <2> QED
    BY <1>14, <1>a, <2>3 DEF UserControl, kernel, Running
<1>15. CASE UserTerm
  BY <1>15, <1>a, <1>c DEF UserTerm, kernel, Running
<1>16. ASSUME NEW p \in Pid, ChildExit(p) PROVE NoOrphanInv'
  <2>1. live' = live \ {p} /\ zombie' \subseteq zombie \cup {p} /\ p \in live
    BY <1>16 DEF ChildExit, TypeOK, live
  <2> QED
    BY <1>16, <2>1 DEF ChildExit, NoOrphanInv, NoOrphan, CleanExit
<1>17. CASE UNCHANGED vars
  BY <1>17 DEF vars, kernel, NoOrphanInv, NoOrphan, CleanExit, live
<1> QED
  BY <1>1, <1>2, <1>3, <1>4, <1>5, <1>6, <1>7, <1>8, <1>9, <1>10, <1>11, <1>12, <1>13, <1>14, <1>15,
     <1>16, <1>17 DEF Next, RunsvStep

LEMMA NoOrphanInvariant ==
  ASSUME NoKill PROVE Spec => []NoOrphanInv
<1>1. Init => NoOrphanInv
  <2> SUFFICES ASSUME Init PROVE NoOrphanInv
    OBVIOUS
  <2>1. live \cup zombie = {}
    BY DEF Init, live
  <2>2. fifo \in [Svc -> Seq(Commands \cup LogCommands)]
    BY DEF Init
  <2> QED
    BY <2>1, <2>2 DEF Init, Initial, NoOrphanInv, NoOrphan, CleanExit, Svc
<1>2. TypeOK /\ OwnChildInv /\ NoOrphanInv /\ [Next]_vars => NoOrphanInv'
  BY NoOrphanStep
<1> QED
  BY <1>1, <1>2, TypeCorrect, OwnChildInvariant, PTL DEF Spec

\* As long as nobody sends 'k', startservice() never loses a child: no program
\* of the service or of its log service is ever running twice.
THEOREM NoOrphans ==
  ASSUME NoKill PROVE Spec => []NoOrphan
<1>1. NoOrphanInv => NoOrphan
  BY DEF NoOrphanInv
<1> QED
  BY <1>1, NoOrphanInvariant, PTL

\* As long as nobody sends 'k', runsv exits only after the last of its children.
THEOREM ExitsClean ==
  ASSUME NoKill PROVE Spec => []CleanExit
<1>1. NoOrphanInv => CleanExit
  BY DEF NoOrphanInv
<1> QED
  BY <1>1, NoOrphanInvariant, PTL

-----------------------------------------------------------------------------
(* Without 'k' the programs of the service follow the life cycle of          *)
(* ServiceLife: the refinement.                                              *)

\* What the mapping needs beside NoOrphanInv: only the child in svd[0].pid
\* executes a program of the service.
LifeInv ==
  /\ \A p \in live : p = svd[1].pid => prog[p] \notin {"run", "finish"}
  /\ pc = "boot" => svd[0].state = "down"

LEMMA LifeInvStep ==
  ASSUME NoKill, TypeOK, OwnChildInv, NoOrphanInv, LifeInv, [Next]_vars
  PROVE  LifeInv'
<1>0. svd[0] \in Svdir /\ svd[1] \in Svdir /\ NoPid \notin live \cup zombie
  BY PidAssumption DEF TypeOK, Svc, live
<1>a. ASSUME pc' # "boot", UNCHANGED prog, svd'[1].pid \in {svd[1].pid, NoPid} PROVE LifeInv'
  BY <1>0, <1>a DEF LifeInv, live
<1>b. ASSUME NEW i \in Svc, Forks(i), pc' # "boot", Running PROVE LifeInv'
  <2>1. PICK p \in Pid \ (live \cup zombie) :
          /\ svd' = [svd EXCEPT ![i] = svd'[i]]
          /\ svd'[i].pid = p
          /\ prog' = [prog EXCEPT ![p] = prog'[p]]
          /\ prog'[p] \in IF i = 0 THEN {"run", "finish", "fail"} ELSE {"log", "fail"}
    BY <1>b DEF Forks
  <2>2. \A q \in live' : q = p \/ (q \in live /\ prog'[q] = prog[q])
    BY <2>1 DEF live, TypeOK
  <2>3. i = 0 => svd'[1] = svd[1] /\ svd[1].pid # p
    BY <1>b, <2>1, PidAssumption DEF TypeOK, Svc, OwnChildInv, OwnChild
  <2> QED
    BY <1>b, <2>1, <2>2, <2>3 DEF LifeInv, Svc
<1>c. ASSUME NEW i \in Svc, NEW c, ctrl(i, c), pc' # "boot", Running PROVE LifeInv'
  <2>1. Forks(i) \/ Keeps(i, {"down"})
    BY <1>c, CtrlEffect DEF Keeps
  <2>2. Keeps(i, {"down"}) => UNCHANGED prog /\ svd'[1].pid = svd[1].pid
    BY DEF Keeps, TypeOK, Svc
  <2> QED
    BY <1>a, <1>b, <1>c, <2>1, <2>2
<1>1. CASE BootFails \/ Wake \/ Timeout \/ ReapDone \/ Stay \/ UserTerm
  BY <1>1, <1>a DEF BootFails, Wake, Timeout, Resume, ReapDone, Stay, UserTerm, Running, kernel
<1>2. CASE Boot
  <2>1. svd'[1].pid = NoPid
    BY <1>2, BootEffect DEF Svc
  <2> QED
    BY <1>2, <1>a, <2>1 DEF Boot, kernel
<1>3. CASE StartLog
  BY <1>0, <1>3, <1>a, <1>b, StartEffect DEF StartLog, Skip, kernel, Svc, Running
<1>4. CASE Start
  BY <1>0, <1>4, <1>a, <1>b, StartEffect DEF Start, Skip, kernel, Svc, Running
<1>5. ASSUME NEW sig \in {"CHLD", "TERM"}, Deliver(sig) PROVE LifeInv'
  BY <1>5, <1>a DEF Deliver, kernel
<1>6. CASE Reap
  <2>1. svd'[1].pid \in {svd[1].pid, NoPid}
    <3>1. PICK p \in zombie : ReapService(p) \/ ReapLog(p) \/ ReapOther(p)
      BY <1>6 DEF Reap
    <3>2. CASE ReapService(p)
      BY <1>0, <3>2 DEF ReapService, TypeOK, Svc, Svdir
    <3>3. CASE ReapLog(p)
      BY <1>0, <3>3 DEF ReapLog, TypeOK, Svc, Svdir
    <3>4. CASE ReapOther(p)
      BY <3>4 DEF ReapOther
    <3> QED
      BY <3>1, <3>2, <3>3, <3>4
  <2> QED
    BY <1>6, <1>a, <2>1 DEF Reap, Bury
<1>7. CASE Control \/ ControlLog \/ HandleTerm
  BY <1>7, <1>a, <1>c DEF Control, ControlLog, HandleTerm, ReadControl, Skip, kernel, Svc, Running
<1>8. CASE Exit
  BY <1>8, <1>a DEF Exit
<1>9. CASE CloseLog
  <2>1. svd'[1].pid = svd[1].pid
    BY <1>0, <1>9 DEF CloseLog, TypeOK, Svc, Svdir
  <2> QED
    BY <1>9, <1>a, <2>1 DEF CloseLog, kernel
<1>10. ASSUME NEW i \in Svc, UserControl(i) PROVE LifeInv'
  BY <1>10, <1>a DEF UserControl, Running, kernel
<1>11. ASSUME NEW p \in Pid, ChildExit(p) PROVE LifeInv'
  <2>1. live' = live \ {p} /\ \A q \in live' : prog'[q] = prog[q]
    BY <1>11 DEF ChildExit, TypeOK, live
  <2> QED
    BY <1>11, <2>1 DEF ChildExit, LifeInv
<1>12. CASE UNCHANGED vars
  BY <1>12 DEF vars, kernel, LifeInv, live
<1> QED
  BY <1>1, <1>2, <1>3, <1>4, <1>5, <1>6, <1>7, <1>8, <1>9, <1>10, <1>11, <1>12 DEF Next, RunsvStep

\* A step maps to a step of ServiceLife or to a stutter.
LEMMA LifeStep ==
  ASSUME NoKill, TypeOK, OwnChildInv, NoOrphanInv, LifeInv, [Next]_vars
  PROVE  [Life!Next]_(Life!vars)
<1>0. svd[0] \in Svdir /\ svd[1] \in Svdir /\ NoPid \notin live \cup zombie
  BY PidAssumption DEF TypeOK, Svc, live
<1>1. Alive \subseteq {svd[0].pid}
  BY DEF Alive, LifeInv, NoOrphanInv, NoOrphan
<1>2. svd[0].pid = NoPid => Alive = {}
  BY <1>0, <1>1 DEF Alive
<1>a. ASSUME UNCHANGED <<prog, Phase>> PROVE [Life!Next]_(Life!vars)
  <2>1. Alive' = Alive
    BY <1>a DEF Alive, live
  <2> QED
    BY <1>a, <2>1 DEF Life!vars
<1>b. ASSUME pc # "gone", pc' # "gone", svd'[0].pid = svd[0].pid, svd'[0].state = svd[0].state
      PROVE  Phase' = Phase
  BY <1>b DEF Phase
<1>c. ASSUME Forks(1), pc # "gone", pc' # "gone" PROVE [Life!Next]_(Life!vars)
  <2>1. svd'[0] = svd[0]
    BY <1>c DEF Forks, TypeOK, Svc
  <2>2. Alive' = Alive
    BY <1>c DEF Forks, TypeOK, Alive, live
  <2> QED
    BY <1>b, <1>c, <2>1, <2>2 DEF Life!vars
<1>d. ASSUME Forks(0), svd[0].pid = NoPid, Running, pc' # "gone" PROVE [Life!Next]_(Life!vars)
  <2>1. PICK p \in Pid \ (live \cup zombie) :
          /\ svd'[0].pid = p
          /\ svd'[0].state = IF svd[0].state = "finish" THEN "finish" ELSE "run"
          /\ prog' = [prog EXCEPT ![p] = prog'[p]]
    BY <1>d DEF Forks
  <2>2. Alive' \in {{}} \cup {{q} : q \in Pid}
    <3>1. \A q \in Alive' : q = p
      BY <1>d, <1>2, <2>1 DEF Alive, live, TypeOK
    <3>2. Alive' = {} \/ Alive' = {p}
      BY <3>1
    <3> QED
      BY <3>2
  <2>3. p # NoPid
    BY PidAssumption
  <2>4. Phase' = IF svd[0].state = "finish" THEN "finish" ELSE "run"
    BY <1>d, <2>1, <2>3 DEF Phase
  <2>5. Phase = IF svd[0].state = "finish" THEN "due" ELSE "down"
    BY <1>d DEF Phase, Running
  <2>6. Life!Begin("down", "run") \/ Life!Begin("due", "finish")
    BY <1>d, <1>2, <2>2, <2>4, <2>5 DEF Life!Begin
  <2> QED
    BY <2>6 DEF Life!Next
<1>e. ASSUME NEW i \in Svc, NEW c \in AllCommands \ {"k"}, ctrl(i, c), Running, pc' # "gone"
      PROVE  [Life!Next]_(Life!vars)
  <2>1. Keeps(i, {}) \/ (Forks(i) /\ svd[i].pid = NoPid)
    BY <1>e, CtrlEffect DEF NoOrphanInv
  <2>2. Keeps(i, {}) => UNCHANGED prog /\ svd'[0].pid = svd[0].pid /\ svd'[0].state = svd[0].state
    BY DEF Keeps, TypeOK, Svc
  <2> QED
    BY <1>a, <1>b, <1>c, <1>d, <1>e, <2>1, <2>2 DEF Svc, Running
<1>f. ASSUME Skip, pc # "gone", pc' # "gone" PROVE [Life!Next]_(Life!vars)
  BY <1>a, <1>b, <1>f DEF Skip, kernel
<1>g. ASSUME NEW i \in Svc, ReadControl(i), Running, pc' # "gone" PROVE [Life!Next]_(Life!vars)
  <2>1. CASE fifo[i] = <<>> \/ (i = 1 /\ ~haslog)
    BY <1>f, <1>g, <2>1 DEF ReadControl, Running
  <2>2. CASE ~(fifo[i] = <<>> \/ (i = 1 /\ ~haslog))
    <3>1. Head(fifo[i]) \in Commands \cup LogCommands
      BY <2>2 DEF NoOrphanInv
    <3>2. Head(fifo[i]) \in AllCommands \ {"k"}
      BY <3>1, CommandAssumption DEF NoKill
    <3> QED
      BY <1>e, <1>g, <2>2, <3>2 DEF ReadControl
  <2> QED
    BY <2>1, <2>2
<1>3. CASE BootFails
  <2>1. Phase = "down" /\ Phase' = "gone" /\ Alive = {}
    BY <1>2, <1>3 DEF BootFails, Phase, LifeInv, NoOrphanInv
  <2>2. Alive' = Alive
    BY <1>3 DEF BootFails, Alive, live, kernel
  <2> QED
    BY <2>1, <2>2 DEF Life!Next, Life!Collect
<1>4. CASE Boot
  <2>1. svd'[0].pid = NoPid /\ svd'[0].state = "down"
    BY <1>4, BootEffect DEF Svc
  <2>2. svd[0].pid = NoPid /\ svd[0].state = "down"
    BY <1>4 DEF Boot, LifeInv, NoOrphanInv
  <2> QED
    BY <1>4, <1>a, <1>b, <2>1, <2>2 DEF Boot, kernel
<1>5. CASE StartLog
  BY <1>0, <1>5, <1>c, <1>f, StartEffect DEF StartLog, Svc
<1>6. CASE Start
  BY <1>0, <1>6, <1>d, <1>f, StartEffect DEF Start, Svc, Running
<1>7. CASE Wake \/ Timeout \/ ReapDone \/ Stay
  BY <1>7, <1>f DEF Wake, Timeout, Resume, ReapDone, Stay, Skip
<1>8. ASSUME NEW sig \in {"CHLD", "TERM"}, Deliver(sig) PROVE [Life!Next]_(Life!vars)
  BY <1>8, <1>f DEF Deliver, Skip
<1>9. CASE Reap
  <2>1. PICK p \in zombie : Bury(p) /\ (ReapService(p) \/ ReapLog(p) \/ ReapOther(p))
    BY <1>9 DEF Reap
  <2>2. UNCHANGED <<prog, pc>> /\ pc = "reap"
    BY <1>9, <2>1 DEF Reap, Bury
  <2>3. CASE ReapService(p)
    <3>1. /\ svd[0].pid = p /\ svd'[0].pid = NoPid
          /\ svd[0].state = "finish" => svd'[0].state = "down"
          /\ svd[0].state = "run" => svd'[0].state \in {"down", "finish"}
      BY <1>0, <2>3 DEF ReapService, TypeOK, Svc, Svdir
    <3>2. p \notin live /\ p # NoPid
      BY <1>0, <2>1 DEF OwnChildInv
    <3>3. Alive = {} /\ Alive' = Alive
      BY <1>1, <2>2, <3>1, <3>2 DEF Alive, live
    <3>4. svd[0].state # "down" /\ Phase = svd[0].state
      BY <2>2, <3>1, <3>2 DEF NoOrphanInv, Phase, Svc
    <3>5. Phase' = IF svd'[0].state = "finish" THEN "due" ELSE "down"
      BY <2>2, <3>1 DEF Phase
    <3>6. svd[0].state \in {"run", "finish"}
      BY <1>0, <3>4 DEF Svdir
    <3> QED
      BY <3>1, <3>3, <3>4, <3>5, <3>6 DEF Life!Next, Life!Collect
  <2>4. CASE ReapLog(p) \/ ReapOther(p)
    <3>1. svd'[0] = svd[0]
      BY <2>4 DEF ReapLog, ReapOther, TypeOK, Svc
    <3> QED
      BY <1>a, <1>b, <2>2, <3>1
  <2> QED
    BY <2>1, <2>3, <2>4
<1>10. CASE Control
  BY <1>10, <1>g DEF Control, Running, Svc
<1>11. CASE ControlLog
  BY <1>11, <1>g DEF ControlLog, Running, Svc
<1>12. CASE HandleTerm
  <2>1. "x" \in AllCommands \ {"k"}
    BY DEF AllCommands
  <2> QED
    BY <1>12, <1>e, <1>f, <2>1 DEF HandleTerm, Running, Svc
<1>13. CASE Exit
  <2>1. Phase = "down" /\ Phase' = "gone" /\ Alive = {}
    BY <1>2, <1>13 DEF Exit, MayExit, Phase, NoOrphanInv, Svc
  <2>2. Alive' = Alive
    BY <1>13 DEF Exit, Alive, live
  <2> QED
    BY <2>1, <2>2 DEF Life!Next, Life!Collect
<1>14. CASE CloseLog
  <2>1. svd'[0] = svd[0]
    BY <1>14 DEF CloseLog, TypeOK, Svc
  <2> QED
    BY <1>14, <1>a, <1>b, <2>1 DEF CloseLog, kernel
<1>15. ASSUME NEW i \in Svc, UserControl(i) PROVE [Life!Next]_(Life!vars)
  BY <1>15, <1>f DEF UserControl, Running, Skip
<1>16. CASE UserTerm
  BY <1>16, <1>f DEF UserTerm, Running, Skip
<1>17. ASSUME NEW p \in Pid, ChildExit(p) PROVE [Life!Next]_(Life!vars)
  <2>1. UNCHANGED <<svd, pc>> /\ p \in live
    BY <1>17 DEF ChildExit
  <2>2. Phase' = Phase
    BY <2>1 DEF Phase
  <2>3. Alive' = Alive \ {p}
    BY <1>17 DEF ChildExit, Alive, live, TypeOK
  <2>4. CASE p \in Alive
    <3>1. Alive = {p}
      BY <1>1, <2>4
    <3> QED
      BY <2>2, <2>3, <3>1 DEF Life!Next, Life!Die
  <2>5. CASE p \notin Alive
    BY <2>2, <2>3, <2>5 DEF Life!vars
  <2> QED
    BY <2>4, <2>5
<1>18. CASE UNCHANGED vars
  <2>1. UNCHANGED <<prog, svd, pc>>
    BY <1>18 DEF vars, kernel
  <2>2. Phase' = Phase
    BY <2>1 DEF Phase
  <2> QED
    BY <1>a, <2>1, <2>2
<1> QED
  BY <1>3, <1>4, <1>5, <1>6, <1>7, <1>8, <1>9, <1>10, <1>11, <1>12, <1>13, <1>14, <1>15, <1>16, <1>17,
     <1>18 DEF Next, RunsvStep

\* As long as nobody sends 'k', runsv.c implements the life cycle of runsv(8):
\* ./run and ./finish never overlap, ./finish runs at most once after ./run,
\* and runsv leaves only when the service is down.
THEOREM ImplementsLifeCycle ==
  ASSUME NoKill PROVE Spec => FollowsLifeCycle
<1>1. Init => Life!Init /\ LifeInv
  <2> SUFFICES ASSUME Init PROVE Life!Init /\ LifeInv
    OBVIOUS
  <2>1. live = {}
    BY DEF Init, live
  <2>2. svd[0].pid = NoPid /\ svd[0].state = "down" /\ pc = "boot"
    BY DEF Init, Initial, Svc
  <2>3. Phase = "down" /\ Alive = {}
    BY <2>1, <2>2 DEF Phase, Alive
  <2> QED
    BY <2>1, <2>2, <2>3 DEF Life!Init, LifeInv
<1>2. TypeOK /\ OwnChildInv /\ NoOrphanInv /\ LifeInv /\ [Next]_vars => LifeInv' /\ [Life!Next]_(Life!vars)
  BY LifeInvStep, LifeStep
<1> QED
  BY <1>1, <1>2, TypeCorrect, OwnChildInvariant, NoOrphanInvariant, PTL
     DEF Spec, FollowsLifeCycle, Life!Spec

\* runsv keeps hold of its children from fork() to wait (startservice(), the reap
\* loop and the exit check of runsv.c), unless k makes it forget one.
THEOREM AllChildrenKept ==
  ASSUME NoKill PROVE Spec => []ChildrenKept
BY NoOrphans, ChildrenCollected, ExitsClean, PTL DEF ChildrenKept

-----------------------------------------------------------------------------
(* What supervise/status says while runsv sleeps, if files can be written  *)

\* The file of service i says what runsv knows; or all but the state, which
\* runsv has replaced by S_DOWN.
Exact(i) == sup.status[i] = Summary(svd[i])
Lags(i) ==
  /\ [sup.status[i] EXCEPT !.state = svd[i].state] = Summary(svd[i])
  /\ sup.status[i].state # svd[i].state => svd[i].state = "down"

\* What a step does to the services and their files: nothing, a write of the
\* status of one, or the assignment of ctrl(s, 'k').
Quiet == UNCHANGED svd /\ sup'.status = sup.status
Wrote(i) ==
  /\ \A j \in Svc : j # i => svd'[j] = svd[j] /\ sup'.status[j] = sup.status[j]
  /\ sup'.status[i] = Summary(svd'[i])
Downs(i) == svd' = [svd EXCEPT ![i].state = "down"] /\ sup' = sup

\* update_status() when no call fails.
LEMMA UpdateWrites ==
  ASSUME NEW f \in Supervise, NEW i \in Svc, NEW s \in Svdir, NEW o \in Outcome, ~FsFaults
  PROVE  update_status(f, i, s, o).status = [f.status EXCEPT ![i] = Summary(s)]
<1>1. o = "ok"
  BY DEF Outcome
<1>. DEFINE g == IF f.pidchanged /\ o # "nopid"
                 THEN [f EXCEPT !.pid = [@ EXCEPT ![i] = s.pid], !.pidchanged = FALSE] ELSE f
<1>2. g \in Supervise /\ g.status = f.status /\ ~g.pidchanged
  BY <1>1 DEF Supervise, Svdir
<1>3. update_status(f, i, s, o) = [g EXCEPT !.status = [@ EXCEPT ![i] = Summary(s)]]
  BY <1>1, <1>2 DEF update_status
<1>. HIDE DEF g
<1>. QED
  BY <1>2, <1>3 DEF Supervise

\* The same for a step that ends with such a call, whatever it wrote of i before.
LEMMA UpdateWrote ==
  ASSUME TypeOK, ~FsFaults, NEW i \in Svc, NEW s \in Svdir, NEW o \in Outcome,
         NEW f \in Supervise, \A j \in Svc : j # i => f.status[j] = sup.status[j],
         svd' = [svd EXCEPT ![i] = s], sup' = update_status(f, i, s, o)
  PROVE  Wrote(i)
<1>1. sup'.status = [f.status EXCEPT ![i] = Summary(s)]
  BY UpdateWrites
<1>2. svd'[i] = s /\ \A j \in Svc : j # i => svd'[j] = svd[j]
  BY DEF TypeOK
<1>3. sup'.status[i] = Summary(s) /\ \A j \in Svc : j # i => sup'.status[j] = f.status[j]
  BY <1>1 DEF Supervise
<1>. QED
  BY <1>2, <1>3 DEF Wrote

\* update_status() touches the status of its own service only.
LEMMA UpdateOthers ==
  ASSUME NEW f \in Supervise, NEW i \in Svc, NEW s \in Svdir, NEW o \in Outcome, ~FsFaults,
         NEW j \in Svc, j # i
  PROVE  update_status(f, i, s, o).status[j] = f.status[j]
<1>1. update_status(f, i, s, o).status = [f.status EXCEPT ![i] = Summary(s)]
  BY UpdateWrites, SMTT(40)
<1>2. f.status \in [Svc -> Status]
  BY DEF Supervise
<1>. QED
  BY <1>1, <1>2

LEMMA StopWrites ==
  ASSUME TypeOK, ~FsFaults, NEW i \in Svc, NEW s \in Svdir, NEW f \in Supervise,
         \A j \in Svc : j # i => f.status[j] = sup.status[j], stopservice(i, s, f)
  PROVE  Wrote(i) \/ (svd' = [svd EXCEPT ![i] = s] /\ sup' = f)
<1>1. PICK handled \in custom(i), o \in Outcome :
        /\ svd' = [svd EXCEPT ![i] = StopSvdir(s, handled)]
        /\ sup' = StopFiles(f, i, s, handled, o)
  BY DEF stopservice
<1>2. StopSvdir(s, handled) \in Svdir
  BY DEF StopSvdir, Svdir
<1>3. CASE SendsTerm(s, handled)
  BY <1>1, <1>2, <1>3, UpdateWrote DEF StopFiles
<1>4. CASE ~SendsTerm(s, handled)
  BY <1>1, <1>4 DEF StopFiles, StopSvdir
<1>. QED
  BY <1>3, <1>4

LEMMA StartWrites ==
  ASSUME TypeOK, ~FsFaults, NEW i \in Svc, NEW s \in Svdir, NEW f \in Supervise,
         \A j \in Svc : j # i => f.status[j] = sup.status[j], startservice(i, s, f)
  PROVE  Wrote(i)
<1>. DEFINE t(p) == [pid |-> p, state |-> IF s.state = "finish" THEN "finish" ELSE "run",
                     ctrl |-> {}, want |-> s.want]
            g(handled, o) == IF s.pid # NoPid THEN StopFiles(f, i, s, handled, o) ELSE f
            h(handled, o) == [g(handled, o) EXCEPT !.pidchanged = TRUE]
<1>1. PICK p \in Pid, handled \in custom(i), o1 \in Outcome, o2 \in Outcome :
        /\ svd' = [svd EXCEPT ![i] = t(p)]
        /\ sup' = update_status(h(handled, o1), i, t(p), o2)
  BY DEF startservice
<1>2. t(p) \in Svdir
  BY DEF Svdir, PidOrNone
<1>3. StopSvdir(s, handled) \in Svdir
  BY DEF StopSvdir, Svdir
<1>4. /\ g(handled, o1) \in Supervise
      /\ \A j \in Svc : j # i => g(handled, o1).status[j] = sup.status[j]
  BY <1>3, UpdateType, UpdateOthers, SMTT(40) DEF StopFiles
<1>5. /\ h(handled, o1) \in Supervise
      /\ h(handled, o1).status = g(handled, o1).status
  <2>. HIDE DEF g
  <2>. QED
    BY <1>4 DEF Supervise
<1>. HIDE DEF t, h, g
<1>. QED
  BY <1>1, <1>2, <1>4, <1>5, UpdateWrote

-----------------------------------------------------------------------------
LEMMA CtrlWrites ==
  ASSUME TypeOK, ~FsFaults, NEW i \in Svc, NEW c, ctrl(i, c)
  PROVE  Quiet \/ Wrote(i) \/ (c = "k" /\ Downs(i))
<1>0. svd[i] \in Svdir /\ sup \in Supervise
  BY DEF TypeOK
<1>a. ASSUME NEW w \in {"up", "down", "exit"} PROVE [svd[i] EXCEPT !.want = w] \in Svdir
  BY <1>0 DEF Svdir
<1>b. ASSUME Skip PROVE Quiet
  BY <1>b DEF Skip, Quiet
<1>1. ASSUME NEW w \in {"up", "down", "exit"}, CtrlDown(i, w) PROVE Wrote(i)
  <2>. DEFINE s == [svd[i] EXCEPT !.want = w]
  <2>1. PICK o \in Outcome :
          IF s.state = "run" THEN stopservice(i, s, update_status(sup, i, s, o))
          ELSE svd' = [svd EXCEPT ![i] = s] /\ sup' = update_status(sup, i, s, o) /\ UNCHANGED kernel
    BY <1>1 DEF CtrlDown
  <2>. DEFINE f == update_status(sup, i, s, o)
  <2>2. s \in Svdir
    BY <1>a
  <2>. HIDE DEF s
  <2>3. f \in Supervise /\ \A j \in Svc : j # i => f.status[j] = sup.status[j]
    BY <1>0, <2>2, UpdateType, UpdateOthers
  <2>4. Wrote(i) \/ (svd' = [svd EXCEPT ![i] = s] /\ sup' = f)
    BY <2>1, <2>2, <2>3, StopWrites
  <2>5. CASE svd' = [svd EXCEPT ![i] = s] /\ sup' = f
    BY <1>0, <2>2, <2>5, UpdateWrote
  <2>. QED
    BY <2>4, <2>5
<1>2. ASSUME NEW w \in {"up", "down", "exit"}, CtrlUp(i, w) PROVE Wrote(i)
  <2>. DEFINE s == [svd[i] EXCEPT !.want = w]
  <2>1. PICK o \in Outcome :
          IF s.state = "down" THEN startservice(i, s, update_status(sup, i, s, o))
          ELSE svd' = [svd EXCEPT ![i] = s] /\ sup' = update_status(sup, i, s, o) /\ UNCHANGED kernel
    BY <1>2 DEF CtrlUp
  <2>. DEFINE f == update_status(sup, i, s, o)
  <2>2. s \in Svdir
    BY <1>a
  <2>. HIDE DEF s
  <2>3. f \in Supervise /\ \A j \in Svc : j # i => f.status[j] = sup.status[j]
    BY <1>0, <2>2, UpdateType, UpdateOthers
  <2>4. Wrote(i) \/ (svd' = [svd EXCEPT ![i] = s] /\ sup' = f)
    BY <2>1, <2>2, <2>3, StartWrites
  <2>5. CASE svd' = [svd EXCEPT ![i] = s] /\ sup' = f
    BY <1>0, <2>2, <2>5, UpdateWrote
  <2>. QED
    BY <2>4, <2>5
<1>3. ASSUME CtrlTerm(i) PROVE Quiet \/ Wrote(i)
  <2>1. CASE svd[i].state = "run"
    <3>1. Wrote(i) \/ (svd' = [svd EXCEPT ![i] = svd[i]] /\ sup' = sup)
      BY <1>0, <1>3, <2>1, StopWrites DEF CtrlTerm
    <3>2. [svd EXCEPT ![i] = svd[i]] = svd
      BY DEF TypeOK
    <3>. QED
      BY <3>1, <3>2 DEF Quiet
  <2>2. CASE svd[i].state # "run"
    BY <1>3, <1>b, <2>2 DEF CtrlTerm
  <2>. QED
    BY <2>1, <2>2
<1>4. ASSUME CtrlKill(i) PROVE Downs(i)
  BY <1>4 DEF CtrlKill, Downs
<1>5. ASSUME NEW sig, NEW x \in SUBSET {"TERM", "PAUSE"}, CtrlPause(i, sig, x) PROVE Wrote(i)
  <2>. DEFINE s == [svd[i] EXCEPT !.ctrl = x]
  <2>1. PICK o \in Outcome : svd' = [svd EXCEPT ![i] = s] /\ sup' = update_status(sup, i, s, o)
    BY <1>5 DEF CtrlPause
  <2>2. s \in Svdir
    BY <1>0 DEF Svdir
  <2>. HIDE DEF s
  <2>. QED
    BY <1>0, <2>1, <2>2, UpdateWrote
<1>6. /\ svd[i].ctrl \cup {"PAUSE"} \in SUBSET {"TERM", "PAUSE"}
      /\ svd[i].ctrl \ {"PAUSE"} \in SUBSET {"TERM", "PAUSE"}
  BY <1>0 DEF Svdir
<1>. QED
  BY <1>1, <1>2, <1>3, <1>4, <1>5, <1>6, <1>b DEF ctrl

\* A byte of the control fifo i, if there is one.
ReadsKill(i) == fifo[i] # <<>> /\ Head(fifo[i]) = "k"

\* Every step after the start-up.
LEMMA StepWrites ==
  ASSUME TypeOK, ~FsFaults, [Next]_vars, pc # "boot"
  PROVE  Quiet \/ \E i \in Svc : Wrote(i) \/ (ReadsKill(i) /\ Downs(i))
<1>0. svd[0] \in Svdir /\ svd[1] \in Svdir /\ sup \in Supervise /\ 0 \in Svc /\ 1 \in Svc
  BY DEF TypeOK, Svc
<1>a. ASSUME Skip PROVE Quiet
  BY <1>a DEF Skip, Quiet
<1>b. [sup EXCEPT !.pidchanged = TRUE] \in Supervise /\ [sup EXCEPT !.pidchanged = TRUE].status = sup.status
  BY <1>0 DEF Supervise
<1>1. CASE StartLog
  BY <1>0, <1>1, <1>a, StartWrites DEF StartLog
<1>2. CASE Start
  BY <1>0, <1>2, <1>a, StartWrites DEF Start
<1>3. CASE Reap
  <2>1. PICK p \in zombie : ReapService(p) \/ ReapLog(p) \/ ReapOther(p)
    BY <1>3 DEF Reap
  <2>2. CASE ReapService(p)
    <3>1. PICK finish \in BOOLEAN, o \in Outcome :
            LET s == [svd[0] EXCEPT !.pid = NoPid, !.ctrl = @ \ {"TERM"},
                        !.state = IF svd[0].state # "finish" /\ finish THEN "finish" ELSE "down"]
            IN  /\ svd' = [svd EXCEPT ![0] = s]
                /\ sup' = update_status([sup EXCEPT !.pidchanged = TRUE], 0, s, o)
      BY <2>2 DEF ReapService
    <3>. DEFINE s == [svd[0] EXCEPT !.pid = NoPid, !.ctrl = @ \ {"TERM"},
                        !.state = IF svd[0].state # "finish" /\ finish THEN "finish" ELSE "down"]
    <3>2. s \in Svdir
      BY <1>0 DEF Svdir, PidOrNone
    <3>3. svd' = [svd EXCEPT ![0] = s] /\ sup' = update_status([sup EXCEPT !.pidchanged = TRUE], 0, s, o)
      BY <3>1
    <3>. HIDE DEF s
    <3>4. Wrote(0)
      BY <1>0, <1>b, <3>2, <3>3, UpdateWrote
    <3>. QED
      BY <1>0, <3>4
  <2>3. CASE ReapLog(p)
    <3>. DEFINE s == [svd[1] EXCEPT !.pid = NoPid, !.ctrl = @ \ {"TERM"}, !.state = "down"]
    <3>1. PICK o \in Outcome :
            svd' = [svd EXCEPT ![1] = s] /\ sup' = update_status([sup EXCEPT !.pidchanged = TRUE], 1, s, o)
      BY <2>3 DEF ReapLog
    <3>2. s \in Svdir
      BY <1>0 DEF Svdir, PidOrNone
    <3>. HIDE DEF s
    <3>3. Wrote(1)
      BY <1>0, <1>b, <3>1, <3>2, UpdateWrote
    <3>. QED
      BY <1>0, <3>3
  <2>4. CASE ReapOther(p)
    BY <2>4 DEF ReapOther, Quiet
  <2>. QED
    BY <2>1, <2>2, <2>3, <2>4
<1>4. ASSUME NEW i \in Svc, ReadControl(i)
      PROVE  Quiet \/ Wrote(i) \/ (ReadsKill(i) /\ Downs(i))
  <2>1. Skip \/ (fifo[i] # <<>> /\ ctrl(i, Head(fifo[i])))
    BY <1>4 DEF ReadControl
  <2>. QED
    BY <1>a, <2>1, CtrlWrites DEF ReadsKill
<1>5. CASE Control \/ ControlLog
  BY <1>0, <1>4, <1>5 DEF Control, ControlLog
<1>6. CASE HandleTerm
  <2>1. Skip \/ ctrl(0, "x")
    BY <1>6 DEF HandleTerm
  <2>. QED
    BY <1>0, <1>a, <2>1, CtrlWrites
<1>7. CASE CloseLog
  <2>. DEFINE s == [svd[1] EXCEPT !.want = "exit"]
  <2>1. svd' = [svd EXCEPT ![1] = s] /\ \E o \in Outcome : sup' = update_status(sup, 1, svd'[1], o)
    BY <1>7 DEF CloseLog
  <2>2. s \in Svdir
    BY <1>0 DEF Svdir
  <2>3. svd'[1] = s
    BY <1>0, <2>1 DEF TypeOK
  <2>. HIDE DEF s
  <2>4. Wrote(1)
    BY <1>0, <2>1, <2>2, <2>3, UpdateWrote
  <2>. QED
    BY <1>0, <2>4
<1>8. CASE BootFails \/ Boot
  BY <1>8 DEF BootFails, Boot
<1>9. CASE Wake \/ Timeout \/ ReapDone \/ Exit \/ Stay
  BY <1>9 DEF Wake, Timeout, Resume, ReapDone, Exit, Stay, Quiet
<1>10. CASE \/ \E sig \in {"CHLD", "TERM"} : Deliver(sig)
            \/ \E i \in Svc : UserControl(i)
            \/ UserTerm
            \/ \E p \in Pid : ChildExit(p)
            \/ UNCHANGED vars
  BY <1>10 DEF Deliver, UserControl, UserTerm, ChildExit, vars, Quiet
<1>. QED
  BY <1>1, <1>2, <1>3, <1>5, <1>6, <1>7, <1>8, <1>9, <1>10 DEF Next, RunsvStep

\* The start-up writes the files of the services there are.
LEMMA BootWrites ==
  ASSUME TypeOK, ~FsFaults, Boot
  PROVE  \A i \in Svc : i = 0 \/ haslog' => Exact(i)'
<1>1. PICK w \in {"up", "down"}, l \in {"up", "down"}, o1 \in Outcome, o2 \in Outcome :
        LET f == update_status(sup, 0, Initial(w), o1)
        IN  /\ svd' = [i \in Svc |-> IF i = 0 THEN Initial(w)
                                     ELSE IF haslog' THEN Initial(l) ELSE Initial("up")]
            /\ sup' = IF haslog' THEN update_status(f, 1, Initial(l), o2) ELSE f
  BY Zenon DEF Boot
<1>. DEFINE f == update_status(sup, 0, Initial(w), o1)
<1>2. Initial(w) \in Svdir /\ Initial(l) \in Svdir /\ 0 \in Svc /\ 1 \in Svc
  BY DEF Initial, Svdir, PidOrNone, Svc
<1>3. f \in Supervise /\ f.status[0] = Summary(Initial(w))
  <2>1. sup \in Supervise
    BY DEF TypeOK
  <2>2. f \in Supervise
    BY <1>2, <2>1, UpdateType
  <2>3. f.status = [sup.status EXCEPT ![0] = Summary(Initial(w))]
    BY <1>2, <2>1, UpdateWrites, SMTT(40)
  <2>4. sup.status \in [Svc -> Status]
    BY <2>1 DEF Supervise
  <2>. QED
    BY <1>2, <2>2, <2>3, <2>4
<1>4. sup' = IF haslog' THEN update_status(f, 1, Initial(l), o2) ELSE f
  BY <1>1, Zenon
<1>5. svd'[0] = Initial(w) /\ (haslog' => svd'[1] = Initial(l))
  BY <1>1, <1>2
<1>. HIDE DEF f
<1>6. CASE haslog'
  <2>1. sup'.status = [f.status EXCEPT ![1] = Summary(Initial(l))]
    BY <1>2, <1>3, <1>4, <1>6, UpdateWrites
  <2>2. f.status \in [Svc -> Status]
    BY <1>3 DEF Supervise
  <2>3. sup'.status[0] = Summary(Initial(w)) /\ sup'.status[1] = Summary(Initial(l))
    BY <1>2, <1>3, <2>1, <2>2
  <2>. QED
    BY <1>5, <1>6, <2>3 DEF Exact, Svc
<1>7. CASE ~haslog'
  BY <1>3, <1>4, <1>5, <1>7 DEF Exact, Svc
<1>. QED
  BY <1>6, <1>7

\* After the start-up there is a log service or there is none.
LEMMA HaslogKept ==
  ASSUME [Next]_vars, pc # "boot"
  PROVE  haslog' = haslog /\ (Running' => Running)
<1>1. CASE RunsvStep
  BY <1>1 DEF RunsvStep, BootFails, Boot, StartLog, Start, Wake, Resume, Reap, ReapDone, Control,
              ControlLog, HandleTerm, Exit, CloseLog, Stay, Running
<1>2. CASE ~RunsvStep
  BY <1>2 DEF Next, Timeout, Resume, Deliver, UserControl, UserTerm, ChildExit, vars, Running
<1>. QED
  BY <1>1, <1>2

-----------------------------------------------------------------------------
(* The theorems.  The invariants hold wherever runsv is in its loop.         *)

LagInv == Running /\ ~FsFaults => \A i \in Svc : i = 0 \/ haslog => Lags(i)
ExactInv == Running /\ ~FsFaults => \A i \in Svc : i = 0 \/ haslog => Exact(i)

LEMMA LagStep ==
  ASSUME TypeOK, LagInv, [Next]_vars
  PROVE  LagInv'
<1>. SUFFICES ASSUME Running', ~FsFaults, NEW i \in Svc, i = 0 \/ haslog' PROVE Lags(i)'
  BY DEF LagInv
<1>e. ASSUME Exact(i)' PROVE Lags(i)'
  <2>1. Summary(svd'[i]).state = svd'[i].state
        /\ [Summary(svd'[i]) EXCEPT !.state = svd'[i].state] = Summary(svd'[i])
    BY DEF Summary
  <2>. QED
    BY <1>e, <2>1 DEF Exact, Lags
<1>1. CASE pc = "boot"
  <2>1. Boot
    BY <1>1 DEF Next, RunsvStep, BootFails, StartLog, Start, Wake, Timeout, Resume, Reap, ReapDone,
                Control, ControlLog, HandleTerm, Exit, CloseLog, Stay, Deliver, UserControl,
                UserTerm, ChildExit, vars, Running
  <2>. QED
    BY <1>e, <2>1, BootWrites
<1>2. CASE pc # "boot"
  <2>1. haslog' = haslog /\ Running /\ Lags(i)
    BY <1>2, HaslogKept DEF LagInv
  <2>2. CASE Quiet
    BY <2>1, <2>2 DEF Quiet, Lags
  <2>3. ASSUME NEW j \in Svc, Wrote(j) PROVE Lags(i)'
    <3>1. CASE i = j
      BY <1>e, <2>3, <3>1 DEF Wrote, Exact
    <3>2. CASE i # j
      BY <2>1, <2>3, <3>2 DEF Wrote, Lags
    <3>. QED
      BY <3>1, <3>2
  <2>4. ASSUME NEW j \in Svc, Downs(j) PROVE Lags(i)'
    <3>1. CASE i = j
      <4>1. svd[i] \in Svdir /\ sup.status[i] \in Status
        BY DEF TypeOK, Supervise
      <4>2. svd'[i] = [svd[i] EXCEPT !.state = "down"] /\ sup' = sup
        BY <2>4, <3>1 DEF Downs, TypeOK
      <4>3. /\ svd'[i].state = "down" /\ svd'[i].pid = svd[i].pid
            /\ svd'[i].ctrl = svd[i].ctrl /\ svd'[i].want = svd[i].want
        BY <4>1, <4>2 DEF Svdir
      <4>4. [sup.status[i] EXCEPT !.state = svd[i].state] = Summary(svd[i])
        BY <2>1 DEF Lags
      <4>5. [sup.status[i] EXCEPT !.state = "down"] = Summary(svd'[i])
        <5>. DEFINE st == sup.status[i]
        <5>1. /\ st.pid = svd[i].pid /\ st.paused = ("PAUSE" \in svd[i].ctrl)
              /\ st.term = ("TERM" \in svd[i].ctrl)
              /\ st.want = IF svd[i].want = "up" THEN "u" ELSE "d"
          BY <4>1, <4>4 DEF Summary, Status
        <5>2. [st EXCEPT !.state = "down"] =
                [pid |-> st.pid, paused |-> st.paused, term |-> st.term, want |-> st.want, state |-> "down"]
          BY <4>1 DEF Status
        <5>. QED
          BY <4>3, <5>1, <5>2 DEF Summary
      <4>. QED
        BY <4>2, <4>3, <4>5 DEF Lags
    <3>2. CASE i # j
      BY <2>1, <2>4, <3>2 DEF Downs, Lags, TypeOK
    <3>. QED
      BY <3>1, <3>2
  <2>. QED
    BY <1>2, <2>2, <2>3, <2>4, StepWrites
<1>. QED
  BY <1>1, <1>2

\* While runsv sleeps, the status files lag behind in nothing but a state that
\* the command 'k' replaced by S_DOWN (runsv.c:344-346).
THEOREM StatusTellsAllButState == Spec => []StatusFreshButState
<1>1. Init => LagInv
  BY DEF Init, LagInv, Running
<1>2. TypeOK /\ LagInv /\ [Next]_vars => LagInv'
  BY LagStep
<1>3. LagInv => StatusFreshButState
  BY DEF LagInv, Lags, StatusFreshButState, Running
<1>. QED
  BY <1>1, <1>2, <1>3, TypeCorrect, PTL DEF Spec

\* The fifos hold what users may write.
FifoInv == fifo[0] \in Seq(Commands) /\ fifo[1] \in Seq(LogCommands)

LEMMA FifoStep ==
  ASSUME TypeOK, FifoInv, [Next]_vars
  PROVE  FifoInv'
<1>1. ASSUME NEW i \in Svc, ReadControl(i) PROVE FifoInv'
  <2>1. fifo' = fifo \/ (fifo[i] # <<>> /\ fifo' = [fifo EXCEPT ![i] = Tail(fifo[i])])
    BY <1>1 DEF ReadControl
  <2>2. CASE fifo' = fifo
    BY <2>2 DEF FifoInv
  <2>3. CASE fifo[i] # <<>> /\ fifo' = [fifo EXCEPT ![i] = Tail(fifo[i])]
    <3>1. fifo'[i] = Tail(fifo[i]) /\ \A j \in Svc : j # i => fifo'[j] = fifo[j]
      BY <2>3 DEF TypeOK
    <3>2. CASE i = 0
      BY <2>3, <3>1, <3>2 DEF FifoInv, Svc
    <3>3. CASE i = 1
      BY <2>3, <3>1, <3>3 DEF FifoInv, Svc
    <3>. QED
      BY <3>2, <3>3 DEF Svc
  <2>. QED
    BY <2>1, <2>2, <2>3
<1>2. CASE Control \/ ControlLog
  BY <1>1, <1>2 DEF Control, ControlLog, Svc
<1>3. ASSUME NEW i \in Svc, UserControl(i) PROVE FifoInv'
  BY <1>3 DEF UserControl, FifoInv, TypeOK, Svc
<1>4. CASE BootFails \/ Boot \/ StartLog \/ Start \/ Wake \/ Timeout \/ Reap \/ ReapDone
           \/ HandleTerm \/ Exit \/ CloseLog \/ Stay
  BY <1>4 DEF BootFails, Boot, StartLog, Start, Wake, Timeout, Resume, Reap, ReapDone, HandleTerm,
              Exit, CloseLog, Stay, FifoInv
<1>5. CASE \/ \E sig \in {"CHLD", "TERM"} : Deliver(sig)
           \/ UserTerm
           \/ \E p \in Pid : ChildExit(p)
           \/ UNCHANGED vars
  BY <1>5 DEF Deliver, UserTerm, ChildExit, vars, FifoInv
<1>. QED
  BY <1>2, <1>3, <1>4, <1>5 DEF Next, RunsvStep

LEMMA ExactStep ==
  ASSUME "k" \notin Commands \cup LogCommands, TypeOK, FifoInv, ExactInv, [Next]_vars
  PROVE  ExactInv'
<1>. SUFFICES ASSUME Running', ~FsFaults, NEW i \in Svc, i = 0 \/ haslog' PROVE Exact(i)'
  BY DEF ExactInv
<1>1. CASE pc = "boot"
  <2>1. Boot
    BY <1>1 DEF Next, RunsvStep, BootFails, StartLog, Start, Wake, Timeout, Resume, Reap, ReapDone,
                Control, ControlLog, HandleTerm, Exit, CloseLog, Stay, Deliver, UserControl,
                UserTerm, ChildExit, vars, Running
  <2>. QED
    BY <2>1, BootWrites
<1>2. CASE pc # "boot"
  <2>1. haslog' = haslog /\ Running /\ Exact(i)
    BY <1>2, HaslogKept DEF ExactInv
  <2>2. \A j \in Svc : ~ReadsKill(j)
    BY DEF FifoInv, ReadsKill, Svc
  <2>3. CASE Quiet
    BY <2>1, <2>3 DEF Quiet, Exact
  <2>4. ASSUME NEW j \in Svc, Wrote(j) PROVE Exact(i)'
    BY <2>1, <2>4 DEF Wrote, Exact
  <2>. QED
    BY <1>2, <2>2, <2>3, <2>4, StepWrites
<1>. QED
  BY <1>1, <1>2

\* Without 'k' the status files say what runsv knows whenever it sleeps: every
\* other command, signal and end of a child ends with update_status().
THEOREM StatusTellsAll ==
  ASSUME "k" \notin Commands \cup LogCommands
  PROVE  Spec => []StatusFresh
<1>1. Init => FifoInv /\ ExactInv
  BY DEF Init, FifoInv, ExactInv, Running, Svc
<1>2. TypeOK /\ FifoInv /\ ExactInv /\ [Next]_vars => (FifoInv /\ ExactInv)'
  BY FifoStep, ExactStep
<1>3. ExactInv => StatusFresh
  BY DEF ExactInv, Exact, StatusFresh, Running
<1>. QED
  BY <1>1, <1>2, <1>3, TypeCorrect, PTL DEF Spec

\* Under all commands, k included, runsv signals only its own children and reports
\* nothing wrong but a state (ctrl(), stopservice(), update_status() of runsv.c).
THEOREM KillTolerated == Spec => []SafeUnderKill
BY SignalsOwnChildren, StatusTellsAllButState, PTL DEF SafeUnderKill
=============================================================================
