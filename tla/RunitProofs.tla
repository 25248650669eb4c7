---------------------------- MODULE RunitProofs ----------------------------
(***************************************************************************)
(* Proofs about process 1 (module Runit), for any number of init           *)
(* processes, any number of polls and any sequence of power cycles.        *)
(***************************************************************************)
EXTENDS Runit, TLAPS

USE DEF On, Ends, files, signals, users, machine, vars

\* What ties the stage, its child and its script together: runit waits only
\* with an uncollected child, the shutdown code belongs to stage 2, the code
\* behind the loop to st = 3, and the script of stage 3 to its running child.
StageInv ==
  /\ OneStage
  /\ pc \notin {"fork", "final", "end"} => kid # "none"
  /\ pc \in {"cad", "stop", "term"} => st = 1
  /\ st = 3 <=> pc \in {"final", "end"}
  /\ pc = "end" => power # "on"
  /\ script # "none" => kid = "run" /\ st = 2

Inv == TypeOK /\ StageInv

-----------------------------------------------------------------------------
\* TypeOK in two halves, the Boolean variables and the others.
TypeFlags == sigc \in BOOLEAN /\ sigi \in BOOLEAN /\ selfpipe \in BOOLEAN /\ rofs \in BOOLEAN

TypeData ==
  /\ st \in 0..3
  /\ pc \in {"fork", "poll", "reap", "signals", "cad", "stop", "term", "final", "end"}
  /\ kid \in {"none", "run"} \cup Ends
  /\ script \in {"none", "stop", "umount", "decide"}
  /\ pending \subseteq {"CHLD", "CONT", "INT"}
  /\ i \in 0..Polls
  /\ stopit \in {"absent", "plain", "x"} /\ reboot \in {"absent", "plain", "x"}
  /\ init \in [Inits -> InitSteps]
  /\ asked \subseteq {"halt", "reboot", "cad"} /\ granted \subseteq {"halt", "reboot"}
  /\ power \in {"on", "rebooted", "off"}

LEMMA TypeHalves == TypeOK <=> TypeFlags /\ TypeData
BY DEF TypeOK, TypeFlags, TypeData

LEMMA FlagsStep == TypeFlags /\ [Next]_vars => TypeFlags'
<1> SUFFICES ASSUME TypeFlags, [Next]_vars PROVE TypeFlags'
  OBVIOUS
<1> USE DEF TypeFlags
<1>1. CASE RunitStep
  <2>1. CASE Fork \/ Wake \/ Reap \/ ReapNone
    BY <2>1, Zenon DEF Fork, Wake, Reap, ReapNone
  <2>2. CASE Signals
    BY <2>2, Zenon DEF Signals
  <2>3. CASE CtrlAltDel \/ StopRequested \/ NoRequest \/ TermWait \/ TermDone \/ Final
    BY <2>3, Zenon DEF CtrlAltDel, StopRequested, NoRequest, TermWait, TermDone, Final
  <2>. QED
    BY <1>1, <2>1, <2>2, <2>3, Zenon DEF RunitStep
<1>2. CASE StageStep
  BY <1>2, Zenon DEF StageStep, Stage3Kill, Stage3Umount, Stage3Decide
<1>3. ASSUME NEW sig \in {"CHLD", "CONT", "INT"}, Deliver(sig) PROVE TypeFlags'
  BY <1>3, Zenon DEF Deliver
<1>4. ASSUME NEW w \in Ends, StageEnds(w) PROVE TypeFlags'
  BY <1>4, Zenon DEF StageEnds
<1>5. ASSUME NEW n \in Inits, InitStart(n) \/ InitStep(n) PROVE TypeFlags'
  BY <1>5, Zenon DEF InitStart, InitStep, InitOpen, InitChmod, InitHalt, InitReboot,
     InitChmodReboot, InitCont
<1>6. CASE PressCtrlAltDel \/ PowerOn \/ UNCHANGED vars
  BY <1>6, Zenon DEF PressCtrlAltDel, PowerOn
<1>. QED
  BY <1>1, <1>2, <1>3, <1>4, <1>5, <1>6, Zenon DEF Next

LEMMA DataStep == TypeFlags /\ TypeData /\ StageInv /\ [Next]_vars => TypeData'
<1> SUFFICES ASSUME TypeFlags, TypeData, StageInv, [Next]_vars PROVE TypeData'
  OBVIOUS
<1> USE PollsAssumption DEF TypeData, InitSteps
<1>1. CASE RunitStep
  <2>1a. CASE Fork
    BY <2>1a DEF Fork
  <2>1b. CASE Wake
    BY <2>1b DEF Wake
  <2>1c. CASE ReapNone
    BY <2>1c DEF ReapNone
  <2>2. CASE Reap
    BY <2>2 DEF Reap, EnterStage, NextStage, StageInv
  <2>3. CASE Signals
    BY <2>3 DEF Signals
  <2>4. CASE CtrlAltDel
    BY <2>4 DEF CtrlAltDel, TypeFlags
  <2>5. CASE StopRequested
    <3>1. i' = 0 /\ stopit' = "plain" /\ pc' = "term"
      BY <2>5 DEF StopRequested
    <3>2. UNCHANGED <<st, kid, script, pending, reboot, init, asked, granted, power>>
      BY <2>5 DEF StopRequested
    <3>. QED
      BY <3>1, <3>2
  <2>6. CASE NoRequest
    BY <2>6 DEF NoRequest, TypeFlags
  <2>7. CASE TermWait
    BY <2>7 DEF TermWait
  <2>8. CASE TermDone
    BY <2>8 DEF TermDone, EnterStage
  <2>9. CASE Final
    BY <2>9 DEF Final
  <2>. QED
    BY <1>1, <2>1a, <2>1b, <2>1c, <2>2, <2>3, <2>4, <2>5, <2>6, <2>7, <2>8, <2>9 DEF RunitStep
<1>2. CASE StageStep
  <2>1. CASE Stage3Kill
    BY <2>1 DEF Stage3Kill
  <2>2. CASE Stage3Umount
    BY <2>2 DEF Stage3Umount
  <2>3. CASE Stage3Decide
    BY <2>3 DEF Stage3Decide
  <2>. QED
    BY <1>2, <2>1, <2>2, <2>3 DEF StageStep
<1>3. ASSUME NEW sig \in {"CHLD", "CONT", "INT"}, Deliver(sig) PROVE TypeData'
  BY <1>3 DEF Deliver
<1>4. ASSUME NEW w \in Ends, StageEnds(w) PROVE TypeData'
  BY <1>4 DEF StageEnds
<1>5. ASSUME NEW n \in Inits, InitStart(n) PROVE TypeData'
  <2>1. init' \in [Inits -> InitSteps]
    BY <1>5 DEF InitStart, Goto
  <2>2. asked' \subseteq {"halt", "reboot", "cad"}
    BY <1>5 DEF InitStart
  <2>3. UNCHANGED <<st, pc, kid, script, pending, i, stopit, reboot, granted, power>>
    BY <1>5 DEF InitStart
  <2>. QED
    BY <2>1, <2>2, <2>3
<1>6. ASSUME NEW n \in Inits, InitStep(n) PROVE TypeData'
  <2>1. CASE InitOpen(n)
    BY <2>1 DEF InitOpen, Goto, TypeFlags
  <2>2. CASE InitChmod(n)
    BY <2>2 DEF InitChmod, Goto, TypeFlags
  <2>3. CASE InitHalt(n)
    BY <2>3 DEF InitHalt, Goto, TypeFlags
  <2>4. CASE InitReboot(n)
    BY <2>4 DEF InitReboot, Goto, TypeFlags
  <2>5. CASE InitChmodReboot(n)
    BY <2>5 DEF InitChmodReboot, Goto, TypeFlags
  <2>6. CASE InitCont(n)
    BY <2>6 DEF InitCont, Goto
  <2>. QED
    BY <1>6, <2>1, <2>2, <2>3, <2>4, <2>5, <2>6 DEF InitStep
<1>7. CASE PressCtrlAltDel
  BY <1>7 DEF PressCtrlAltDel
<1>8. CASE PowerOn
  BY <1>8 DEF PowerOn
<1>9. CASE UNCHANGED vars
  BY <1>9
<1>. QED
  BY <1>1, <1>2, <1>3, <1>4, <1>5, <1>6, <1>7, <1>8, <1>9 DEF Next

\* Type correctness needs StageInv: st does not grow beyond 3.
LEMMA TypeStep == Inv /\ [Next]_vars => TypeOK'
<1>1. (TypeFlags /\ TypeData)' => TypeOK'
  BY TypeHalves DEF TypeOK, TypeFlags, TypeData
<1>. QED
  BY <1>1, TypeHalves, FlagsStep, DataStep DEF Inv

\* The steps of the users leave the stage, its child and its script alone.
LEMMA UsersLeaveStage ==
  ASSUME NEW n \in Inits, InitStart(n) \/ InitStep(n)
  PROVE  UNCHANGED <<st, pc, kid, script, power>>
BY DEF InitStart, InitStep, InitOpen, InitChmod, InitHalt, InitReboot, InitChmodReboot, InitCont

LEMMA StageStepInv == Inv /\ [Next]_vars => StageInv'
<1> SUFFICES ASSUME Inv, [Next]_vars PROVE StageInv'
  OBVIOUS
<1> USE DEF Inv, StageInv, OneStage, TypeOK
<1>1. CASE Fork
  BY <1>1 DEF Fork
<1>2. CASE Reap
  BY <1>2 DEF Reap, EnterStage, NextStage
<1>3. CASE TermDone
  BY <1>3 DEF TermDone, EnterStage
<1>4. CASE Wake \/ ReapNone \/ Signals \/ CtrlAltDel \/ StopRequested \/ NoRequest \/ TermWait \/ Final
  BY <1>4 DEF Wake, ReapNone, Signals, CtrlAltDel, StopRequested, NoRequest, TermWait, Final
<1>5. CASE StageStep
  BY <1>5 DEF StageStep, Stage3Kill, Stage3Umount, Stage3Decide
<1>6. ASSUME NEW sig \in {"CHLD", "CONT", "INT"}, Deliver(sig) PROVE StageInv'
  BY <1>6 DEF Deliver
<1>7. ASSUME NEW w \in Ends, StageEnds(w) PROVE StageInv'
  BY <1>7 DEF StageEnds
<1>8. ASSUME NEW n \in Inits, InitStart(n) \/ InitStep(n) PROVE StageInv'
  BY <1>8, UsersLeaveStage
<1>9. CASE PressCtrlAltDel \/ PowerOn \/ UNCHANGED vars
  BY <1>9 DEF PressCtrlAltDel, PowerOn
<1>. QED
  BY <1>1, <1>2, <1>3, <1>4, <1>5, <1>6, <1>7, <1>8, <1>9 DEF Next, RunitStep

LEMMA InvInvariant == Spec => []Inv
<1>1. Init => Inv
  <2>1. Init => TypeFlags
    BY Zenon DEF Init, TypeFlags
  <2>2. Init => TypeData
    BY PollsAssumption DEF Init, TypeData, InitSteps
  <2>3. Init => StageInv
    BY DEF Init, StageInv, OneStage
  <2>. QED
    BY <2>1, <2>2, <2>3, TypeHalves DEF Inv
<1>2. Inv /\ [Next]_vars => Inv'
  BY TypeStep, StageStepInv DEF Inv
<1>. QED
  BY <1>1, <1>2, PTL DEF Spec

-----------------------------------------------------------------------------
\* The variables of process 1, the request files and the init processes stay
\* within their types (runit.c, runit-init.c).
THEOREM RunitTypeCorrect == Spec => []TypeOK
BY InvInvariant, PTL DEF Inv

\* Stage 3 never overlaps stage 2, nor any stage the one before it: no fork()
\* of runit.c:99, and no kill(-1, SIGKILL), with an uncollected stage.
THEOREM StagesDoNotOverlap == Spec => []OneStage
BY InvInvariant, PTL DEF Inv, StageInv

\* A shutdown that has begun is not undone: from runit.c:245 on, stage 2 is not
\* started again and stage 3 is followed by nothing.
THEOREM ShutdownNotUndone == Spec => ShutdownIsFinal
<1> DEFINE Down == On /\ (pc = "term" \/ st >= 2) => pc' = "term" \/ st' >= 2
<1>1. Inv /\ [Next]_vars => [Down]_vars
  <2> SUFFICES ASSUME Inv, Next, On, pc = "term" \/ st >= 2 PROVE pc' = "term" \/ st' >= 2
    BY DEF Down
  <2> USE DEF Inv, StageInv, TypeOK
  <2>1. CASE RunitStep
    BY <2>1 DEF RunitStep, Fork, Wake, Reap, ReapNone, Signals, CtrlAltDel, StopRequested,
       NoRequest, TermWait, TermDone, Final, EnterStage, NextStage
  <2>2. CASE StageStep
    BY <2>2 DEF StageStep, Stage3Kill, Stage3Umount, Stage3Decide
  <2>3. ASSUME NEW sig \in {"CHLD", "CONT", "INT"}, Deliver(sig) PROVE pc' = "term" \/ st' >= 2
    BY <2>3 DEF Deliver
  <2>4. ASSUME NEW w \in Ends, StageEnds(w) PROVE pc' = "term" \/ st' >= 2
    BY <2>4 DEF StageEnds
  <2>5. ASSUME NEW n \in Inits, InitStart(n) \/ InitStep(n) PROVE pc' = "term" \/ st' >= 2
    BY <2>5, UsersLeaveStage
  <2>6. CASE PressCtrlAltDel \/ PowerOn
    BY <2>6 DEF PressCtrlAltDel, PowerOn
  <2>. QED
    BY <2>1, <2>2, <2>3, <2>4, <2>5, <2>6 DEF Next
<1>. QED
  BY <1>1, InvInvariant, PTL DEF Spec, ShutdownIsFinal

-----------------------------------------------------------------------------
\* Why a granted reboot is kept: until stage 3 executes reboot or poweroff only
\* a halt request touches the mode of the file, and nobody removes it.  Spent:
\* that exec has failed, so that the script will not decide again.
Spent == st = 3 \/ (st = 2 /\ kid = "fail")

RebootInv ==
  /\ st = 2 => kid \in {"none", "run", "fail"}
  /\ st = 2 /\ kid = "fail" => script = "none"
  /\ On /\ ~Spent =>
       /\ \A n \in Inits : init[n] = "6_cont" => reboot # "absent"
       /\ "reboot" \in granted => reboot # "absent"
  /\ power = "off" /\ st # 3 => "reboot" \notin granted

LEMMA RebootStep ==
  ASSUME Inv, RebootInv, [Next]_vars
  PROVE  RebootInv'
<1> USE DEF Inv, StageInv, OneStage, TypeOK, RebootInv, Spent
<1>1. CASE RunitStep
  <2>1. CASE Reap \/ TermDone \/ Final
    BY <2>1 DEF Reap, TermDone, Final, EnterStage, NextStage
  <2>2. CASE CtrlAltDel \/ StopRequested
    BY <2>2 DEF CtrlAltDel, StopRequested
  <2>3. CASE Fork \/ Wake \/ ReapNone \/ Signals \/ NoRequest \/ TermWait
    BY <2>3 DEF Fork, Wake, ReapNone, Signals, NoRequest, TermWait
  <2>. QED
    BY <1>1, <2>1, <2>2, <2>3 DEF RunitStep
<1>2. CASE StageStep
  BY <1>2, ExecAssumption DEF StageStep, Stage3Kill, Stage3Umount, Stage3Decide, Stage3Reboots
<1>3. ASSUME NEW sig \in {"CHLD", "CONT", "INT"}, Deliver(sig) PROVE RebootInv'
  BY <1>3 DEF Deliver
<1>4. ASSUME NEW w \in Ends, StageEnds(w) PROVE RebootInv'
  BY <1>4 DEF StageEnds
<1>5. ASSUME NEW n \in Inits, InitStart(n) PROVE RebootInv'
  BY <1>5 DEF InitStart, Goto
<1>6. ASSUME NEW n \in Inits, InitStep(n) PROVE RebootInv'
  <2>1. CASE InitOpen(n) \/ InitChmod(n)
    BY <2>1 DEF InitOpen, InitChmod, Goto
  <2>2. CASE InitHalt(n) \/ InitReboot(n) \/ InitChmodReboot(n)
    BY <2>2 DEF InitHalt, InitReboot, InitChmodReboot, Goto
  <2>3. CASE InitCont(n)
    BY <2>3 DEF InitCont, Goto
  <2>. QED
    BY <1>6, <2>1, <2>2, <2>3 DEF InitStep
<1>7. CASE PressCtrlAltDel \/ PowerOn \/ UNCHANGED vars
  BY <1>7 DEF PressCtrlAltDel, PowerOn
<1>. QED
  BY <1>1, <1>2, <1>3, <1>4, <1>5, <1>6, <1>7 DEF Next

\* Stage 3 never turns a completed "init 6" into a power off, for any interleaving
\* with other init processes, Ctrl-Alt-Del, restarts of stage 2 and earlier boots,
\* and whether or not its programs can be executed (runit-init.c:31-42, configs/runit/3).
THEOREM GrantedRebootKept == Spec => []RebootReboots
<1>1. Init => RebootInv
  BY DEF Init, RebootInv, Spent
<1>2. Inv /\ RebootInv /\ [Next]_vars => RebootInv'
  BY RebootStep
<1>3. RebootInv => RebootReboots
  BY DEF RebootInv, RebootReboots
<1>. QED
  BY <1>1, <1>2, <1>3, InvInvariant, PTL DEF Spec

\* A shutdown is orderly, for any set of init processes and grace period (runit.c,
\* runit-init.c, configs/runit/3).
THEOREM ShutdownsOrderly == Spec => []ShutdownOrderly
BY StagesDoNotOverlap, GrantedRebootKept, PTL DEF ShutdownOrderly
=============================================================================
