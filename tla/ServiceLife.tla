----------------------------- MODULE ServiceLife -----------------------------
(***************************************************************************)
(* What runsv promises about the programs of one service, without saying   *)
(* how: the life cycle of runsv(8).  ./run is started only when nothing of *)
(* the service is left, ./finish runs at most once after each ./run and    *)
(* before the next one, and runsv leaves only when the service is down.    *)
(***************************************************************************)
CONSTANT Pid

VARIABLES
  phase,   \* down, run, due (./finish still to be started), finish, gone
  alive    \* the processes executing ./run or ./finish

vars == <<phase, alive>>

Init == phase = "down" /\ alive = {}

\* A child is started for the program; it may fail before it executes it.
Begin(from, to) ==
  /\ phase = from /\ alive = {}
  /\ phase' = to
  /\ alive' \in {{}} \cup {{p} : p \in Pid}

Die == alive # {} /\ alive' = {} /\ UNCHANGED phase

\* The end of the program is noticed.
Collect(from, to) == phase = from /\ alive = {} /\ phase' = to /\ UNCHANGED alive

Next ==
  \/ Begin("down", "run")
  \/ Die
  \/ Collect("run", "due")
  \/ Collect("run", "down")
  \/ Begin("due", "finish")
  \/ Collect("finish", "down")
  \/ Collect("down", "gone")

Spec == Init /\ [][Next]_vars
=============================================================================
