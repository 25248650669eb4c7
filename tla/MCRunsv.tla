------------------------------ MODULE MCRunsv ------------------------------
(* Instances of Runsv for TLC. *)
EXTENDS Runsv, TLC
Symmetry == Permutations(Pid)
=============================================================================
