----------------------------- MODULE MCRunsvdir -----------------------------
(***************************************************************************)
(* Instances of Runsvdir for TLC.                                          *)
(***************************************************************************)
EXTENDS Runsvdir, TLC

Symmetry == Permutations(Dir) \cup Permutations(Ino) \cup Permutations(Pid)
=============================================================================
