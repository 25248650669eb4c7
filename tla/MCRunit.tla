------------------------------ MODULE MCRunit ------------------------------
(***************************************************************************)
(* Instances of Runit for TLC.                                             *)
(***************************************************************************)
EXTENDS Runit

CONSTANTS n1, n2
=============================================================================
