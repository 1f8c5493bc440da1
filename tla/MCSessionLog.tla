---------------------------- MODULE MCSessionLog ----------------------------
(* Instances of SessionLog for TLC. *)
EXTENDS SessionLog, TLC

CONSTANTS m1, m2, e1, e2

Symmetric == Permutations(Managers)
=============================================================================
