---------------------------- MODULE MCJobManager ----------------------------
(* Instances of JobManager for TLC. *)
EXTENDS JobManager, TLC

CONSTANTS j1, j2, j3, closeParent, closeOwner, closeAll, q1

\* The first and the third job share a parent; the last two share an owner.
MCCovers == [s \in Scopes |->
  CASE s = closeParent -> {j1, j3} \cap Jobs
    [] s = closeOwner  -> {j2, j3} \cap Jobs
    [] s = closeAll    -> Jobs]
=============================================================================
