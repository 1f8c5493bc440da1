---------------------------- MODULE MCEditLedger ----------------------------
(* EditLedger on small instances.  The second write shows the tag the file  *)
(* began with.                                                             *)
EXTENDS EditLedger, TLC

MCRevision == 0 :> 0 @@ 1 :> 1 @@ 2 :> 2
MCTag == 0 :> "a" @@ 1 :> "b" @@ 2 :> "a"

PathSymmetry == Permutations(Paths)
=============================================================================
