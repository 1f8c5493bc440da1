------------------------------ MODULE MCWatches ------------------------------
(* Watches on small instances: subscribers are interchangeable. *)
EXTENDS Watches, TLC

SubscriberSymmetry == Permutations(Subs)
=============================================================================
