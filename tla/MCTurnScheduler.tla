-------------------------- MODULE MCTurnScheduler --------------------------
(* Instances of TurnScheduler for TLC. *)
EXTENDS TurnScheduler, TLC

PromptSymmetry == Permutations(Prompts)

=============================================================================
