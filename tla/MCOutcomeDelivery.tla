------------------------- MODULE MCOutcomeDelivery -------------------------
EXTENDS OutcomeDelivery, TLC
CONSTANTS j1, j2, c1, c2

BothOfFirst == j1 :> c1 @@ j2 :> c1
NoScopes == [s \in Scopes |-> {}]
=============================================================================
