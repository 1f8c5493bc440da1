------------------------------- MODULE JobPool -------------------------------
(***************************************************************************)
(* What the job manager promises its callers, without its lock, channels,  *)
(* goroutines or files: a pool of MaxConcurrent places that a shutdown of  *)
(* a scope closes for good, and that frees a place a runner held only when *)
(* the runner's outcome is durable.                                        *)
(***************************************************************************)
EXTENDS Integers, FiniteSets

CONSTANTS Jobs, Scopes, Covers, MaxConcurrent

VARIABLES
  phase,    \* "idle", "held", "running", "settled" or "dropped", of each job
  closed,   \* the scopes that were shut down
  durable   \* the jobs whose outcome survives a crash

vars == <<phase, closed, durable>>

Init ==
  /\ phase = [j \in Jobs |-> "idle"]
  /\ closed = {}
  /\ durable = {}

Open(j) == \A s \in closed : j \notin Covers[s]
Occupied == {j \in Jobs : phase[j] \in {"held", "running"}}
Become(j, from, to) == phase[j] = from /\ phase' = [phase EXCEPT ![j] = to]

\* A place is taken, and kept or given back without having run anything.
Take(j) ==
  /\ Open(j) /\ Cardinality(Occupied) < MaxConcurrent
  /\ Become(j, "idle", "held")
  /\ UNCHANGED <<closed, durable>>

Drop(j) ==
  /\ Become(j, "idle", "dropped") \/ Become(j, "held", "dropped")
  /\ UNCHANGED <<closed, durable>>

Start(j) ==
  /\ Open(j)
  /\ Become(j, "held", "running")
  /\ UNCHANGED <<closed, durable>>

Commit(D) ==
  /\ D \subseteq {j \in Jobs : phase[j] = "running"}
  /\ durable' = durable \cup D
  /\ \E S \in SUBSET D : phase' = [j \in Jobs |-> IF j \in S THEN "settled" ELSE phase[j]]
  /\ UNCHANGED closed

\* The place of a runner is free again.
Settle(j) ==
  /\ j \in durable
  /\ Become(j, "running", "settled")
  /\ UNCHANGED <<closed, durable>>

Shut(s) == closed' = closed \cup {s} /\ UNCHANGED <<phase, durable>>

\* The process dies: what was not durable is gone, and nothing is closed.
Lose ==
  /\ closed' = {}
  /\ phase' = [j \in Jobs |->
       CASE phase[j] = "running" /\ j \in durable    -> "settled"
         [] phase[j] = "running" /\ j \notin durable -> "dropped"
         [] phase[j] = "held"                      -> "dropped"
         [] OTHER                                  -> phase[j]]
  /\ UNCHANGED durable

Next ==
  \/ \E j \in Jobs : Take(j) \/ Drop(j) \/ Start(j) \/ Settle(j)
  \/ \E D \in SUBSET Jobs : Commit(D)
  \/ \E s \in Scopes : Shut(s)
  \/ Lose

Spec == Init /\ [][Next]_vars
=============================================================================
