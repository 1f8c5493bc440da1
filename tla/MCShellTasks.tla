---------------------------- MODULE MCShellTasks ----------------------------
(* ShellTasks on small instances: sessions are interchangeable. *)
EXTENDS ShellTasks, TLC

ParentSymmetry == Permutations(Parents)

\* How a process came to its end is of no consequence once it is recorded: no
\* action reads it again, and none of the invariants a run checks with this view
\* does.  States that differ in nothing else are one.
Ended(t) ==
  [t EXCEPT !.lifetime = "canceled", !.stopRequested = TRUE, !.failed = FALSE,
            !.state = IF @ = "running" THEN @ ELSE "completed"]

LiveState ==
  LET over == {id \in Ids : task[id].stage \in {"recorded", "done", "aborted"}}
  IN <<[id \in Ids |-> IF id \in over THEN Ended(task[id]) ELSE task[id]],
       listed, cleanup, manager, hint, outbox, panicked>>
=============================================================================
