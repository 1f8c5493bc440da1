----------------------------- MODULE ShellTasks -----------------------------
(***************************************************************************)
(* The shell task manager (src/internal/shelltask): it owns every shell    *)
(* process of the application from birth.  A call of Run waits for its     *)
(* process or is released early when the user promotes the process to the  *)
(* background; a background result is written to disk, signalled, handed   *)
(* to the conversation that started it and acknowledged; the history of    *)
(* background tasks is bounded and only acknowledged ones are evicted.     *)
(*                                                                         *)
(* A task is the number of its call of Run: tool calls have identifiers of *)
(* their own, so the check for a second task of one call never fires, and  *)
(* the oldest of some tasks is the least.                                  *)
(* Output, times and exit codes are left out; that a process exited or was *)
(* killed is kept.                                                         *)
(***************************************************************************)
EXTENDS Naturals, FiniteSets, SequencesExt

CONSTANTS
  MaxRuns,       \* bound: admitted calls of Run
  Parents,       \* the conversations
  MaxLive,       \* MaxLive
  MaxTasks,      \* MaxTasks
  DeliveryLimit, \* outcomes one delivery asks for (shell_tasks.go:105)
  MayFail,       \* disk writes and removals may fail (also one that meets a late acknowledgement)
  Deadlines,     \* the calls that carry a timeout
  MayClose,      \* the application may shut down
  Subscribed     \* the controller subscribed (it has a bus)

ASSUME ShellAssumption ==
  /\ {MaxRuns, MaxLive} \subseteq Nat
  /\ {MaxTasks, DeliveryLimit} \subseteq Nat \ {0}
  /\ {MayFail, MayClose, Subscribed} \subseteq BOOLEAN
  /\ Deadlines \subseteq Nat

VARIABLES
  closed,      \* m.closed
  task,        \* every task, listed or not
  listed,      \* the tasks in m.entries and m.order, which is by start
  cleanup,     \* m.cleanup: the evicted tasks whose artifacts are to go
  cleaner,     \* the cleanup channel and worker: "open", "failed" (cleanupErr), "closed"
  closing,     \* where Close stands
  storeErr,    \* m.storeErr: the store could not be removed, which Close reports
  hint,        \* the subscriber's channel holds an invalidation
  looking,     \* the subscriber took one and has not reconciled yet
  seen,        \* results there were when the subscriber last reconciled
  batch,       \* per conversation, the results its delivery is working through
  receipts,    \* the results recorded in the conversation
  panicked     \* a send on the closed cleanup channel

vars == <<closed, task, listed, cleanup, cleaner, closing, storeErr, hint, looking, seen,
          batch, receipts, panicked>>

manager == <<closed, cleaner, closing, storeErr>>
outbox == <<looking, seen, batch, receipts>>

Ids == 1..Len(task)

\* Where a task's process and record stand: "exited" (by itself) and "killed" are
\* reaped but not yet recorded, "recorded" has its terminal state, "done" its receipt as well.
Gone == {"exited", "killed"}
Stages == {"creating", "running", "recorded", "done", "aborted"} \cup Gone
States == {"running", "completed", "failed", "stopped"}

NewTask(p, background) ==
  [parent |-> p, stage |-> "creating", state |-> "running", background |-> background,
   lifetime |-> "live", stopRequested |-> FALSE, turnStopped |-> FALSE,
   failed |-> FALSE, receipt |-> "none", acknowledged |-> FALSE,
   disk |-> FALSE, turn |-> "live", call |-> "waiting", got |-> "none"]

\* Cancelling a context that already ended changes nothing.
Cancelled(t) == [t EXCEPT !.lifetime = IF @ = "live" THEN "canceled" ELSE @]

StopRequested(t) == [Cancelled(t) EXCEPT !.stopRequested = TRUE]

Live == {id \in listed : task[id].state = "running"}
History == {id \in listed : task[id].background}

\* Mutant: any terminal task may be evicted.
EvictableUndelivered == {id \in History : task[id].state # "running"}

Evictable == {id \in History : task[id].state # "running" /\ task[id].acknowledged}

\* The first k of some tasks, by start.
Oldest(k, ids) == {id \in ids : Cardinality({other \in ids : other < id}) < k}

\* The places Run and a promotion take while they hold the lock.
NoReserve(added) ==
  /\ listed' = listed \cup added
  /\ UNCHANGED <<cleanup, panicked>>

\* reserveBackgroundLocked: a place is free, or the oldest evictable task leaves
\* and its artifacts are queued for removal (the queue holds MaxTasks).
Evict(added) ==
  /\ Len(cleanup) < MaxTasks
  /\ \E id \in Oldest(1, Evictable) :
       /\ listed' = (listed \ {id}) \cup added
       /\ cleanup' = Append(cleanup, id)
  /\ panicked' = (panicked \/ cleaner = "closed")

Reserve(added) ==
  /\ cleaner # "failed"
  /\ IF Cardinality(History) < MaxTasks THEN NoReserve(added) ELSE Evict(added)

\* signalLocked: one invalidation at most waits in the channel.
Signal == hint' = Subscribed

RemoveLocked(id) == listed' = listed \ {id}

-----------------------------------------------------------------------------
Init ==
  /\ closed = FALSE
  /\ task = <<>>
  /\ listed = {}
  /\ cleanup = <<>>
  /\ cleaner = "open"
  /\ closing = "open"
  /\ storeErr = FALSE
  /\ hint = Subscribed    \* Subscribe puts one invalidation in the channel
  /\ looking = FALSE
  /\ seen = {}
  /\ batch = [p \in Parents |-> {}]
  /\ receipts = {}
  /\ panicked = FALSE

\* Mutant: Run does not ask whether the manager was closed.
RunWhenClosed(p, background) ==
  LET id == Len(task) + 1
  IN /\ Len(task) < MaxRuns
     /\ Cardinality(Live) < MaxLive
     /\ IF background THEN Reserve({id}) ELSE NoReserve({id})
     /\ task' = Append(task, NewTask(p, background))
     /\ UNCHANGED <<manager, hint, outbox>>

\* Run, first critical section: admission.  A background task is promoted at birth.
Run(p, background) ==
  LET id == Len(task) + 1
  IN /\ Len(task) < MaxRuns
     /\ ~closed
     /\ Cardinality(Live) < MaxLive
     /\ IF background THEN Reserve({id}) ELSE NoReserve({id})
     /\ task' = Append(task, NewTask(p, background))
     /\ UNCHANGED <<manager, hint, outbox>>

\* Run creates the output file, outside the lock, and starts the process.
Create(id) ==
  /\ task[id].stage = "creating"
  /\ task' = [task EXCEPT ![id].stage = "running", ![id].disk = TRUE]
  /\ Signal
  /\ UNCHANGED <<manager, listed, cleanup, panicked, outbox>>

\* The file cannot be created; the directory may stay if it cannot be removed either.
CreateFails(id) ==
  /\ MayFail
  /\ task[id].stage = "creating"
  /\ \E left \in BOOLEAN :
       task' = [task EXCEPT ![id] = [Cancelled(@) EXCEPT !.stage = "aborted",
                  !.call = "returned", !.got = "error", !.disk = left]]
  /\ RemoveLocked(id)
  /\ Signal
  /\ UNCHANGED <<manager, cleanup, panicked, outbox>>

\* capture: output arrives; when it cannot be written the process is cancelled.
Capture(id, fails) ==
  /\ task[id].stage = "running"
  /\ fails => MayFail
  /\ task' = IF fails THEN [task EXCEPT ![id] = [Cancelled(@) EXCEPT !.failed = TRUE]] ELSE task
  /\ Signal
  /\ UNCHANGED <<manager, listed, cleanup, panicked, outbox>>

\* The deadline passes, in a call that has one.
Expire(id) ==
  /\ id \in Deadlines
  /\ task[id].lifetime = "live"
  /\ task[id].stage \in {"creating", "running"} \cup Gone
  /\ task' = [task EXCEPT ![id].lifetime = "expired"]
  /\ UNCHANGED <<manager, listed, cleanup, hint, panicked, outbox>>

\* execute, until the output file is closed: the process is gone, by its own
\* exit or, once its context ended, by the kill; failed is an error of the
\* runner, the flush or the close.
Exit(id, how, failed) ==
  /\ task[id].stage = "running"
  /\ how = "killed" => task[id].lifetime # "live"
  /\ failed => MayFail
  /\ task' = [task EXCEPT ![id].stage = how, ![id].failed = @ \/ failed]
  /\ UNCHANGED <<manager, listed, cleanup, hint, panicked, outbox>>

\* terminalState; a process that exits by itself may do so with any code.
TerminalStates(t) ==
  IF t.failed THEN {"failed"}
  ELSE IF t.stopRequested \/ t.lifetime = "canceled" THEN {"stopped"}
  ELSE IF t.lifetime = "expired" THEN {"failed"}
  ELSE {"completed", "failed"}

\* execute, its first critical section.
Record(id) ==
  /\ task[id].stage \in Gone
  /\ \E state \in TerminalStates(task[id]) :
       task' = [task EXCEPT ![id].stage = "recorded", ![id].state = state]
  /\ UNCHANGED <<manager, listed, cleanup, hint, panicked, outbox>>

\* Mutant: the end of a task is not signalled.
FinishSilent(id, ok) ==
  /\ task[id].stage = "recorded"
  /\ ~ok => MayFail
  /\ task' = [task EXCEPT ![id] = [Cancelled(@) EXCEPT !.stage = "done",
                                     !.receipt = IF ok THEN "written" ELSE "failed"]]
  /\ UNCHANGED <<manager, listed, cleanup, hint, panicked, outbox>>

\* execute, the rest: result.json is written, then done is closed and signalled.
Finish(id, ok) ==
  /\ task[id].stage = "recorded"
  /\ ~ok => MayFail
  /\ task' = [task EXCEPT ![id] = [Cancelled(@) EXCEPT !.stage = "done",
                                     !.receipt = IF ok THEN "written" ELSE "failed"]]
  /\ Signal
  /\ UNCHANGED <<manager, listed, cleanup, panicked, outbox>>

\* Mutant: promotion does not ask whether the turn has ended or a stop is under way.
BackgroundLate(id) ==
  /\ id \in listed
  /\ ~closed
  /\ task[id].state = "running"
  /\ ~task[id].background
  /\ Reserve({})
  /\ task' = [task EXCEPT ![id].background = TRUE]
  /\ Signal
  /\ UNCHANGED <<manager, outbox>>

\* Background: the user promotes a running foreground task.
Background(id) ==
  /\ id \in listed
  /\ ~closed
  /\ task[id].state = "running"
  /\ ~task[id].background
  /\ task[id].turn = "live"
  /\ ~task[id].stopRequested
  /\ Reserve({})
  /\ task' = [task EXCEPT ![id].background = TRUE]
  /\ Signal
  /\ UNCHANGED <<manager, outbox>>

Stop(id) ==
  /\ id \in listed
  /\ task[id].state = "running"
  /\ ~task[id].stopRequested
  /\ task' = [task EXCEPT ![id] = StopRequested(@)]
  /\ UNCHANGED <<manager, listed, cleanup, hint, panicked, outbox>>

\* The context of the turn that called Run ends.
TurnEnds(id) ==
  /\ task[id].turn = "live"
  /\ task[id].call # "returned"
  /\ task' = [task EXCEPT ![id].turn = "ended"]
  /\ UNCHANGED <<manager, listed, cleanup, hint, panicked, outbox>>

Returned(t, got) == [t EXCEPT !.call = "returned", !.got = got]

\* takeResult: a background task stays in the history, a foreground one leaves;
\* its directory stays behind when it cannot be removed.
TakeResult(id) ==
  IF task[id].background
  THEN /\ task' = [task EXCEPT ![id] = Returned(@, "accepted")]
       /\ UNCHANGED <<listed, hint>>
  ELSE /\ \E left \in BOOLEAN :
            /\ left => MayFail
            /\ task' = [task EXCEPT ![id] =
                  [Returned(@, "result") EXCEPT !.disk = task[id].disk /\ left]]
       /\ RemoveLocked(id)
       /\ Signal

\* Run's select: the process is done.
ReturnDone(id) ==
  /\ task[id].call \in {"waiting", "joining"}
  /\ task[id].stage = "done"
  /\ TakeResult(id)
  /\ UNCHANGED <<manager, cleanup, panicked, outbox>>

\* Run's select: the task was promoted.
ReturnPromoted(id) ==
  /\ task[id].call = "waiting"
  /\ task[id].stage # "creating"
  /\ task[id].background
  /\ task' = [task EXCEPT ![id] = Returned(@, "accepted")]
  /\ UNCHANGED <<manager, listed, cleanup, hint, panicked, outbox>>

\* Run's select: the turn ended.  A promotion that won keeps its process.
SeeTurnEnd(id) ==
  /\ task[id].call = "waiting"
  /\ task[id].stage # "creating"
  /\ task[id].turn = "ended"
  /\ task' = [task EXCEPT ![id] =
       IF @.background THEN Returned(@, "accepted")
       ELSE IF @.state = "running"
            THEN [StopRequested(@) EXCEPT !.turnStopped = TRUE, !.call = "joining"]
            ELSE [@ EXCEPT !.call = "joining"]]
  /\ UNCHANGED <<manager, listed, cleanup, hint, panicked, outbox>>

\* cleanArtifacts: one evicted task's directory.
Clean(ok) ==
  /\ cleanup # <<>>
  /\ ~ok => MayFail
  /\ cleanup' = Tail(cleanup)
  /\ task' = IF ok THEN [task EXCEPT ![Head(cleanup)].disk = FALSE] ELSE task
  /\ cleaner' = IF ok \/ cleaner = "closed" THEN cleaner ELSE "failed"
  /\ UNCHANGED <<closed, closing, storeErr, listed, hint, panicked, outbox>>

-----------------------------------------------------------------------------
(* The subscriber and the delivery (src/internal/tui/controller).          *)

TakeHint ==
  /\ hint /\ ~looking
  /\ hint' = FALSE
  /\ looking' = TRUE
  /\ UNCHANGED <<manager, task, listed, cleanup, seen, batch, receipts, panicked>>

\* The subscriber reconciles: a failed read counts as something pending too.
Look ==
  /\ looking
  /\ looking' = FALSE
  /\ seen' = seen \cup {id \in listed : task[id].stage = "done" /\ task[id].background}
  /\ UNCHANGED <<manager, task, listed, cleanup, hint, batch, receipts, panicked>>

\* Pending: the oldest the conversation has not acknowledged, up to a limit, and
\* whether one whose receipt failed is among them.
Unacknowledged(p) ==
  {id \in listed : /\ task[id].parent = p /\ task[id].background
                   /\ ~task[id].acknowledged /\ task[id].stage = "done"}
Pending(p, limit) == Oldest(limit, Unacknowledged(p))
PendingFails(p, limit) == \E id \in Pending(p, limit) : task[id].receipt = "failed"

\* deliverShellOutcomes asks for its batch, which it works through by start.
Deliver(p) ==
  /\ batch[p] = {}
  /\ ~PendingFails(p, DeliveryLimit)
  /\ Pending(p, DeliveryLimit) # {}
  /\ batch' = [batch EXCEPT ![p] = Pending(p, DeliveryLimit)]
  /\ UNCHANGED <<manager, task, listed, cleanup, hint, looking, seen, receipts, panicked>>

\* AcceptShellOutcome: recording it again is no second record.
Accept(p) ==
  /\ \E id \in Oldest(1, batch[p]) :
       /\ id \notin receipts
       /\ receipts' = receipts \cup {id}
  /\ UNCHANGED <<manager, task, listed, cleanup, hint, looking, seen, batch, panicked>>

\* Acknowledge, after the record: ack.json beside the result, then the flag.
Acknowledge(p) ==
  \E id \in Oldest(1, batch[p]) :
    /\ id \in receipts \cap listed
    /\ task[id].stage = "done" /\ task[id].receipt = "written"
    /\ task[id].disk
    /\ task' = [task EXCEPT ![id].acknowledged = TRUE]
    /\ batch' = [batch EXCEPT ![p] = @ \ {id}]
    /\ UNCHANGED <<manager, listed, cleanup, hint, looking, seen, receipts, panicked>>

\* Either of them fails, and the delivery gives up.
DeliveryFails(p) ==
  /\ MayFail \/ closing = "returned"
  /\ batch[p] # {}
  /\ batch' = [batch EXCEPT ![p] = {}]
  /\ UNCHANGED <<manager, task, listed, cleanup, hint, looking, seen, receipts, panicked>>

-----------------------------------------------------------------------------

\* Close: everything still running is to stop.
Close ==
  /\ MayClose
  /\ ~closed
  /\ closed' = TRUE
  /\ closing' = "joining"
  /\ task' = [id \in Ids |-> IF id \in Live THEN StopRequested(task[id]) ELSE task[id]]
  /\ UNCHANGED <<cleaner, storeErr, listed, cleanup, hint, panicked, outbox>>

\* wg.Wait: Run counts a task before it unlocks, execute or the abort counts it down.
CloseJoined ==
  /\ closing = "joining"
  /\ \A id \in Ids : task[id].stage \in {"done", "aborted"}
  /\ closing' = "cleaning"
  /\ cleaner' = "closed"
  /\ UNCHANGED <<closed, storeErr, task, listed, cleanup, hint, panicked, outbox>>

\* The cleanup worker is through; the store is removed and Close returns.  A removal
\* that fails may leave any of the artifacts, and Close reports it.
CloseRemoves(ok) ==
  /\ closing = "cleaning"
  /\ cleanup = <<>>
  /\ ~ok => MayFail
  /\ closing' = "returned"
  /\ storeErr' = ~ok
  /\ \E left \in IF ok THEN {{}} ELSE SUBSET Ids :
       task' = [id \in Ids |-> [task[id] EXCEPT !.disk = @ /\ id \in left]]
  /\ UNCHANGED <<closed, cleaner, listed, cleanup, hint, panicked, outbox>>

TaskStep(id) ==
  \/ Create(id) \/ CreateFails(id) \/ Expire(id) \/ Record(id) \/ Background(id) \/ Stop(id)
  \/ TurnEnds(id) \/ ReturnDone(id) \/ ReturnPromoted(id) \/ SeeTurnEnd(id)
  \/ \E fails \in BOOLEAN : Capture(id, fails) \/ Finish(id, ~fails)
  \/ \E how \in Gone, failed \in BOOLEAN : Exit(id, how, failed)

ParentStep(p) ==
  \/ \E background \in BOOLEAN : Run(p, background)
  \/ Deliver(p) \/ Accept(p) \/ Acknowledge(p) \/ DeliveryFails(p)

Next ==
  \/ \E p \in Parents : ParentStep(p)
  \/ \E id \in Ids : TaskStep(id)
  \/ \E ok \in BOOLEAN : Clean(ok) \/ CloseRemoves(ok)
  \/ TakeHint \/ Look
  \/ Close \/ CloseJoined

Spec == Init /\ [][Next]_vars

-----------------------------------------------------------------------------
Task == [parent : Parents, stage : Stages, state : States, background : BOOLEAN,
         lifetime : {"live", "canceled", "expired"}, stopRequested : BOOLEAN,
         turnStopped : BOOLEAN, failed : BOOLEAN,
         receipt : {"none", "written", "failed"},
         acknowledged : BOOLEAN, disk : BOOLEAN, turn : {"live", "ended"},
         call : {"waiting", "joining", "returned"},
         got : {"none", "result", "accepted", "error"}]

TypeOK ==
  /\ closed \in BOOLEAN
  /\ task \in Seq(Task)
  /\ listed \subseteq Ids
  /\ cleanup \in Seq(Ids) /\ listed \cap Range(cleanup) = {}
  /\ cleaner \in {"open", "failed", "closed"}
  /\ closing \in {"open", "joining", "cleaning", "returned"}
  /\ storeErr \in BOOLEAN
  /\ hint \in BOOLEAN /\ looking \in BOOLEAN
  /\ seen \subseteq Ids /\ receipts \subseteq Ids
  /\ batch \in [Parents -> SUBSET Ids]
  /\ panicked \in BOOLEAN

\* At most MaxTasks background tasks are kept, whether they were born there or
\* promoted, though a place is made only by evicting one whose result the
\* conversation has recorded.
Bounded == Cardinality(History) <= MaxTasks

\* Every call that started a process is answered exactly once: with the result,
\* which then never reaches the inbox, or with an acceptance, and then the
\* result stays in the manager until the conversation has recorded it.
AnsweredOnce ==
  \A id \in Ids : task[id].call = "returned" /\ task[id].stage # "aborted" =>
    \/ task[id].got = "result" /\ ~task[id].background /\ id \notin receipts \cup listed
    \/ task[id].got = "accepted" /\ task[id].background /\ id \in receipts \cup listed

\* "A user promotion that won owns the process independently of this turn"
\* (manager.go:182): the end of a turn never stops a background process.
PromotionWins == \A id \in Ids : task[id].turnStopped => ~task[id].background

\* No result waits unheard of: until the subscriber has reconciled with it, an
\* invalidation is in the channel or being looked into, however often hints
\* were coalesced.
HintOwed ==
  \A id \in listed : Subscribed /\ task[id].background /\ task[id].stage = "done" =>
    hint \/ looking \/ id \in seen

\* The artifacts of a result nobody has recorded yet stay on disk.
ArtifactsKept ==
  closing # "returned" => \A id \in listed \ receipts :
    task[id].stage \in {"running", "recorded", "done"} \cup Gone => task[id].disk

\* A result is somebody's until it was recorded, and its artifacts with it.
ResultsKept == AnsweredOnce /\ ArtifactsKept

\* When Close returns every process was joined, nothing was sent to the cleanup
\* worker after its channel was closed, and no artifact is left but those whose
\* removal failed, which Close reports: no call admitted, promoted or evicting
\* meanwhile writes one behind it.
CloseLeavesNothing ==
  /\ ~panicked
  /\ closing = "returned" =>
       \A id \in Ids : /\ task[id].stage \in {"done", "aborted"}
                       /\ task[id].disk => storeErr

\* "A stopped process never reached an exit of its own" (manager.go:250).
StoppedWasKilled ==
  [][\A id \in Ids : task[id].stage = "exited" => task'[id].state # "stopped"]_vars

\* "Completion arrives automatically" (doc/shell-tasks.md:16): a result on disk
\* can be delivered whatever became of the others.
ResultsDeliverable ==
  \A id \in listed :
    task[id].background /\ task[id].receipt = "written" /\ ~task[id].acknowledged =>
      ~PendingFails(task[id].parent, DeliveryLimit)

=============================================================================
