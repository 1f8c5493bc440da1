# A verification project for cozyphi

cozyphi is a terminal coding agent: a conversation with a model that runs
tools, sub-agents, shell commands and watches while the user goes on typing.
Its text processing is large; what is hard about it is small and concurrent. A
dozen goroutines share a few mutexes, results travel between components that
each survive a crash differently, and every one of them must shut down while
the others are busy. This project models those parts in TLA+, checks them with
TLC on small instances and proves the central invariants for every instance
with TLAPS.

All paths below are relative to the repository (`internal/...` means
`src/internal/...`). `PROJECT.json` has the exact lines behind every definition
(`map`), the hazards, the runs and the theorems.

1. [The system and its parts](#1-the-system-and-its-parts)
2. [The modules](#2-the-modules)
3. [The runs](#3-the-runs)
4. [Bounds](#4-bounds)
5. [Fairness](#5-fairness)
6. [What is proved](#6-what-is-proved)
7. [Where the code and its words part](#7-where-the-code-and-its-words-part)
8. [What is not modelled](#8-what-is-not-modelled)
9. [The plan](#9-the-plan)

## 1. The system and its parts

### How they interact

```
   user ──Submit, Esc, /resume, /compact──▶ ┌───────────────┐   append     ┌─────────────┐
                                            │ turn scheduler│ ───────────▶ │ session log │
   watches ──WatchEvent (callback)────────▶ │ (Controller)  │              └─────────────┘
   shell tasks ──hint (channel)───────────▶ │               │
   job manager ──onOutcome (callback)─────▶ └───────────────┘
        │  ▲                                  │        │  tools of a turn
        │  └── SpawnWithRunner ◀──────────────┘        ▼
        └──── RunAssignment ──▶ child Controller   edit ledger ──▶ atomic file
                                                   language servers
```

A *turn* is a goroutine in which the agent engine alternates model requests and
tool calls. The turn scheduler decides when one may start. A tool call may
start a job (a sub-agent with a controller of its own), a shell task or a watch;
each of these finishes on its own schedule and its result comes back as a
message of a later turn. The session log is where every message ends up, once.
The file tools of a turn remember in an edit ledger which lines the model has
been shown, and the language tools ask servers that outlive the turn.

### Core components

| component | state | operations | what is hard | what makes it correct |
|---|---|---|---|---|
| **job manager** `internal/job` | slots channel, `pending`, `jobs`, `closed*`; `meta.json` per job | `SpawnWithRunner`, `run`, `Wait`, `Cancel`, `List/Get/Log/PendingOutcomes`, `CloseParent/CloseOwner/Close`, `New` (recovery) | admission spans two critical sections with disk I/O in between; the final write may fail and be retried by any query; three overlapping shutdowns; crash and recovery; a second process on one store | slots neither leak nor double; nothing runs after a close; a job is never lost between memory and disk; only durable results are reported, and they never change; Close returns |
| **session log** `internal/session` | `entries`, `byID`, `leafID`, `flushed`, `hasAssistantMsg`; the JSONL file; the sidecar lock | `Append*`, `AppendDelivery`, `AppendCompaction`, `DropContextEntries`, `Rewind`, `UndoRewind`, `Fork`, `OpenSession`, `Close` | failed and half-finished appends, torn tails, moves that are themselves entries, masks inherited from compaction to compaction | memory equals file; a reopen restores the cursor; deliveries are recorded once and durably; the file only grows |
| **turn scheduler** `internal/tui/controller` | the fields under `streamMu`: running, stopped, generation, prompt queue, watch queue, wake timer, streak, assignment | `StartPrompt`, `Cancel`, `Compact`, `SetPlanApproved`, session switch, `observeWatchEvent`, `notifyOutcome`, `wakeForWatches`, `runLoop`, `finishRun`, `runAssignment`, `Close` | six callers may start a turn; Esc between dequeue and delivery; timers that cannot be taken back; a retained child whose turns belong to jobs | one loop per engine; every prompt delivered once and in order; events and results are not forgotten; wakes are throttled; a returned assignment has no loop left |
| **watches** `internal/watch` | watches with bounded logs, one flood window, subscribers | `Start`, `Stop`, `Subscribe`, `Close`, `emit`, `finish` | send and close of channels by three parties, the flood cut outside the lock, trimmed logs | no panic; the budget holds over all watches; the last event is last and stays queryable; a stopped watch ends |
| **shell tasks** `internal/shelltask` | live and background tasks, history of bounded length, artifacts on disk, one hint | `Run`, `Background`, `Stop`, `Pending`, `Acknowledge`, cleanup, `Close` | one call raced by the end of the turn, a promotion, a stop and the process; eviction against delivery; coalesced hints; shutdown in three stages | each call is answered once; a promoted process survives its turn; results are announced, kept until recorded, and cleaned up |
| **outcome delivery** `internal/tui/controller/outcomes.go`, `internal/job/outcome*.go`, `internal/agent/outcomes.go` | the hint, the wake timer, the streak and the suppression of the controller; `outcome.receipt` per job; the conversation's record | `notifyOutcome`, `wakeForWatches`, `startNextLocked`, `deliverOutcomes`, `PendingOutcomes`, `AcceptOutcome`, `AcknowledgeOutcome`, `agent_wait`, Esc, prompts, changes of the conversation | the hint is not the outcome; batches; a wait and the inbox may both deliver; every read and write may fail; a switch in between | no receipt without a record; no hint lost while the conversation stays; no turn for an outcome already consumed; what was announced is delivered |
| **edit ledger** `internal/tools/editledger`, `readtool`, `writetool` | per engine: the snapshots the model was shown, with the lines granted; their order and limits | `Authorize`, `Claim`, `Release`, `Commit`, `Supersede`; the read, edit and write tools | short tags that collide; snapshots evicted or handed back in any order; writers beside the tool | an edit lands on the contents it was planned against; what was printed stays good |
| **atomic file** `internal/atomicfile` | a registry of path locks with reference counts | `WriteFile` and friends: stage, lock, check, rename, unlock | entries dropped and created while others arrive; writers that know no lock | one writer per path; no cooperating update lost; the registry follows use |
| **language servers** `internal/lsp` | `clients`, `starts`, the circuit breaker; a client's `pending` slots; documents with versions, the disk snapshot, the diagnostics caches | `Query` (join or start, handshake, register, call), the read loop and its end, `Close`; `syncDocument`, `refreshDisk`, `publish`, `diagnostics` | one start for many callers, a breaker asked and told in two steps, callers left by a dead server; publications that come late, twice or before the version they are for; cancelled queries | one usable server; the breaker's bound; no caller hangs; "confirmed" means computed from the text that was read; no publication is slept through |

Every other package is listed in `PROJECT.json` with the reason it is left out;
section 8 groups them.

## 2. The modules

Conventions: an operation that holds one lock throughout is one action. Where
the code releases a lock, reads a file, waits on a channel or writes to disk
between two critical sections, the parts are separate actions and a program
counter says where the goroutine stands. An I/O step has a succeeding and a
failing branch. Variables that belong to no field of the code (ghosts) are
named in the module's header. The operators marked `Mutant:` are not
part of the models: each is a variant of the action after it, in which a plausible
mistake has been made, and shows that the property written for it notices.
`MC*.tla` modules hold model values and symmetry for TLC only.

### JobManager, JobPool

`JobManager` has one `pc` per job which runs through the call of
`SpawnWithRunner` ("admitted", "created", ...) and then through its goroutine
("spawned", "running", "finishing", ...). Correspondence:

| model | code (`internal/job/manager.go`) |
|---|---|
| `slots`, `pending`, `live`, `meta`, `persistErr`, `exited` | `m.slots`, `m.pending`, `m.jobs`, `liveJob.meta/persistErr/done` |
| `barred` | `closed`, `closedParents`, `closedOwners`; a *scope* is the set of jobs a close covers |
| `disk`, `outcome` | the status and `OutcomeID` of `meta.json` |
| `Admit`, `Refuse`, `Create`, `CreateFails`, `SpawnAborted`, `Register`, `DropAdmission`, `Unwind` | the two critical sections of `SpawnWithRunner`, the store call between, its error paths and its deferred cleanup |
| `Start`, `BindSession`, `RunnerReturns`, `CommitOutcome`, `Publish`, `Exit` | `run` up to its deferred block |
| `Reconcile` | `reconcileOutcomeLocked`, used by queries, `Wait` and the closes |
| `Load`, `Read`, `Look`, `Woken`, `TimesOut`, `Cancel*` | `loadInfo` (lock dropped before the disk is read), `Wait`, `Cancel` |
| `CallClose`, `CloseDrained`, `CloseReconcile`, `CloseTimesOut` | `CloseParent`, `CloseOwner`, `Close` |
| `Crash`, `Recover`, `Recovered` | process death and `New` with `recoverStale`, which settles a leftover or reports and passes over one whose record it cannot read (`skipped`) |
| `PeerReads`, `PeerWrites` | `recoverStale` of another process on the same root |

`JobPool` is the contract: places that are taken, run, made durable and freed,
scopes that are shut. `ImplementsPool` states that the manager implements it
under the mapping `Phase`; the mapping says when a place is free for a caller's
purposes although the lock, channels and files disagree for a moment.

### SessionLog

An entry is its position in the file; its contents are a kind, a parent and, for
the kinds that have them, a target, a delivery identity, the kept entry and the
dropped set. `Write` is `appendEntry`: applied, rolled back after a failed
write, or cut short by the death of the process with a clean, open (no newline)
or torn tail. `Open` is `OpenSession` with the trimming of that tail. `Path`,
`Shown` and `ReplayedLeaf` are `walkPath`, `buildSessionContext` and the
cursor's replay, written as recursive functions. `DroppedSet` follows the loop
of `droppedSetLocked` as it stands. `Fork` records what a forked branch contains
and what its source showed, so that the two can be compared.

### TurnScheduler

The record `c` holds the fields `streamMu` guards, and the `...Locked`
functions of the code are operators from record to record (`StartPrompt`,
`StartNext`, `Requeue`, `StopAssignment`, `MaybeResume`, `Complete`,
`DrainWatch`), so an action is a composition of them as in the code. A turn's
goroutine is a record in `c.turns` with a phase: delay, opening, inbox,
inference, boundary, feeding, unwinding, finishing. Model and tools are
nondeterministic. `runner` is the job manager's goroutine inside
`RunAssignment`; `loose` counts timer callbacks that already fired and wait for
the lock. `accepted`, `log`, `rode`, `shed`, `ended`, `excuse`, `recalled` are ghosts
that record what became of prompts and events. An event the session never sees is in
`shed`: the queue was full, or the turn it rode with failed before it appended it. A
prompt given up is in `ended`; that is no place by itself, it needs an `excuse`: an
error row answers it, a stop of the user or of its job took it (Esc after its row was
drawn and before it was appended, a withdrawn approval, the end of the assignment), or
it waited behind an assignment that failed before its first turn. One instance of the
module is one controller: the user's, or (`IsChild`) a retained child's.

### OutcomeDelivery

Extends `JobPool`: its jobs are those of the contract that `JobManager` is shown
to implement, and every step is a step of the pool or leaves it alone
(`KeepsToThePool`, section 6), so nothing here depends on how the manager does
it. `finished` and `hinted` are the last two steps of `run` (the final write, the
callback); `QuerySucceeds` and `QueryFails` are `PendingOutcomes`, which first
retries writes that failed. A query that succeeds passes over an outcome whose
scope it cannot read (`job/outcome.go:89-95`) and returns the others; if it found
none, the hint is dropped (`Dismiss`) although the outcome is pending. The ghost
`skipped` keeps those outcomes. `turn.pc` follows a turn through the inbox ("accept",
"ack", "requery": `deliverOutcomes`, which holds `streamMu` from end to end), the
round, an `agent_wait` and its acknowledgement, and the boundary; `BeginSwitch`,
`Swap` and `EndSwitch` are a change of the conversation. `owed` is a ghost.

The hint and the receipts belong to one controller (its owner identity is a
fresh random text), so a restart ends both. What else wakes a turn is kept out:
watch events and recalled prompts are in `TurnScheduler`, shell results in
`ShellTasks`, crashes in `SessionLog`.

### EditLedger, AtomicFile

`AtomicFile` has one record per writer, the registry with its reference counts
and, per path, the number of the write that made its contents. `Revision` maps
writes to contents, since two writes may produce the same text and the guard of an
edit compares texts. `foreign`, `window` and `lost` are ghosts for writes by
outsiders.

`EditLedger` extends it: an agent is a writer whose calls are those of the
tools. A snapshot is a path and a revision, its grants are sets of lines; `Tag`
is what the model quotes and may be the same for two revisions. `Admit` keeps one
snapshot per path and tag, `Track` forgets the oldest beyond the limit (the order
of arrival is the relation `older`), `Claimed`,
`Release` and `Lands` are a claim, its return and its commit. The calls of an
engine are sequential (`Executor.run`) and a ledger belongs to one engine
(`DefaultTools`, `RebuildSessionTools`). Since Go ranges over a map when a claim is
handed back, `Release` takes any order. A grep is one `Read` for each file it prints,
with nothing in between that touches the ledger. `printed` is a ghost: for each path
the anchors the model saw last, and the path it saw last of all. `Covered` wants the
lines an edit names within one grant; `resolvePair` wants the two ends of a range in
one, and finds a shifted line by its hash (left out).

### LanguageServers, Diagnostics

`LanguageServers` has one record per query, whose `pc` is entered, joining,
starting, allowed, handshaking, registering, serving, writing, written, waiting or
cancelling, the manager's tables for one root, and one entry per *generation*, a server process
with its connection. `done` is the channel a failed connection closes, `swept` the
later moment at which its callers are told. A server may fail to start, answer
garbage or nothing, crash, and stop reading: the writes of a client to a process
that is "deaf" (`Stall`) block, with no bound and under `writeMu`
(`client.go:254-271`), until the process reads again or dies.

`Diagnostics` takes a registered server for granted. `docs`, `recent`, `push` and
`merged` are the client's document store and caches, `scanned` the last snapshot
of the tree the server was told of, `gate` the query inside the barrier. The
barrier scans the whole tree in one step (`Walk`; a file that is gone keeps the
stamp under which it was first missed), then tells the server of all changes but the
one of the query's own document, which its handler sends later, outside the gate.
A query's `beside` are the documents other handlers still had to send when it sent
its own. The server may read a file at any time, before the first scan too (`Load`),
and the reading of an existing file may fail (`Read`). Where `Tell` merges the
reading of a dependency with its sending, and a removal with its `didClose`, nothing
the properties speak of can come in between.
`overlay` and `cached` are what the server knows of the files and `out` its
publications the read loop has not reached. A text is the number of the edit that made it,
and a publication carries the texts it was computed from. `reopened` and `behind`
are ghosts: files whose document was dropped from the store, so that its versions
begin again; and files of which the server missed a new text or the closing
(a cancelled query, a file the handler could not read), was sent an outdated text,
or had read a text older than the first scan saw, which no scan reports. (The component
"diagnostics" of `PROJECT.json` is something else: the program's reports about itself.)

### Watches, ShellTasks

`Watches` has one record per watch ("starting" between registration and launch,
"flooding" between the flood mark and the cancel), the shared flood window with a
clock, and the complete history each channel was ever sent. `panicked` becomes
TRUE where Go would panic.

`ShellTasks` has one record per call of `Run`: its process (stage), its
recorded state, its call (waiting, joining, returned), its receipt and
acknowledgement, and the context of the turn; plus the cleanup queue, the close
stages, the hint, and the conversation's side of the delivery. Every removal of
artifacts may fail, the last one of Close included (`storeErr`: it is reported). Tasks are numbered
by their start, so the history's order is the order of the numbers: `listed` is
the set of those still in it, and eviction takes the least that may go.

## 3. The runs

| run | asks | answer |
|---|---|---|
| `jobs` | Two jobs share one slot while a client waits and cancels, two overlapping closes, one failing write and one crash interleave. | `SlotsExact`, `NeverLosesJob` (on the way from memory to disk; a leftover whose record recovery could not read is the one exception), `AnswersAreDurable`, `OutcomeImmutable`; the manager implements `JobPool` (`ImplementsPool`). |
| `jobs_shared` | The same store is opened by a second process; may shutdown hang or let something slip? | `NothingRunsAfterClose`, and `CloseReturns`. |
| `session_log` | Two owners in turn, failing and interrupted writes, moves, a compaction or a drop, a delivery. | `InStep`: memory and file agree; `ReopenRestores`: the file loads and gives the cursor back; `ReceiptsDurable`, `DeliveredOnce`. |
| `deliveries` | Two children of a conversation end while turns run, wait for them, fail to read or write, are cut, and the conversation is changed. | `AckedIsRecorded`, `HintFitsStore` (no hint lost but for an outcome the query passed over, no turn for nothing), `Delivered`. |
| `turns_root` | The user's controller under a plan: submits, Esc, recall, approvals, a switch, a wake, Close. | `OneLoop`, `PromptsInOrder` (every prompt in exactly one place, given up only with an excuse, and in order), `WakesAreThrottled`. |
| `turns_live` | Events and results against turns, a compaction and a switch, with fairness. | `EventsAccounted` (none lost but by a full queue or with a turn that fails before it appends it), `WorkWakes`, `CloseFinishes`. |
| `turns_child` | A retained child: View assembly, Esc, Leave, a cancelled job, refused follow-ups, a vanishing model. | `FollowUpsPlaced` (at most once; without Esc or a cancel none is dropped except by an error row or behind an assignment that fails before its first turn), `ReturnProvesExit`, `CancelledReturns`. |
| `watches` | Two watches and a subscriber that may be slow or leave; floods, stops, Close. | `NoPanic`, `FloodBudget`, `EndsOnce` (the last event is last and stays queryable), `StoppedEnds`. |
| `shells` | Two calls compete for one place of the history, with failing writes and removals and a shutdown. | `ResultsKept` (calls answered once, artifacts kept until recorded), `PromotionWins`, `HintOwed`, `CloseLeavesNothing` (no process, and no artifact unless Close reports it). |
| `edit_ledger` | An agent reads, searches, edits and writes two paths beside a second writer and an outsider; tags collide, snapshots are evicted. | `EditsMatchTheirRead`, `PrintedAuthorizes` (the anchors shown last always, others until a full ledger makes room), and under them `OneWriterPerPath`, `NoUpdateLost`. |
| `language_servers` | Two callers ask again and again while servers fail to start, crash, answer garbage or nothing or stop reading, and Close comes. | `OneServer`, `BreakerHolds`, `NoQueryHangs` (by a server that is gone, or by Close while every running server reads). |
| `diagnostics` | Two overlapping queries of three files, two of them open, one of which changes, perhaps before the first scan; late publications, failed readings, cancelled queries, an evicted document. | `FreshFitsItsVersion`: what is called confirmed was computed from the text read; `NoLostWakeup`. |

Every run passes. Each property has a mutant in `PROJECT.json`: one definition of
the model replaced by a mistake a programmer might make there, on which TLC finds
the property violated.

## 4. Bounds

The bounds are chosen so that each hazard's actors are all present, and no more
than that:

* *jobs*: two jobs with one slot make admission, refusal and reuse of a slot
  happen; a scope that covers one job and one that covers both overlap; one
  failing write is one path through "kept in memory, retried later"; one crash
  is one recovery. The theorems cover any number of all of these.
* *session log*: five entries are enough for a prompt, an answer, a delivery, a
  move and its undo, or a torn tail behind a compaction; a second owner is
  enough to reopen. `SessionDrops.cfg` needs three compactions, because the second
  inherits the right mask by accident.
* *turns*: two prompts give order and requeueing a meaning; a queue of one event
  overflows; a streak of one is used up. A turn may loop through boundary and
  inference any number of times. Generations are reused names (three are enough
  for the current turn and the next while an old one lingers), so TLC's state
  space is finite without bounding the number of turns. In `turns_root` the model
  stays configured: with a vanishing model, order is not promised, since a
  refused prompt stays queued while a later one may start.
* *watches*: two watches and a budget of two events in two ticks make the shared
  window fill from both and empty one by one; logs of two are trimmed, and
  `FinishedLogKeep` of one shrinks an older finished watch.
* *shells*: one place in the history and two tasks force an eviction; the second task may
  carry a timeout. The limit of live processes is not reached. TLC tells states apart by
  `LiveState`, which leaves out how a recorded process came to its end: nothing reads it
  any more.
* *deliveries*: two jobs of one conversation and batches of one make "more is
  pending" happen; a streak of two is used up once; one fault can strike any read
  or write; the second conversation is where a switch goes. With two faults, two
  cancels and two switches the invariants were checked once on 2.8 million states.
* *edit ledger*: one agent, one other writer, two paths and two writes, the second of
  which shows the tag the file began with; one line is enough for a grant to cover an edit
  or not; two snapshots are tracked, with one grant each, so a third evicts, whether it is
  of the same path or the second file of a grep. The paths are symmetric.
* *language servers*: two callers (one starts, one joins), two servers, one start
  per window: the second generation meets the breaker. The first may stop reading
  (`MayStall`), so the same run has one server that does and one that does not.
* *diagnostics*: two queries, three files and room for two open documents, so that
  opening the third evicts one; one edit, two versions, one publication under way.
  The run starts from a server that has been given some documents (`WarmSpec`), which
  saves the steps that lead there.

`CHECK_DEADLOCK FALSE` appears where the system may rest for good: a closed
session, all calls returned, or the bounds used up.

## 5. Fairness

* *JobManager*: steps of `Spawn`, of the job's goroutine and of a close are
  weakly fair because Go schedules runnable goroutines. A runner has to return
  only once its context is cancelled (its contract). Nobody has to call, and a
  runner never has to finish by itself.
* *TurnScheduler*: steps of a turn and of the job manager's runner, the timer,
  its callback, the end of a switch and the release of a closed session are weakly
  fair. The user need not act and the model need not stop asking for tools:
  `CloseFinishes` must hold even against a turn that would go on for ever.
* *Watches*: launch, the flood's cancel and the end of `Close` are weakly fair.
  That a source ends once cancelled is strongly fair: on its way out it may be
  caught in `emit` again and again, but a killed command has only so much left in
  the pipe. No subscriber need ever read.

* *OutcomeDelivery*: a turn goes on (the model answers or its request fails), an
  armed timer fires, and a runner that wrote its outcome makes its callback. The
  last is strongly fair: it needs `streamMu`, which a delivery keeps taking, and
  Go's mutex starves nobody. A child need not end, a wait need not have a timeout,
  and the user need not do anything; `Delivered` names what may keep an outcome
  waiting for ever.
* *LanguageServers*: goroutines of the client, the manager and `Close` run on, and
  a killed process dies. A server need not answer, need not crash and need not read: a
  goroutine that writes to a server that does not read is not assumed to go on. A
  caller's deadline need not exist: `NoQueryHangs` is about queries whose server
  is gone, and about Close while no running server has stopped reading. What the
  code's words promise beyond that is false (`CloseEnds`, `CancelReturns`, section 7).

`SessionLog`, `ShellTasks`, `AtomicFile`, `EditLedger` and `Diagnostics` are
checked for safety only. That one manager at a time owns a session is the guard
of `Open` in `SessionLog` (the sidecar lock of the code), not a result.

## 6. What is proved

Theorems are in the eight `...Proofs` modules; they hold for every value of the
constants: any jobs, managers, writers, queries, prompts and bounds (finite sets
where something is counted).

**BackgroundProofs**, about what runs behind the conversation. Of the job manager:
`TypeCorrect`, `SlotsAreExact`, `ShutdownReaps`, from

    IInv == TypeOK /\ Shape /\ SlotsExact /\ CloseShape /\ NothingRunsAfterClose

`SlotsExact` is not inductive by itself: a step frees a slot because of where
the job's goroutine stands, so one has to know which jobs are in `pending`,
`jobs` and `persistErr` at each place of the code (`Shape`). `NothingRunsAfterClose`
needs, for a close that is still waiting, that everything it covers and that may
still run is among the channels it collected (`CloseShape`): that is
where the second check of the bars in `Register` is used. Assumed: `Jobs` is
finite, `Covers` maps scopes to sets of jobs, `MaxConcurrent` is positive. The
arithmetic of slots is in three lemmas about cardinalities of `Holders`.

From `IInv` and `StoreInv`, which says for each place of a job's goroutine what its
record on disk is and for each caller what it was told: `NoJobIsLost` (lost is only
a leftover whose record recovery could not read),
`AnswersAreOnDisk`, `OutcomesStand` and the refinement `ManagerIsPool`. The step
between the final write and its publication is the one that matters: the record may
already be terminal on disk while memory still says running, or the other way round
after a failed write, and a query in between must not report what is not durable.
The refinement maps every step of the manager to one step of `JobPool` or to a
stutter; the interesting cases are a crash, which frees places and settles records
at once, and `Recovered`, which opens the scopes. These four are proved under
`~PeerOpens`: with a second process on the same store they are false
(`JobsTwoProcesses.cfg`), while the first three theorems do not need it.

Of the watches: `NoWatchPanics`, `BudgetHolds`, `WatchesEndOnce` and `WatchTypesHold`, from

    WatchInv == Typed /\ FlagTellsClosed /\ ~panicked /\ BudgetExact /\ FloodBudget
                /\ HeardIsTrue /\ FinalLast /\ FinishedKept

A subscriber's channel is closed by its cancel function and by Close; that the flag
they consult tells the truth (`FlagTellsClosed`) is what keeps either from closing
it twice. The budget is a statement about all the events ever shown, the code has
only its window: `BudgetExact` says that the window is the newest part of what was shown
and that what was pruned is old. For `EndsOnce` a last event must have been
heard only of a finished watch (`HeardIsTrue`), of which nothing is shown
again, and a finished watch must keep its last event when logs are trimmed
(`FinishedKept`); that few of them keep more than that is counted through the list of
the newest. Assumed: `FloodLimit`, `LogLimit`, `FinishedLogKeep` and the other
bounds are naturals, the logs keep at least one event.

**SessionLogProofs**: `MemoryIsFile`, `ReceiptsSurvive`, `OneReceipt`,
`FileOnlyGrows`, `FileRestores`, from

    IInv == Shape /\ Unborn /\ Buffered /\ InStep /\ ReceiptsDurable /\ DeliveredOnce

`Buffered` is the point: a manager that has not flushed holds no delivery and
no assistant message, and no file exists then, so the first flush may write
everything without recording anything twice. `Unborn` rules out a second
creation. `Shape` is the part of the type invariant the steps need.
`FileRestores` (`ReopenRestores`) adds `Reopens`: the owner's cursor is where a
replay of its entries would end, for every owner and whatever it has not flushed,
and every entry points at an older one. The replay is a recursive function over the
log; what it computes is pinned down by hand, with a sequence of
intermediate cursors (`Replay`) shown to exist for every log and to agree with any
other on a common prefix, so that appending an entry is one more step
(`ReplayAppend`). Assumed: the
two sentinels are not members of the sets they are distinguished from, bounds are
naturals.

**EditLedgerProofs**, first part, about `AtomicFile`: `Exclusion`,
`UpdatesSurvive`, `RegistryIsExact`, from type correctness, the registry's invariant
(reference counts equal the number of users; writers of one path share one entry; two paths have different ones; an
entry in use is registered), mutual exclusion, and `Approved`: a guarded writer
about to rename has seen what the file holds, unless an outsider wrote inside
the window. The step that needs all of it is `Drop`: the entry may be removed
because the count says nobody else uses it, and the count may be trusted because
nobody can use an entry that is no longer registered. Assumed: finitely many
writers, bounds are naturals.

Second part, about the tools: `ToolsImplementFiles`, every step of the tools is a step
of the file protocol or leaves it alone, so `Exclusion` and `UpdatesSurvive` hold
under the tools; and `EditsLandWhereRead`, from the fact that a call under way
holds the snapshot its guarded write began with. `PrintedStaysGood` says that a claim
and its release cancel out, and that anchors shown before the last fall only to a full
ledger: an eviction leaves the ledger full, and takes the newest only if nothing else
is left (`Spares`, `Good`). For the first the account of an agent is its ledger together with what a
call has taken from it (`Account`): the two never overlap, and together they are
within the limit and have one snapshot of a path for a tag. So whatever comes back
drives nothing out, in any order. Two inductions are done by hand, over the snapshots
handed back and over the least element of a finite order, as arguments about
a least counterexample, since induction theorems cannot be instantiated here.

**OutcomeDeliveryProofs**: `ReceiptsAreRecorded`, `HintFits`, `KeepsToThePool`, from

    IInv == Shape /\ InHand /\ AckedIsRecorded /\ HintOwed /\ NoEmptyWake

The set of unread outcomes moves under everybody's feet: children end, queries
commit what a write failed to, receipts remove from it. What makes the hint
right is that outcomes only become readable in steps that do not drop the hint, and that the
hint is dropped only where the store has just been read with `streamMu` held.
`InHand` says what a batch in delivery is: unread outcomes of this conversation,
recorded before they are acknowledged. The exception is in the theorem: a look at the
store that passes over an outcome is no look at it, and the hint it drops was owed
(`skipped`), until the next hint comes.

**LanguageServersProofs**: `OneServerRuns`, `BreakerNeverOverruns`. The
invariant says that until Close a query between "starting" and "registering" is the one
in `starts` (`Alone`), that a usable server is registered or in that
query's hands (`Known`), and what the breaker remembers at each of its places
(`Counted`). It is `Alone` that turns a check and an update in two critical
sections into one.

**TurnSchedulerProofs**: `WakesThrottled` for every controller; `OneLoopRuns`,
`EventsAreAccounted` and `PromptsStayInOrder` for one the user drives;
`ReturnsAfterTheLoop`, `OneLoopRunsInAChild` and `FollowUpsStayPlaced` for a
retained child. The `...Locked` operators are compositions, so each has a lemma
about any record it is given (it keeps the shape, starts at most one turn, and
only from a record in which none runs). `Single` says that a turn that is not off is
the current one, that the pipeline is taken while it lasts, and that no session
switch is under way then.

*A child.* `OneLoop` and `ReturnProvesExit` are false there with `/compact`
(`TurnsCompact.cfg`), so both are proved for `MaxCompacts = 0`, any number of
cancels, kills and follow-ups otherwise. The invariant `Child` says that only its
runner starts an assignment: whenever the pipeline is taken the assignment is
claimed or over (`Lone`), and a runner that has returned leaves a terminal assignment
behind (`Runners`). A child has no plan (`ChildAssumption`): plans belong to the
session the user drives.

*Events.* `Tally`: every event so far is in the watch queue, rides along with a
turn, was dropped by the queue's limit, was lost with a turn that failed before it
appended it (`TurnsAppend.cfg`), or is in the log. Any other turn gives up what it
carries only where it appends it; the lemmas show for each
`...Locked` operator that it moves events and makes none disappear. Hypotheses:
`MaxCancels = 0`, because Esc does lose them (`TurnsEsc.cfg`), and no plan, since
a withdrawn approval stops turns the same way.

*Prompts.* `InLine`: behind the session's log come, in this order, the prompts of the
current turn (the one that started it, or those taken along at a boundary) and the
queue, each accepted once and in the order of acceptance; a turn that was cut has
put its prompts back in front before another one can start. A prompt given up has an
excuse (`Excused`), and so has each prompt a cut turn will give up when it unwinds,
before it does. Hypothesis:
`~MayLoseModel`, because of `TurnsModel.cfg`; assumed: `None` is no prompt.
Esc, recall, plans, wakes, switches and compactions are all allowed.

*A child's prompts.* `Seated`, for `FollowUpsPlaced`: `Child`; `Placed`, that the
queue, the turn, the runners that have not begun, the log, the error rows and the
composer have no prompt in common and each of them names a prompt once; and, as long as
neither Esc nor a cancelled job has struck (`Quiet`), that together they hold every
accepted prompt or have given it up for an error row or behind an assignment that
failed before its first turn (`Unstruck`). Order is not promised here. That no prompt
has two places needs no more than this. That none is lost does: `runAssignment` returns without looking at its
prompt when it finds the assignment over (the end of `TurnsStop.cfg`), so in a quiet
session this must not happen. `Poise` says so: a runner that has not begun is alone, its
assignment is the controller's, idle and not over, and no session switch goes on. The
one exception is the user's own first assignment after its View failed, and that runner
carries no prompt (`Named`). Model loss, refused admissions, failing binds and Views,
switches and Close are all allowed; hypothesis: `MaxCompacts = 0`, as for `Child`.

**ShellTasksProofs**: `PromotionStands`, `CloseIsComplete`. Nearly every action
changes one task, so each owes one fact about one record (`Tame`): a task its turn
stopped was never promoted before and cannot be after; a task that is over stays
over. `Closing` is the order of Close's three stages and what each may rely on; an
artifact that outlives the last is one Close reports.
`ResultsAreKept` and `HintsAreOwed` come from `Kept`, which ties the three sides of
a delivery together for every task: what the manager still lists, what the call
was answered, and what the conversation has recorded (`Owned`); and that a finished
background result which is listed and unread owes a hint, unless the subscriber is
looking or has seen it (`Announced`). Eviction keeps it because only recorded or
answered tasks may leave the history.

**DiagnosticsProofs**: `NothingIsMissed`, `ConfirmedIsFresh`. A version number
stands in for a text in this code, so the invariant has to justify that. `Barrier`
says where each query is between its scan and its handler, and that scans only
move forward; `Held` and `Told` what the server's view of a file is, by whether its
document is open and whether somebody still owes it a text; `HonestAll`, that for a
document never dropped, whatever carries a version (the store, a
publication under way, the two caches, a waiting query) carries the same text for the
same version, and results at least as new as what was known when the version was
drawn. `FileStep` sums up what a step can do to one document, so each action is
looked at once and the invariant four times. The exceptions in
`FreshFitsItsVersion` (`reopened`, `behind`, `beside`) are each needed, and so is each
way of falling behind: TLC found a counterexample for every one.

**Model-checked only**: all liveness (`CloseReturns`, `Delivered`, `WorkWakes`,
`CloseFinishes`, `CancelledReturns`, `StoppedEnds`, `NoQueryHangs`), which is
beyond the proof system. Every invariant and every action property of a run is
stated by a theorem.

## 7. Where the code and its words part

Where the code does not do what a comment, a document or a name says of it, a
configuration beside the modules checks one property that states those words, and
TLC ends in a counterexample (they are not among the runs, all of which pass). Where
the configuration is that of a run, the property is named in a comment at its end and
takes the place of the run's own:

| configuration | property | what happens |
|---|---|---|
| `Jobs.cfg` | `NoZombies` | Recovery reports and skips a leftover whose `meta.json` it cannot read (`job/manager.go:133-137`), and `New` succeeds: the job stays "running" for ever, `Wait` finds it lost and `Cancel` not running. The comment on `New` (`92-93`): "a process restart does not leave Wait/Cancel zombies". |
| `SessionDrops.cfg` | `DeletedStaysHidden` | A new compaction inherits the mask of the *oldest* compaction on the path (`internal/session/manager.go:373`), the comment says the newest. Three drops in a row bring the second dropped block back. |
| `SessionFork.cfg` | `ForkHidesWhatWasHidden` | The fork's cut is the newest boundary (`fork.go:152`), which may lie before the compaction that hid a block; `doc/fork.md:77` says hidden blocks stay hidden. |
| `TurnsCompact.cfg` | `OneLoop` | In a retained child, `/compact` in the gap between `runAssignment`'s two critical sections starts beside the assignment's first turn: `Compact` does not look at the reservation (`controller.go:2760`), `runAssignment` does not look at `streamRunning` again. This is why `turns_child` has no compactions. |
| `TurnsEsc.cfg` | `EventsAccounted` | Watch events a turn took along when it started (`controller.go:2559`) are gone if Esc cuts it before it appended them; prompts are put back (`2601-2604`), events are not. |
| `TurnsAppend.cfg` | `EventsReach` | Events a turn took along (`controller.go:2564`) are lost when the append that should record them, or the one before, fails (`engine.go:1100`, `1126`). The comment on `observeWatchEvent` (`463`) has them queued for the running or the next turn. |
| `TurnsBind.cfg` | `QueueKept` | A follow-up that cannot bind or assemble its View goes back to the queue, "instead of losing it" (`controller.go:2441`), but what was queued behind it is dropped with its assignment (`followup.go:55`). |
| `TurnsStop.cfg` | `PromptsAccounted` | A job cancelled just before its follow-up's first turn: the context's callback completes the assignment first, `assignment.go:136` then finds it terminal and starts nothing, and the accepted prompt is in no queue. The comment beside it (`138-142`) wants it "back to the queue rather than disappearing", which it does only if the cancel comes a moment later. |
| `TurnsModel.cfg` | `PromptsInOrder` | A prompt queued while a session switches is refused, and stays queued, when no model is configured at the switch's end (`controller.go:2635`). Once a model is back, the next submit starts at once: `StartPrompt` (`controller.go:2452`) looks at the stream and not at the queue, so the later prompt overtakes. The comment at `2635` has the queued one go with "the next turn". |
| `TurnsEscFollowUp.cfg` | `EscKeepsPrompts` | Esc before a follow-up's first turn leaves the assignment "interrupted", and `assignment.go:148` then starts nothing: the follow-up's prompt is in no queue. `Cancel`'s comment (`controller.go:2697`) keeps accepted prompts. |
| `OutcomeReturn.cfg` | `ReturnFindsHint` | The controller has one hint and drops those of a conversation it is not in, so after switching away and back an outcome waits for the next child of its conversation, although results "arrive" by themselves (`doc/tui.md:131-133`). |
| `OutcomeDelivery.cfg` | `HintNeverDropped` | `PendingOutcomes` passes over an outcome whose scope it cannot read and succeeds (`job/outcome.go:89-95`). If it finds no other, the hint is dropped and the outcome waits for the next child. The comment (`outcomes.go:52-53`) has store errors reported at the inbox "without dropping the outcome". |
| `WatchesClose.cfg` | `CloseWaits` | `Start` calls `wg.Add` after it unlocked (`watch.go:225`), so `Close` may return before a registered watch has even begun. |
| `Shells.cfg` | `StoppedWasKilled` | The stop flag is read after the process exited (`shelltask/manager.go:250`), so a process that ended by itself may be reported stopped. |
| `ShellsInbox.cfg` | `ResultsDeliverable` | One result whose receipt could not be written makes `Pending` fail for all the others of its conversation (`manager.go:379`). |
| `EditLedger.cfg` | `AllPrintedAuthorize` | Tracking a snapshot again does not make it younger (`ledger.go:443`), so a grep over more files than the ledger has room for may lose one before its result is shown (`grep.go:543`); "a printed grant is always a real one" (`write.go:106`). |
| `LanguageServers.cfg` | `CloseEnds` | Close writes cancels and the shutdown request before its two seconds count (`client.go:434`); to a server that does not read this never ends, and the kill does not come. `doc/lsp.md:68`: "then the whole process tree is killed". |
| `LanguageServers.cfg` | `CancelReturns` | A query past its deadline writes `$/cancelRequest` under `writeMu`; a server that does not read holds it there. The comment (`client.go:203`): "never block". |
| `LanguageServersDead.cfg` | `DeadGenerationFails` | A caller between writing its request and waiting for the answer takes the empty message the failing connection sends it (`lsp/client.go:286-306`) and returns an empty success (`195-200`); `doc/lsp.md:72` says every pending request fails. |
| `DiagnosticsFresh.cfg` | `FreshIsCurrent` | The barrier invalidates all documents before it tells the server (`lsp/disk.go:83`), and handlers synchronize outside the gate: a query may send its document with a new version before the server hears of the change elsewhere, and the next one takes what was computed from the old sources for current. The barrier also leaves its own target to its handler, which another query may overtake, and a cancelled query's `didClose` is lost (`sync.go:191`: "notified victims are closed with didClose"), so the server keeps the old text open. |
| `DiagnosticsFirst.cfg` | `ReadIsCurrent` | The first scan only fills the snapshot (`disk.go:49-51`): a change between the server's own reading and that scan is never sent, though `doc/lsp.md:85-86` says changes are. |
| `DiagnosticsUnread.cfg` | `OpenIsRefreshed` | An open file the barrier leaves to its handler, or refreshes itself, keeps its old text at the server when it cannot be read (`sync.go:69-83`), and no later barrier reports it. `doc/lsp.md:86-87`: open changed dependencies are refreshed. |
| `JobsTwoProcesses.cfg` | `LiveJobNotMarkedFailed` | A second process's recovery (`job/manager.go:137`) marks a job failed that is running in the first. The repository knows: `obsidian-tasks/job-recovery-process-ownership.md:13`. |

Observed, and not stated as properties: `SetPlanApproved(false)` sets
`streamStopped` on an idle controller; the two plan-resume flags survive a session
switch (`controller.go:2305`); a full subscriber channel loses the last event of a
watch too (as `watch.go:380` says); a prompt submitted and recalled during a
cut turn leaves events waiting for the next submit, by design of the suppression;
the same sequence leaves a pending outcome without a wake. In the language
servers: a start that outlives `Close` registers its client afterwards, which is
why `OneServer` and `BreakerHolds` end with Close; a malformed frame or a failed
write drops the client without killing its process; whoever runs a start ignores
its own cancellation; a cancelled `didChange` has already advanced the stored
version and text (`sync.go:42`; `ServerHasText` of `Diagnostics` fails); versions
of a document start again at 1 after an eviction (`VersionsNeverRepeat` fails).

## 8. What is not modelled

The definitions stand for about 5,400 of the 139,000 lines of the implementation,
some four in a hundred: the project covers the parts where concurrency, crashes
and retries meet, and nothing here speaks about the rest of the program. Much of
that rest draws the terminal interface or is sequential text processing.

Inside the modelled components: a truncate that fails after a failed append, and
sessions never persisted (`SessionLog`); plan patches, model and mode changes,
transcript publishing (`TurnScheduler`); how a source produces events, and
diagnostics (`Watches`); the text and size of output (`ShellTasks`); symbolic
links and swapped directories, which only appear as checks that may refuse
(`AtomicFile`); the reason a dead snapshot gives, re-anchoring of shifted lines
and the splicing of lines (`EditLedger`); pull reports, publications without a
version, servers that take no documents, the queries other than diagnostics, the
wire encoding and byte limits (`LanguageServers`, `Diagnostics`); a tree that
changes during one scan, and a text that comes back unchanged (`Diagnostics`).

Left out as components, each with its reason in `PROJECT.json`:

* planned, with state worth modelling: the agent engine's rounds, session state
  and workspace, the durable plan's gate, the permission broker;
* adapters in front of a modelled component: the sub-agent, watch, shell,
  memory, task and other tools;
* sequential text processing and I/O: search and file tools, configuration,
  providers and clients, compaction's choice of text, history, diagnostics,
  plugins, voice, credentials, utilities, command line;
* drawing and key handling: the terminal interface.

## 9. The plan

Done, in this order, from the most to the less central: the job manager with its
contract and proofs; the session log with its proofs; the turn scheduler; watches;
shell tasks; atomic file replacement with its proofs; the edit ledger over it; the
language servers and their diagnostics; outcome delivery over the job pool; proofs
about the turn scheduler, the shell tasks, the language servers, their diagnostics
and the delivery; the job manager's refinement of its contract.

Next:

1. The permission broker (questions queued to the user, cancelled or granted),
   then the plan gate and the registry of retained children.
2. The agent engine's rounds, composed with `OutcomeDelivery` and `SessionLog`
   instead of a nondeterministic model.
