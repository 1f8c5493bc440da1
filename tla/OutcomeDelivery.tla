-------------------------- MODULE OutcomeDelivery --------------------------
(***************************************************************************)
(* How the outcome of a child job reaches the model of the conversation    *)
(* that spawned it: src/internal/tui/controller/outcomes.go and the wakes  *)
(* in controller.go, src/internal/job/outcome.go and outcome_recovery.go,  *)
(* src/internal/agent/outcomes.go and the rounds of its Loop.              *)
(*                                                                         *)
(* The jobs are those of the pool contract: JobManager is shown to         *)
(* implement JobPool, so what holds of deliveries here needs of the        *)
(* manager only that contract.  A job that is done gives the controller a  *)
(* hint; the outcome itself stays in the job store until the conversation  *)
(* has recorded it, by the inbox at the head of a round or as the result   *)
(* of an explicit agent_wait, and a receipt is written beside it.          *)
(*                                                                         *)
(* The hint and the receipts belong to one controller: a restart, and      *)
(* Close, end them.  Watch events and the timer's own races are those of   *)
(* TurnScheduler, entries and crashes those of SessionLog.                 *)
(***************************************************************************)
EXTENDS JobPool

CONSTANTS
  Conversations,  \* the conversations one controller can be in
  Parent,         \* the conversation that spawns each job
  None,           \* no conversation, no job
  Batch,          \* outcomes delivered at one boundary (4 in the code)
  MaxWakeStreak,  \* turns in a row that no user asked for (5 in the code)
  MaxFaults,      \* bound: reads and writes that fail
  MaxPrompts,     \* bound: prompts of the user
  MaxCancels,     \* bound: presses of Esc
  MaxSwitches     \* bound: changes of the conversation

ASSUME ParentAssumption == Parent \in [Jobs -> Conversations]
ASSUME NoneAssumption == None \notin Conversations /\ None \notin Jobs

VARIABLES
  finished,    \* jobs whose run() has tried its final write
  hinted,      \* jobs whose onOutcome call was made
  receipts,    \* jobs with a complete outcome.receipt
  log,         \* the outcomes each conversation has recorded
  current,     \* the conversation of the engine
  hint,        \* c.outcomeParent
  timer,       \* c.watchWake is armed
  streak,      \* c.wakeStreak
  suppressed,  \* c.wakeSuppressed
  stopped,     \* c.streamStopped
  queued,      \* how many prompts wait in c.promptQueue
  turn,        \* where the turn is, why it began, the outcomes it has in hand
  used,        \* what was consumed of the bounds
  owed,        \* history: hints taken since the conversation was entered
  skipped      \* history: outcomes of the conversation a query passed over when
               \* it dropped the hint, and no hint has come since

jobVars == <<phase, closed, durable, finished, hinted>>
storeVars == <<receipts, log>>
wakeVars == <<hint, timer, streak, suppressed, owed, skipped>>
turnVars == <<turn, stopped, queued, current>>
ovars == <<jobVars, storeVars, wakeVars, turnVars, used>>

NoTurn == [pc |-> "off", cause |-> "none", batch |-> {}, job |-> None]

OutcomeInit ==
  /\ Init
  /\ finished = {} /\ hinted = {} /\ receipts = {} /\ owed = {} /\ skipped = {}
  /\ log = [p \in Conversations |-> {}]
  /\ current \in Conversations
  /\ hint = None
  /\ timer = FALSE /\ suppressed = FALSE /\ stopped = FALSE
  /\ streak = 0 /\ queued = 0
  /\ turn = NoTurn
  /\ used = [faults |-> 0, prompts |-> 0, cancels |-> 0, switches |-> 0]

At(where) == turn.pc = where
Goto(where) == turn' = [turn EXCEPT !.pc = where]
\* c.streamRunning, which a switch leaves alone.
Running == turn.pc \notin {"off", "switching", "switched"}
\* deliverOutcomes holds streamMu from its first step to its last.
StreamFree == turn.pc \notin {"accept", "ack", "requery"}

Spend(what, limit) == used[what] < limit /\ used' = [used EXCEPT ![what] = @ + 1]
Fault == Spend("faults", MaxFaults)

(***************************************************************************)
(* The jobs.                                                               *)
(***************************************************************************)

\* The spawn tool, in a round of the conversation that becomes the parent.
Spawn(j) ==
  /\ At("round") /\ Parent[j] = current
  /\ Take(j)
  /\ UNCHANGED <<finished, hinted, storeVars, wakeVars, turnVars, used>>

\* Spawn returns with the job running, or with its place given back.
Admit(j) ==
  /\ phase[j] = "held"
  /\ Start(j) \/ Drop(j)
  /\ UNCHANGED <<finished, hinted, storeVars, wakeVars, turnVars, used>>

\* run() writes the terminal status and the outcome at once, or fails to.
Finish(j) ==
  /\ phase[j] = "running" /\ j \notin finished
  /\ finished' = finished \cup {j}
  /\ \/ durable' = durable \cup {j} /\ UNCHANGED used
     \/ Fault /\ UNCHANGED durable
  /\ UNCHANGED <<phase, closed, hinted, storeVars, wakeVars, turnVars>>

\* notifyOutcome, called by run() after the write, whatever became of it.  It
\* does not ask whether a switch is under way: the timer will.
Hint(j) ==
  /\ StreamFree
  /\ j \in finished \ hinted
  /\ hinted' = hinted \cup {j}
  /\ IF Parent[j] = current
       THEN /\ hint' = current
            /\ owed' = owed \cup {j} /\ skipped' = {}
            /\ timer' = (timer \/ (~Running /\ ~suppressed /\ streak < MaxWakeStreak))
       ELSE UNCHANGED <<hint, owed, skipped, timer>>
  /\ UNCHANGED <<phase, closed, durable, finished, storeVars, streak, suppressed, turnVars, used>>

\* run() returns, and its place is free if its outcome is durable.
Exit(j) ==
  /\ j \in hinted
  /\ Settle(j)
  /\ UNCHANGED <<finished, hinted, storeVars, wakeVars, turnVars, used>>

(***************************************************************************)
(* PendingOutcomes: writes that failed are retried first, then the store   *)
(* is read.                                                                *)
(***************************************************************************)

Unwritten(p) == {j \in finished \ durable : Parent[j] = p}
Unread(D) == {j \in D \ receipts : Parent[j] = current}

\* The query passes over the outcomes in X, whose scope.json it cannot read:
\* that error is only reported, and the query succeeds without them.
QuerySucceeds(X) ==
  /\ Commit(Unwritten(current))
  /\ X \subseteq Unread(durable')
  /\ \/ X = {} /\ UNCHANGED used
     \/ X # {} /\ Fault
Found(X) == Unread(durable') \ X

\* Any other error fails the query: a retried write, meta.json, a receipt.
QueryFails == Fault /\ \E D \in SUBSET Unwritten(current) : Commit(D)

\* What the query found decides whether the hint is still good.
Dismiss(X) ==
  IF Found(X) = {} THEN hint' = None /\ skipped' = skipped \cup X
                   ELSE UNCHANGED <<hint, skipped>>

(***************************************************************************)
(* Turns that begin.                                                       *)
(***************************************************************************)

Begin(cause) == turn' = [NoTurn EXCEPT !.pc = "inbox", !.cause = cause]
Autonomous(cause) == Begin(cause) /\ streak' = streak + 1
NoStart == turn' = NoTurn /\ UNCHANGED streak

\* reconcileOutcomeHintLocked: a hint is no evidence that its outcome is still
\* unread, and an error is no evidence that it is not.
Reconcile ==
  \/ \E X \in SUBSET Jobs :
       /\ QuerySucceeds(X) /\ Dismiss(X)
       /\ IF Found(X) # {} /\ streak < MaxWakeStreak THEN Autonomous("outcome") ELSE NoStart
  \/ /\ QueryFails
     /\ UNCHANGED <<hint, skipped>>
     /\ IF streak < MaxWakeStreak THEN Autonomous("error") ELSE NoStart

\* Mutant: a hint that came during the turn is left to the timer.
StartNextQueued ==
  /\ stopped' = FALSE
  /\ IF queued > 0
       THEN Begin("user") /\ queued' = queued - 1 /\ timer' = FALSE /\ UNCHANGED streak
       ELSE NoStart /\ UNCHANGED <<queued, timer>>
  /\ UNCHANGED <<phase, closed, durable, hint, skipped, used>>

\* startNextLocked, after a turn or a switch: queued prompts come first.  A
\* turn that starts takes the watch queue with it, and its timer.
StartNext ==
  /\ stopped' = FALSE
  /\ CASE queued > 0 ->
            /\ Begin("user") /\ queued' = queued - 1
            /\ UNCHANGED <<phase, closed, durable, hint, skipped, streak, used>>
       [] queued = 0 /\ ~stopped /\ ~suppressed /\ hint = current ->
            Reconcile /\ UNCHANGED queued
       [] OTHER ->
            NoStart /\ UNCHANGED <<phase, closed, durable, hint, skipped, queued, used>>
  /\ timer' = (timer /\ turn'.pc = "off")

MayWake ==
  At("off") /\ ~suppressed /\ hint = current /\ streak < MaxWakeStreak

\* The timer fires and looks at everything again.
Wake ==
  /\ timer /\ StreamFree
  /\ timer' = FALSE
  /\ IF MayWake
       THEN Reconcile
       ELSE UNCHANGED <<phase, closed, durable, hint, skipped, turn, streak, used>>
  /\ UNCHANGED <<finished, hinted, storeVars, suppressed, owed, stopped, queued, current>>

\* StartPrompt: the user said something, so the throttles start over.
Prompt ==
  /\ StreamFree
  /\ Spend("prompts", MaxPrompts)
  /\ streak' = 0 /\ suppressed' = FALSE
  /\ \/ At("off") /\ Begin("user") /\ timer' = FALSE /\ UNCHANGED queued
     \/ ~At("off") /\ queued' = queued + 1 /\ UNCHANGED <<turn, timer>>
  /\ UNCHANGED <<jobVars, storeVars, hint, owed, skipped, stopped, current>>

\* Esc: the turn is cut, and nothing starts by itself until the user speaks.
Esc ==
  /\ StreamFree
  /\ Spend("cancels", MaxCancels)
  /\ suppressed' = TRUE
  /\ timer' = FALSE
  /\ stopped' = (stopped \/ ~At("off"))
  /\ UNCHANGED <<jobVars, storeVars, hint, streak, owed, skipped, turn, queued, current>>

(***************************************************************************)
(* Resume and Clear: an idle session is reserved, its engine replaced (or  *)
(* not, when the replacement cannot be opened), and admission reopened.    *)
(* The hint stays as it is.                                                *)
(***************************************************************************)

BeginSwitch ==
  /\ At("off") /\ queued = 0
  /\ Spend("switches", MaxSwitches)
  /\ Goto("switching")
  /\ UNCHANGED <<jobVars, storeVars, wakeVars, stopped, queued, current>>

Swap(p) ==
  /\ At("switching") /\ p # current
  /\ current' = p
  /\ owed' = {} /\ skipped' = {}
  /\ Goto("switched")
  /\ UNCHANGED <<jobVars, storeVars, hint, timer, streak, suppressed, stopped, queued, used>>

EndSwitch ==
  /\ At("switching") \/ At("switched")
  /\ StartNext
  /\ UNCHANGED <<finished, hinted, storeVars, suppressed, owed, current>>

FinishRun ==
  /\ At("ending")
  /\ StartNext
  /\ UNCHANGED <<finished, hinted, storeVars, suppressed, owed, current>>

(***************************************************************************)
(* The inbox at the head of a round: a batch is recorded and acknowledged  *)
(* outcome by outcome, and what fails is left for a turn the user asks for.*)
(***************************************************************************)

InboxFails == suppressed' = TRUE /\ Goto("ending")
Batches(S) ==
  {B \in SUBSET S : Cardinality(B) = IF Batch < Cardinality(S) THEN Batch ELSE Cardinality(S)}

\* A prompt that cannot be appended ends its turn before the inbox is asked.
LosePrompt ==
  /\ At("inbox") /\ turn.cause = "user"
  /\ Fault
  /\ Goto("ending")
  /\ UNCHANGED <<jobVars, storeVars, wakeVars, stopped, queued, current>>

Inbox ==
  /\ At("inbox")
  /\ CASE stopped ->
            Goto("ending") /\ UNCHANGED <<phase, closed, durable, suppressed, used>>
       [] ~stopped /\ hint # current ->
            /\ turn' = [NoTurn EXCEPT !.pc = "round"]
            /\ UNCHANGED <<phase, closed, durable, suppressed, used>>
       [] OTHER ->
            \/ \E X \in SUBSET Jobs :
                 /\ QuerySucceeds(X) /\ UNCHANGED suppressed
                 /\ \E B \in Batches(Found(X)) :
                      turn' = [NoTurn EXCEPT !.pc = IF B = {} THEN "requery" ELSE "accept", !.batch = B]
            \/ QueryFails /\ InboxFails
  /\ UNCHANGED <<finished, hinted, storeVars, hint, timer, streak, owed, skipped, stopped, queued,
                 current>>

\* AcceptOutcome: recorded once, however often it is delivered.
Accept(j) ==
  /\ At("accept") /\ j \in turn.batch
  /\ \/ /\ log' = [log EXCEPT ![current] = @ \cup {j}]
        /\ turn' = [turn EXCEPT !.pc = "ack", !.job = j]
        /\ UNCHANGED <<suppressed, used>>
     \/ Fault /\ InboxFails /\ UNCHANGED log
  /\ UNCHANGED <<jobVars, receipts, hint, timer, streak, owed, skipped, stopped, queued, current>>

\* AcknowledgeOutcome: a receipt that is cut short is no receipt.
Acknowledge ==
  /\ At("ack")
  /\ \/ /\ receipts' = receipts \cup {turn.job}
        /\ LET rest == turn.batch \ {turn.job} IN
             turn' = [turn EXCEPT !.pc = IF rest = {} THEN "requery" ELSE "accept", !.batch = rest]
        /\ UNCHANGED <<suppressed, used>>
     \/ Fault /\ InboxFails /\ UNCHANGED receipts
  /\ UNCHANGED <<jobVars, log, hint, timer, streak, owed, skipped, stopped, queued, current>>

\* Mutant: the hint is dropped at the end of the batch.
RequeryNothing ==
  /\ At("requery")
  /\ hint' = None
  /\ turn' = [NoTurn EXCEPT !.pc = "round"]
  /\ UNCHANGED <<jobVars, storeVars, timer, streak, suppressed, owed, skipped, stopped, queued,
                 current, used>>

\* The hint goes only when nothing is left; a producer that comes now waits
\* for streamMu and restores it.
Requery ==
  /\ At("requery")
  /\ \/ /\ \E X \in SUBSET Jobs : QuerySucceeds(X) /\ Dismiss(X)
        /\ turn' = [NoTurn EXCEPT !.pc = "round"]
        /\ UNCHANGED suppressed
     \/ QueryFails /\ InboxFails /\ UNCHANGED <<hint, skipped>>
  /\ UNCHANGED <<finished, hinted, storeVars, timer, streak, owed, stopped, queued, current>>

(***************************************************************************)
(* The rounds of Loop.  The model may wait for a job itself: the result of *)
(* agent_wait is the outcome, and counts as its delivery if the job is one *)
(* of this conversation's.                                                 *)
(***************************************************************************)

Spawned == \A j \in Jobs : phase[j] # "held"

\* The model answers, with tool calls or without, or fails to.
Round ==
  /\ At("round") /\ Spawned
  /\ \E next \in {"ending", "boundary"} : Goto(next)
  /\ UNCHANGED <<jobVars, storeVars, wakeVars, stopped, queued, current, used>>

BeginWait(j) ==
  /\ At("round") /\ Spawned
  /\ phase[j] = "running" \/ j \in finished
  /\ turn' = [turn EXCEPT !.pc = "waiting", !.job = j]
  /\ UNCHANGED <<jobVars, storeVars, wakeVars, stopped, queued, current, used>>

\* Wait sees a terminal status, whose write it retries if it failed.  The
\* results of the calls are appended, or the turn ends.
WaitReturns ==
  /\ At("waiting") /\ turn.job \in finished
  /\ \/ /\ Commit({turn.job} \ durable)
        /\ \/ Goto("waited") /\ log' = [log EXCEPT ![current] = @ \cup {turn.job}] /\ UNCHANGED used
           \/ Goto("ending") /\ Fault /\ UNCHANGED log
     \/ /\ turn.job \notin durable /\ Fault
        /\ Goto("boundary")
        /\ UNCHANGED <<phase, closed, durable, log>>
  /\ UNCHANGED <<finished, hinted, receipts, wakeVars, stopped, queued, current>>

\* Its timeout passes, or Esc cuts the turn.
WaitGivesUp ==
  /\ At("waiting")
  /\ Goto("boundary")
  /\ UNCHANGED <<jobVars, storeVars, wakeVars, stopped, queued, current, used>>

\* Mutant: whoever waited for the outcome has consumed it.
AcknowledgeAnyWait ==
  /\ At("waited")
  /\ receipts' = receipts \cup {turn.job}
  /\ Goto("boundary")
  /\ UNCHANGED <<jobVars, log, wakeVars, stopped, queued, current, used>>

\* acknowledgeWaitOutcomes: a turn that was cancelled may not write it.
AcknowledgeWait ==
  /\ At("waited")
  /\ \/ /\ receipts' = IF Parent[turn.job] = current THEN receipts \cup {turn.job} ELSE receipts
        /\ Goto("boundary")
        /\ UNCHANGED used
     \/ /\ Fault \/ (stopped /\ UNCHANGED used)
        /\ Goto("ending") /\ UNCHANGED receipts
  /\ UNCHANGED <<jobVars, log, wakeVars, stopped, queued, current>>

\* What was queued joins the context here, and the timer goes with it.
Boundary ==
  /\ At("boundary")
  /\ \/ /\ ~stopped
        /\ turn' = [NoTurn EXCEPT !.pc = "inbox"]
        /\ queued' = 0 /\ timer' = FALSE
     \/ Goto("ending") /\ UNCHANGED <<queued, timer>>
  /\ UNCHANGED <<jobVars, storeVars, hint, streak, suppressed, owed, skipped, stopped, current, used>>

Deliver ==
  \/ Inbox \/ LosePrompt \/ (\E j \in Jobs : Accept(j)) \/ Acknowledge \/ Requery
  \/ Round \/ WaitReturns \/ AcknowledgeWait \/ Boundary
  \/ EndSwitch \/ FinishRun

OutcomeNext ==
  \/ \E j \in Jobs : Spawn(j) \/ Admit(j) \/ Finish(j) \/ Hint(j) \/ Exit(j) \/ BeginWait(j)
  \/ Deliver \/ WaitGivesUp
  \/ Wake \/ Prompt \/ Esc
  \/ BeginSwitch \/ \E p \in Conversations : Swap(p)

OutcomeSpec == OutcomeInit /\ [][OutcomeNext]_ovars

\* A turn and a switch go on (the model answers, or its request fails), a timer
\* fires, and a runner that has written its outcome says so (its lock is a
\* mutex that starves nobody).  Runners need not end, a wait need not have a
\* timeout, and the user need not do anything.
FairSpec ==
  /\ OutcomeSpec
  /\ WF_ovars(Deliver \/ \E j \in Jobs : Admit(j))
  /\ WF_ovars(Wake)
  /\ \A j \in Jobs : SF_ovars(Hint(j))

TypeOK ==
  /\ finished \subseteq Jobs /\ hinted \subseteq finished /\ receipts \subseteq durable
  /\ log \in [Conversations -> SUBSET Jobs]
  /\ current \in Conversations /\ hint \in Conversations \cup {None}
  /\ timer \in BOOLEAN /\ suppressed \in BOOLEAN /\ stopped \in BOOLEAN
  /\ streak \in 0..MaxWakeStreak /\ queued \in 0..MaxPrompts
  /\ turn.batch \subseteq Jobs /\ turn.job \in Jobs \cup {None}
  /\ owed \subseteq hinted /\ skipped \subseteq Jobs

\* A receipt is written only for an outcome that the conversation which spawned
\* the job has recorded: until then a failure, a cancelled turn or another
\* conversation's wait leaves the outcome pending (AcknowledgeOutcome's contract).
AckedIsRecorded == \A j \in receipts : j \in log[Parent[j]]

\* While the conversation is not changed, a hint that was taken survives until
\* nothing is pending but what an unreadable scope hid from the query that
\* dropped it: batches, failed reads, throttled and cancelled turns and explicit
\* waits do not lose it, and the next hint brings the hidden ones back.
HintKept == (owed \ skipped) \cap Unread(durable) # {} => hint = current

\* A turn started for an outcome finds one: no turn is spent on a hint whose
\* outcome an explicit wait or an earlier batch has consumed.
NoEmptyWake == At("inbox") /\ turn.cause = "outcome" => Unread(durable) # {}

\* The hint and the turns it starts agree with the store, whatever becomes of a
\* read, a write or a turn in between.
HintFitsStore == HintKept /\ NoEmptyWake

\* An outcome whose hint was taken is acknowledged in the end, unless autonomous
\* turns are throttled or called off, the conversation is left, the turn waits
\* for a job that runs on, or its scope could not be read just when the query
\* found nothing else and dropped the hint.
Delivered ==
  \A j \in Jobs :
    (j \in owed \cap Unread(durable)) ~>
      \/ j \in receipts \/ j \notin owed \/ j \in skipped
      \/ suppressed \/ streak >= MaxWakeStreak
      \/ At("waiting") /\ turn.job \notin finished

\* HintKept for a conversation that was left and entered again.  It is violated
\* (OutcomeReturn.cfg): the controller has one hint, and drops those of a
\* conversation it is not in, so an outcome that came meanwhile, or was
\* suppressed and then displaced, waits for the next child of its conversation.
ReturnFindsHint == hinted \cap Unread(durable) # {} => hint = current

\* HintKept without its exception, as the comment of reconcileOutcomeHintLocked
\* has it (outcomes.go:52-53): a store error does not drop the outcome.  It is
\* violated: an error on scope.json never reaches the inbox,
\* and the outcome waits for the next child of the conversation.
HintNeverDropped == owed \cap Unread(durable) # {} => hint = current
=============================================================================
