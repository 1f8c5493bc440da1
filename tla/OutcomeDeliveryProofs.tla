----------------------- MODULE OutcomeDeliveryProofs -----------------------
(***************************************************************************)
(* For any jobs, conversations, batches and limits: what holds of receipts *)
(* and hints under every interleaving of OutcomeDelivery, and that its     *)
(* jobs keep to the contract of JobPool.                                   *)
(***************************************************************************)
EXTENDS OutcomeDelivery, TLAPS

Phases == {"idle", "held", "running", "settled", "dropped"}
Places == {"off", "inbox", "accept", "ack", "requery", "round", "waiting", "waited",
           "boundary", "ending", "switching", "switched"}
Causes == {"none", "user", "outcome", "error"}
Turns == [pc : Places, cause : Causes, batch : SUBSET Jobs, job : Jobs \cup {None}]

\* What every step needs to know of the state's shape.
Shape ==
  /\ phase \in [Jobs -> Phases]
  /\ finished \subseteq Jobs /\ hinted \subseteq finished
  /\ durable \subseteq finished /\ receipts \subseteq durable
  /\ log \in [Conversations -> SUBSET Jobs]
  /\ current \in Conversations
  /\ turn \in Turns

\* The outcomes in hand are durable ones of the conversation, and one that is
\* about to be acknowledged has been recorded.
InHand ==
  /\ turn.batch \subseteq {j \in durable : Parent[j] = current}
  /\ turn.pc = "ack" => turn.job \in turn.batch /\ turn.job \in log[current]
  /\ turn.pc = "waited" => turn.job \in durable /\ turn.job \in log[current]
  /\ turn.pc \in {"switching", "switched", "off"} => turn.batch = {}

\* A hint that was taken is of the conversation, and kept until its outcome has
\* a receipt or was passed over; the outcome itself may still wait for the disk.
HintOwed ==
  /\ owed \subseteq {j \in hinted : Parent[j] = current}
  /\ ~(owed \subseteq receipts \cup skipped) => hint = current

IInv == Shape /\ InHand /\ AckedIsRecorded /\ HintOwed /\ NoEmptyWake

\* A successful query leaves nothing of the conversation unwritten; one that
\* fails writes some of it, and neither gives back an outcome.
LEMMA QueryLemma ==
  ASSUME Shape, NEW X, QuerySucceeds(X)
  PROVE  /\ phase' \in [Jobs -> Phases]
         /\ durable \subseteq durable' /\ durable' \subseteq finished
         /\ {j \in finished : Parent[j] = current} \subseteq durable'
BY DEF Shape, QuerySucceeds, Commit, Unwritten, Phases

\* Of what a successful query hides from the controller, the hint that it drops
\* keeps a note.
LEMMA DismissLemma ==
  ASSUME Shape, NEW X, QuerySucceeds(X), Dismiss(X)
  PROVE  /\ skipped \subseteq skipped'
         /\ hint' = hint \/ {j \in finished : Parent[j] = current} \subseteq receipts \cup skipped'
BY QueryLemma DEF Dismiss, Found, Unread

LEMMA CommitLemma ==
  ASSUME Shape, NEW D \in SUBSET finished, Commit(D)
  PROVE  /\ phase' \in [Jobs -> Phases]
         /\ durable \subseteq durable' /\ durable' \subseteq finished
BY DEF Shape, Commit, Phases

LEMMA FailedQueryLemma ==
  ASSUME Shape, QueryFails
  PROVE  /\ phase' \in [Jobs -> Phases]
         /\ durable \subseteq durable' /\ durable' \subseteq finished
BY CommitLemma DEF QueryFails, Unwritten

\* Where a turn goes, and what it takes with it.
LEMMA GotoLemma ==
  ASSUME turn \in Turns, NEW where \in Places, Goto(where)
  PROVE  /\ turn' \in Turns
         /\ turn'.pc = where /\ turn'.cause = turn.cause
         /\ turn'.batch = turn.batch /\ turn'.job = turn.job
BY DEF Turns, Places, Causes, Goto

LEMMA BeginLemma ==
  ASSUME NEW cause \in Causes, Begin(cause)
  PROVE  /\ turn' \in Turns
         /\ turn'.pc = "inbox" /\ turn'.cause = cause /\ turn'.batch = {}
BY DEF Turns, Places, Causes, Begin, NoTurn

LEMMA NoTurnLemma ==
  NoTurn \in Turns /\ NoTurn.pc = "off" /\ NoTurn.batch = {}
BY DEF Turns, Places, Causes, NoTurn

\* A step that acknowledges nothing and takes no hint, and loses a hint only
\* when nothing of the conversation is unread but what was passed over.
Grows ==
  /\ phase' \in [Jobs -> Phases]
  /\ durable \subseteq durable' /\ durable' \subseteq finished'
  /\ log' \in [Conversations -> SUBSET Jobs]
  /\ \A p \in Conversations : log[p] \subseteq log'[p]
  /\ finished \subseteq finished' /\ finished' \subseteq Jobs
  /\ UNCHANGED <<hinted, receipts, current, owed>>
  /\ skipped \subseteq skipped'
  /\ hint' = hint \/ {j \in finished : Parent[j] = current} \subseteq receipts \cup skipped'

LEMMA Preserved ==
  ASSUME IInv, Grows, InHand', NoEmptyWake', turn' \in Turns
  PROVE  IInv'
<1>1. Shape'
  BY DEF IInv, Shape, Grows
<1>2. AckedIsRecorded'
  BY ParentAssumption DEF IInv, Shape, AckedIsRecorded, Grows
<1>3. HintOwed'
  BY DEF IInv, Shape, HintOwed, Grows
<1>. QED  BY <1>1, <1>2, <1>3 DEF IInv

\* Such a step of a turn that goes on, of one that begins or ends, and of a
\* runner while the turn stays where it is.
LEMMA Moves ==
  ASSUME IInv, Grows,
         NEW where \in {"accept", "requery", "round", "boundary", "ending"},
         Goto(where)
  PROVE  IInv'
<1>1. /\ turn' \in Turns /\ turn'.pc = where /\ turn'.batch = turn.batch
  BY GotoLemma DEF Places, IInv, Shape
<1>2. InHand'
  BY <1>1 DEF IInv, InHand, Grows
<1>3. NoEmptyWake'
  BY <1>1 DEF NoEmptyWake, At
<1>. QED  BY <1>1, <1>2, <1>3, Preserved

LEMMA Starts ==
  ASSUME IInv, Grows,
         turn' \in Turns, turn'.batch = {}, turn'.pc \notin {"ack", "waited"},
         turn'.pc = "inbox" /\ turn'.cause = "outcome" => Unread(durable') # {}
  PROVE  IInv'
<1>1. InHand'
  BY DEF InHand
<1>2. NoEmptyWake'
  BY DEF NoEmptyWake, At, Unread, Grows
<1>. QED  BY <1>1, <1>2, Preserved

LEMMA Stays ==
  ASSUME IInv, Grows, UNCHANGED turn
  PROVE  IInv'
<1>1. InHand'
  BY DEF IInv, Shape, InHand, Grows
<1>2. NoEmptyWake'
  BY DEF IInv, NoEmptyWake, At, Unread, Grows
<1>. QED  BY <1>1, <1>2, Preserved DEF IInv, Shape

LEMMA InitInv == OutcomeInit => IInv
BY ParentAssumption, NoTurnLemma DEF OutcomeInit, Init, IInv, Shape, InHand, AckedIsRecorded, HintOwed, NoEmptyWake, At, NoTurn, Phases

LEMMA SpawnInv == ASSUME IInv, NEW j \in Jobs, Spawn(j) PROVE IInv'
<1>1. Grows
  BY DEF Spawn, Grows, IInv, Shape, Take, Become, Phases, storeVars, wakeVars, turnVars
<1>2. UNCHANGED turn
  BY DEF Spawn, turnVars
<1>. QED  BY <1>1, <1>2, Stays

LEMMA AdmitInv == ASSUME IInv, NEW j \in Jobs, Admit(j) PROVE IInv'
<1>1. Grows
  BY DEF Admit, Grows, IInv, Shape, Start, Drop, Become, Phases, storeVars, wakeVars, turnVars
<1>2. UNCHANGED turn
  BY DEF Admit, turnVars
<1>. QED  BY <1>1, <1>2, Stays

LEMMA FinishInv == ASSUME IInv, NEW j \in Jobs, Finish(j) PROVE IInv'
<1>1. Grows
  BY DEF Finish, Grows, IInv, Shape, storeVars, wakeVars, turnVars
<1>2. UNCHANGED turn
  BY DEF Finish, turnVars
<1>. QED  BY <1>1, <1>2, Stays

LEMMA ExitInv == ASSUME IInv, NEW j \in Jobs, Exit(j) PROVE IInv'
<1>1. Grows
  BY DEF Exit, Grows, IInv, Shape, Settle, Become, Phases, storeVars, wakeVars, turnVars
<1>2. UNCHANGED turn
  BY DEF Exit, turnVars
<1>. QED  BY <1>1, <1>2, Stays

LEMMA HintInv == ASSUME IInv, NEW j \in Jobs, Hint(j) PROVE IInv'
<1>1. UNCHANGED <<phase, durable, finished, receipts, log, current, turn>>
  BY DEF Hint, storeVars, turnVars
<1>2. hinted' = hinted \cup {j} /\ j \in finished
  BY DEF Hint
<1>3. Shape'
  BY <1>1, <1>2 DEF IInv, Shape
<1>4. InHand' /\ AckedIsRecorded' /\ NoEmptyWake'
  BY <1>1 DEF IInv, InHand, AckedIsRecorded, NoEmptyWake, At, Unread
<1>5. HintOwed'
  BY <1>1 DEF IInv, HintOwed, Hint
<1>. QED  BY <1>3, <1>4, <1>5 DEF IInv

LEMMA BeginWaitInv == ASSUME IInv, NEW j \in Jobs, BeginWait(j) PROVE IInv'
<1>1. Grows
  BY DEF BeginWait, Grows, IInv, Shape, jobVars, storeVars, wakeVars
<1>2. /\ turn' \in Turns
      /\ turn'.pc = "waiting" /\ turn'.batch = turn.batch
  BY DEF BeginWait, IInv, Shape, Turns, Places, Causes
<1>3. InHand' /\ NoEmptyWake'
  BY <1>1, <1>2 DEF IInv, InHand, NoEmptyWake, At, Grows
<1>. QED  BY <1>1, <1>2, <1>3, Preserved

LEMMA AcceptInv == ASSUME IInv, NEW j \in Jobs, Accept(j) PROVE IInv'
<1>1. CASE InboxFails /\ UNCHANGED log
  <2>1. Grows
    BY <1>1 DEF Accept, Grows, IInv, Shape, jobVars
  <2>. QED  BY <1>1, <2>1, Moves DEF InboxFails
<1>2. CASE /\ log' = [log EXCEPT ![current] = @ \cup {j}]
           /\ turn' = [turn EXCEPT !.pc = "ack", !.job = j]
  <2>1. Grows
    BY <1>2 DEF Accept, Grows, IInv, Shape, jobVars
  <2>2. /\ turn' \in Turns
        /\ turn'.pc = "ack" /\ turn'.batch = turn.batch /\ turn'.job = j
    BY <1>2 DEF IInv, Shape, Turns, Places, Causes
  <2>3. j \in log'[current] /\ j \in turn.batch
    BY <1>2 DEF Accept, IInv, Shape
  <2>4. InHand' /\ NoEmptyWake'
    BY <2>1, <2>2, <2>3 DEF IInv, InHand, NoEmptyWake, At, Grows
  <2>. QED  BY <2>1, <2>2, <2>4, Preserved
<1>. QED  BY <1>1, <1>2 DEF Accept

LEMMA AcknowledgeInv == ASSUME IInv, Acknowledge PROVE IInv'
<1>1. UNCHANGED <<phase, durable, finished, hinted, log, hint, owed, skipped, current>>
  BY DEF Acknowledge, jobVars
<1>2. CASE InboxFails /\ UNCHANGED receipts
  <2>1. Grows
    BY <1>1, <1>2 DEF Grows, IInv, Shape
  <2>. QED  BY <1>2, <2>1, Moves DEF InboxFails
<1>3. CASE /\ receipts' = receipts \cup {turn.job}
           /\ LET rest == turn.batch \ {turn.job} IN
                turn' = [turn EXCEPT !.pc = IF rest = {} THEN "requery" ELSE "accept", !.batch = rest]
  <2>1. /\ turn' \in Turns
        /\ turn'.pc \in {"requery", "accept"} /\ turn'.batch = turn.batch \ {turn.job}
    BY <1>3 DEF IInv, Shape, Turns, Places, Causes
  <2>2. turn.job \in durable /\ Parent[turn.job] = current /\ turn.job \in log[current]
    BY DEF Acknowledge, At, IInv, InHand
  <2>3. Shape'
    BY <1>1, <1>3, <2>1, <2>2 DEF IInv, Shape
  <2>4. InHand'
    BY <1>1, <2>1 DEF IInv, InHand
  <2>5. AckedIsRecorded'
    BY <1>1, <1>3, <2>2 DEF IInv, AckedIsRecorded
  <2>6. HintOwed' /\ NoEmptyWake'
    BY <1>1, <1>3, <2>1 DEF IInv, HintOwed, NoEmptyWake, At
  <2>. QED  BY <2>3, <2>4, <2>5, <2>6 DEF IInv
<1>. QED  BY <1>2, <1>3 DEF Acknowledge

LEMMA InboxInv == ASSUME IInv, Inbox PROVE IInv'
<1>1. UNCHANGED <<finished, hinted, receipts, log, hint, owed, skipped, current>>
  BY DEF Inbox, storeVars
<1>2. CASE /\ UNCHANGED <<phase, closed, durable, suppressed, used>>
           /\ Goto("ending") \/ turn' = [NoTurn EXCEPT !.pc = "round"]
  <2>1. Grows
    BY <1>1, <1>2 DEF Grows, IInv, Shape
  <2>2. CASE Goto("ending")
    BY <2>1, <2>2, Moves
  <2>3. CASE turn' = [NoTurn EXCEPT !.pc = "round"]
    <3>1. turn' \in Turns /\ turn'.pc = "round" /\ turn'.batch = {}
      BY <2>3 DEF Turns, Places, Causes, NoTurn
    <3>. QED  BY <2>1, <3>1, Starts
  <2>. QED  BY <1>2, <2>2, <2>3
<1>3. CASE QueryFails /\ InboxFails
  <2>1. Grows
    BY <1>1, <1>3, FailedQueryLemma DEF Grows, IInv, Shape
  <2>. QED  BY <1>3, <2>1, Moves DEF InboxFails
<1>4. ASSUME NEW S \in SUBSET Jobs, QuerySucceeds(S),
             NEW X \in Batches(Found(S)),
             turn' = [NoTurn EXCEPT !.pc = IF X = {} THEN "requery" ELSE "accept", !.batch = X]
      PROVE  IInv'
  <2>1. Grows
    BY <1>1, <1>4, QueryLemma DEF Grows, IInv, Shape
  <2>2. X \subseteq {j \in durable' : Parent[j] = current}
    BY DEF Batches, Unread, Found
  <2>3. X \subseteq Jobs
    BY <2>1, <2>2 DEF Grows
  <2>4. turn' \in Turns /\ turn'.pc \in {"requery", "accept"} /\ turn'.batch = X
    BY <1>4, <2>3 DEF Turns, Places, Causes, NoTurn
  <2>5. InHand' /\ NoEmptyWake'
    BY <1>1, <2>2, <2>4 DEF InHand, NoEmptyWake, At
  <2>. QED  BY <2>1, <2>4, <2>5, Preserved
<1>. QED  BY <1>2, <1>3, <1>4 DEF Inbox

LEMMA LosePromptInv == ASSUME IInv, LosePrompt PROVE IInv'
<1>1. Grows
  BY DEF LosePrompt, Grows, IInv, Shape, jobVars, storeVars, wakeVars
<1>2. Goto("ending")
  BY DEF LosePrompt
<1>. QED  BY <1>1, <1>2, Moves

LEMMA RequeryInv == ASSUME IInv, Requery PROVE IInv'
<1>1. UNCHANGED <<finished, hinted, receipts, log, owed, current>>
  BY DEF Requery, storeVars
<1>2. CASE QueryFails /\ InboxFails /\ UNCHANGED <<hint, skipped>>
  <2>1. Grows
    BY <1>1, <1>2, FailedQueryLemma DEF Grows, IInv, Shape
  <2>. QED  BY <1>2, <2>1, Moves DEF InboxFails
<1>3. ASSUME NEW X \in SUBSET Jobs, QuerySucceeds(X), Dismiss(X),
             turn' = [NoTurn EXCEPT !.pc = "round"]
      PROVE  IInv'
  <2>1. /\ skipped \subseteq skipped'
        /\ hint' = hint \/ {j \in finished : Parent[j] = current} \subseteq receipts \cup skipped'
    BY <1>3, DismissLemma DEF IInv
  <2>2. Grows
    BY <1>1, <1>3, <2>1, QueryLemma DEF Grows, IInv, Shape
  <2>3. turn' \in Turns /\ turn'.pc = "round" /\ turn'.batch = {}
    BY <1>3 DEF Turns, Places, Causes, NoTurn
  <2>. QED  BY <2>2, <2>3, Starts
<1>. QED  BY <1>2, <1>3 DEF Requery

LEMMA RoundInv == ASSUME IInv, Round PROVE IInv'
<1>1. Grows
  BY DEF Round, Grows, IInv, Shape, jobVars, storeVars, wakeVars
<1>2. Goto("ending") \/ Goto("boundary")
  BY DEF Round
<1>. QED  BY <1>1, <1>2, Moves

LEMMA WaitReturnsInv == ASSUME IInv, WaitReturns PROVE IInv'
<1>1. UNCHANGED <<finished, hinted, receipts, hint, owed, skipped, current>>
  BY DEF WaitReturns, wakeVars
<1>2. CASE turn.job \notin durable /\ Goto("boundary") /\ UNCHANGED <<phase, closed, durable, log>>
  <2>1. Grows
    BY <1>1, <1>2 DEF Grows, IInv, Shape
  <2>. QED  BY <1>2, <2>1, Moves
<1>3. CASE Commit({turn.job} \ durable)
  <2>1. turn.job \in finished
    BY DEF WaitReturns
  <2>2. /\ phase' \in [Jobs -> Phases]
        /\ durable \subseteq durable' /\ durable' \subseteq finished
    BY <1>3, <2>1, CommitLemma DEF IInv
  <2>3. turn.job \in durable'
    BY <1>3 DEF Commit
  <2>4. CASE Goto("ending") /\ UNCHANGED log
    <3>1. Grows
      BY <1>1, <2>2, <2>4 DEF Grows, IInv, Shape
    <3>. QED  BY <2>4, <3>1, Moves
  <2>5. CASE Goto("waited") /\ log' = [log EXCEPT ![current] = @ \cup {turn.job}]
    <3>1. /\ turn' \in Turns /\ turn'.pc = "waited"
          /\ turn'.batch = turn.batch /\ turn'.job = turn.job
      BY <2>5, GotoLemma DEF Places, IInv, Shape
    <3>2. Grows
      BY <1>1, <2>1, <2>2, <2>5 DEF Grows, IInv, Shape
    <3>3. turn.job \in log'[current]
      BY <2>5 DEF IInv, Shape
    <3>4. InHand' /\ NoEmptyWake'
      BY <1>1, <2>2, <2>3, <3>1, <3>3 DEF IInv, InHand, NoEmptyWake, At
    <3>. QED  BY <3>1, <3>2, <3>4, Preserved
  <2>. QED  BY <1>2, <2>4, <2>5 DEF WaitReturns
<1>. QED  BY <1>2, <1>3 DEF WaitReturns

LEMMA WaitGivesUpInv == ASSUME IInv, WaitGivesUp PROVE IInv'
<1>1. Grows
  BY DEF WaitGivesUp, Grows, IInv, Shape, jobVars, storeVars, wakeVars
<1>2. Goto("boundary")
  BY DEF WaitGivesUp
<1>. QED  BY <1>1, <1>2, Moves

LEMMA AcknowledgeWaitInv == ASSUME IInv, AcknowledgeWait PROVE IInv'
<1>1. UNCHANGED <<phase, durable, finished, hinted, log, hint, owed, skipped, current>>
  BY DEF AcknowledgeWait, jobVars, wakeVars
<1>2. CASE Goto("ending") /\ UNCHANGED receipts
  <2>1. Grows
    BY <1>1, <1>2 DEF Grows, IInv, Shape
  <2>. QED  BY <1>2, <2>1, Moves
<1>3. CASE /\ receipts' = IF Parent[turn.job] = current THEN receipts \cup {turn.job} ELSE receipts
           /\ Goto("boundary")
  <2>1. turn' \in Turns /\ turn'.pc = "boundary" /\ turn'.batch = turn.batch
    BY <1>3, GotoLemma DEF Places, IInv, Shape
  <2>2. turn.job \in durable /\ turn.job \in log[current]
    BY DEF AcknowledgeWait, At, IInv, InHand
  <2>3. receipts \subseteq receipts'
    BY <1>3
  <2>4. Shape'
    BY <1>1, <1>3, <2>1, <2>2 DEF IInv, Shape
  <2>5. InHand'
    BY <1>1, <2>1 DEF IInv, InHand
  <2>6. AckedIsRecorded'
    BY <1>1, <1>3, <2>2 DEF IInv, AckedIsRecorded
  <2>7. HintOwed' /\ NoEmptyWake'
    BY <1>1, <2>1, <2>3 DEF IInv, HintOwed, NoEmptyWake, At
  <2>. QED  BY <2>4, <2>5, <2>6, <2>7 DEF IInv
<1>. QED  BY <1>2, <1>3 DEF AcknowledgeWait

LEMMA BoundaryInv == ASSUME IInv, Boundary PROVE IInv'
<1>1. Grows
  BY DEF Boundary, Grows, IInv, Shape, jobVars, storeVars
<1>2. CASE Goto("ending")
  BY <1>1, <1>2, Moves
<1>3. CASE turn' = [NoTurn EXCEPT !.pc = "inbox"]
  <2>1. turn' \in Turns /\ turn'.pc = "inbox" /\ turn'.cause = "none" /\ turn'.batch = {}
    BY <1>3 DEF Turns, Places, Causes, NoTurn
  <2>. QED  BY <1>1, <2>1, Starts
<1>. QED  BY <1>2, <1>3 DEF Boundary

\* What a reconciliation may do: it forgets the hint only of a conversation with
\* nothing unread but what it passed over, and starts a turn for an outcome only
\* when it has read one.
Reconciled ==
  /\ phase' \in [Jobs -> Phases]
  /\ durable \subseteq durable' /\ durable' \subseteq finished
  /\ skipped \subseteq skipped'
  /\ hint' = hint \/ {j \in finished : Parent[j] = current} \subseteq receipts \cup skipped'
  /\ turn' \in Turns /\ turn'.pc \in {"inbox", "off"} /\ turn'.batch = {}
  /\ turn'.pc = "inbox" /\ turn'.cause = "outcome" => Unread(durable') # {}

LEMMA ReconcileLemma == IInv /\ Reconcile => Reconciled
<1>. SUFFICES ASSUME IInv, Reconcile PROVE Reconciled
  OBVIOUS
<1>1. ASSUME NEW X \in SUBSET Jobs, QuerySucceeds(X), Dismiss(X), NoStart
      PROVE  Reconciled
  BY <1>1, QueryLemma, DismissLemma, NoTurnLemma DEF IInv, NoStart, Reconciled
<1>2. ASSUME NEW X \in SUBSET Jobs, QuerySucceeds(X), Dismiss(X),
             Found(X) # {}, Autonomous("outcome")
      PROVE  Reconciled
  <2>1. Unread(durable') # {}
    BY <1>2 DEF Found
  <2>. QED  BY <1>2, <2>1, QueryLemma, DismissLemma, BeginLemma DEF Causes, IInv, Autonomous, Reconciled
<1>3. CASE QueryFails /\ UNCHANGED <<hint, skipped>> /\ (Autonomous("error") \/ NoStart)
  BY <1>3, FailedQueryLemma, NoTurnLemma, BeginLemma DEF Causes, IInv, NoStart, Autonomous, Reconciled
<1>. QED  BY <1>1, <1>2, <1>3 DEF Reconcile

\* A turn that starts next, after a turn or a switch, or when the timer fires.
LEMMA ReconcileInv ==
  ASSUME IInv, Reconcile, UNCHANGED <<finished, hinted, receipts, log, owed, current>>
  PROVE  IInv'
<1>1. Grows
  BY ReconcileLemma DEF Grows, IInv, Shape, Reconciled
<1>. QED  BY <1>1, ReconcileLemma, Starts DEF Reconciled

LEMMA StartNextInv ==
  ASSUME IInv, StartNext, UNCHANGED <<finished, hinted, storeVars, suppressed, owed, current>>
  PROVE  IInv'
<1>1. UNCHANGED <<finished, hinted, receipts, log, owed, current>>
  BY DEF storeVars
<1>2. CASE Reconcile
  BY <1>1, <1>2, ReconcileInv
<1>3. CASE (Begin("user") \/ NoStart) /\ UNCHANGED <<phase, closed, durable, hint, skipped, used>>
  <2>1. Grows
    BY <1>1, <1>3 DEF Grows, IInv, Shape
  <2>2. CASE Begin("user")
    BY <2>1, <2>2, BeginLemma, Starts DEF Causes
  <2>3. CASE NoStart
    BY <2>1, <2>3, NoTurnLemma, Starts DEF NoStart
  <2>. QED  BY <1>3, <2>2, <2>3
<1>. QED  BY <1>2, <1>3 DEF StartNext

LEMMA EndSwitchInv == ASSUME IInv, EndSwitch PROVE IInv'
BY StartNextInv DEF EndSwitch

LEMMA FinishRunInv == ASSUME IInv, FinishRun PROVE IInv'
BY StartNextInv DEF FinishRun

LEMMA WakeInv == ASSUME IInv, Wake PROVE IInv'
<1>1. UNCHANGED <<finished, hinted, receipts, log, owed, current>>
  BY DEF Wake, storeVars
<1>2. CASE Reconcile
  BY <1>1, <1>2, ReconcileInv
<1>3. CASE UNCHANGED <<phase, closed, durable, hint, skipped, turn, streak, used>>
  <2>1. Grows
    BY <1>1, <1>3 DEF Grows, IInv, Shape
  <2>. QED  BY <1>3, <2>1, Stays
<1>. QED  BY <1>2, <1>3 DEF Wake

LEMMA PromptInv == ASSUME IInv, Prompt PROVE IInv'
<1>1. Grows
  BY DEF Prompt, Grows, IInv, Shape, jobVars, storeVars
<1>2. CASE Begin("user")
  BY <1>1, <1>2, BeginLemma, Starts DEF Causes
<1>3. CASE UNCHANGED turn
  BY <1>1, <1>3, Stays
<1>. QED  BY <1>2, <1>3 DEF Prompt

LEMMA EscInv == ASSUME IInv, Esc PROVE IInv'
<1>1. Grows
  BY DEF Esc, Grows, IInv, Shape, jobVars, storeVars
<1>2. UNCHANGED turn
  BY DEF Esc
<1>. QED  BY <1>1, <1>2, Stays

LEMMA BeginSwitchInv == ASSUME IInv, BeginSwitch PROVE IInv'
<1>1. Grows
  BY DEF BeginSwitch, Grows, IInv, Shape, jobVars, storeVars, wakeVars
<1>2. turn' \in Turns /\ turn'.pc = "switching" /\ turn'.batch = {}
  BY GotoLemma DEF Places, BeginSwitch, At, IInv, Shape, InHand
<1>. QED  BY <1>1, <1>2, Starts

LEMMA SwapInv == ASSUME IInv, NEW p \in Conversations, Swap(p) PROVE IInv'
<1>1. UNCHANGED <<phase, durable, finished, hinted, receipts, log>>
  BY DEF Swap, jobVars, storeVars
<1>2. turn' \in Turns /\ turn'.pc = "switched" /\ turn'.batch = {}
  BY GotoLemma DEF Places, Swap, At, IInv, Shape, InHand
<1>3. current' = p /\ owed' = {} /\ skipped' = {}
  BY DEF Swap
<1>4. Shape' /\ InHand'
  BY <1>1, <1>2, <1>3 DEF IInv, Shape, InHand
<1>5. AckedIsRecorded' /\ HintOwed' /\ NoEmptyWake'
  BY <1>1, <1>2, <1>3 DEF IInv, AckedIsRecorded, HintOwed, NoEmptyWake, At
<1>. QED  BY <1>4, <1>5 DEF IInv

LEMMA NextInv == IInv /\ [OutcomeNext]_ovars => IInv'
<1>. SUFFICES ASSUME IInv, [OutcomeNext]_ovars
              PROVE  IInv'
  OBVIOUS
<1>1. CASE UNCHANGED ovars
  <2>1. Grows
    BY <1>1 DEF ovars, jobVars, storeVars, wakeVars, turnVars, Grows, IInv, Shape
  <2>2. UNCHANGED turn
    BY <1>1 DEF ovars, turnVars
  <2>. QED  BY <2>1, <2>2, Stays
<1>2. CASE \E j \in Jobs : Spawn(j) \/ Admit(j) \/ Finish(j) \/ Hint(j) \/ Exit(j) \/ BeginWait(j)
  BY <1>2, SpawnInv, AdmitInv, FinishInv, HintInv, ExitInv, BeginWaitInv
<1>3. CASE Deliver
  BY <1>3, InboxInv, LosePromptInv, AcceptInv, AcknowledgeInv, RequeryInv, RoundInv,
     WaitReturnsInv, AcknowledgeWaitInv, BoundaryInv, EndSwitchInv, FinishRunInv DEF Deliver
<1>4. CASE WaitGivesUp \/ Wake \/ Prompt \/ Esc \/ BeginSwitch \/ \E p \in Conversations : Swap(p)
  BY <1>4, WaitGivesUpInv, WakeInv, PromptInv, EscInv, BeginSwitchInv, SwapInv
<1>. QED  BY <1>1, <1>2, <1>3, <1>4 DEF OutcomeNext

THEOREM Invariance == OutcomeSpec => []IInv
BY InitInv, NextInv, PTL DEF OutcomeSpec

\* A receipt is never written for an outcome that the conversation which spawned
\* the job has not recorded, whatever fails and however turns, waits and
\* switches interleave (AcknowledgeOutcome, acknowledgeWaitOutcomes).
THEOREM ReceiptsAreRecorded == OutcomeSpec => []AckedIsRecorded
<1>1. IInv => AckedIsRecorded
  BY DEF IInv
<1>. QED  BY <1>1, Invariance, PTL

\* The hint and the store agree: no hint that was taken is lost while its outcome
\* is unread, unless the query that dropped it could not read the outcome's scope
\* and passed it over (PendingOutcomes), and no turn is spent on an outcome that was consumed
\* (reconcileOutcomeHintLocked and the query after a batch).
THEOREM HintFits == OutcomeSpec => []HintFitsStore
<1>1. IInv => HintFitsStore
  BY DEF IInv, HintOwed, NoEmptyWake, HintFitsStore, HintKept, Unread
<1>. QED  BY <1>1, Invariance, PTL

\* A query commits outcomes of runners only, which is what the pool allows.
LEMMA PoolStep ==
  ASSUME IInv, [OutcomeNext]_ovars
  PROVE  [Next]_vars
<1>0. ASSUME NEW D, Commit(D) PROVE Next
  <2>1. D \in SUBSET Jobs
    BY <1>0 DEF Commit
  <2>. QED  BY <1>0, <2>1 DEF Next
<1>1. CASE UNCHANGED <<phase, closed, durable>>
  BY <1>1 DEF vars
<1>2. CASE \E j \in Jobs : Spawn(j) \/ Admit(j) \/ Exit(j)
  BY <1>2 DEF Spawn, Admit, Exit, Next
<1>3. ASSUME NEW j \in Jobs, Finish(j) PROVE [Next]_vars
  <2>1. CASE UNCHANGED durable
    BY <1>3, <2>1 DEF Finish, vars
  <2>2. CASE durable' = durable \cup {j}
    <3>1. phase' = [k \in Jobs |-> IF k \in {} THEN "settled" ELSE phase[k]]
      BY <1>3 DEF Finish, IInv, Shape
    <3>2. \E S \in SUBSET {j} : phase' = [k \in Jobs |-> IF k \in S THEN "settled" ELSE phase[k]]
      BY <3>1, {} \in SUBSET {j}
    <3>3. /\ {j} \subseteq {k \in Jobs : phase[k] = "running"}
          /\ UNCHANGED closed
      BY <1>3 DEF Finish
    <3>4. Commit({j})
      BY <2>2, <3>2, <3>3 DEF Commit
    <3>. QED  BY <1>0, <3>4
  <2>. QED  BY <1>3, <2>1, <2>2 DEF Finish
<1>4. (\E X \in SUBSET Jobs : QuerySucceeds(X)) \/ QueryFails => Next
  BY <1>0 DEF QuerySucceeds, QueryFails
<1>5. CASE Deliver
  BY <1>0, <1>1, <1>4, <1>5 DEF Deliver, Inbox, LosePrompt, Accept, Acknowledge, Requery, Round, WaitReturns,
     AcknowledgeWait, Boundary, EndSwitch, FinishRun, StartNext, Reconcile, jobVars
<1>6. CASE Wake
  BY <1>1, <1>4, <1>6 DEF Wake, Reconcile
<1>7. CASE \/ \E j \in Jobs : Hint(j) \/ BeginWait(j)
           \/ WaitGivesUp \/ Prompt \/ Esc \/ BeginSwitch \/ \E p \in Conversations : Swap(p)
  BY <1>1, <1>7 DEF Hint, BeginWait, WaitGivesUp, Prompt, Esc, BeginSwitch, Swap, jobVars
<1>8. CASE UNCHANGED ovars
  BY <1>1, <1>8 DEF ovars, jobVars
<1>. QED  BY <1>2, <1>3, <1>5, <1>6, <1>7, <1>8 DEF OutcomeNext

\* Whatever the controller does with outcomes, the pool sees only what its
\* contract allows: a retried write commits outcomes of runners, and nothing
\* frees a place before its outcome is durable.
THEOREM KeepsToThePool == OutcomeSpec => Spec
<1>1. OutcomeInit => Init
  BY DEF OutcomeInit
<1>. QED  BY <1>1, PoolStep, Invariance, PTL DEF OutcomeSpec, Spec
=============================================================================
