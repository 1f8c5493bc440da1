--------------------------- MODULE TurnScheduler ---------------------------
(***************************************************************************)
(* The turn scheduler of one Controller (src/internal/tui/controller): who *)
(* may start a turn of the conversation's engine, and where prompts, watch *)
(* events and background results wait until a turn takes them.             *)
(*                                                                         *)
(* A turn is a goroutine, runLoop, that takes streamMu for moments only.   *)
(* Esc, submits, watch events, the coalescing timer, the job manager's     *)
(* runner, session switches and Close take it in between.  The variable c  *)
(* holds the fields streamMu guards; every xxxLocked function of the code  *)
(* is an operator from one such record to the next.                        *)
(*                                                                         *)
(* One instance is either the controller the user drives or, with IsChild, *)
(* a retained sub-agent whose turns belong to assignments the job manager  *)
(* runs; a child owns no watches and takes no background results.          *)
(***************************************************************************)
EXTENDS Integers, Sequences, FiniteSets, SequencesExt

CONSTANTS
  Prompts,        \* prompts the user submits, each at most once
  None,           \* no prompt
  IsChild,        \* the controller of a retained sub-agent
  HasPlan,        \* the session works under a plan the user may approve
  MayLoseModel,   \* the configured model may disappear and come back
  ViewFails,      \* assembling a child's View may fail
  QueueLimit,     \* watchQueueLimit
  MaxWakeStreak,  \* maxWakeStreak
  MaxEvents,      \* bound: watch events
  MaxInbox,       \* bound: background results
  MaxCancels,     \* bound: Esc
  MaxCompacts,    \* bound: /compact
  MaxSwitches,    \* bound: /resume and /clear
  MaxJobs,        \* bound: assignments of a child
  MaxKills        \* bound: cancelled jobs

ASSUME NoneAssumption == None \notin Prompts
ASSUME FlagsAssumption == {IsChild, HasPlan, MayLoseModel, ViewFails} \subseteq BOOLEAN
ASSUME LimitsAssumption == {QueueLimit, MaxWakeStreak} \subseteq Nat \ {0}
ASSUME BoundsAssumption ==
  {MaxEvents, MaxInbox, MaxCancels, MaxCompacts, MaxSwitches, MaxJobs, MaxKills} \subseteq Nat
\* A sub-agent "carries one job, not a plan" (internal/agent/tool_facts.go:47).
ASSUME ChildAssumption == IsChild => MaxEvents = 0 /\ MaxInbox = 0 /\ MaxJobs > 0 /\ ~HasPlan

VARIABLES
  c,         \* the fields under streamMu, and the turns that run
  loose,     \* wake callbacks that will still run: fired, or no longer stoppable
  runner,    \* the job manager's side of each assignment
  cancelled, \* assignments whose job context is cancelled
  accepted,  \* prompts StartPrompt took over, in order
  log,       \* prompts that reached the session, in order
  rode,      \* watch events that reached the session
  shed,      \* watch events the session never sees: full, the ones watchQueue had
             \* no room for; failed, the ones that rode with a turn that failed
  ended,     \* prompts given up: nobody holds them any more
  excuse,    \* the prompts somebody had a reason to give up: error, answered by an
             \* error row; stop, taken by a stop of the user or of the job; failure,
             \* queued behind an assignment that failed before it began
  recalled,  \* prompts taken back into the composer
  released,  \* cleanupSession closed the session
  used       \* how much of each bound is used up

vars == <<c, loose, runner, cancelled, accepted, log, rode, shed, ended, excuse,
          recalled, released, used>>

Jobs   == 1..MaxJobs
Events == 1..MaxEvents
Turns  == {1, 2, 3}            \* names for generations: a dead turn's is used again
Phases == {"off", "delay", "opening", "inbox", "inference", "boundary", "feeding",
           "unwinding", "finishing", "compacting"}

Turn == [pc : Phases,
         prompt : Prompts \cup {None},     \* the opening prompt, until it is appended
         owed : BOOLEAN,                   \* nobody has drawn its row yet
         wake : BOOLEAN,                   \* the turn was started by a wake
         rides : SUBSET Events,            \* watch events taken along
         inject : Seq(Prompts),            \* drained at a boundary, not appended yet
         job : Jobs \cup {0}]              \* the assignment it works for

NoTurn == [pc |-> "off", prompt |-> None, owed |-> FALSE, wake |-> FALSE, rides |-> {},
           inject |-> <<>>, job |-> 0]

Assignment == [job : Jobs \cup {0}, turn : {"idle", "running", "interrupting", "interrupted"},
               terminal : BOOLEAN, stop : BOOLEAN, claimed : BOOLEAN]

NewAssignment(j) == [job |-> j, turn |-> "idle", terminal |-> FALSE, stop |-> FALSE,
                     claimed |-> FALSE]

Runner == [pc : {"none", "starting", "attaching", "beginning", "waiting", "returned"},
           prompt : Prompts \cup {None}]

Init ==
  /\ c = [closing |-> FALSE, switching |-> FALSE, running |-> FALSE, stopped |-> FALSE,
          gen |-> 1, turns |-> [g \in Turns |-> NoTurn],
          queue |-> <<>>, events |-> <<>>, inbox |-> 0,
          wake |-> "off", streak |-> 0, suppressed |-> FALSE,
          model |-> TRUE, approved |-> FALSE, work |-> HasPlan,
          blocked |-> FALSE, resume |-> FALSE,
          asg |-> NewAssignment(IF IsChild THEN 1 ELSE 0),
          attached |-> IsChild, view |-> IF IsChild THEN "pending" ELSE "ready"]
  /\ loose = 0
  /\ runner = [j \in Jobs |-> [pc |-> IF IsChild /\ j = 1 THEN "starting" ELSE "none",
                               prompt |-> None]]
  /\ cancelled = {} /\ accepted = <<>> /\ log = <<>> /\ rode = {}
  /\ shed = [full |-> {}, failed |-> {}]
  /\ ended = {} /\ excuse = [error |-> {}, stop |-> {}, failure |-> {}]
  /\ recalled = {} /\ released = FALSE
  /\ used = [events |-> 0, inbox |-> 0, cancels |-> 0, compacts |-> 0, switches |-> 0]

HasAssignment(s) == s.asg.job # 0
OpenAssignment(s) == HasAssignment(s) /\ ~s.asg.terminal

(***************************************************************************)
(* The functions that run with streamMu held                               *)
(***************************************************************************)

\* requeueLocked: only prompts that still owe a row wait again.
Requeue(s, ps) == IF s.closing THEN s ELSE [s EXCEPT !.queue = ps \o @]

Owed(p, owed) == IF owed /\ p # None THEN <<p>> ELSE <<>>

\* drainWatchLocked
DrainWatch(s) == [s EXCEPT !.wake = "off", !.events = <<>>]

\* startPromptLocked: the callers decided that the stream is idle; whoever
\* cannot be started is requeued.
StartPrompt(s, p, owed, wake) ==
  IF s.closing \/ s.switching \/ ~s.model THEN Requeue(s, Owed(p, owed))
  ELSE LET d == DrainWatch(s)
           g == CHOOSE g \in Turns \ {s.gen} : s.turns[g].pc = "off"
       IN  IF HasAssignment(s) /\ (s.asg.stop \/ s.asg.terminal)
           THEN Requeue(d, Owed(p, owed))
           ELSE [d EXCEPT !.running = TRUE, !.stopped = FALSE, !.blocked = FALSE,
                          !.resume = FALSE, !.gen = g,
                          !.turns[g] = [NoTurn EXCEPT !.pc = "delay", !.prompt = p,
                                          !.owed = owed, !.wake = wake,
                                          !.rides = ToSet(s.events), !.job = s.asg.job],
                          !.asg.turn = IF HasAssignment(s) THEN "running" ELSE @]

\* maybeResumeApprovedWorkLocked
MaybeResume(s) ==
  LET direct == s.resume /\ s.work
      t      == [s EXCEPT !.resume = direct]
  IN  IF s.closing \/ s.switching \/ s.running THEN s
      ELSE IF s.approved /\ (s.blocked \/ direct) THEN StartPrompt(t, None, FALSE, FALSE)
      ELSE t

\* completeAssignmentLocked
Complete(s) == IF OpenAssignment(s) THEN [s EXCEPT !.asg.terminal = TRUE, !.asg.turn = "idle"]
               ELSE s

\* Mutant: the assignment is over as soon as its turn is told to stop.
StopAssignmentAtOnce(s) ==
  IF ~OpenAssignment(s) THEN s
  ELSE Complete([s EXCEPT !.asg.stop = TRUE, !.queue = <<>>, !.stopped = @ \/ s.running])

\* stopAssignmentLocked
StopAssignment(s) ==
  IF ~OpenAssignment(s) THEN s
  ELSE LET t == [s EXCEPT !.asg.stop = TRUE, !.queue = <<>>]
       IN  IF s.running THEN [t EXCEPT !.stopped = TRUE, !.asg.turn = "interrupting"]
           ELSE Complete(t)

\* stopAssignment(a): a later assignment is not a.
StopJob(s, j) == IF s.asg.job = j THEN StopAssignment(s) ELSE s
Over(s, j) == s.asg.job # j \/ s.asg.terminal

\* Somebody other than a prompt wants a turn.
Waiting(s) == s.events # <<>> \/ s.inbox > 0

\* startNextLocked: queued prompts first, then the approved plan, then whatever
\* is waiting.  A refused queued prompt counts as started and stays queued; the
\* first prompt queued on a finished child needs a new assignment.
Admissible(s) == ~s.closing /\ ~s.switching /\ ~(HasAssignment(s) /\ s.asg.stop)

NeedsFollowUp(s) ==
  Admissible(s) /\ s.queue # <<>> /\ s.model /\ HasAssignment(s) /\ s.asg.terminal

\* Mutant: a turn that ends leaves the waiting events to the timer.
StartNextAsleep(s, stopped) ==
  IF ~Admissible(s) THEN s
  ELSE IF s.queue # <<>>
       THEN IF s.model THEN StartPrompt([s EXCEPT !.queue = Tail(@)], Head(s.queue), TRUE, FALSE)
            ELSE s
  ELSE IF ~stopped \/ ~HasAssignment(s) THEN MaybeResume(s) ELSE s

StartNext(s, stopped) ==
  IF ~Admissible(s) THEN s
  ELSE IF s.queue # <<>>
       THEN IF s.model THEN StartPrompt([s EXCEPT !.queue = Tail(@)], Head(s.queue), TRUE, FALSE)
            ELSE s
  ELSE LET t == IF ~stopped \/ ~HasAssignment(s) THEN MaybeResume(s) ELSE s
       IN  IF ~t.running /\ ~stopped /\ ~t.suppressed /\ Waiting(t) /\ t.streak < MaxWakeStreak
           THEN StartPrompt([t EXCEPT !.streak = @ + 1], None, FALSE, TRUE)
           ELSE t

Started(s, stopped) ==
  Admissible(s) /\ (s.queue # <<>> \/ StartNext(s, stopped).streak > s.streak
                                   \/ StartNext(s, stopped).running)

\* What a stop takes from the queue.
Dropped(s, t) == ToSet(s.queue) \ ToSet(t.queue)

\* A prompt its submitter drew and no turn has appended: a stop loses it, as
\* requeueLocked puts back only prompts that owe a row.
Unheard(s) == IF s.turns[s.gen].owed THEN {} ELSE {s.turns[s.gen].prompt} \ {None}

\* What a stop of the assignment takes from the user.
Struck(s) == IF OpenAssignment(s) THEN ToSet(s.queue) \cup Unheard(s) ELSE {}

Excuse(kind, ps) == excuse' = [excuse EXCEPT ![kind] = @ \cup ps]

\* The coalescing timer; only notifyOutcome arms it during a session switch.
Arm(s) ==
  IF s.running \/ s.suppressed \/ s.wake # "off" \/ s.streak >= MaxWakeStreak
  THEN s ELSE [s EXCEPT !.wake = "armed"]

ArmUnlessSwitching(s) == IF s.switching THEN s ELSE Arm(s)

\* startFollowUpLocked: the job manager admits a new assignment or refuses it.
Admitted == {j \in Jobs : runner[j].pc # "none"}
NextJob == Cardinality(Admitted) + 1

\* Mutant: a refused admission forgets the prompt.
FollowUpLoses(s, p) ==
  /\ NextJob \in Jobs
  /\ \/ /\ c' = [s EXCEPT !.asg = NewAssignment(NextJob)]
        /\ runner' = [runner EXCEPT ![NextJob] = [pc |-> "starting", prompt |-> p]]
     \/ c' = s /\ UNCHANGED runner

FollowUp(s, p) ==
  /\ NextJob \in Jobs
  /\ \/ /\ c' = [s EXCEPT !.asg = NewAssignment(NextJob)]
        /\ runner' = [runner EXCEPT ![NextJob] = [pc |-> "starting", prompt |-> p]]
     \/ c' = Requeue(s, <<p>>) /\ UNCHANGED runner

(***************************************************************************)
(* The user                                                                *)
(***************************************************************************)

outVars == <<log, rode, shed, recalled, released>>

\* StartPrompt (the exported one)
Submit(p) ==
  LET s == [c EXCEPT !.streak = 0, !.suppressed = FALSE]
      reserved == OpenAssignment(s) /\ (~s.asg.claimed \/ s.attached \/ s.asg.turn = "idle")
  IN  /\ p \notin ToSet(accepted) /\ ~c.closing /\ c.view # "failed"
      /\ accepted' = Append(accepted, p)
      /\ \/ /\ IsChild /\ s.asg.terminal /\ ~s.switching
            /\ FollowUp(s, p)
            /\ UNCHANGED <<ended, excuse>>
         \/ /\ ~(IsChild /\ s.asg.terminal /\ ~s.switching)
            /\ IF s.switching \/ s.running \/ reserved
                 THEN c' = [s EXCEPT !.queue = Append(@, p)] /\ UNCHANGED <<ended, excuse>>
                 ELSE /\ c' = StartPrompt(s, p, FALSE, FALSE)
                      /\ ended' = IF c'.running THEN ended ELSE ended \cup {p}
                      /\ Excuse("error", IF s.model THEN {} ELSE {p})   \* refuseNoModelSubmit
            /\ UNCHANGED runner
  /\ UNCHANGED <<loose, cancelled, outVars, used>>

\* RecallQueuedPrompt
Recall ==
  /\ c.queue # <<>>
  /\ c' = [c EXCEPT !.queue = Front(@)]
  /\ recalled' = recalled \cup {Last(c.queue)}
  /\ UNCHANGED <<loose, runner, cancelled, accepted, log, rode, shed, ended, excuse, released, used>>

\* Mutant: Esc frees the pipeline before the loop has exited.
CancelFrees ==
  /\ used.cancels < MaxCancels
  /\ used' = [used EXCEPT !.cancels = @ + 1]
  /\ c' = [c EXCEPT !.suppressed = TRUE, !.wake = "off", !.stopped = @ \/ c.running,
                    !.running = FALSE,
                    !.asg.turn = IF OpenAssignment(c) THEN "interrupted" ELSE @]
  /\ UNCHANGED <<loose, runner, cancelled, accepted, ended, excuse, outVars>>

\* Cancel (Esc)
Cancel ==
  /\ used.cancels < MaxCancels
  /\ used' = [used EXCEPT !.cancels = @ + 1]
  /\ LET busy == c.running \/ c.switching
         turn == IF ~OpenAssignment(c) THEN c.asg.turn
                 ELSE IF busy THEN "interrupting"
                 ELSE IF c.asg.turn = "idle" THEN "interrupted" ELSE c.asg.turn
     IN  c' = [c EXCEPT !.suppressed = TRUE, !.wake = "off",
                        !.stopped = @ \/ busy, !.asg.turn = turn]
  /\ Excuse("stop", Unheard(c))
  /\ UNCHANGED <<loose, runner, cancelled, accepted, ended, outVars>>

\* Compact
Compact ==
  /\ used.compacts < MaxCompacts
  /\ ~c.closing /\ ~c.switching /\ ~c.running
  /\ used' = [used EXCEPT !.compacts = @ + 1]
  /\ LET g == CHOOSE g \in Turns \ {c.gen} : c.turns[g].pc = "off"
     IN  c' = [c EXCEPT !.running = TRUE, !.stopped = FALSE, !.gen = g,
                        !.turns[g] = [NoTurn EXCEPT !.pc = "compacting"]]
  /\ UNCHANGED <<loose, runner, cancelled, accepted, ended, excuse, outVars>>

\* SetPlanApproved
SetPlanApproved(approved) ==
  /\ HasPlan /\ ~c.closing
  /\ LET s == [c EXCEPT !.approved = approved]
     IN  c' = IF approved THEN MaybeResume([s EXCEPT !.resume = @ \/ s.work])
              ELSE [s EXCEPT !.blocked = FALSE, !.resume = FALSE, !.stopped = TRUE,
                             !.queue = <<>>]
  /\ ended' = IF approved THEN ended ELSE ended \cup ToSet(c.queue)
  /\ Excuse("stop", IF approved THEN {} ELSE ToSet(c.queue) \cup Unheard(c))
  /\ UNCHANGED <<loose, runner, cancelled, accepted, outVars, used>>

\* beginSessionSwitch
BeginSwitch ==
  /\ used.switches < MaxSwitches
  /\ ~c.closing /\ ~c.switching /\ ~c.running /\ c.queue = <<>> /\ ~OpenAssignment(c)
  /\ c' = [c EXCEPT !.switching = TRUE]
  /\ used' = [used EXCEPT !.switches = @ + 1]
  /\ UNCHANGED <<loose, runner, cancelled, accepted, ended, excuse, outVars>>

\* switchSession is rolled back, or another conversation has its own plan and
\* leaves the results of the first one in the job store.
Plans == IF HasPlan THEN BOOLEAN ELSE {FALSE}
Other(s, approved, work) == [s EXCEPT !.inbox = 0, !.approved = approved, !.work = work]
Conversations(s) == {s} \cup {Other(s, a, w) : a \in Plans, w \in Plans}

\* endSessionSwitch; queued input of a finished child becomes a follow-up.
EndSwitch ==
  /\ c.switching
  /\ \E s \in Conversations([c EXCEPT !.switching = FALSE, !.stopped = FALSE]) :
       IF NeedsFollowUp(s) THEN FollowUp([s EXCEPT !.queue = Tail(@)], Head(s.queue))
       ELSE c' = StartNext(s, c.stopped) /\ UNCHANGED runner
  /\ UNCHANGED <<loose, cancelled, accepted, ended, excuse, outVars, used>>

\* LeaveAssignment
Leave ==
  /\ OpenAssignment(c) /\ c.queue = <<>> /\ c.asg.turn \in {"interrupting", "interrupted"}
  /\ c' = StopAssignment(c)
  /\ Excuse("stop", Struck(c))
  /\ UNCHANGED <<loose, runner, cancelled, accepted, ended, outVars, used>>

\* Mutant: Close does not stop the turn it waits for.
ShutdownQuietly ==
  /\ ~c.closing
  /\ c' = [StopAssignment([c EXCEPT !.closing = TRUE]) EXCEPT !.queue = <<>>, !.wake = "off"]
  /\ ended' = ended \cup ToSet(c.queue)
  /\ UNCHANGED <<loose, runner, cancelled, accepted, excuse, outVars, used>>

\* Close: shutdownPrompts.  cleanupSession then waits for a switch and for the
\* turns before it gives the session up.
Shutdown ==
  /\ ~c.closing
  /\ LET s == [StopAssignment([c EXCEPT !.closing = TRUE]) EXCEPT !.queue = <<>>, !.wake = "off"]
     IN  c' = [s EXCEPT !.stopped = @ \/ s.running]
  /\ ended' = ended \cup ToSet(c.queue)
  /\ UNCHANGED <<loose, runner, cancelled, accepted, excuse, outVars, used>>

Release ==
  /\ c.closing /\ ~released /\ ~c.switching /\ \A g \in Turns : c.turns[g].pc = "off"
  /\ released' = TRUE
  /\ UNCHANGED <<c, loose, runner, cancelled, accepted, log, rode, shed, ended, excuse, recalled,
                 used>>

\* configuredModelName
ChangeModel ==
  /\ MayLoseModel /\ c' = [c EXCEPT !.model = ~@]
  /\ UNCHANGED <<loose, runner, cancelled, accepted, ended, excuse, outVars, used>>

(***************************************************************************)
(* Watches and background results                                          *)
(***************************************************************************)

\* observeWatchEvent
WatchEvent ==
  /\ used.events < MaxEvents
  /\ LET e == used.events + 1
         q == Append(c.events, e)
     IN  /\ used' = [used EXCEPT !.events = e]
         /\ IF c.closing THEN c' = c /\ shed' = [shed EXCEPT !.full = @ \cup {e}]
            ELSE IF Len(q) > QueueLimit
              THEN /\ c' = ArmUnlessSwitching([c EXCEPT !.events = Tail(q)])
                   /\ shed' = [shed EXCEPT !.full = @ \cup {Head(q)}]
              ELSE c' = ArmUnlessSwitching([c EXCEPT !.events = q]) /\ UNCHANGED shed
  /\ UNCHANGED <<loose, runner, cancelled, accepted, log, rode, ended, excuse, recalled, released>>

\* notifyOutcome, startShellTaskEvents
Result ==
  /\ used.inbox < MaxInbox /\ ~c.closing
  /\ used' = [used EXCEPT !.inbox = @ + 1]
  /\ LET s == [c EXCEPT !.inbox = @ + 1] IN c' \in {Arm(s), ArmUnlessSwitching(s)}
  /\ UNCHANGED <<loose, runner, cancelled, accepted, ended, excuse, outVars>>

\* The coalescing delay is over: the callback waits for streamMu.
TimerFires ==
  /\ c.wake = "armed"
  /\ c' = [c EXCEPT !.wake = "fired"]
  /\ loose' = loose + 1
  /\ UNCHANGED <<runner, cancelled, accepted, ended, excuse, outVars, used>>

\* Mutant: the callback trusts what was true when its timer was armed.
WakeForWatchesBlindly ==
  /\ loose > 0
  /\ loose' = IF c.wake = "armed" THEN loose ELSE loose - 1
  /\ LET s == [c EXCEPT !.wake = "off"]
     IN  c' = IF s.closing \/ s.switching \/ s.running \/ ~Waiting(s) THEN s
              ELSE StartPrompt([s EXCEPT !.streak = @ + 1], None, FALSE, TRUE)
  /\ UNCHANGED <<runner, cancelled, accepted, ended, excuse, outVars, used>>

\* wakeForWatches.  It clears watchWake whatever timer that names by now.
WakeForWatches ==
  /\ loose > 0
  /\ loose' = IF c.wake = "armed" THEN loose ELSE loose - 1
  /\ LET s == [c EXCEPT !.wake = "off"]
     IN  c' = IF s.closing \/ s.switching \/ s.running \/ s.suppressed \/ ~Waiting(s)
                   \/ s.streak >= MaxWakeStreak
              THEN s
              ELSE StartPrompt([s EXCEPT !.streak = @ + 1], None, FALSE, TRUE)
  /\ UNCHANGED <<runner, cancelled, accepted, ended, excuse, outVars, used>>

(***************************************************************************)
(* runLoop                                                                 *)
(***************************************************************************)

Alive(g) == g = c.gen /\ ~c.stopped

Goes(g, pc) == c' = [c EXCEPT !.turns[g].pc = pc]
Held(t) == Owed(t.prompt, t.owed) \o t.inject
turnRest == <<loose, runner, cancelled, accepted, shed, excuse, recalled, released, used>>

\* An error ends a living turn with an error row, which answers every prompt
\* it still holds; a turn that was cut keeps them.  The watch events it took
\* along are gone: they left watchQueue when it drained them.
Fails(g) ==
  /\ c' = IF Alive(g)
          THEN [c EXCEPT !.turns[g] = [@ EXCEPT !.pc = "unwinding", !.prompt = None,
                                                !.rides = {}, !.inject = <<>>]]
          ELSE [c EXCEPT !.turns[g].pc = "unwinding"]
  /\ LET t == c.turns[g]
         answered == (ToSet(t.inject) \cup {t.prompt}) \ {None}
     IN  /\ ended' = IF Alive(g) THEN ended \cup answered ELSE ended
         /\ Excuse("error", IF Alive(g) THEN answered ELSE {})
         /\ shed' = IF Alive(g) THEN [shed EXCEPT !.failed = @ \cup t.rides] ELSE shed
  /\ UNCHANGED <<log, rode, loose, runner, cancelled, accepted, recalled, released, used>>

\* waitOrDone: 120 ms in which Esc costs nothing.
Delay(g) ==
  /\ c.turns[g].pc = "delay"
  /\ Goes(g, IF Alive(g) THEN "opening" ELSE "unwinding")
  /\ UNCHANGED <<log, rode, ended, turnRest>>

\* Loop appends the opening prompt, with the watch reminder folded in.
Opening(g) ==
  /\ c.turns[g].pc = "opening"
  /\ \/ /\ c' = [c EXCEPT !.turns[g] = [@ EXCEPT !.pc = "inbox", !.prompt = None, !.rides = {}]]
        /\ log' = IF c.turns[g].prompt = None THEN log ELSE Append(log, c.turns[g].prompt)
        /\ rode' = rode \cup c.turns[g].rides
        /\ UNCHANGED <<ended, turnRest>>
     \/ Fails(g)

\* deliverOutcomes and deliverShellOutcomes, before each inference.
Inbox(g) ==
  /\ c.turns[g].pc = "inbox"
  /\ \/ /\ ~Alive(g) /\ Goes(g, "unwinding") /\ UNCHANGED <<log, rode, ended, turnRest>>
     \/ /\ Alive(g)
        /\ c' = [c EXCEPT !.turns[g].pc = "inference", !.inbox = 0]
        /\ UNCHANGED <<log, rode, ended, turnRest>>
     \/ /\ Alive(g) /\ c.inbox > 0            \* the store fails: no retry by itself
        /\ c' = [c EXCEPT !.suppressed = TRUE,
                          !.turns[g] = [@ EXCEPT !.pc = "unwinding", !.prompt = None]]
        /\ UNCHANGED <<log, rode, ended, turnRest>>

\* The model answers, or calls tools, or the request fails.
Inference(g) ==
  /\ c.turns[g].pc = "inference"
  /\ \/ ~Alive(g) /\ Goes(g, "unwinding") /\ UNCHANGED <<log, rode, ended, turnRest>>
     \/ Alive(g) /\ Goes(g, "unwinding") /\ UNCHANGED <<log, rode, ended, turnRest>>
     \/ Fails(g)
     \/ /\ Alive(g)
        /\ \/ Goes(g, "boundary")
           \/ /\ HasPlan /\ c.approved         \* a gated tool ran; the plan may be done
              /\ \E work \in BOOLEAN :
                   c' = [c EXCEPT !.turns[g].pc = "boundary", !.blocked = FALSE,
                                  !.resume = FALSE, !.work = work]
           \/ /\ HasPlan /\ ~c.approved        \* the gate denied a tool
              /\ c' = [c EXCEPT !.turns[g].pc = "boundary", !.blocked = TRUE]
        /\ UNCHANGED <<log, rode, ended, turnRest>>

\* Mutant: events are injected only together with a queued prompt.
BoundaryForgets(g) ==
  /\ c.turns[g].pc = "boundary"
  /\ c' = IF Alive(g) /\ ~c.closing
          THEN [DrainWatch(c) EXCEPT !.queue = <<>>,
                  !.turns[g] = [@ EXCEPT !.pc = "feeding", !.inject = c.queue,
                                         !.rides = IF c.queue = <<>> THEN {} ELSE ToSet(c.events)]]
          ELSE [c EXCEPT !.turns[g].pc = "inbox"]
  /\ UNCHANGED <<log, rode, ended, turnRest>>

\* drainQueuedForRun, at the tool-round boundary
Boundary(g) ==
  /\ c.turns[g].pc = "boundary"
  /\ c' = IF Alive(g) /\ ~c.closing
          THEN [DrainWatch(c) EXCEPT !.queue = <<>>,
                  !.turns[g] = [@ EXCEPT !.pc = "feeding", !.inject = c.queue,
                                         !.rides = ToSet(c.events)]]
          ELSE [c EXCEPT !.turns[g].pc = "inbox"]
  /\ UNCHANGED <<log, rode, ended, turnRest>>

\* The engine appends what was drained one by one, cut or not; a watch reminder
\* is the last of them.
Feeding(g) ==
  /\ c.turns[g].pc = "feeding"
  /\ \/ /\ c.turns[g].inject # <<>>
        /\ c' = [c EXCEPT !.turns[g].inject = Tail(@)]
        /\ log' = Append(log, Head(c.turns[g].inject))
        /\ UNCHANGED <<rode, ended, turnRest>>
     \/ /\ c.turns[g].inject = <<>>
        /\ c' = [c EXCEPT !.turns[g] = [@ EXCEPT !.pc = "inbox", !.rides = {}]]
        /\ rode' = rode \cup c.turns[g].rides
        /\ UNCHANGED <<log, ended, turnRest>>
     \/ Fails(g)

\* Mutant: a cut turn does not requeue what it held.
UnwindingLoses(g) ==
  /\ c.turns[g].pc = "unwinding"
  /\ c' = [c EXCEPT !.turns[g] = [NoTurn EXCEPT !.pc = "finishing", !.job = c.turns[g].job]]
  /\ UNCHANGED <<log, rode, ended, turnRest>>

\* requeueUndelivered, deferred by runLoop
Unwinding(g) ==
  LET t == c.turns[g] IN
  /\ t.pc = "unwinding"
  /\ c' = [Requeue(c, Held(t)) EXCEPT !.turns[g] = [NoTurn EXCEPT !.pc = "finishing",
                                                     !.job = t.job, !.wake = t.wake]]
  /\ ended' = (ended \cup (IF c.closing THEN ToSet(Held(t)) ELSE {})
                     \cup (IF t.owed THEN {} ELSE {t.prompt})) \ {None}
  /\ UNCHANGED <<log, rode, turnRest>>

Compacting(g) ==
  /\ c.turns[g].pc = "compacting"
  /\ Goes(g, "finishing")
  /\ UNCHANGED <<log, rode, ended, turnRest>>

\* Mutant: every turn cut short leaves its assignment interrupted.
FinishingInterrupts(g) ==
  /\ c.turns[g].pc = "finishing"
  /\ LET s == [c EXCEPT !.turns[g] = NoTurn]
         t == [s EXCEPT !.running = FALSE, !.stopped = FALSE]
         n == StartNext(t, c.stopped)
     IN  c' = IF g # c.gen THEN s
              ELSE IF Started(t, c.stopped) \/ ~OpenAssignment(n) THEN n
              ELSE IF c.stopped THEN [n EXCEPT !.asg.turn = "interrupted"]
              ELSE Complete(n)
  /\ UNCHANGED <<log, rode, ended, turnRest>>

\* finishRun, the last thing a turn does
Finishing(g) ==
  /\ c.turns[g].pc = "finishing"
  /\ LET s == [c EXCEPT !.turns[g] = NoTurn]
         t == [s EXCEPT !.running = FALSE, !.stopped = FALSE]
         n == StartNext(t, c.stopped)
     IN  \/ g # c.gen /\ c' = s /\ UNCHANGED runner
         \/ /\ g = c.gen /\ NeedsFollowUp(t)
            /\ FollowUp([t EXCEPT !.queue = Tail(@)], Head(t.queue))
         \/ /\ g = c.gen /\ ~NeedsFollowUp(t)
            /\ c' = IF Started(t, c.stopped) \/ ~OpenAssignment(n) THEN n
                    ELSE IF c.stopped /\ ~n.asg.stop /\ ~n.closing
                      THEN [n EXCEPT !.asg.turn = "interrupted"]
                      ELSE Complete(n)
            /\ UNCHANGED runner
  /\ UNCHANGED <<log, rode, ended, excuse, loose, cancelled, accepted, shed, recalled, released,
                 used>>

(***************************************************************************)
(* runAssignment, on the job manager's goroutine                           *)
(***************************************************************************)

Returns(j) == runner' = [runner EXCEPT ![j].pc = "returned"]
runnerRest == <<loose, accepted, log, rode, shed, recalled, released, used>>

\* The first critical section; a stop may have won before it, or a later
\* assignment, or another turn.
Claim(j) ==
  LET fresh    == c.asg.job = j /\ ~c.asg.claimed
      reserved == fresh /\ ~c.asg.terminal
      installs == c.queue = <<>> /\ c.asg.terminal /\ c.asg.job # j
  IN  /\ runner[j].pc = "starting"
      /\ IF fresh /\ c.asg.terminal
           THEN Returns(j) /\ c' = [c EXCEPT !.asg.claimed = TRUE]
         ELSE IF c.closing \/ c.running \/ ~(reserved \/ installs)
           THEN Returns(j) /\ UNCHANGED c
         ELSE /\ runner' = [runner EXCEPT ![j].pc = IF c.attached THEN "attaching" ELSE "beginning"]
              /\ c' = IF reserved THEN [c EXCEPT !.asg.claimed = TRUE]
                      ELSE [c EXCEPT !.asg = [NewAssignment(j) EXCEPT !.claimed = TRUE]]
      /\ UNCHANGED <<cancelled, ended, excuse, runnerRest>>

\* A follow-up's BindSession fails before that: its own prompt waits again, what
\* was queued behind it is dropped.
BindFails(j) ==
  /\ runner[j].pc = "starting" /\ j > 1
  /\ Returns(j)
  /\ IF Over(c, j) THEN UNCHANGED <<c, ended, excuse>>
     ELSE LET s == StopAssignment(c)
          IN  /\ c' = Requeue(s, <<runner[j].prompt>>) /\ ended' = ended \cup Dropped(c, s)
              /\ Excuse("failure", Struck(c))
  /\ UNCHANGED <<cancelled, runnerRest>>

\* childAttachment.finish: the child's View is assembled, or could not be.
ViewReady ==
  /\ c.view = "pending"
  /\ \E outcome \in {"ready"} \cup (IF ViewFails THEN {"failed"} ELSE {}) :
       c' = [c EXCEPT !.view = outcome]
  /\ UNCHANGED <<runner, cancelled, ended, excuse, runnerRest>>

\* A runner that saw the fence waits for it, or for the end of its assignment.
Attach(j) ==
  /\ runner[j].pc = "attaching"
  /\ \/ /\ c.view # "pending"
        /\ runner' = [runner EXCEPT ![j].pc = "beginning"]
        /\ c' = IF c.view = "failed" THEN StopJob(c, j) ELSE c
        /\ ended' = ended \cup Dropped(c, c')
        /\ Excuse("failure", IF c.view = "failed" /\ ~Over(c, j) THEN Struck(c) ELSE {})
     \/ Over(c, j) /\ Returns(j) /\ UNCHANGED <<c, ended, excuse>>
  /\ UNCHANGED <<cancelled, runnerRest>>

\* The second critical section starts the assignment's first turn.
Begin(j) ==
  LET s == [c EXCEPT !.attached = FALSE]
      p == runner[j].prompt
  IN  /\ runner[j].pc = "beginning"
      /\ runner' = [runner EXCEPT ![j].pc = "waiting"]
      /\ IF Over(s, j) THEN c' = s /\ UNCHANGED <<ended, excuse>>
         ELSE IF j \in cancelled \/ ~s.model
           THEN /\ c' = Requeue(StopAssignment(s), Owed(p, TRUE))
                /\ ended' = ended \cup Dropped(s, StopAssignment(s))
                /\ Excuse(IF j \in cancelled THEN "stop" ELSE "failure", Struck(s))
         ELSE IF s.asg.turn = "idle"
           THEN c' = StartPrompt(s, p, TRUE, FALSE) /\ UNCHANGED <<ended, excuse>>
         ELSE IF s.asg.turn = "interrupted" /\ s.queue # <<>>
           THEN /\ c' = StartPrompt([s EXCEPT !.queue = Tail(@)], Head(s.queue), TRUE, FALSE)
                /\ UNCHANGED <<ended, excuse>>
         ELSE c' = s /\ UNCHANGED <<ended, excuse>>
      /\ UNCHANGED <<cancelled, runnerRest>>

\* a.done is closed.
Done(j) ==
  /\ runner[j].pc = "waiting" /\ Over(c, j)
  /\ Returns(j)
  /\ UNCHANGED <<c, cancelled, ended, excuse, runnerRest>>

\* The job is cancelled: its context ends, and AfterFunc stops the assignment.
CancelJob(j) ==
  /\ runner[j].pc \notin {"none", "returned"} /\ j \notin cancelled
  /\ Cardinality(cancelled) < MaxKills
  /\ cancelled' = cancelled \cup {j}
  /\ UNCHANGED <<c, runner, ended, excuse, runnerRest>>

ContextEnds(j) ==
  /\ j \in cancelled /\ runner[j].pc \in {"attaching", "beginning", "waiting"}
  /\ ~Over(c, j) /\ ~c.asg.stop
  /\ c' = StopAssignment(c)
  /\ ended' = ended \cup Dropped(c, c')
  /\ Excuse("stop", Struck(c))
  /\ UNCHANGED <<runner, cancelled, runnerRest>>

(***************************************************************************)
(* The system                                                              *)
(***************************************************************************)

TurnStep(g) == \/ Delay(g) \/ Opening(g) \/ Inbox(g) \/ Inference(g) \/ Boundary(g)
               \/ Feeding(g) \/ Unwinding(g) \/ Compacting(g) \/ Finishing(g)

RunnerStep(j) == Claim(j) \/ BindFails(j) \/ Attach(j) \/ Begin(j) \/ Done(j) \/ ContextEnds(j)

UserStep == \/ \E p \in Prompts : Submit(p)
            \/ Recall \/ Cancel \/ Compact
            \/ \E approved \in BOOLEAN : SetPlanApproved(approved)
            \/ BeginSwitch \/ EndSwitch \/ Leave \/ Shutdown \/ Release \/ ChangeModel

Background == WatchEvent \/ Result \/ TimerFires \/ WakeForWatches

Next == \/ UserStep \/ Background
        \/ \E g \in Turns : TurnStep(g)
        \/ ViewReady
        \/ \E j \in Jobs : RunnerStep(j) \/ CancelJob(j)

Spec == Init /\ [][Next]_vars

\* Goroutines, timers and the deferred end of a switch run on; the user need not
\* act, a model need not stop asking for tools, and nothing makes a watch fire.
Fairness ==
  /\ \A g \in Turns : WF_vars(TurnStep(g))
  /\ \A j \in Jobs : WF_vars(RunnerStep(j))
  /\ WF_vars(ViewReady) /\ WF_vars(TimerFires) /\ WF_vars(WakeForWatches)
  /\ WF_vars(EndSwitch) /\ WF_vars(Release)

FairSpec == Spec /\ Fairness

(***************************************************************************)
(* Properties                                                              *)
(***************************************************************************)

TypeOK ==
  /\ c \in [closing : BOOLEAN, switching : BOOLEAN, running : BOOLEAN, stopped : BOOLEAN,
            gen : Turns, turns : [Turns -> Turn],
            queue : Seq(Prompts), events : Seq(Events), inbox : 0..MaxInbox,
            wake : {"off", "armed", "fired"}, streak : 0..MaxWakeStreak, suppressed : BOOLEAN,
            model : BOOLEAN, approved : BOOLEAN, work : BOOLEAN,
            blocked : BOOLEAN, resume : BOOLEAN, asg : Assignment, attached : BOOLEAN,
            view : {"pending", "ready", "failed"}]
  /\ Len(c.events) <= QueueLimit
  /\ loose \in Nat /\ runner \in [Jobs -> Runner] /\ cancelled \subseteq Jobs
  /\ accepted \in Seq(Prompts) /\ log \in Seq(Prompts)
  /\ rode \subseteq Events
  /\ shed \in [full : SUBSET Events, failed : SUBSET Events]
  /\ excuse \in [error : SUBSET Prompts, stop : SUBSET Prompts, failure : SUBSET Prompts]
  /\ ended \subseteq Prompts /\ recalled \subseteq Prompts /\ released \in BOOLEAN

\* Two turns never run against one engine at once, whoever starts them: the
\* submit, the wake timer, a session switch that ends, the job manager's runner
\* (Cancel's comment, controller.go:2697).
OneLoop == Cardinality({g \in Turns : c.turns[g].pc # "off"}) <= 1

\* Where an accepted prompt is: waiting, held by a turn or by an assignment that
\* has not begun, in the session, given up, or taken back.
Places(p) ==
  {<<"queue", i>> : i \in {i \in DOMAIN c.queue : c.queue[i] = p}}
  \cup {<<"turn", g>> : g \in {g \in Turns : p \in ToSet(c.turns[g].inject) \cup {c.turns[g].prompt}}}
  \cup {<<"runner", j>> : j \in {j \in Jobs : runner[j].prompt = p
                                   /\ runner[j].pc \in {"starting", "attaching", "beginning"}}}
  \cup {<<"log", i>> : i \in {i \in DOMAIN log : log[i] = p}}
  \cup (IF p \in ended THEN {<<"ended", 0>>} ELSE {})
  \cup (IF p \in recalled THEN {<<"recalled", 0>>} ELSE {})

\* A prompt StartPrompt accepted is never delivered twice, and never lost through
\* queueing, draining into a running turn, requeueing and recall.  A session that
\* is not closing gives one up only for a reason it was given: an error row
\* answers it (refuseNoModelSubmit, a failed append or request); Esc cuts its turn
\* before it was appended and its row was drawn already (requeueLocked's comment,
\* controller.go:3233); the user takes the plan's approval back, which clears the
\* queue (961); its assignment is stopped (assignment.go:214) by the end of its
\* job, or because it fails before its first turn.
PromptsAccounted ==
  \/ c.closing
  \/ /\ \A p \in ToSet(accepted) : Cardinality(Places(p)) = 1
     /\ ended \subseteq excuse.error \cup excuse.stop \cup excuse.failure

\* Whatever stops an assignment, no prompt is delivered twice or waits in two
\* places.  And unless Esc or a cancelled job strikes, none is lost, and one is
\* given up only by an error row or behind a failure: a follow-up that is refused,
\* fails to bind or meets a failing View finds its own way back to the queue
\* (StartPrompt's comment, controller.go:2438), the prompts queued behind it do
\* not (followup.go:55).
FollowUpsPlaced ==
  /\ \A p \in ToSet(accepted) : Cardinality(Places(p)) <= 1
  /\ used.cancels = 0 /\ cancelled = {}
       => PromptsAccounted /\ (c.closing \/ ended \subseteq excuse.error \cup excuse.failure)

\* A prompt whose follow-up cannot start is handed back to the queue "instead of
\* losing it" (StartPrompt's comment, controller.go:2441), with what waits behind it.
QueueKept == c.closing \/ used.cancels > 0 \/ cancelled # {} \/ ended \subseteq excuse.error

\* Prompts reach the session in the order the user sent them, though cut turns
\* put theirs back and tool-round boundaries drain the queue past finishRun.
Fifo ==
  \A i, k \in DOMAIN log :
    i < k => \E m, n \in DOMAIN accepted : m < n /\ accepted[m] = log[i] /\ accepted[n] = log[k]

\* Both of a session the user drives.
PromptsInOrder == PromptsAccounted /\ Fifo

\* A watch event the queue had room for reaches the session or is still waiting,
\* unless it rode with a turn that failed before it appended it: a turn that runs
\* on, and one that only starts for another reason, takes it over without losing it.
EventsAccounted ==
  c.closing \/ 1..used.events = ToSet(c.events) \cup rode \cup shed.full \cup shed.failed
                                \cup UNION {c.turns[g].rides : g \in Turns}

\* A running turn picks an event up and an idle session wakes for it
\* (observeWatchEvent's comment, controller.go:463): a failing turn loses none.
EventsReach ==
  c.closing \/ 1..used.events = ToSet(c.events) \cup rode \cup shed.full
                                \cup UNION {c.turns[g].rides : g \in Turns}

\* Background work starts a turn only below maxWakeStreak turns in a row, each
\* one counted, and never after Esc until the user speaks again, though the
\* timer's callback may already be waiting for the lock when Esc takes it.
WakesAreThrottled ==
  [][\A g \in Turns :
       c.turns[g].pc = "off" /\ c'.turns[g].pc # "off" /\ c'.turns[g].wake
         => c'.streak = c.streak + 1 /\ c.streak < MaxWakeStreak /\ ~c.suppressed]_vars

\* RunAssignment returns only when no turn of its job is left
\* (its comment, assignment.go:80).
ReturnProvesExit ==
  \A j \in Jobs : runner[j].pc = "returned" => \A g \in Turns : c.turns[g].job # j \/ c.turns[g].pc = "off"

Throttled == c.suppressed \/ c.streak >= MaxWakeStreak \/ c.closing

\* Events and background results get a turn of their own when nobody else takes
\* them, unless the user said stop or the streak is used up: no interleaving of
\* timer, turn end and session switch forgets to wake.
WorkWakes ==
  /\ \A e \in Events : (e \in ToSet(c.events)) ~> (e \notin ToSet(c.events) \/ Throttled)
  /\ (c.inbox > 0) ~> (c.inbox = 0 \/ Throttled)

\* Esc interrupts a turn and keeps accepted prompts (Cancel's comment,
\* controller.go:2697); giving one up takes a stop of the assignment.
EscKeepsPrompts == ~c.asg.stop => PromptsAccounted

\* Close comes to its end: every turn notices the stop.
CloseFinishes == c.closing ~> released

\* A cancelled job's runner returns, so that its slot is freed.
CancelledReturns == \A j \in Jobs : (j \in cancelled) ~> (runner[j].pc = "returned")

=============================================================================
