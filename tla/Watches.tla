------------------------------ MODULE Watches ------------------------------
(***************************************************************************)
(* The watch manager (src/internal/watch/watch.go): commands and timers    *)
(* that report events while they run.  Start registers a watch under the        *)
(* lock and launches its goroutine after releasing it; the goroutine       *)
(* emits events against one session-wide flood budget and publishes a last *)
(* event when its source ends; subscribers hear over bounded channels;     *)
(* Close cancels everything, waits for the goroutines and closes the       *)
(* channels.                                                               *)
(*                                                                         *)
(* A watch is its number (w1, w2, ...).  What an event says is left out,   *)
(* except that the last one is marked and says why the watch ended.        *)
(***************************************************************************)
EXTENDS Integers, FiniteSets, SequencesExt

CONSTANTS
  MaxStarts,         \* bound: calls of Start that succeed
  MaxLive,           \* MaxLive
  FloodLimit,        \* FloodLimit
  FloodWindow,       \* floodWindow, in ticks
  LogLimit,          \* logLimit
  FinishedLogKeep,   \* FinishedLogKeep
  Subs,              \* the subscribers
  SubscriberBuffer,  \* subscriberBuffer
  MaxTime,           \* bound: ticks of the clock
  MaxEmits           \* bound: events counted against the budget

ASSUME WatchAssumption ==
  /\ {MaxStarts, MaxLive, FloodWindow, MaxTime, MaxEmits} \subseteq Nat
  /\ {FloodLimit, LogLimit, FinishedLogKeep, SubscriberBuffer} \subseteq Nat \ {0}

VARIABLES
  closed,    \* m.closed
  entry,     \* the watches, in start order
  window,    \* m.window
  finished,  \* m.finished
  subs,      \* m.subs
  chan,      \* every subscriber's channel, and all it was ever sent
  closing,   \* where Close stands
  now,       \* the clock
  shown,     \* when the events counted against the budget were published
  panicked   \* a send on a closed channel, or a second close of one

watchVars == <<closed, entry, window, finished, subs, chan, closing, now, shown, panicked>>

Ids == 1..Len(entry)

\* "starting": registered, the goroutine not launched yet (lines 216-220);
\* "flooding": the flood is recorded and the lock released, cancel comes next.
Stages == {"starting", "running", "flooding", "finished"}

Reasons == {"flooded", "failed", "ended"}
Event(id) == [id |-> id, final |-> FALSE, why |-> "event"]
FinalEvent(id, why) == [id |-> id, final |-> TRUE, why |-> why]
Events == [id : 1..MaxStarts, final : BOOLEAN, why : Reasons \cup {"event"}]

Live(id) == entry[id].stage # "finished"

\* The goroutines wg counts: wg.Add comes before the launch, not before the unlock.
Running == {id \in Ids : entry[id].stage \in {"running", "flooding"}}

\* Mutant: the trim keeps the oldest events.
Oldest(log, n) == SubSeq(log, 1, IF Len(log) > n THEN n ELSE Len(log))

Newest(log, n) == SubSeq(log, (IF Len(log) > n THEN Len(log) - n ELSE 0) + 1, Len(log))

\* publishLocked: never waits, and skips a subscriber that is full or gone.
PublishLocked(ev) ==
  /\ chan' = [s \in Subs |->
       IF s \in subs /\ ~chan[s].closed
          /\ Len(chan[s].heard) - chan[s].taken < SubscriberBuffer
       THEN [chan[s] EXCEPT !.heard = Append(@, ev)]
       ELSE chan[s]]
  /\ panicked' = (panicked \/ \E s \in subs : ~chan[s].closed /\ chan[s].phase = "closed")

-----------------------------------------------------------------------------
InitWatches ==
  /\ closed = FALSE
  /\ entry = <<>>
  /\ window = <<>>
  /\ finished = <<>>
  /\ subs = {}
  /\ chan = [s \in Subs |->
       [phase |-> "none", closed |-> FALSE, callable |-> FALSE, heard |-> <<>>, taken |-> 0]]
  /\ closing = "open"
  /\ now = 0
  /\ shown = <<>>
  /\ panicked = FALSE

\* Start, up to the unlock: refused when closed or when MaxLive watches run.
StartWatch ==
  /\ ~closed
  /\ Cardinality({id \in Ids : Live(id)}) < MaxLive
  /\ Len(entry) < MaxStarts
  /\ entry' = Append(entry,
       [stage |-> "starting", cancelled |-> FALSE, flooded |-> FALSE, log |-> <<>>])
  /\ UNCHANGED <<closed, window, finished, subs, chan, closing, now, shown, panicked>>

\* The rest of Start: wg.Add(1) and the goroutine.
Launch(id) ==
  /\ entry[id].stage = "starting"
  /\ entry' = [entry EXCEPT ![id].stage = "running"]
  /\ UNCHANGED <<closed, window, finished, subs, chan, closing, now, shown, panicked>>

\* What is left of the window when the events before the first young one go.
Remainder(young) ==
  SubSeq(window, IF young = {} THEN Len(window) + 1 ELSE Min(young), Len(window))

Younger(age) == {i \in DOMAIN window : now - window[i] < age}

\* Mutant: an event leaves the window a tick early.
PruneWindowEarly == Remainder(Younger(FloodWindow - 1))

\* pruneWindowLocked: what is left of the budget's window now.
PruneWindow == Remainder(Younger(FloodWindow))

\* emit within the budget.  The source may still emit after a cancellation:
\* its output is in the pipe, or its tick was chosen over ctx.Done.
Emit(id) ==
  /\ entry[id].stage = "running"
  /\ Len(PruneWindow) < FloodLimit
  /\ Len(shown) < MaxEmits
  /\ window' = Append(PruneWindow, now)
  /\ shown' = Append(shown, now)
  /\ entry' = [entry EXCEPT ![id].log = Newest(Append(@, Event(id)), LogLimit)]
  /\ PublishLocked(Event(id))
  /\ UNCHANGED <<closed, finished, subs, closing, now>>

\* emit past the budget: the event is dropped and the watch is to be stopped.
EmitFlooded(id) ==
  /\ entry[id].stage = "running"
  /\ Len(PruneWindow) >= FloodLimit
  /\ window' = PruneWindow
  /\ entry' = [entry EXCEPT ![id].flooded = TRUE, ![id].stage = "flooding"]
  /\ UNCHANGED <<closed, finished, subs, chan, closing, now, shown, panicked>>

\* Mutant: the flood is recorded and nobody cancels.
CancelFloodedForgotten(id) ==
  /\ entry[id].stage = "flooding"
  /\ entry' = [entry EXCEPT ![id].stage = "running"]
  /\ UNCHANGED <<closed, window, finished, subs, chan, closing, now, shown, panicked>>

\* emit's cancel, after the unlock; the source goes on until it sees it.
CancelFlooded(id) ==
  /\ entry[id].stage = "flooding"
  /\ entry' = [entry EXCEPT ![id].cancelled = TRUE, ![id].stage = "running"]
  /\ UNCHANGED <<closed, window, finished, subs, chan, closing, now, shown, panicked>>

\* finish: the source returned, with an error of its own or without.
Finish(id, failed) ==
  LET why == IF entry[id].flooded THEN "flooded" ELSE IF failed THEN "failed" ELSE "ended"
      full == Append(finished, id)
      excess == IF Len(full) > FinishedLogKeep THEN Len(full) - FinishedLogKeep ELSE 0
      shrunk == {full[i] : i \in 1..excess}
      ended == [entry EXCEPT ![id].stage = "finished", ![id].cancelled = TRUE,
                             ![id].log = Newest(Append(@, FinalEvent(id, why)), LogLimit)]
  IN /\ entry[id].stage = "running"
     /\ entry' = [i \in Ids |-> IF i \in shrunk THEN [ended[i] EXCEPT !.log = Newest(@, 1)]
                                                ELSE ended[i]]
     /\ finished' = SubSeq(full, excess + 1, Len(full))
     /\ PublishLocked(FinalEvent(id, why))
     /\ UNCHANGED <<closed, window, subs, closing, now, shown>>

Stop(id) ==
  /\ ~entry[id].cancelled
  /\ entry' = [entry EXCEPT ![id].cancelled = TRUE]
  /\ UNCHANGED <<closed, window, finished, subs, chan, closing, now, shown, panicked>>

\* Subscribe; on a closed manager the channel comes back closed, its cancel a no-op.
Subscribe(s) ==
  /\ chan[s].phase = "none"
  /\ IF closed
     THEN /\ chan' = [chan EXCEPT ![s].phase = "closed", ![s].closed = TRUE]
          /\ UNCHANGED subs
     ELSE /\ chan' = [chan EXCEPT ![s].phase = "open", ![s].callable = TRUE]
          /\ subs' = subs \cup {s}
  /\ UNCHANGED <<closed, entry, window, finished, closing, now, shown, panicked>>

\* Mutant: the cancel function does not look whether Close was there first.
UnsubscribeAgain(s) ==
  /\ chan[s].callable
  /\ subs' = subs \ {s}
  /\ chan' = [chan EXCEPT ![s].callable = FALSE, ![s].closed = TRUE, ![s].phase = "closed"]
  /\ panicked' = (panicked \/ chan[s].phase = "closed")
  /\ UNCHANGED <<closed, entry, window, finished, closing, now, shown>>

\* The cancel function Subscribe returned, which runs once.
Unsubscribe(s) ==
  /\ chan[s].callable
  /\ subs' = subs \ {s}
  /\ IF chan[s].closed
     THEN /\ chan' = [chan EXCEPT ![s].callable = FALSE]
          /\ UNCHANGED panicked
     ELSE /\ chan' = [chan EXCEPT ![s].callable = FALSE, ![s].closed = TRUE, ![s].phase = "closed"]
          /\ panicked' = (panicked \/ chan[s].phase = "closed")
  /\ UNCHANGED <<closed, entry, window, finished, closing, now, shown>>

Receive(s) ==
  /\ chan[s].taken < Len(chan[s].heard)
  /\ chan' = [chan EXCEPT ![s].taken = @ + 1]
  /\ UNCHANGED <<closed, entry, window, finished, subs, closing, now, shown, panicked>>

\* Close, first critical section.  A later call returns at once.
Close ==
  /\ ~closed
  /\ closed' = TRUE
  /\ entry' = [id \in Ids |-> [entry[id] EXCEPT !.cancelled = TRUE]]
  /\ closing' = "waiting"
  /\ UNCHANGED <<window, finished, subs, chan, now, shown, panicked>>

\* Close after wg.Wait: the channels are closed and Close returns.
CloseSubs ==
  LET open == {s \in subs : ~chan[s].closed}
  IN /\ closing = "waiting"
     /\ Running = {}
     /\ chan' = [s \in Subs |->
          IF s \in open THEN [chan[s] EXCEPT !.closed = TRUE, !.phase = "closed"] ELSE chan[s]]
     /\ panicked' = (panicked \/ \E s \in open : chan[s].phase = "closed")
     /\ subs' = {}
     /\ closing' = "returned"
     /\ UNCHANGED <<closed, entry, window, finished, now, shown>>

Tick ==
  /\ now < MaxTime
  /\ now' = now + 1
  /\ UNCHANGED <<closed, entry, window, finished, subs, chan, closing, shown, panicked>>

WatchStep(id) ==
  \/ Launch(id) \/ Emit(id) \/ EmitFlooded(id) \/ CancelFlooded(id) \/ Stop(id)
  \/ \E failed \in BOOLEAN : Finish(id, failed)

SubStep(s) == Subscribe(s) \/ Unsubscribe(s) \/ Receive(s)

NextWatches ==
  \/ StartWatch
  \/ \E id \in Ids : WatchStep(id)
  \/ \E s \in Subs : SubStep(s)
  \/ Close \/ CloseSubs \/ Tick

SpecWatches == InitWatches /\ [][NextWatches]_watchVars

\* Fairness: goroutines that can run do run, and a source whose context is
\* cancelled returns (the shell kills its command, the ticker selects on
\* ctx.Done).  That is strong fairness: on its way out it may still be caught
\* in emit, but a dead command has only so much output left in the pipe.
\* Nothing obliges a source to end on its own, a subscriber to read, the user
\* to stop anything, or the clock to move.
EndsWhenCancelled(id) ==
  id \in Ids /\ entry[id].cancelled /\ \E failed \in BOOLEAN : Finish(id, failed)

WatchFairness ==
  /\ \A id \in 1..MaxStarts :
       /\ WF_watchVars(id \in Ids /\ Launch(id))
       /\ WF_watchVars(id \in Ids /\ CancelFlooded(id))
       /\ SF_watchVars(EndsWhenCancelled(id))
  /\ WF_watchVars(CloseSubs)

FairSpecWatches == SpecWatches /\ WatchFairness
-----------------------------------------------------------------------------
WatchTypeOK ==
  /\ closed \in BOOLEAN
  /\ entry \in Seq([stage : Stages, cancelled : BOOLEAN, flooded : BOOLEAN, log : Seq(Events)])
  /\ \A id \in Ids : Len(entry[id].log) <= LogLimit
  /\ window \in Seq(0..MaxTime)
  /\ finished \in Seq(Ids)
  /\ subs \subseteq Subs
  /\ chan \in [Subs -> [phase : {"none", "open", "closed"}, closed : BOOLEAN,
                        callable : BOOLEAN, heard : Seq(Events), taken : Nat]]
  /\ closing \in {"open", "waiting", "returned"}
  /\ now \in 0..MaxTime
  /\ shown \in Seq(0..MaxTime)
  /\ panicked \in BOOLEAN

\* No subscriber's channel is closed twice or sent to once it is closed, with
\* Close, the subscriber's own cancel and a watch publishing in any order.
NoPanic == ~panicked

\* The budget is for the session: any FloodLimit + 1 events in a row, whichever
\* watches they come from, take at least the flood window.
FloodBudget ==
  \A i \in 1..Len(shown) :
    i + FloodLimit <= Len(shown) => shown[i + FloodLimit] - shown[i] >= FloodWindow

\* Final marks the last event under an ID: no subscriber hears from the watch
\* after it, though sources go on emitting after Stop, a flood or Close.
FinalLast ==
  \A s \in Subs : \A j \in DOMAIN chan[s].heard : \A i \in 1..(j - 1) :
    chan[s].heard[i].final => chan[s].heard[i].id # chan[s].heard[j].id

\* How a watch ended stays queryable, truthfully, however full its log was and
\* however many ended after it; at most FinishedLogKeep finished watches keep
\* more than that.
EndStaysQueryable ==
  /\ \A id \in Ids : ~Live(id) =>
       /\ entry[id].log # <<>>
       /\ Last(entry[id].log).final
       /\ (Last(entry[id].log).why = "flooded") = entry[id].flooded
  /\ Cardinality({id \in Ids : ~Live(id) /\ Len(entry[id].log) > 1}) <= FinishedLogKeep

\* A watch ends once, for its subscribers and for those who ask later.
EndsOnce == FinalLast /\ EndStaysQueryable

\* "Close stops every watch and waits for their goroutines" (watch.go:426): once
\* it has returned no watch is still to run.
CloseWaits == closing = "returned" => \A id \in Ids : ~Live(id)

\* Whoever stopped it, the user, the flood budget or Close, a stopped watch ends
\* with its last event, also while nobody reads a full channel.
StoppedEnds ==
  \A id \in 1..MaxStarts :
    (id \in Ids /\ (entry[id].cancelled \/ entry[id].flooded)) ~> (id \in Ids /\ ~Live(id))

=============================================================================
