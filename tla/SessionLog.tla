----------------------------- MODULE SessionLog -----------------------------
(***************************************************************************)
(* The conversation log of one session (src/internal/session).             *)
(*                                                                         *)
(* Entries form a tree that only grows; the cursor ("leaf") says which     *)
(* branch is the conversation.  A Manager keeps the entries in memory and, *)
(* from the first record that must survive, in a JSONL file that another   *)
(* Manager - after Close, or after the process died - replays.  An entry   *)
(* is identified by its position, 0 being "no entry"; the header is left   *)
(* out.  Every public method holds the Manager's lock throughout.          *)
(***************************************************************************)
EXTENDS Integers, Sequences, FiniteSets, FiniteSetsExt

CONSTANTS
  Managers,        \* Managers that may own the session, one after the other
  Events,          \* identities of background deliveries
  Kinds,           \* kinds of plain messages that are appended
  MaxEntries,      \* bound: entries in the log
  MaxMoves,        \* bound: cursor moves in the log
  MaxCompactions   \* bound: compaction entries in the log

ASSUME KindsAssumption == Kinds \subseteq {"prompt", "answer", "call"}
ASSUME BoundsAssumption == MaxEntries \in Nat /\ MaxMoves \in Nat /\ MaxCompactions \in Nat

NoEvent == "no event"
Nobody  == "nobody"

ASSUME SentinelAssumption == NoEvent \notin Events /\ Nobody \notin Managers

VARIABLES
  owner,     \* the Manager that holds the sidecar lock
  born,      \* the session was created
  log,       \* sm.entries, for each Manager
  leaf,      \* sm.leafID
  flushed,   \* sm.flushed
  answered,  \* sm.hasAssistantMsg
  file,      \* the complete entries of the JSONL file
  tail,      \* "clean", "open" (last newline missing) or "torn" (partial line)
  receipts,  \* deliveries AppendDelivery has answered for without an error
  copy       \* the last fork: its branch, and what its source then showed

memVars == <<log, leaf, flushed, answered>>
vars == <<owner, born, memVars, file, tail, receipts, copy>>

Messages == {"prompt", "answer", "call", "delivery"}
EntryKinds == Messages \cup {"compaction", "move", "note"}
Ids == 0..MaxEntries
Entry == [kind : EntryKinds, parent : Ids, event : Events \cup {NoEvent},
          target : Ids, from : Ids, kept : Ids, dropped : SUBSET Ids]

Logs == UNION {[1..n -> Entry] : n \in Ids}

TypeOK ==
  /\ owner \in Managers \cup {Nobody}
  /\ born \in BOOLEAN
  /\ \A m \in Managers : /\ Len(log[m]) \in Ids
                         /\ \A i \in DOMAIN log[m] : log[m][i] \in Entry
  /\ leaf \in [Managers -> Ids]
  /\ flushed \in [Managers -> BOOLEAN] /\ answered \in [Managers -> BOOLEAN]
  /\ Len(file) \in Ids /\ \A i \in DOMAIN file : file[i] \in Entry
  /\ tail \in {"clean", "open", "torn"}
  /\ receipts \subseteq Events
  /\ copy.branch \subseteq Ids /\ copy.shown \subseteq Ids /\ copy.cut \in Ids

Init ==
  /\ owner = Nobody /\ born = FALSE
  /\ log = [m \in Managers |-> <<>>]
  /\ leaf = [m \in Managers |-> 0]
  /\ flushed = [m \in Managers |-> FALSE]
  /\ answered = [m \in Managers |-> FALSE]
  /\ file = <<>> /\ tail = "clean"
  /\ receipts = {}
  /\ copy = [branch |-> {}, shown |-> {}, cut |-> 0]

(***************************************************************************)
(* The tree and the context                                                *)
(***************************************************************************)

\* walkPath: the entries from the leaf back to the root.  Entries are older
\* than their children, so the set in the order of its ids is the path.
Path(l, lf) ==
  LET up[i \in 0..Len(l)] == IF i = 0 THEN {} ELSE {i} \cup up[l[i].parent]
  IN  up[lf]

Of(l, ids, kinds) == {i \in ids : l[i].kind \in kinds}

\* buildSessionContext: the newest compaction on the path decides from where
\* messages are kept and which of them are hidden.  It works on the path so
\* that a fork, which copies a path, is shown by the same rule.
Shown(l, path) ==
  LET compactions == Of(l, path, {"compaction"})
  IN  IF compactions = {} THEN Of(l, path, Messages)
      ELSE LET c     == Max(compactions)
               first == IF l[c].kept \in path /\ l[c].kept < c THEN l[c].kept ELSE c
           IN  {c} \cup {i \in Of(l, path, Messages) : i >= first /\ i \notin l[c].dropped}

Context(m) == IF leaf[m] = 0 THEN {} ELSE Shown(log[m], Path(log[m], leaf[m]))

\* droppedSetLocked: walkPath is oldest first and the loop returns at the
\* first compaction it meets, so the mask is the oldest one's.
DroppedSet(m) ==
  LET compactions == Of(log[m], Path(log[m], leaf[m]), {"compaction"})
  IN  IF compactions = {} THEN {} ELSE log[m][Min(compactions)].dropped

\* boundaryCutAt: before a prompt the cursor lands on its parent, after a
\* finished answer on the answer; nothing else is a boundary.
Boundaries(m) == Of(log[m], Context(m), {"prompt", "answer"})
Target(m, i) == IF log[m][i].kind = "prompt" THEN log[m][i].parent ELSE i

Moves(l) == Of(l, DOMAIN l, {"move"})

(***************************************************************************)
(* Writing an entry                                                        *)
(***************************************************************************)

Live(m) == owner = m

\* Mutant: the first flush writes only the entry at hand.
AppliedAlone(m, e, lf, must) ==
  /\ log' = [log EXCEPT ![m] = Append(log[m], e)]
  /\ leaf' = [leaf EXCEPT ![m] = lf]
  /\ answered' = [answered EXCEPT ![m] = @ \/ e.kind \in {"answer", "call"}]
  /\ flushed' = [flushed EXCEPT ![m] = @ \/ must]
  /\ file' = IF must THEN Append(file, e) ELSE file
  /\ UNCHANGED <<owner, tail>>

\* The entry is applied to memory; a record that must survive is in the file
\* when the call returns, with everything that was only buffered so far.
Applied(m, e, lf, must) ==
  LET l == Append(log[m], e)
  IN  /\ log' = [log EXCEPT ![m] = l]
      /\ leaf' = [leaf EXCEPT ![m] = lf]
      /\ answered' = [answered EXCEPT ![m] = @ \/ e.kind \in {"answer", "call"}]
      /\ flushed' = [flushed EXCEPT ![m] = @ \/ must]
      /\ file' = IF ~must THEN file ELSE IF flushed[m] THEN Append(file, e) ELSE l
      /\ UNCHANGED <<owner, tail>>

\* The write failed: a partial line is truncated and memory rolled back, so
\* the caller's error is the only trace.
RolledBack(m, e, lf, must) == must /\ UNCHANGED <<owner, memVars, file, tail>>

\* The process dies inside the write: appendFile may leave a part of the line
\* or all of it without its newline; a first flush either happened or not.
Dies(m, e, must) ==
  /\ must
  /\ IF flushed[m]
       THEN \/ file' = file /\ tail' \in {"clean", "torn"}
            \/ file' = Append(file, e) /\ tail' \in {"clean", "open"}
       ELSE file' \in {file, Append(log[m], e)} /\ tail' = "clean"
  /\ owner' = Nobody
  /\ UNCHANGED memVars

Write(m, e, lf, must) ==
  /\ Live(m) /\ Len(log[m]) < MaxEntries
  /\ \/ Applied(m, e, lf, must)
     \/ RolledBack(m, e, lf, must)
     \/ Dies(m, e, must)
  /\ UNCHANGED <<born, copy>>

Blank == [kind |-> "note", parent |-> 0, event |-> NoEvent, target |-> 0, from |-> 0,
          kept |-> 0, dropped |-> {}]

Next1(m) == Len(log[m]) + 1

\* Mutant: a delivery is buffered like a prompt.
MustFlushLate(m, kind) == flushed[m] \/ answered[m] \/ kind \in {"answer", "call"}

\* appendEntry: before the first assistant message a conversation is only
\* buffered, unless it is on disk already.
MustFlush(m, kind) == flushed[m] \/ answered[m] \/ kind \in {"answer", "call", "delivery"}

\* Append, AppendAssistant
AppendMessage(m, kind) ==
  /\ Write(m, [Blank EXCEPT !.kind = kind, !.parent = leaf[m]], Next1(m), MustFlush(m, kind))
  /\ UNCHANGED receipts

Recorded(l, ev) == \E i \in DOMAIN l : l[i].event = ev

\* Mutant: only the current branch is searched for the identity.
AppendDeliveryOnBranch(m, ev) ==
  /\ \A i \in Path(log[m], leaf[m]) : log[m][i].event # ev
  /\ Write(m, [Blank EXCEPT !.kind = "delivery", !.parent = leaf[m], !.event = ev],
           Next1(m), MustFlush(m, "delivery"))
  /\ receipts' = IF log' # log THEN receipts \cup {ev} ELSE receipts

\* AppendDelivery: one durable record per identity, whatever branch, drop or
\* compaction it is hidden by now.
AppendDelivery(m, ev) ==
  /\ ~Recorded(log[m], ev)
  /\ Write(m, [Blank EXCEPT !.kind = "delivery", !.parent = leaf[m], !.event = ev],
           Next1(m), MustFlush(m, "delivery"))
  /\ receipts' = IF log' # log THEN receipts \cup {ev} ELSE receipts

\* A repeated identity is answered "not added, no error".
RepeatDelivery(m, ev) ==
  /\ Live(m) /\ Recorded(log[m], ev)
  /\ receipts' = receipts \cup {ev}
  /\ UNCHANGED <<owner, born, memVars, file, tail, copy>>

\* Mutant: a note becomes the cursor.
AppendNoteMoves(m) ==
  /\ Write(m, Blank, Next1(m), TRUE)
  /\ UNCHANGED receipts

\* SetTitle, AppendAside and a plan update are written at once and never move
\* the cursor.
AppendNote(m) ==
  /\ Write(m, Blank, leaf[m], TRUE)
  /\ UNCHANGED receipts

\* appendCompactionLocked: the caller's drops are added to the inherited mask.
AppendCompaction(m, kept, drops) ==
  /\ Cardinality(Of(log[m], DOMAIN log[m], {"compaction"})) < MaxCompactions
  /\ Write(m, [Blank EXCEPT !.kind = "compaction", !.parent = leaf[m], !.kept = kept,
                            !.dropped = DroppedSet(m) \cup drops],
           Next1(m), MustFlush(m, "compaction"))
  /\ UNCHANGED receipts

\* DropContextEntries keeps what the context keeps, anchored at its first message.
Drop(m, i) ==
  LET kept == Of(log[m], Context(m), Messages)
  IN  AppendCompaction(m, IF kept = {} THEN 0 ELSE Min(kept), {i})

\* moveLeafLocked: the move is written first and then applied.
Move(m, to) ==
  /\ Cardinality(Moves(log[m])) < MaxMoves
  /\ to # leaf[m]
  /\ Write(m, [Blank EXCEPT !.kind = "move", !.target = to, !.from = leaf[m]], to, TRUE)
  /\ UNCHANGED receipts

Rewind(m, i) == i \in Boundaries(m) /\ Move(m, Target(m, i))

\* UndoRewind goes back to where the newest move in the log started from.
UndoRewind(m) ==
  /\ Moves(log[m]) # {}
  /\ Move(m, log[m][Max(Moves(log[m]))].from)

(***************************************************************************)
(* Opening, closing, forking                                               *)
(***************************************************************************)

\* NewSessionManager
Create(m) ==
  /\ ~born /\ owner = Nobody
  /\ born' = TRUE /\ owner' = m
  /\ UNCHANGED <<memVars, file, tail, receipts, copy>>

\* The cursor OpenSession arrives at by replaying the file.
ReplayedLeaf(l) ==
  LET at[i \in 0..Len(l)] ==
        IF i = 0 THEN 0
        ELSE CASE l[i].kind = "note" -> at[i - 1]
               [] l[i].kind = "move" -> l[i].target
               [] OTHER              -> i
  IN  at[Len(l)]

\* OpenSession refuses a move that names an entry not read yet.
Loadable(l) == \A i \in Moves(l) : l[i].target < i /\ l[i].from < i

\* OpenSession: the lock first, then the replay; a torn tail is trimmed and a
\* missing newline restored before anything is appended.
Open(m) ==
  /\ owner = Nobody /\ file # <<>> /\ Loadable(file)
  /\ owner' = m
  /\ tail' = "clean"
  /\ log' = [log EXCEPT ![m] = file]
  /\ leaf' = [leaf EXCEPT ![m] = ReplayedLeaf(file)]
  /\ flushed' = [flushed EXCEPT ![m] = TRUE]
  /\ answered' = [answered EXCEPT ![m] = Of(file, DOMAIN file, {"answer", "call"}) # {}]
  /\ UNCHANGED <<born, file, receipts, copy>>

\* Close releases the lock and flushes nothing; a process that dies between
\* two calls leaves the same.
Close(m) ==
  /\ Live(m)
  /\ owner' = Nobody
  /\ UNCHANGED <<born, memVars, file, tail, receipts, copy>>

\* Fork without an anchor: the branch up to the newest boundary, copied into a
\* session of its own under its ids.
Fork(m) ==
  /\ Live(m) /\ Boundaries(m) # {}
  /\ LET cut == Target(m, Max(Boundaries(m)))
     IN  copy' = [branch |-> Path(log[m], cut),
                  shown |-> Context(m), cut |-> cut]
  /\ UNCHANGED <<owner, born, memVars, file, tail, receipts>>

Next ==
  \E m \in Managers :
    \/ Create(m) \/ Open(m) \/ Close(m) \/ Fork(m)
    \/ \E k \in Kinds : AppendMessage(m, k)
    \/ \E ev \in Events : AppendDelivery(m, ev) \/ RepeatDelivery(m, ev)
    \/ AppendNote(m)
    \/ \E kept \in Context(m) \cup {0} : AppendCompaction(m, kept, {})
    \/ \E i \in Of(log[m], Context(m), Messages) : Drop(m, i)
    \/ \E i \in Boundaries(m) : Rewind(m, i)
    \/ UndoRewind(m)

Spec == Init /\ [][Next]_vars

(***************************************************************************)
(* Properties                                                              *)
(***************************************************************************)

\* Memory and file stay in step: from the first flush on, what the owner has
\* in memory is exactly what the file holds, after every append, failed
\* append, cursor move and note; and nobody but the owner writes.
InStep ==
  \A m \in Managers : Live(m) /\ flushed[m] => file = log[m] /\ tail = "clean"

\* Nothing that reached the file depends on the process: at any moment, through
\* rewinds, undos, failed writes and crashes, the file loads, and a crash and a
\* reopen give the owner back the cursor, and with it the context.
ReopenRestores ==
  /\ Loadable(file)
  /\ \A m \in Managers : Live(m) /\ flushed[m] =>
       /\ ReplayedLeaf(file) = leaf[m]
       /\ answered[m] <=> Of(file, DOMAIN file, {"answer", "call"}) # {}

\* The receipt of a delivery is durable before anyone is told so: the source
\* may forget the outcome as soon as AppendDelivery returns, even though an
\* unanswered conversation around it is otherwise only buffered.
ReceiptsDurable == \A ev \in receipts : Recorded(file, ev)

\* A delivery enters the log once, over retries, crashes between the write and
\* the acknowledgement, rewinds behind it and drops that hide it.
DeliveredOnce ==
  \A i, j \in DOMAIN file : file[i].event = file[j].event /\ file[i].event # NoEvent => i = j

\* The file is append-only once it exists: no call rewrites or loses an entry.
AppendOnly ==
  [][Len(file) <= Len(file') /\ SubSeq(file', 1, Len(file)) = file]_vars

\* doc/fork.md: the blocks the user deleted, and those a compaction replaced,
\* are still hidden in the fork.
ForkHidesWhatWasHidden ==
  \A m \in Managers : Live(m) /\ copy.branch # {} /\ copy.branch \subseteq DOMAIN log[m] =>
    Shown(log[m], copy.branch) \subseteq copy.shown

\* manager.go: a later shape change does not resurrect blocks the user deleted
\* earlier on the same path.
DeletedStaysHidden ==
  \A m \in Managers : \A c \in Of(log[m], Path(log[m], leaf[m]), {"compaction"}) :
    log[m][c].dropped \cap Context(m) = {}
=============================================================================
