------------------------- MODULE DiagnosticsProofs -------------------------
(***************************************************************************)
(* What a confirmed answer of the diagnostics promises, for any number of  *)
(* queries and files and whatever the bounds.                              *)
(***************************************************************************)
EXTENDS Diagnostics, TLAPS

(***************************************************************************)
(* The shape of the state.                                                 *)
(***************************************************************************)

Stamps == [Files -> [at : Nat, exists : BOOLEAN]]
Bases == [Files -> Nat]
Publications == [file : Files, version : Nat, basis : Bases]
PCs == {"idle", "gate", "mark", "marked", "telling", "read", "sync", "synced",
        "evaluate", "asleep", "store", "answered", "ended"}
Locals ==
  [pc : PCs, file : Files \cup {None}, scan : Stamps \cup {<<>>}, todo : SUBSET Files,
   quiet : BOOLEAN, text : Nat, version : Nat, changed : BOOLEAN, woken : BOOLEAN,
   basis : Bases \cup {<<>>}, beside : SUBSET Files]

Sources ==
  /\ disk \in Stamps
  /\ edits \in Nat
  /\ scanned \in Stamps \cup {<<>>}
Given ==
  /\ docs \in [Files -> [version : Nat, text : Nat, invalidated : BOOLEAN]]
  /\ overlay \in [Files -> [version : Nat, text : Nat]]
  /\ cached \in Bases
Caches ==
  /\ push \in [Files -> [version : Nat, text : Nat, basis : Bases \cup {<<>>}]]
  /\ merged \in [Files -> [version : Nat, text : Nat, basis : Bases \cup {<<>>}]]
  /\ out \in Seq(Publications)
Callers ==
  /\ query \in [Queries -> Locals]
  /\ \A q \in Queries : query[q].pc \notin {"idle", "ended"} => query[q].file \in Files
Shape ==
  /\ Sources
  /\ Given
  /\ Caches
  /\ Callers
  /\ reopened \subseteq Files
  /\ behind \subseteq Files

LEMMA InitShape == Init => Shape
  BY DEF Init, Shape, Sources, Given, Caches, Callers, Stamps, Bases, PCs, Locals, NoDoc,
     NoText, Nothing, Idle

\* What the server computes from is a text of every file.
LEMMA ViewIsABasis == Given => View \in Bases
  BY DEF Given, View, Bases

LEMMA WalkIsAScan == Sources => Walk \in Stamps
<1> SUFFICES ASSUME Sources PROVE Walk \in Stamps
  OBVIOUS
<1>1. CASE scanned = <<>>
  BY <1>1 DEF Sources, Walk, Stamps
<1>2. CASE scanned # <<>>
  BY <1>2 DEF Sources, Walk, Stamps
<1> QED
  BY <1>1, <1>2

\* Synchronizing gives every file a document or none.
LEMMA SyncedShape ==
  ASSUME Given, NEW f \in Files, NEW text \in Nat
  PROVE  /\ Synced(f, text) \in [Files -> [version : Nat, text : Nat, invalidated : BOOLEAN]]
         /\ Closed(Synced(f, text)) \subseteq Files
  BY DEF Given, Synced, Closed, NoDoc

LEMMA SyncShape ==
  ASSUME Sources, Given, NEW f \in Files, NEW text \in Nat, Sync(f, text)
  PROVE  /\ Given' /\ out' = out
         /\ reopened \subseteq Files => reopened' \subseteq Files
         /\ behind \subseteq Files => behind' \subseteq Files
<1> DEFINE ds == Synced(f, text)
<1>1. /\ ds \in [Files -> [version : Nat, text : Nat, invalidated : BOOLEAN]]
      /\ Closed(ds) \subseteq Files
  BY SyncedShape
<1>2. /\ docs' = ds /\ reopened' = reopened \cup Closed(ds)
  BY DEF Sync
<1>3. PICK lost \in {{}, Closed(ds)} :
        /\ behind' = behind \cup lost \cup (IF text = disk[f].at THEN {} ELSE {f})
        /\ Send(ds, lost)
  BY DEF Sync
<1> HIDE DEF ds
<1>4. overlay' \in [Files -> [version : Nat, text : Nat]]
  BY <1>1, <1>3 DEF Send, Given, NoText
<1>5. cached' \in Bases /\ out' = out
  BY <1>1, <1>3 DEF Send, Given, Sources, Stamps, Bases
<1> QED
  BY <1>1, <1>2, <1>3, <1>4, <1>5 DEF Given

LEMMA SyncUnsentShape ==
  ASSUME Given, NEW f \in Files, NEW text \in Nat, SyncUnsent(f, text)
  PROVE  /\ Given' /\ UNCHANGED <<out, reopened>>
         /\ behind \subseteq Files => behind' \subseteq Files
<1>1. Synced(f, text)[f] \in [version : Nat, text : Nat, invalidated : BOOLEAN]
  BY SyncedShape
<1>2. docs' = docs \/ docs' = [docs EXCEPT ![f] = Synced(f, text)[f]]
  BY DEF SyncUnsent, storeVars
<1>3. docs' \in [Files -> [version : Nat, text : Nat, invalidated : BOOLEAN]]
  BY <1>1, <1>2 DEF Given
<1> QED
  BY <1>3 DEF SyncUnsent, serverVars, Given

\* Where a query may stand, and what its locals may be, after it moved.
LEMMA OneMoves ==
  ASSUME Callers, NEW q \in Queries, NEW l \in Locals,
         l.pc \notin {"idle", "ended"} => l.file \in Files,
         query' = [query EXCEPT ![q] = l]
  PROVE  Callers'
  BY DEF Callers

LEMMA EndedIsACall == Ended \in Locals /\ Ended.pc = "ended"
  BY DEF Ended, Idle, Locals, Bases, Stamps, PCs

LEMMA WokenIsACall ==
  ASSUME Callers, NEW q \in Queries
  PROVE  Woken(q) \in Locals /\ Woken(q).pc = query[q].pc /\ Woken(q).file = query[q].file
<1> DEFINE b == query[q].pc \in Listening
<1>1. b \in BOOLEAN /\ Woken(q) = [query[q] EXCEPT !.woken = b]
  BY DEF Woken
<1> HIDE DEF b
<1>2. query[q] \in Locals
  BY DEF Callers
<1> QED
  BY <1>1, <1>2 DEF Locals

LEMMA AnswerShape ==
  ASSUME Callers, NEW q \in Queries, NEW basis \in Bases \cup {<<>>}, query[q].file \in Files,
         Answer(q, basis)
  PROVE  Callers'
<1>1. CASE query[q].quiet
  <2> DEFINE l == [query[q] EXCEPT !.pc = "answered", !.basis = basis]
  <2>1. query' = [query EXCEPT ![q] = l]
    BY <1>1 DEF Answer, Callers
  <2>2. query[q] \in Locals
    BY DEF Callers
  <2>3. l \in Locals /\ l.file = query[q].file
    BY <2>2 DEF Locals, PCs
  <2> HIDE DEF l
  <2> QED
    BY <2>1, <2>3, OneMoves
<1>2. CASE ~query[q].quiet
  <2>1. query' = [query EXCEPT ![q] = Ended]
    BY <1>2 DEF Answer
  <2> QED
    BY <2>1, OneMoves, EndedIsACall
<1> QED
  BY <1>1, <1>2

LEMMA ShapeSources ==
  ASSUME Shape, NEW f \in Files, Edit(f) \/ Remove(f)
  PROVE  Shape'
<1>1. PICK b \in BOOLEAN : disk' = [disk EXCEPT ![f] = [at |-> edits + 1, exists |-> b]]
  BY DEF Edit, Remove
<1>2. Sources'
  BY <1>1 DEF Edit, Remove, Shape, Sources, Stamps
<1> QED
  BY <1>2 DEF Edit, Remove, Shape, Given, Caches, Callers, storeVars, cacheVars, serverVars,
     history

LEMMA ShapeLoad ==
  ASSUME Shape, NEW f \in Files, Load(f)
  PROVE  Shape'
<1>1. disk[f].at \in Nat
  BY DEF Shape, Sources, Stamps
<1>2. Given'
  BY <1>1 DEF Load, Shape, Given, Bases, storeVars
<1> QED
  BY <1>2 DEF Load, Shape, Sources, Caches, Callers, cacheVars, history

LEMMA ShapePublish ==
  ASSUME Shape, NEW f \in Files, Publish(f)
  PROVE  Shape'
<1>1. View \in Bases
  BY ViewIsABasis DEF Shape
<1>2. [file |-> f, version |-> overlay[f].version, basis |-> View]
        \in Publications
  BY <1>1 DEF Shape, Given, Publications
<1>3. out' = Append(out, [file |-> f, version |-> overlay[f].version, basis |-> View])
  BY DEF Publish
<1>4. Caches'
  BY <1>2, <1>3 DEF Publish, Shape, Caches, cacheVars
<1> QED
  BY <1>4 DEF Publish, Shape, Sources, Given, Callers, storeVars, history

LEMMA ShapeAccept ==
  ASSUME Shape, Accept
  PROVE  Shape'
<1> DEFINE p == Head(out)
<1>1. /\ p \in Publications
      /\ Tail(out) \in Seq(Publications)
  <2>1. out \in Seq(Publications) /\ out # <<>>
    BY DEF Shape, Caches, Accept
  <2> QED
    BY <2>1
<1>2. UNCHANGED <<disk, edits, scanned, docs, overlay, cached, reopened, behind, merged>>
  BY DEF Accept, storeVars, history
<1>3. CASE Open(p.file) /\ p.version = docs[p.file].version
  <2>1. /\ push' = [push EXCEPT ![p.file] = [version |-> p.version, text |-> 0, basis |-> p.basis]]
        /\ query' = [q \in Queries |-> Woken(q)] /\ out' = Tail(out)
    BY <1>3 DEF Accept
  <2> HIDE DEF p
  <2>2. Callers'
    BY <2>1, WokenIsACall DEF Shape, Callers
  <2>3. Caches'
    BY <1>1, <1>2, <2>1 DEF Shape, Caches, Publications
  <2> QED
    BY <1>2, <2>2, <2>3 DEF Shape, Sources, Given
<1>4. CASE ~(Open(p.file) /\ p.version = docs[p.file].version)
  BY <1>1, <1>2, <1>4 DEF Accept, Shape, Sources, Given, Caches, Callers
<1> QED
  BY <1>3, <1>4

LEMMA ShapeAsk ==
  ASSUME Shape, NEW q \in Queries, NEW f \in Files, Ask(q, f)
  PROVE  Shape'
<1> DEFINE l == [Idle EXCEPT !.pc = "gate", !.file = f]
<1>1. l \in Locals /\ l.file \in Files
  BY DEF Idle, Locals, PCs, Bases, Stamps
<1>2. query' = [query EXCEPT ![q] = l]
  BY DEF Ask
<1> HIDE DEF l
<1>3. Callers'
  BY <1>1, <1>2, OneMoves DEF Shape
<1> QED
  BY <1>3 DEF Ask, Shape, Sources, Given, Caches, storeVars, cacheVars, serverVars, history

LEMMA ShapeScan ==
  ASSUME Shape, NEW q \in Queries, Scan(q)
  PROVE  Shape'
<1>1. Walk \in Stamps /\ Changes(Walk) \subseteq Files
  BY WalkIsAScan DEF Shape, Changes
<1>2. query[q] \in Locals /\ query[q].file \in Files
  BY DEF Shape, Callers, Scan, At
<1>3. Callers'
  <2>1. CASE scanned = <<>> \/ Changes(Walk) = {}
    <3> DEFINE l == [query[q] EXCEPT !.pc = "read", !.scan = Walk]
    <3>1. query' = [query EXCEPT ![q] = l]
      BY <2>1 DEF Scan, Shape, Callers
    <3>2. l \in Locals /\ l.file = query[q].file
      BY <1>1, <1>2 DEF Locals, PCs
    <3> HIDE DEF l
    <3> QED
      BY <1>2, <3>1, <3>2, OneMoves DEF Shape
  <2>2. CASE ~(scanned = <<>> \/ Changes(Walk) = {})
    <3> DEFINE l == [query[q] EXCEPT !.pc = "mark", !.scan = Walk, !.todo = Changes(Walk)]
    <3>1. query' = [query EXCEPT ![q] = l]
      BY <2>2 DEF Scan, Shape, Callers
    <3>2. l \in Locals /\ l.file = query[q].file
      BY <1>1, <1>2 DEF Locals, PCs
    <3> HIDE DEF l
    <3> QED
      BY <1>2, <3>1, <3>2, OneMoves DEF Shape
  <2> QED
    BY <2>1, <2>2
<1>4. Sources'
  BY <1>1 DEF Scan, Shape, Sources
<1>5. Given'
  BY DEF Scan, Shape, Given, storeVars, serverVars
<1>6. behind' \subseteq Files
  BY DEF Scan, Shape, Outdated
<1> QED
  BY <1>3, <1>4, <1>5, <1>6 DEF Scan, Shape, Caches, cacheVars, serverVars

LEMMA ShapeMark ==
  ASSUME Shape, NEW q \in Queries, Mark(q)
  PROVE  Shape'
<1>1. Caches'
  BY DEF Mark, Shape, Caches, Nothing, serverVars
<1>2. ASSUME NEW p \in Queries
      PROVE  query'[p] \in Locals /\ (query'[p].pc \notin {"idle", "ended"} => query'[p].file \in Files)
  <2>1. CASE p = q
    <3>1. query[p] \in Locals /\ query[p].file \in Files
      BY <2>1 DEF Mark, At, Shape, Callers
    <3>2. query'[p] = [query[p] EXCEPT !.pc = "marked"]
      BY <2>1 DEF Mark
    <3> QED
      BY <3>1, <3>2 DEF Locals, PCs
  <2>2. CASE p # q
    <3> DEFINE l == Woken(p)
               b == ~Sampled(p)
    <3>1. l \in Locals /\ l.pc = query[p].pc /\ l.file = query[p].file
      BY WokenIsACall DEF Shape
    <3>2. b \in BOOLEAN /\ query'[p] = [l EXCEPT !.quiet = b]
      BY <2>2 DEF Mark
    <3> HIDE DEF l, b
    <3>3. query'[p] \in Locals /\ query'[p].pc = query[p].pc /\ query'[p].file = query[p].file
      BY <3>1, <3>2 DEF Locals
    <3> QED
      BY <3>3 DEF Shape, Callers
  <2> QED
    BY <2>1, <2>2
<1>3. Callers'
  <2>1. query' = [p \in Queries |-> query'[p]]
    BY DEF Mark
  <2> QED
    BY <1>2, <2>1 DEF Callers
<1> QED
  BY <1>1, <1>3 DEF Mark, Shape, Sources, Given, storeVars, serverVars, history

\* A step that only moves a query on.
LEMMA PcMoves ==
  ASSUME Callers, NEW q \in Queries, NEW pc \in PCs, query[q].file \in Files,
         query' = [query EXCEPT ![q].pc = pc]
  PROVE  Callers'
<1> DEFINE l == [query[q] EXCEPT !.pc = pc]
<1>1. query' = [query EXCEPT ![q] = l]
  BY DEF Callers
<1>2. query[q] \in Locals
  BY DEF Callers
<1>3. l \in Locals /\ l.file = query[q].file
  BY <1>2 DEF Locals
<1> HIDE DEF l
<1> QED
  BY <1>1, <1>3, OneMoves

LEMMA ShapeMarkDocs ==
  ASSUME Shape, NEW q \in Queries, MarkDocs(q)
  PROVE  Shape'
<1>1. query[q].file \in Files /\ "telling" \in PCs
  BY DEF MarkDocs, At, Shape, Callers, PCs
<1>2. Callers'
  BY <1>1, PcMoves DEF Shape, MarkDocs
<1>3. Given'
  <2>1. ASSUME NEW f \in Files
        PROVE  [docs[f] EXCEPT !.invalidated = Open(f)]
                 \in [version : Nat, text : Nat, invalidated : BOOLEAN]
    <3> DEFINE b == Open(f)
    <3>1. b \in BOOLEAN /\ docs[f] \in [version : Nat, text : Nat, invalidated : BOOLEAN]
      BY DEF Open, Shape, Given
    <3> HIDE DEF b
    <3>2. [docs[f] EXCEPT !.invalidated = b] \in [version : Nat, text : Nat, invalidated : BOOLEAN]
      BY <3>1
    <3> QED
      BY <3>2 DEF b
  <2> QED
    BY <2>1 DEF MarkDocs, Shape, Given, serverVars
<1> QED
  BY <1>2, <1>3 DEF MarkDocs, Shape, Sources, Caches, cacheVars, serverVars, history

LEMMA ShapeTell ==
  ASSUME Shape, NEW q \in Queries, NEW f \in Files, Tell(q, f)
  PROVE  Shape'
<1>1. query[q] \in Locals /\ query[q].file \in Files
  BY DEF Tell, At, Shape, Callers
<1>2. Callers'
  <2>1. CASE query' = [query EXCEPT ![q].todo = @ \ {f}]
    <3> DEFINE l == [query[q] EXCEPT !.todo = @ \ {f}]
    <3>1. query' = [query EXCEPT ![q] = l]
      BY <2>1 DEF Shape, Callers
    <3>2. l \in Locals /\ l.file = query[q].file
      BY <1>1 DEF Locals
    <3> HIDE DEF l
    <3> QED
      BY <1>1, <3>1, <3>2, OneMoves DEF Shape
  <2>2. CASE query' = [query EXCEPT ![q] = Ended]
    BY <2>2, OneMoves, EndedIsACall DEF Shape
  <2> QED
    BY <2>1, <2>2 DEF Tell
<1>3. Sources' /\ UNCHANGED <<push, merged>>
  BY DEF Tell, Shape, Sources, cacheVars
<1>4. disk[f].at \in Nat
  BY DEF Shape, Sources, Stamps
<1>5. Given' /\ out' = out /\ reopened' \subseteq Files /\ behind' \subseteq Files
  <2>1. CASE Sync(f, disk[f].at)
    BY <1>4, <2>1, SyncShape DEF Shape
  <2>2. CASE SyncUnsent(f, disk[f].at)
    BY <1>4, <2>2, SyncUnsentShape DEF Shape
  <2>3. CASE UNCHANGED <<storeVars, history, serverVars>>
    BY <2>3 DEF Shape, Given, storeVars, history, serverVars
  <2>4. CASE ~query[q].scan[f].exists /\ Open(f)
    <3>1. /\ docs' = [docs EXCEPT ![f] = NoDoc]
          /\ reopened' = reopened \cup {f}
          /\ behind' \subseteq behind \cup {f} /\ UNCHANGED out
          /\ overlay' = [overlay EXCEPT ![f] = NoText] \/ UNCHANGED overlay
          /\ cached' = [cached EXCEPT ![f] = disk[f].at] \/ UNCHANGED cached
      BY <2>4 DEF Tell, serverVars
    <3> QED
      BY <1>4, <3>1 DEF Shape, Given, Bases, NoDoc, NoText
  <2> QED
    BY <2>1, <2>2, <2>3, <2>4 DEF Tell
<1> QED
  BY <1>2, <1>3, <1>5 DEF Shape, Caches

LEMMA ShapeNotify ==
  ASSUME Shape, NEW q \in Queries, Notify(q)
  PROVE  Shape'
<1>1. query[q] \in Locals /\ query[q].file \in Files
  BY DEF Notify, At, Shape, Callers
<1>2. Callers'
  <2> DEFINE l == [query[q] EXCEPT !.pc = "read", !.todo = {}]
  <2>1. query' = [query EXCEPT ![q] = l]
    BY DEF Notify, Shape, Callers
  <2>2. l \in Locals /\ l.file = query[q].file
    BY <1>1 DEF Locals, PCs
  <2> HIDE DEF l
  <2> QED
    BY <1>1, <2>1, <2>2, OneMoves DEF Shape
<1>3. Sources'
  BY <1>1 DEF Notify, Shape, Sources, Locals
<1>4. Given'
  <2>1. \A f \in Files : disk[f].at \in Nat /\ cached[f] \in Nat
    BY DEF Shape, Sources, Given, Stamps, Bases
  <2> QED
    BY <2>1 DEF Notify, Shape, Given, Bases, storeVars
<1> QED
  BY <1>2, <1>3, <1>4 DEF Notify, Shape, Caches, cacheVars, history

LEMMA ShapeCancel ==
  ASSUME Shape, NEW q \in Queries, Cancel(q)
  PROVE  Shape'
<1>1. Callers'
  BY OneMoves, EndedIsACall DEF Shape, Cancel
<1> QED
  BY <1>1 DEF Cancel, Shape, Sources, Given, Caches, storeVars, cacheVars, serverVars, history

LEMMA ShapeRead ==
  ASSUME Shape, NEW q \in Queries, Read(q)
  PROVE  Shape'
<1>1. query[q] \in Locals /\ query[q].file \in Files
  BY DEF Read, At, Shape, Callers
<1>2. Callers'
  <2>1. CASE query' = [query EXCEPT ![q].pc = "sync", ![q].text = disk[query[q].file].at]
    <3> DEFINE l == [query[q] EXCEPT !.pc = "sync", !.text = disk[query[q].file].at]
    <3>1. query' = [query EXCEPT ![q] = l]
      BY <2>1 DEF Shape, Callers
    <3>2. disk[query[q].file].at \in Nat
      BY <1>1 DEF Shape, Sources, Stamps
    <3>3. l \in Locals /\ l.file = query[q].file
      BY <1>1, <3>2 DEF Locals, PCs
    <3> HIDE DEF l
    <3> QED
      BY <1>1, <3>1, <3>3, OneMoves DEF Shape
  <2>2. CASE query' = [query EXCEPT ![q] = Ended]
    BY <2>2, OneMoves, EndedIsACall DEF Shape
  <2> QED
    BY <2>1, <2>2 DEF Read
<1>3. behind' \subseteq Files
  BY <1>1 DEF Read, Shape
<1> QED
  BY <1>2, <1>3 DEF Read, Shape, Sources, Given, Caches, storeVars, cacheVars, serverVars

LEMMA ShapeSyncTarget ==
  ASSUME Shape, NEW q \in Queries, SyncTarget(q)
  PROVE  Shape'
<1> DEFINE f == query[q].file
           ds == Synced(f, query[q].text)
<1>1. query[q] \in Locals /\ f \in Files /\ query[q].text \in Nat
  BY DEF SyncTarget, At, Shape, Callers, Locals
<1>2. UNCHANGED <<disk, edits, scanned, push, merged>>
  BY DEF SyncTarget, cacheVars
<1>3. CASE /\ Sync(f, query[q].text)
           /\ query' = [query EXCEPT ![q].pc = "synced",
                                  ![q].version = Synced(f, query[q].text)[f].version,
                                  ![q].changed = Open(f) /\ Stale(f, query[q].text),
                                  ![q].beside = Unsent(q)]
  <2>1. /\ Given' /\ out' = out /\ reopened' \subseteq Files /\ behind' \subseteq Files
    BY <1>1, <1>3, SyncShape DEF Shape
  <2>2. Callers'
    <3> DEFINE v == Synced(f, query[q].text)[f].version
               c == Open(f) /\ Stale(f, query[q].text)
               b == Unsent(q)
               l == [query[q] EXCEPT !.pc = "synced", !.version = v, !.changed = c, !.beside = b]
    <3>1. v \in Nat
      BY <1>1, SyncedShape DEF Shape
    <3>2. c \in BOOLEAN
      BY DEF Open, Stale
    <3>3. b \subseteq Files
      BY DEF Unsent, Shape, Callers
    <3>4. query' = [query EXCEPT ![q] = l]
      BY <1>3 DEF Shape, Callers
    <3> HIDE DEF v, c, b
    <3>5. l \in Locals /\ l.file = query[q].file
      BY <1>1, <3>1, <3>2, <3>3 DEF Locals, PCs
    <3> HIDE DEF l
    <3> QED
      BY <1>1, <3>4, <3>5, OneMoves DEF Shape
  <2> QED
    BY <1>2, <2>1, <2>2 DEF Shape, Sources, Caches
<1>4. CASE SyncUnsent(f, query[q].text) /\ query' = [query EXCEPT ![q] = Ended]
  <2>1. /\ Given' /\ out' = out /\ reopened' \subseteq Files /\ behind' \subseteq Files
    BY <1>1, <1>4, SyncUnsentShape DEF Shape
  <2>2. Callers'
    BY <1>4, OneMoves, EndedIsACall DEF Shape
  <2> QED
    BY <1>2, <2>1, <2>2 DEF Shape, Sources, Caches
<1> QED
  BY <1>3, <1>4 DEF SyncTarget

\* The signal is taken.
LEMMA SubscribedShape ==
  ASSUME Callers, NEW q \in Queries, query[q].file \in Files, query' = Subscribed(q)
  PROVE  Callers'
<1> DEFINE l == [query[q] EXCEPT !.pc = "evaluate", !.woken = FALSE]
<1>1. query' = [query EXCEPT ![q] = l]
  BY DEF Subscribed, Callers
<1>2. query[q] \in Locals
  BY DEF Callers
<1>3. l \in Locals /\ l.file = query[q].file
  BY <1>2 DEF Locals, PCs
<1> HIDE DEF l
<1> QED
  BY <1>1, <1>3, OneMoves

LEMMA ShapeHandler ==
  ASSUME Shape, NEW q \in Queries, Reuse(q) \/ Evaluate(q) \/ Store(q) \/ Wake(q)
  PROVE  Shape'
<1>1. query[q] \in Locals /\ query[q].file \in Files
  BY DEF Reuse, Evaluate, Store, Wake, At, Shape, Callers
<1>2. /\ push[query[q].file].basis \in Bases \cup {<<>>}
      /\ merged[query[q].file].basis \in Bases \cup {<<>>}
      /\ query[q].basis \in Bases \cup {<<>>}
  BY <1>1 DEF Shape, Caches, Locals
<1>3. UNCHANGED <<disk, edits, scanned, docs, overlay, cached, out, push, reopened, behind>>
  BY DEF Reuse, Evaluate, Store, Wake, storeVars, cacheVars, serverVars, history
<1>4. Callers'
  <2>1. CASE Answer(q, merged[query[q].file].basis) \/ Answer(q, query[q].basis)
    BY <1>1, <1>2, <2>1, AnswerShape DEF Shape
  <2>2. CASE query' = Subscribed(q)
    BY <1>1, <2>2, SubscribedShape DEF Shape
  <2>3. CASE Evaluate(q) /\ Current(q)
    <3> DEFINE b == push[query[q].file].basis
               l == [query[q] EXCEPT !.pc = "store", !.basis = b]
    <3>1. query' = [query EXCEPT ![q] = l] /\ b \in Bases \cup {<<>>}
      BY <1>2, <2>3 DEF Evaluate, Shape, Callers
    <3> HIDE DEF b
    <3>2. l \in Locals /\ l.file = query[q].file
      BY <1>1, <3>1 DEF Locals, PCs
    <3> HIDE DEF l
    <3> QED
      BY <1>1, <3>1, <3>2, OneMoves DEF Shape
  <2>4. CASE Evaluate(q) /\ ~Current(q)
    <3>1. query' = [query EXCEPT ![q].pc = "asleep"] /\ "asleep" \in PCs
      BY <2>4 DEF Evaluate, PCs
    <3> QED
      BY <1>1, <3>1, PcMoves DEF Shape
  <2> QED
    BY <2>1, <2>2, <2>3, <2>4 DEF Reuse, Evaluate, Store, Wake
<1>5. Caches'
  <2>1. CASE Store(q)
    <3>1. [version |-> query[q].version, text |-> query[q].text, basis |-> query[q].basis]
            \in [version : Nat, text : Nat, basis : Bases \cup {<<>>}]
      BY <1>1, <1>2 DEF Locals
    <3> QED
      BY <1>3, <2>1, <3>1 DEF Store, Shape, Caches
  <2>2. CASE ~Store(q)
    BY <1>3, <2>2 DEF Reuse, Evaluate, Wake, Shape, Caches, cacheVars
  <2> QED
    BY <2>1, <2>2
<1> QED
  BY <1>3, <1>4, <1>5 DEF Shape, Sources, Given

THEOREM ShapeStep == Shape /\ [Next]_vars => Shape'
<1> SUFFICES ASSUME Shape, [Next]_vars PROVE Shape'
  OBVIOUS
<1>1. CASE UNCHANGED vars
  BY <1>1 DEF vars, Shape, Sources, Given, Caches, Callers, storeVars, cacheVars, serverVars,
     history
<1>2. CASE Next
  BY <1>2, ShapeSources, ShapeLoad, ShapePublish, ShapeAccept, ShapeAsk, ShapeScan, ShapeMark,
     ShapeMarkDocs, ShapeTell, ShapeNotify, ShapeCancel, ShapeRead, ShapeSyncTarget, ShapeHandler
     DEF Next
<1> QED
  BY <1>1, <1>2

(***************************************************************************)
(* Where a step leaves its query.                                          *)
(***************************************************************************)

KeptScan(q) == query'[q].file = query[q].file /\ query'[q].scan = query[q].scan
Kept(q) ==
  /\ KeptScan(q)
  /\ query'[q].text = query[q].text /\ query'[q].version = query[q].version
  /\ query'[q].changed = query[q].changed /\ query'[q].beside = query[q].beside

LEMMA AfterEnd ==
  ASSUME Callers, NEW q \in Queries, query' = [query EXCEPT ![q] = Ended]
  PROVE  query'[q].pc = "ended"
<1>1. query'[q] = Ended
  BY DEF Callers
<1> QED
  BY <1>1, EndedIsACall

LEMMA AfterScan ==
  ASSUME Callers, NEW q \in Queries, Scan(q)
  PROVE  /\ query'[q].file = query[q].file /\ query'[q].scan = Walk
         /\ IF scanned = <<>> \/ Changes(Walk) = {}
              THEN query'[q].pc = "read"
              ELSE query'[q].pc = "mark" /\ query'[q].todo = Changes(Walk)
<1>1. query[q] \in Locals
  BY DEF Callers
<1>2. CASE scanned = <<>> \/ Changes(Walk) = {}
  <2>1. query'[q] = [query[q] EXCEPT !.pc = "read", !.scan = Walk]
    BY <1>2 DEF Scan, Callers
  <2> QED
    BY <1>1, <1>2, <2>1 DEF Locals
<1>3. CASE ~(scanned = <<>> \/ Changes(Walk) = {})
  <2>1. query'[q] = [query[q] EXCEPT !.pc = "mark", !.scan = Walk, !.todo = Changes(Walk)]
    BY <1>3 DEF Scan, Callers
  <2> QED
    BY <1>1, <1>3, <2>1 DEF Locals
<1> QED
  BY <1>2, <1>3

LEMMA AfterMarkDocs ==
  ASSUME Callers, NEW q \in Queries, MarkDocs(q)
  PROVE  query'[q].pc = "telling" /\ KeptScan(q) /\ query'[q].todo = query[q].todo
<1>1. query[q] \in Locals /\ query'[q] = [query[q] EXCEPT !.pc = "telling"]
  BY DEF Callers, MarkDocs
<1> QED
  BY <1>1 DEF Locals, KeptScan

LEMMA AfterTell ==
  ASSUME Callers, NEW q \in Queries, NEW f \in Files, query' = [query EXCEPT ![q].todo = @ \ {f}]
  PROVE  query'[q].pc = query[q].pc /\ KeptScan(q) /\ query'[q].todo = query[q].todo \ {f}
<1>1. query[q] \in Locals /\ query'[q] = [query[q] EXCEPT !.todo = @ \ {f}]
  BY DEF Callers
<1> QED
  BY <1>1 DEF Locals, KeptScan

LEMMA AfterNotify ==
  ASSUME Callers, NEW q \in Queries, Notify(q)
  PROVE  query'[q].pc = "read" /\ KeptScan(q)
<1>1. query[q] \in Locals /\ query'[q] = [query[q] EXCEPT !.pc = "read", !.todo = {}]
  BY DEF Callers, Notify
<1> QED
  BY <1>1 DEF Locals, KeptScan

LEMMA AfterRead ==
  ASSUME Callers, NEW q \in Queries, Read(q)
  PROVE  \/ query'[q].pc = "sync" /\ KeptScan(q) /\ query'[q].text = disk[query[q].file].at
         \/ query'[q].pc = "ended" /\ (Open(query[q].file) => query[q].file \in behind')
<1>1. query[q] \in Locals
  BY DEF Callers
<1>2. CASE query' = [query EXCEPT ![q].pc = "sync", ![q].text = disk[query[q].file].at]
  <2>1. query'[q] = [query[q] EXCEPT !.pc = "sync", !.text = disk[query[q].file].at]
    BY <1>2 DEF Callers
  <2> QED
    BY <1>1, <2>1 DEF Locals, KeptScan
<1>3. CASE /\ query' = [query EXCEPT ![q] = Ended]
           /\ behind' = IF Open(query[q].file) THEN behind \cup {query[q].file} ELSE behind
  BY <1>3, AfterEnd
<1> QED
  BY <1>2, <1>3 DEF Read

\* The query sent its document.
SentBy(q) ==
  LET f == query[q].file
      text == query[q].text IN
  /\ Sync(f, text)
  /\ query'[q].pc = "synced" /\ KeptScan(q) /\ query'[q].text = text
  /\ query'[q].version = Synced(f, text)[f].version
  /\ query'[q].changed = (Open(f) /\ Stale(f, text))
  /\ query'[q].beside = Unsent(q)

LEMMA AfterSyncTarget ==
  ASSUME Callers, NEW q \in Queries, SyncTarget(q)
  PROVE  \/ SentBy(q)
         \/ SyncUnsent(query[q].file, query[q].text) /\ query'[q].pc = "ended"
<1> DEFINE f == query[q].file
           text == query[q].text
           v == Synced(f, text)[f].version
           c == Open(f) /\ Stale(f, text)
           b == Unsent(q)
<1>1. query[q] \in Locals
  BY DEF Callers
<1>2. CASE /\ Sync(f, text)
           /\ query' = [query EXCEPT ![q].pc = "synced", ![q].version = v,
                                     ![q].changed = c, ![q].beside = b]
  <2> HIDE DEF v, c, b
  <2>1. query'[q] = [query[q] EXCEPT !.pc = "synced", !.version = v, !.changed = c, !.beside = b]
    BY <1>2 DEF Callers
  <2>2. /\ query'[q].pc = "synced" /\ KeptScan(q) /\ query'[q].text = text
        /\ query'[q].version = v /\ query'[q].changed = c /\ query'[q].beside = b
    BY <1>1, <2>1 DEF Locals, KeptScan
  <2> QED
    BY <1>2, <2>2 DEF v, c, b, SentBy
<1>3. CASE SyncUnsent(f, text) /\ query' = [query EXCEPT ![q] = Ended]
  BY <1>3, AfterEnd
<1> QED
  BY <1>2, <1>3 DEF SyncTarget

LEMMA AfterAnswer ==
  ASSUME Callers, NEW q \in Queries, NEW basis, Answer(q, basis)
  PROVE  \/ query'[q].pc = "answered" /\ Kept(q) /\ query'[q].basis = basis
         \/ query'[q].pc = "ended"
<1>1. query[q] \in Locals
  BY DEF Callers
<1>2. CASE query[q].quiet
  <2>1. query'[q] = [query[q] EXCEPT !.pc = "answered", !.basis = basis]
    BY <1>2 DEF Callers, Answer
  <2> QED
    BY <1>1, <2>1 DEF Locals, Kept, KeptScan
<1>3. CASE ~query[q].quiet
  <2>1. query' = [query EXCEPT ![q] = Ended]
    BY <1>3 DEF Answer
  <2> QED
    BY <2>1, AfterEnd
<1> QED
  BY <1>2, <1>3

LEMMA AfterSubscribed ==
  ASSUME Callers, NEW q \in Queries, query' = Subscribed(q)
  PROVE  query'[q].pc = "evaluate" /\ Kept(q)
<1>1. query[q] \in Locals /\ query'[q] = [query[q] EXCEPT !.pc = "evaluate", !.woken = FALSE]
  BY DEF Callers, Subscribed
<1> QED
  BY <1>1 DEF Locals, Kept, KeptScan

LEMMA AfterEvaluate ==
  ASSUME Callers, NEW q \in Queries, Evaluate(q)
  PROVE  /\ Kept(q)
         /\ IF Current(q)
              THEN query'[q].pc = "store" /\ query'[q].basis = push[query[q].file].basis
              ELSE query'[q].pc = "asleep"
<1>1. query[q] \in Locals
  BY DEF Callers
<1>2. CASE Current(q)
  <2>1. query'[q] = [query[q] EXCEPT !.pc = "store", !.basis = push[query[q].file].basis]
    BY <1>2 DEF Callers, Evaluate
  <2> QED
    BY <1>1, <1>2, <2>1 DEF Locals, Kept, KeptScan
<1>3. CASE ~Current(q)
  <2>1. query'[q] = [query[q] EXCEPT !.pc = "asleep"]
    BY <1>3 DEF Callers, Evaluate
  <2> QED
    BY <1>1, <1>3, <2>1 DEF Locals, Kept, KeptScan
<1> QED
  BY <1>2, <1>3

LEMMA AfterAsk ==
  ASSUME Callers, NEW q \in Queries, NEW f \in Files, Ask(q, f)
  PROVE  query'[q].pc = "gate" /\ query'[q].file = f
<1>1. query'[q] = [Idle EXCEPT !.pc = "gate", !.file = f]
  BY DEF Callers, Ask
<1> QED
  BY <1>1 DEF Idle

(***************************************************************************)
(* No lost wakeup.                                                         *)
(***************************************************************************)

\* The steps of a query that leave all others alone.
Moves(q) ==
  \/ \E f \in Files : Ask(q, f) \/ Tell(q, f)
  \/ Scan(q) \/ MarkDocs(q) \/ Notify(q) \/ Cancel(q)
  \/ Read(q) \/ SyncTarget(q) \/ Reuse(q) \/ Evaluate(q) \/ Store(q) \/ Wake(q)

LEMMA Alone ==
  ASSUME Shape, NEW q \in Queries, NEW p \in Queries, p # q,
         Moves(q)
  PROVE  query'[p] = query[p]
<1>1. query \in [Queries -> Locals]
  BY DEF Shape, Callers
<1>2. CASE \E f \in Files : Ask(q, f) \/ Tell(q, f)
  BY <1>1, <1>2 DEF Ask, Tell
<1>3. CASE Scan(q) \/ MarkDocs(q) \/ Notify(q) \/ Cancel(q)
  BY <1>1, <1>3 DEF Scan, MarkDocs, Notify, Cancel
<1>4. CASE Read(q) \/ SyncTarget(q) \/ Reuse(q)
  BY <1>1, <1>4 DEF Read, SyncTarget, Reuse, Answer, Subscribed
<1>5. CASE Evaluate(q) \/ Store(q) \/ Wake(q)
  BY <1>1, <1>5 DEF Evaluate, Store, Wake, Answer, Subscribed
<1> QED
  BY <1>2, <1>3, <1>4, <1>5 DEF Moves

\* Only a look at the caches that finds nothing puts a query to sleep.
LEMMA FallsAsleep ==
  ASSUME Shape, NEW q \in Queries,
         Moves(q),
         query'[q].pc = "asleep"
  PROVE  /\ ~Current(q) /\ push' = push
         /\ query'[q].file = query[q].file /\ query'[q].version = query[q].version
<1>1. query \in [Queries -> Locals]
  BY DEF Shape, Callers
<1>2. CASE \E f \in Files : Ask(q, f) \/ Tell(q, f)
  <2>1. PICK f \in Files : Ask(q, f) \/ Tell(q, f)
    BY <1>2
  <2>2. CASE Ask(q, f)
    BY <2>2, AfterAsk DEF Shape
  <2>3. CASE Tell(q, f)
    BY <2>3, AfterTell, AfterEnd DEF Tell, At, Shape
  <2> QED
    BY <2>1, <2>2, <2>3
<1>3. CASE Scan(q) \/ MarkDocs(q) \/ Notify(q) \/ Cancel(q)
  BY <1>3, AfterScan, AfterMarkDocs, AfterNotify, AfterEnd DEF Cancel, Shape
<1>4. CASE Read(q) \/ SyncTarget(q)
  BY <1>4, AfterRead, AfterSyncTarget DEF SentBy, Shape
<1>5. CASE Evaluate(q)
  BY <1>5, AfterEvaluate DEF Evaluate, Shape, cacheVars, Kept, KeptScan
<1>6. CASE Reuse(q) \/ Store(q) \/ Wake(q)
  BY <1>6, AfterAnswer, AfterSubscribed DEF Reuse, Store, Wake, Shape
<1> QED
  BY <1>2, <1>3, <1>4, <1>5, <1>6 DEF Moves

LEMMA WakeupStep == Shape /\ NoLostWakeup /\ [Next]_vars => NoLostWakeup'
<1> SUFFICES ASSUME Shape, NoLostWakeup, [Next]_vars, NEW p \in Queries,
                    query'[p].pc = "asleep", ~query'[p].woken
             PROVE  push'[query'[p].file].version # query'[p].version
  BY DEF NoLostWakeup, At, Current
<1>1. query \in [Queries -> Locals]
  BY DEF Shape, Callers
<1>2. CASE query'[p] = query[p] /\ push' = push
  BY <1>2 DEF NoLostWakeup, At, Current
<1>3. CASE \E f \in Files : Edit(f) \/ Remove(f) \/ Load(f) \/ Publish(f)
  BY <1>2, <1>3 DEF Edit, Remove, Load, Publish, cacheVars
<1>4. CASE Accept
  <2>1. CASE UNCHANGED <<push, query>>
    BY <1>2, <2>1
  <2>2. CASE query' = [q \in Queries |-> Woken(q)]
    BY <1>1, <2>2 DEF Woken, Listening, Locals
  <2> QED
    BY <1>4, <2>1, <2>2 DEF Accept
<1>5. ASSUME NEW q \in Queries, Mark(q) PROVE FALSE
  <2>1. CASE p = q
    BY <1>1, <1>5, <2>1 DEF Mark, Locals
  <2>2. CASE p # q
    <3> DEFINE l == Woken(p)
    <3>1. query'[p] = [l EXCEPT !.quiet = ~Sampled(p)]
      BY <1>5, <2>2 DEF Mark
    <3>2. l \in Locals /\ l.pc = query[p].pc /\ (l.pc \in Listening => l.woken)
      BY <1>1, WokenIsACall DEF Shape, Woken, Locals
    <3> HIDE DEF l
    <3>3. query'[p].pc = l.pc /\ query'[p].woken = l.woken
      BY <3>1, <3>2 DEF Locals
    <3> QED
      BY <3>2, <3>3 DEF Listening
  <2> QED
    BY <2>1, <2>2
<1>6. ASSUME NEW q \in Queries, Moves(q)
      PROVE  push'[query'[p].file].version # query'[p].version
  <2>1. CASE p = q
    BY <1>6, <2>1, FallsAsleep DEF Current
  <2>2. CASE p # q
    <3>1. query'[p] = query[p]
      BY <1>6, <2>2, Alone
    <3>2. push' = push
      BY <1>6 DEF Moves, Ask, Tell, Scan, MarkDocs, Notify, Cancel, Read, SyncTarget, Reuse, Evaluate,
         Store, Wake, cacheVars
    <3> QED
      BY <1>2, <3>1, <3>2
  <2> QED
    BY <2>1, <2>2
<1>7. CASE UNCHANGED vars
  BY <1>2, <1>7 DEF vars, cacheVars
<1> QED
  BY <1>3, <1>4, <1>5, <1>6, <1>7 DEF Next, Moves

\* A query that waits has no result to find: a publication accepted, or dropped by a
\* barrier, between its look at the caches and its wait wakes it (diagnostics.go
\* subscribes to the signal before it inspects the caches).
THEOREM NothingIsMissed == Spec => []NoLostWakeup
<1>1. Init => Shape /\ NoLostWakeup
  BY InitShape DEF Init, NoLostWakeup, At, Idle
<1>2. Shape /\ NoLostWakeup /\ [Next]_vars => (Shape /\ NoLostWakeup)'
  BY ShapeStep, WakeupStep
<1> QED
  BY <1>1, <1>2, PTL DEF Spec

(***************************************************************************)
(* Where the queries stand between the disk and the last scan.             *)
(***************************************************************************)

Inside == {"mark", "marked", "telling"}
Handled == {"read", "sync"}
Sent == {"synced", "evaluate", "asleep", "store"}
Passed == Handled \cup Sent \cup {"answered"}

\* A scan under way lies between the last one and the disk; one the server was told
\* of is covered by the last one.
Place(q) ==
  /\ query[q].pc \in Inside =>
       /\ gate = q
       /\ \A f \in Files : scanned[f].at <= query[q].scan[f].at /\ query[q].scan[f].at <= disk[f].at
  /\ query[q].pc \in Passed => \A f \in Files : query[q].scan[f].at <= scanned[f].at
  /\ query[q].pc \in Inside \cup Passed => scanned # <<>> /\ query[q].scan \in Stamps
  /\ query[q].pc = "sync" => query[q].text <= disk[query[q].file].at
  /\ query[q].pc \in Sent => query[q].version > 0

\* The last scan lies behind the disk, and no document is open before the first.
Scans ==
  /\ \A f \in Files : disk[f].at <= edits
  /\ scanned # <<>> => \A f \in Files : scanned[f].at <= disk[f].at
  /\ scanned = <<>> => \A f \in Files : docs[f] = NoDoc

Barrier == Scans /\ \A q \in Queries : Place(q)

\* What no step undoes.
Forward ==
  /\ \A f \in Files : disk[f].at <= disk'[f].at
  /\ scanned # <<>> => scanned' # <<>> /\ \A f \in Files : scanned[f].at <= scanned'[f].at
  /\ behind \subseteq behind' /\ reopened \subseteq reopened'

\* A query at the same place with the same locals.
Stays(q) == query'[q].pc = query[q].pc /\ Kept(q) /\ query'[q].todo = query[q].todo
            /\ query'[q].basis = query[q].basis

LEMMA WokenStays ==
  ASSUME Callers, NEW q \in Queries, query'[q] = Woken(q)
  PROVE  Stays(q)
<1> DEFINE b == query[q].pc \in Listening
<1>1. query'[q] = [query[q] EXCEPT !.woken = b] /\ query[q] \in Locals
  BY DEF Woken, Callers
<1> HIDE DEF b
<1> QED
  BY <1>1 DEF Stays, Kept, KeptScan, Locals

LEMMA UnchangedStays ==
  ASSUME NEW q \in Queries, query'[q] = query[q]
  PROVE  Stays(q)
  BY DEF Stays, Kept, KeptScan

LEMMA MarkStays ==
  ASSUME Callers, NEW q \in Queries, Mark(q), NEW p \in Queries
  PROVE  /\ Kept(p) /\ query'[p].todo = query[p].todo /\ query'[p].basis = query[p].basis
         /\ query'[p].pc = IF p = q THEN "marked" ELSE query[p].pc
<1>1. query[p] \in Locals
  BY DEF Callers
<1>2. CASE p = q
  <2>1. query'[p] = [query[p] EXCEPT !.pc = "marked"]
    BY <1>2 DEF Mark
  <2> QED
    BY <1>1, <1>2, <2>1 DEF Kept, KeptScan, Locals
<1>3. CASE p # q
  <2> DEFINE b == query[p].pc \in Listening
             c == ~Sampled(p)
  <2>1. query'[p] = [[query[p] EXCEPT !.woken = b] EXCEPT !.quiet = c]
    BY <1>3 DEF Mark, Woken
  <2> HIDE DEF b, c
  <2> QED
    BY <1>1, <1>3, <2>1 DEF Kept, KeptScan, Locals
<1> QED
  BY <1>2, <1>3

\* A query that stays keeps its place as long as the barrier it is in is its own.
LEMMA PlaceStays ==
  ASSUME Shape, Shape', NEW q \in Queries, Place(q), Forward, Stays(q),
         query[q].pc \in Inside => gate' = gate /\ scanned' = scanned
  PROVE  Place(q)'
<1>1. /\ query'[q].pc = query[q].pc /\ query'[q].scan = query[q].scan
      /\ query'[q].file = query[q].file /\ query'[q].text = query[q].text
      /\ query'[q].version = query[q].version
  BY DEF Stays, Kept, KeptScan
<1>2. CASE query[q].pc \in Inside
  <2>1. scanned' = scanned /\ gate' = gate /\ scanned # <<>> /\ query[q].scan \in Stamps
    BY <1>2 DEF Place
  <2>2. \A f \in Files : disk[f].at \in Nat /\ disk'[f].at \in Nat /\ query[q].scan[f].at \in Nat
    BY <2>1 DEF Shape, Sources, Stamps
  <2> QED
    BY <1>1, <1>2, <2>1, <2>2 DEF Place, Forward, Inside, Passed, Handled, Sent
<1>3. CASE query[q].pc \in Passed
  <2>1. scanned # <<>> /\ scanned' # <<>> /\ query[q].scan \in Stamps
    BY <1>3 DEF Place, Forward
  <2>2. \A f \in Files : /\ scanned[f].at \in Nat /\ scanned'[f].at \in Nat
                         /\ query[q].scan[f].at \in Nat
    BY <2>1 DEF Shape, Sources, Stamps
  <2>3. \A f \in Files : query[q].scan[f].at <= scanned'[f].at
    BY <1>3, <2>1, <2>2 DEF Place, Forward
  <2>4. query[q].pc = "sync" => query[q].text <= disk'[query[q].file].at
    <3> SUFFICES ASSUME query[q].pc = "sync" PROVE query[q].text <= disk'[query[q].file].at
      OBVIOUS
    <3>1. query[q].file \in Files /\ query[q].text \in Nat
      BY DEF Shape, Callers, Locals
    <3>2. disk[query[q].file].at \in Nat /\ disk'[query[q].file].at \in Nat
      BY <3>1 DEF Shape, Sources, Stamps
    <3> QED
      BY <3>1, <3>2 DEF Place, Forward
  <2> QED
    BY <1>1, <1>3, <2>1, <2>3, <2>4 DEF Place, Inside, Passed, Handled, Sent
<1>4. CASE query[q].pc \notin Inside \cup Passed
  BY <1>1, <1>4 DEF Place, Passed, Handled, Sent
<1> QED
  BY <1>2, <1>3, <1>4

\* A scan lies between the last one and the disk.
LEMMA WalkBetween ==
  ASSUME Shape, Scans, NEW f \in Files
  PROVE  /\ Walk[f].at <= disk[f].at
         /\ scanned = <<>> => Walk[f].at = disk[f].at
         /\ scanned # <<>> => scanned[f].at <= Walk[f].at
<1>1. disk[f].at \in Nat /\ (scanned # <<>> => scanned[f].at \in Nat)
  BY DEF Shape, Sources, Stamps
<1>2. Walk[f] = IF scanned = <<>> \/ disk[f].exists \/ scanned[f].exists THEN disk[f] ELSE scanned[f]
  BY DEF Walk
<1> QED
  BY <1>1, <1>2 DEF Scans

LEMMA WalkIsNotEmpty ==
  ASSUME NEW f \in Files
  PROVE  Walk # <<>>
<1>1. DOMAIN Walk = Files
  BY DEF Walk
<1>2. DOMAIN <<>> = {}
  BY SMT
<1> QED
  BY <1>1, <1>2

LEMMA ForwardStep ==
  ASSUME Shape, Barrier, [Next]_vars
  PROVE  Forward
<1> USE DEF Forward
<1>0. /\ \A f \in Files : disk[f].at \in Nat
      /\ scanned # <<>> => \A f \in Files : scanned[f].at \in Nat
      /\ edits \in Nat
  BY DEF Shape, Sources, Stamps
<1>1. ASSUME NEW f \in Files, Edit(f) \/ Remove(f)
      PROVE  Forward
  <2>1. PICK b : disk' = [disk EXCEPT ![f] = [at |-> edits + 1, exists |-> b]]
    BY <1>1 DEF Edit, Remove
  <2>2. \A g \in Files : disk[g].at <= disk'[g].at
    BY <1>0, <2>1 DEF Shape, Sources, Stamps, Barrier, Scans
  <2> QED
    BY <1>0, <1>1, <2>2 DEF Edit, Remove, history
<1>2. ASSUME NEW q \in Queries, Scan(q)
      PROVE  Forward
  <2>1. query[q].file \in Files
    BY <1>2 DEF Scan, At, Shape, Callers
  <2>2. /\ UNCHANGED <<disk, reopened>> /\ scanned' = IF scanned = <<>> THEN Walk ELSE scanned
        /\ behind \subseteq behind'
    BY <1>2 DEF Scan
  <2> QED
    BY <1>0, <2>1, <2>2, WalkIsNotEmpty
<1>3. ASSUME NEW q \in Queries, Notify(q)
      PROVE  Forward
  <2>1. UNCHANGED <<disk, behind, reopened>> /\ scanned' = query[q].scan
    BY <1>3 DEF Notify, history
  <2>2. query[q].pc \in Inside /\ query[q].file \in Files
    BY <1>3 DEF Notify, At, Inside, Shape, Callers
  <2>3. /\ \A f \in Files : scanned[f].at <= query[q].scan[f].at
        /\ query[q].scan \in Stamps
    BY <2>2 DEF Barrier, Place
  <2>4. query[q].scan # <<>>
    <3>1. DOMAIN query[q].scan = Files
      BY <2>3 DEF Stamps
    <3>2. DOMAIN <<>> = {}
      BY SMT
    <3> QED
      BY <2>2, <3>1, <3>2
  <2> QED
    BY <1>0, <2>1, <2>3, <2>4
<1>4. ASSUME UNCHANGED <<disk, scanned>>, behind \subseteq behind', reopened \subseteq reopened'
      PROVE  Forward
  BY <1>0, <1>4
<1>5. CASE \E f \in Files : Load(f) \/ Publish(f)
  BY <1>4, <1>5 DEF Load, Publish, history
<1>6. CASE Accept
  BY <1>4, <1>6 DEF Accept, history
<1>7. ASSUME NEW q \in Queries, Mark(q) \/ MarkDocs(q) \/ Cancel(q) \/ Reuse(q) \/ Evaluate(q) \/ Store(q) \/ Wake(q)
      PROVE  Forward
  BY <1>4, <1>7 DEF Mark, MarkDocs, Cancel, Reuse, Evaluate, Store, Wake, history
<1>8. ASSUME NEW q \in Queries, NEW f \in Files, Ask(q, f) \/ Tell(q, f)
      PROVE  Forward
  BY <1>4, <1>8 DEF Ask, Tell, history, Sync, SyncUnsent
<1>9. ASSUME NEW q \in Queries, Read(q) \/ SyncTarget(q)
      PROVE  Forward
  BY <1>4, <1>9 DEF Read, SyncTarget, Sync, SyncUnsent
<1>10. CASE UNCHANGED vars
  BY <1>4, <1>10 DEF vars, history
<1> QED
  BY <1>1, <1>2, <1>3, <1>5, <1>6, <1>7, <1>8, <1>9, <1>10 DEF Next

LEMMA ScansStep ==
  ASSUME Shape, Shape', Barrier, [Next]_vars
  PROVE  Scans'
<1>0. /\ \A f \in Files : disk[f].at \in Nat /\ disk'[f].at \in Nat
      /\ scanned # <<>> => \A f \in Files : scanned[f].at \in Nat
      /\ edits \in Nat
  BY DEF Shape, Sources, Stamps
<1>f. Forward
  BY ForwardStep
<1>1. \A f \in Files : disk'[f].at <= edits'
  <2>1. CASE UNCHANGED <<disk, edits>>
    BY <2>1 DEF Barrier, Scans
  <2>2. ASSUME NEW f \in Files, Edit(f) \/ Remove(f)
        PROVE  \A g \in Files : disk'[g].at <= edits'
    <3>1. PICK b : disk' = [disk EXCEPT ![f] = [at |-> edits + 1, exists |-> b]]
      BY <2>2 DEF Edit, Remove
    <3>2. edits' = edits + 1
      BY <2>2 DEF Edit, Remove
    <3> QED
      BY <1>0, <3>1, <3>2 DEF Shape, Sources, Stamps, Barrier, Scans
  <2>3. CASE UNCHANGED vars
    BY <2>1, <2>3 DEF vars
  <2>4. CASE Accept \/ \E f \in Files : Load(f) \/ Publish(f)
    BY <2>1, <2>4 DEF Accept, Load, Publish
  <2>5. ASSUME NEW q \in Queries, Moves(q) \/ Mark(q)
        PROVE  UNCHANGED <<disk, edits>>
    BY <2>5 DEF Moves, Ask, Tell, Scan, Mark, MarkDocs, Notify, Cancel, Read, SyncTarget, Reuse,
       Evaluate, Store, Wake
  <2> QED
    BY <2>1, <2>2, <2>3, <2>4, <2>5 DEF Next, Moves
<1>2. scanned' # <<>> => \A f \in Files : scanned'[f].at <= disk'[f].at
  <2>1. CASE scanned' = scanned
    <3> SUFFICES ASSUME scanned # <<>>, NEW f \in Files PROVE scanned[f].at <= disk'[f].at
      BY <2>1
    <3>1. scanned[f].at <= disk[f].at /\ disk[f].at <= disk'[f].at
      BY <1>f DEF Barrier, Scans, Forward
    <3>2. scanned[f].at \in Nat /\ disk[f].at \in Nat /\ disk'[f].at \in Nat
      BY <1>0
    <3> QED
      BY <3>1, <3>2
  <2>2. ASSUME NEW q \in Queries, Scan(q), scanned' # scanned
        PROVE  \A f \in Files : scanned'[f].at <= disk'[f].at
    BY <2>2, WalkBetween DEF Scan, Barrier
  <2>3. ASSUME NEW q \in Queries, Notify(q)
        PROVE  \A f \in Files : scanned'[f].at <= disk'[f].at
    BY <2>3 DEF Notify, Barrier, Place, At, Inside
  <2>4. CASE UNCHANGED vars
    BY <2>1, <2>4 DEF vars
  <2>5. CASE Accept \/ \E f \in Files : Edit(f) \/ Remove(f) \/ Load(f) \/ Publish(f)
    BY <2>1, <2>5 DEF Accept, Edit, Remove, Load, Publish
  <2>6. ASSUME NEW q \in Queries, Moves(q) \/ Mark(q), ~Scan(q), ~Notify(q)
        PROVE  scanned' = scanned
    BY <2>6 DEF Moves, Ask, Tell, Mark, MarkDocs, Cancel, Read, SyncTarget, Reuse,
       Evaluate, Store, Wake
  <2> QED
    BY <2>1, <2>2, <2>3, <2>4, <2>5, <2>6 DEF Next, Moves
<1>3. scanned' = <<>> => \A f \in Files : docs'[f] = NoDoc
  <2> SUFFICES ASSUME scanned' = <<>> PROVE docs' = docs
    BY <1>f DEF Barrier, Scans, Forward
  <2>1. scanned = <<>>
    BY <1>f DEF Forward
  <2>2. CASE UNCHANGED vars
    BY <2>2 DEF vars, storeVars
  <2>3. CASE Accept \/ \E f \in Files : Edit(f) \/ Remove(f) \/ Load(f) \/ Publish(f)
    BY <2>3 DEF Accept, Edit, Remove, Load, Publish, storeVars
  <2>4. ASSUME NEW q \in Queries, NEW f \in Files, Tell(q, f) PROVE FALSE
    BY <2>1, <2>4 DEF Barrier, Place, Tell, At, Inside
  <2>5. ASSUME NEW q \in Queries, MarkDocs(q) \/ SyncTarget(q) PROVE FALSE
    BY <2>1, <2>5 DEF Barrier, Place, MarkDocs, SyncTarget, At, Inside, Passed, Handled
  <2>6. ASSUME NEW q \in Queries, Moves(q) \/ Mark(q), ~MarkDocs(q), ~SyncTarget(q),
               \A f \in Files : ~Tell(q, f)
        PROVE  docs' = docs
    BY <2>6 DEF Moves, Ask, Mark, Scan, Notify, Cancel, Read, Reuse, Evaluate, Store, Wake, storeVars
  <2> QED
    BY <2>2, <2>3, <2>4, <2>5, <2>6 DEF Next, Moves
<1> QED
  BY <1>1, <1>2, <1>3 DEF Scans

\* No step takes the gate from a query inside the barrier, or the scan it compares with.
LEMMA GateIsKept ==
  ASSUME Shape, Barrier, [Next]_vars, NEW p \in Queries, query[p].pc \in Inside,
         \A q \in Queries : Moves(q) => q # p
  PROVE  gate' = gate /\ scanned' = scanned
<1>1. gate = p /\ scanned # <<>>
  BY DEF Barrier, Place
<1>2. gate # None
  BY <1>1, NoneAssumption
<1>3. CASE UNCHANGED vars
  BY <1>3 DEF vars
<1>4. CASE Accept \/ \E f \in Files : Edit(f) \/ Remove(f) \/ Load(f) \/ Publish(f)
  BY <1>4 DEF Accept, Edit, Remove, Load, Publish
<1>5. ASSUME NEW q \in Queries, Mark(q) PROVE gate' = gate /\ scanned' = scanned
  BY <1>5 DEF Mark
<1>6. ASSUME NEW q \in Queries, Moves(q) PROVE gate' = gate /\ scanned' = scanned
  <2>1. q # p
    BY <1>6
  <2>2. query[q].pc \notin Inside
    BY <1>1, <2>1 DEF Barrier, Place
  <2>3. ~Scan(q) /\ ~Notify(q) /\ ~MarkDocs(q) /\ \A f \in Files : ~Tell(q, f)
    BY <1>2, <2>2 DEF Scan, Notify, MarkDocs, Tell, At, Inside
  <2>4. CASE Cancel(q)
    BY <1>1, <2>1, <2>4 DEF Cancel
  <2> QED
    BY <1>6, <2>3, <2>4 DEF Moves, Ask, Read, SyncTarget, Reuse, Evaluate, Store, Wake
<1> QED
  BY <1>3, <1>4, <1>5, <1>6 DEF Next, Moves

LEMMA PlaceOfOthers ==
  ASSUME Shape, Shape', Barrier, [Next]_vars, NEW p \in Queries, Stays(p),
         \A q \in Queries : Moves(q) => q # p
  PROVE  Place(p)'
<1>1. Place(p) /\ Forward
  BY ForwardStep DEF Barrier
<1>2. query[p].pc \in Inside => gate' = gate /\ scanned' = scanned
  BY GateIsKept
<1> QED
  BY <1>1, <1>2, PlaceStays

\* The new place of the query that moved.
LEMMA PlaceOfScan ==
  ASSUME Shape, Shape', Barrier, NEW q \in Queries, Scan(q)
  PROVE  Place(q)'
<1>1. /\ query'[q].file = query[q].file /\ query'[q].scan = Walk
      /\ IF scanned = <<>> \/ Changes(Walk) = {} THEN query'[q].pc = "read" ELSE query'[q].pc = "mark"
  BY AfterScan DEF Shape
<1>2. query[q].file \in Files
  BY DEF Scan, At, Shape, Callers
<1>3. Walk \in Stamps /\ Walk # <<>>
  BY <1>2, WalkIsAScan, WalkIsNotEmpty DEF Shape
<1>4. UNCHANGED disk /\ scanned' = (IF scanned = <<>> THEN Walk ELSE scanned)
  BY DEF Scan
<1>5. \A f \in Files : Walk[f].at \in Nat
  BY <1>3 DEF Stamps
<1>6. CASE scanned = <<>>
  BY <1>1, <1>3, <1>4, <1>5, <1>6 DEF Place, Inside, Passed, Handled, Sent
<1>7. CASE scanned # <<>> /\ Changes(Walk) = {}
  <2>1. \A f \in Files : Walk[f] = scanned[f]
    BY <1>7 DEF Changes
  <2> QED
    BY <1>1, <1>3, <1>4, <1>5, <1>7, <2>1 DEF Place, Inside, Passed, Handled, Sent
<1>8. CASE scanned # <<>> /\ Changes(Walk) # {}
  <2>1. gate' = q
    BY <1>8 DEF Scan
  <2>2. \A f \in Files : scanned[f].at <= Walk[f].at /\ Walk[f].at <= disk[f].at
    BY <1>8, WalkBetween DEF Barrier
  <2> QED
    BY <1>1, <1>3, <1>4, <1>8, <2>1, <2>2 DEF Place, Inside, Passed, Handled, Sent
<1> QED
  BY <1>6, <1>7, <1>8

LEMMA PlaceOfInside ==
  ASSUME Shape, Shape', Barrier, NEW q \in Queries, query[q].pc \in Inside, query'[q].pc \in Inside,
         KeptScan(q), UNCHANGED <<disk, scanned, gate>>
  PROVE  Place(q)'
  BY DEF Barrier, Place, Inside, Passed, Handled, Sent, KeptScan

LEMMA PlaceOfEnded ==
  ASSUME NEW q \in Queries, query'[q].pc \in {"ended", "gate"}
  PROVE  Place(q)'
  BY DEF Place, Inside, Passed, Handled, Sent

LEMMA PlaceOfNotify ==
  ASSUME Shape, Shape', Barrier, NEW q \in Queries, Notify(q)
  PROVE  Place(q)'
<1>1. query'[q].pc = "read" /\ query'[q].scan = query[q].scan /\ scanned' = query[q].scan
  BY AfterNotify DEF Notify, Shape, KeptScan
<1>2. query[q].pc \in Inside
  BY DEF Notify, At, Inside
<1>3. query[q].scan \in Stamps /\ scanned # <<>>
  BY <1>2 DEF Barrier, Place
<1>4. scanned' # <<>>
  <2>1. Forward
    BY ForwardStep DEF Next
  <2> QED
    BY <1>3, <2>1 DEF Forward
<1>5. \A f \in Files : query[q].scan[f].at \in Nat
  BY <1>3 DEF Stamps
<1> QED
  BY <1>1, <1>3, <1>4, <1>5 DEF Place, Inside, Passed, Handled, Sent

LEMMA PlaceOfRead ==
  ASSUME Shape, Shape', Barrier, NEW q \in Queries, Read(q)
  PROVE  Place(q)'
<1>1. CASE query'[q].pc = "ended"
  BY <1>1, PlaceOfEnded
<1>2. CASE query'[q].pc # "ended"
  <2>1. query'[q].pc = "sync" /\ KeptScan(q) /\ query'[q].text = disk[query[q].file].at
    BY <1>2, AfterRead DEF Shape
  <2>2. UNCHANGED <<disk, scanned>> /\ query[q].pc = "read"
    BY DEF Read, At
  <2>3. query'[q].text <= disk'[query'[q].file].at
    <3>1. disk[query[q].file].at \in Nat
      BY <2>2 DEF Shape, Sources, Callers, Stamps
    <3> QED
      BY <2>1, <2>2, <3>1 DEF KeptScan
  <2> QED
    BY <2>1, <2>2, <2>3 DEF Barrier, Place, Inside, Passed, Handled, Sent, KeptScan
<1> QED
  BY <1>1, <1>2

LEMMA PlaceOfSyncTarget ==
  ASSUME Shape, Shape', Barrier, NEW q \in Queries, SyncTarget(q)
  PROVE  Place(q)'
<1>1. CASE query'[q].pc = "ended"
  BY <1>1, PlaceOfEnded
<1>2. CASE SentBy(q)
  <2> DEFINE f == query[q].file
             text == query[q].text
  <2>1. /\ query'[q].pc = "synced" /\ KeptScan(q)
        /\ query'[q].version = Synced(f, text)[f].version
    BY <1>2 DEF SentBy
  <2>2. UNCHANGED <<disk, scanned>> /\ query[q].pc = "sync" /\ f \in Files
    BY DEF SyncTarget, At, Shape, Callers
  <2>3. Synced(f, text)[f].version > 0
    <3>1. docs[f].version \in Nat
      BY <2>2 DEF Shape, Given
    <3>2. Synced(f, text)[f] = IF ~Open(f) \/ Stale(f, text)
                                 THEN [version |-> docs[f].version + 1, text |-> text, invalidated |-> FALSE]
                                 ELSE docs[f]
      BY <2>2 DEF Synced
    <3> QED
      BY <3>1, <3>2 DEF Open
  <2> QED
    BY <2>1, <2>2, <2>3 DEF Barrier, Place, Inside, Passed, Handled, Sent, KeptScan
<1> QED
  BY <1>1, <1>2, AfterSyncTarget DEF Shape

LEMMA PlaceOfHandler ==
  ASSUME Shape, Shape', Barrier, NEW q \in Queries, Reuse(q) \/ Evaluate(q) \/ Store(q) \/ Wake(q)
  PROVE  Place(q)'
<1>1. CASE query'[q].pc = "ended"
  BY <1>1, PlaceOfEnded
<1>2. CASE Kept(q) /\ query'[q].pc \in {"answered", "evaluate", "store", "asleep"}
  <2>1. UNCHANGED <<disk, scanned>> /\ query[q].pc \in Sent
    BY DEF Reuse, Evaluate, Store, Wake, At, Sent
  <2> QED
    BY <1>2, <2>1 DEF Barrier, Place, Inside, Passed, Handled, Sent, Kept, KeptScan
<1>3. CASE Reuse(q) \/ Store(q) \/ Wake(q)
  BY <1>1, <1>2, <1>3, AfterAnswer, AfterSubscribed DEF Reuse, Store, Wake, Shape
<1>4. CASE Evaluate(q)
  BY <1>2, <1>4, AfterEvaluate DEF Shape
<1> QED
  BY <1>3, <1>4

LEMMA PlaceOfMover ==
  ASSUME Shape, Shape', Barrier, NEW q \in Queries, Moves(q)
  PROVE  Place(q)'
<1>1. ASSUME NEW f \in Files, Ask(q, f) PROVE Place(q)'
  BY <1>1, AfterAsk, PlaceOfEnded DEF Shape
<1>2. ASSUME NEW f \in Files, Tell(q, f) PROVE Place(q)'
  <2>1. CASE query' = [query EXCEPT ![q] = Ended]
    BY <2>1, AfterEnd, PlaceOfEnded DEF Shape
  <2>2. CASE query' = [query EXCEPT ![q].todo = @ \ {f}] /\ UNCHANGED gate
    <3>1. query[q].pc \in Inside /\ UNCHANGED <<disk, scanned, gate>>
      BY <1>2, <2>2 DEF Tell, At, Inside
    <3>2. query'[q].pc = query[q].pc /\ KeptScan(q)
      BY <2>2, AfterTell DEF Shape
    <3> QED
      BY <3>1, <3>2, PlaceOfInside
  <2> QED
    BY <1>2, <2>1, <2>2 DEF Tell
<1>3. CASE MarkDocs(q)
  <2>1. query'[q].pc = "telling" /\ KeptScan(q)
    BY <1>3, AfterMarkDocs DEF Shape
  <2> QED
    BY <1>3, <2>1, PlaceOfInside DEF MarkDocs, At, Inside
<1>4. CASE Cancel(q)
  BY <1>4, AfterEnd, PlaceOfEnded DEF Cancel, Shape
<1> QED
  BY <1>1, <1>2, <1>3, <1>4, PlaceOfScan, PlaceOfNotify, PlaceOfRead, PlaceOfSyncTarget,
     PlaceOfHandler DEF Moves

\* Only one query moves at a time.
LEMMA OneMover ==
  ASSUME Shape, NEW q \in Queries, Moves(q), NEW p \in Queries
  PROVE  \/ p = q
         \/ query'[p] = query[p] /\ Stays(p)
  BY Alone, UnchangedStays

\* A query that does not move stays, except that a barrier marks its own.
LEMMA OthersStay ==
  ASSUME Shape, [Next]_vars, NEW p \in Queries, ~Moves(p), ~Mark(p)
  PROVE  Stays(p)
<1>1. query \in [Queries -> Locals]
  BY DEF Shape, Callers
<1>2. CASE UNCHANGED vars
  BY <1>2, UnchangedStays DEF vars
<1>3. CASE \E f \in Files : Edit(f) \/ Remove(f) \/ Load(f) \/ Publish(f)
  BY <1>3, UnchangedStays DEF Edit, Remove, Load, Publish
<1>4. CASE Accept
  <2>1. query' = query \/ query' = [q \in Queries |-> Woken(q)]
    BY <1>4 DEF Accept
  <2>2. query'[p] = query[p] \/ query'[p] = Woken(p)
    BY <2>1
  <2> QED
    BY <2>2, UnchangedStays, WokenStays DEF Shape
<1>5. ASSUME NEW q \in Queries, Mark(q) PROVE Stays(p)
  BY <1>5, MarkStays DEF Shape, Stays
<1>6. ASSUME NEW q \in Queries, Moves(q) PROVE Stays(p)
  BY <1>6, OneMover
<1> QED
  BY <1>2, <1>3, <1>4, <1>5, <1>6 DEF Next, Moves

LEMMA BarrierStep ==
  ASSUME Shape, Shape', Barrier, [Next]_vars
  PROVE  Barrier'
<1>1. ASSUME NEW p \in Queries PROVE Place(p)'
  <2>1. CASE Moves(p)
    BY <2>1, PlaceOfMover
  <2>2. CASE Mark(p)
    <3>1. query[p].pc \in Inside /\ query'[p].pc \in Inside /\ KeptScan(p)
      BY <2>2, MarkStays DEF Mark, At, Inside, Shape, Kept
    <3> QED
      BY <2>2, <3>1, PlaceOfInside DEF Mark
  <2>3. CASE ~Moves(p) /\ ~Mark(p)
    <3>1. Stays(p)
      BY <2>3, OthersStay
    <3>2. \A q \in Queries : Moves(q) => q # p
      BY <2>3
    <3> QED
      BY <3>1, <3>2, PlaceOfOthers
  <2> QED
    BY <2>1, <2>2, <2>3
<1> QED
  BY <1>1, ScansStep DEF Barrier

LEMMA InitBarrier == Init => Barrier
<1> SUFFICES ASSUME Init PROVE Barrier
  OBVIOUS
<1>1. ASSUME NEW q \in Queries PROVE query[q].pc = "idle"
  BY DEF Init, Idle
<1>2. Scans
  BY DEF Init, Scans
<1> QED
  BY <1>1, <1>2 DEF Barrier, Place, Inside, Passed, Handled, Sent

(***************************************************************************)
(* What the server was given.                                              *)
(***************************************************************************)

\* The server has the documents of the store open, and no other but those whose
\* closing was lost; it has their last text, if none was lost on the way.  It never is
\* ahead of the disk.
HeldFile(f) ==
  /\ ~Open(f) => docs[f].text = 0 /\ (f \in behind \/ overlay[f] = NoText)
  /\ Open(f) => overlay[f].version > 0 /\ overlay[f].version <= docs[f].version
  /\ Open(f) /\ f \notin behind => overlay[f] = [version |-> docs[f].version, text |-> docs[f].text]
  /\ View[f] <= disk[f].at
Held == \A f \in Files : HeldFile(f)

\* What a step does to one file's document: a new text goes out under a new version,
\* or is only stored; the document is closed, or only dropped; or it stands.
NewDoc(f, text) == docs'[f].version = docs[f].version + 1 /\ docs'[f].text = text
Drawn(f, text) ==
  /\ NewDoc(f, text)
  /\ overlay'[f] = [version |-> docs[f].version + 1, text |-> text]
  /\ cached'[f] = cached[f]
  /\ text <= disk[f].at
  /\ text = disk[f].at \/ f \in behind'
Stored(f, text) ==
  /\ Open(f) /\ NewDoc(f, text)
  /\ overlay'[f] = overlay[f] /\ cached'[f] = cached[f]
  /\ f \in behind'
Dropped(f) ==
  /\ docs'[f] = NoDoc /\ overlay'[f] = NoText
  /\ cached'[f] = disk[f].at /\ f \in reopened'
Abandoned(f) ==
  /\ docs'[f] = NoDoc /\ overlay'[f] = overlay[f] /\ cached'[f] = cached[f]
  /\ f \in reopened' /\ f \in behind'
Stands(f) ==
  /\ docs'[f].version = docs[f].version /\ docs'[f].text = docs[f].text
  /\ overlay'[f] = overlay[f]
  /\ cached'[f] = cached[f] \/ cached'[f] = disk[f].at
FileStep(f) ==
  \/ \E text \in Nat : Drawn(f, text) \/ Stored(f, text)
  \/ Dropped(f) \/ Abandoned(f)
  \/ Stands(f)

\* Unless the server missed it, a file's view only moves on.
ViewGrows == \A f \in Files \ behind' : View[f] <= View'[f]

LEMMA ViewOf ==
  ASSUME NEW f \in Files
  PROVE  /\ View[f] = IF overlay[f].version > 0 THEN overlay[f].text ELSE cached[f]
         /\ View'[f] = IF overlay'[f].version > 0 THEN overlay'[f].text ELSE cached'[f]
  BY DEF View

LEMMA HeldFileStep ==
  ASSUME Shape, Shape', Forward, NEW f \in Files, HeldFile(f), FileStep(f)
  PROVE  /\ HeldFile(f)'
         /\ f \notin behind' => View[f] <= View'[f]
<1>1. /\ docs[f].version \in Nat /\ docs[f].text \in Nat
      /\ overlay[f].version \in Nat /\ overlay[f].text \in Nat
      /\ cached[f] \in Nat /\ disk[f].at \in Nat /\ disk'[f].at \in Nat
      /\ disk[f].at <= disk'[f].at
  BY DEF Shape, Given, Sources, Stamps, Bases, Forward
<1>2. /\ View[f] = IF overlay[f].version > 0 THEN overlay[f].text ELSE cached[f]
      /\ View'[f] = IF overlay'[f].version > 0 THEN overlay'[f].text ELSE cached'[f]
  BY ViewOf
<1>3. ASSUME NEW text \in Nat, Drawn(f, text)
      PROVE  HeldFile(f)' /\ (f \notin behind' => View[f] <= View'[f])
  <2>1. overlay'[f].version = docs[f].version + 1 /\ overlay'[f].text = text
    BY <1>3 DEF Drawn
  <2>2. View'[f] = text
    BY <1>1, <1>2, <2>1
  <2> QED
    BY <1>1, <1>3, <2>1, <2>2 DEF HeldFile, Open, Drawn, NewDoc
<1>4. ASSUME NEW text \in Nat, Stored(f, text)
      PROVE  HeldFile(f)' /\ (f \notin behind' => View[f] <= View'[f])
  BY <1>1, <1>2, <1>4 DEF HeldFile, Open, Stored, NewDoc
<1>5. CASE Dropped(f)
  <2>1. docs'[f].version = 0 /\ overlay'[f].version = 0
    BY <1>5 DEF Dropped, NoDoc, NoText
  <2>2. docs'[f].text = 0 /\ overlay'[f] = NoText /\ cached'[f] = disk[f].at
    BY <1>5 DEF Dropped, NoDoc
  <2>3. View'[f] = disk[f].at /\ View[f] <= disk[f].at
    BY <1>2, <2>1, <2>2 DEF HeldFile
  <2>4. View[f] \in Nat
    BY <1>1, <1>2
  <2> QED
    BY <1>1, <2>1, <2>2, <2>3, <2>4 DEF HeldFile, Open
<1>6. CASE Stands(f)
  BY <1>1, <1>2, <1>6 DEF HeldFile, Open, Stands, Forward
<1>7. CASE Abandoned(f)
  <2>1. docs'[f].version = 0 /\ docs'[f].text = 0
    BY <1>7 DEF Abandoned, NoDoc
  <2>2. View'[f] = View[f] /\ View[f] <= disk[f].at /\ View[f] \in Nat
    BY <1>1, <1>2, <1>7 DEF Abandoned, HeldFile
  <2> QED
    BY <1>1, <1>7, <2>1, <2>2 DEF HeldFile, Open, Abandoned
<1> QED
  BY <1>3, <1>4, <1>5, <1>6, <1>7 DEF FileStep

LEMMA HeldStep ==
  ASSUME Shape, Shape', Forward, Held, \A f \in Files : FileStep(f)
  PROVE  Held' /\ ViewGrows
  BY HeldFileStep DEF Held, ViewGrows

\* What synchronizing does to each file.
LEMMA SyncFiles ==
  ASSUME Shape, Held, NEW f \in Files, NEW text \in Nat, text <= disk[f].at, Sync(f, text)
  PROVE  /\ \A g \in Files : FileStep(g)
         /\ IF ~Open(f) \/ Stale(f, text)
              THEN Drawn(f, text) /\ Synced(f, text)[f].version = docs[f].version + 1
              ELSE Stands(f) /\ docs[f].text = text /\ Synced(f, text)[f].version = docs[f].version
         /\ f \notin behind' => text = disk[f].at
<1> DEFINE ds == Synced(f, text)
           doc == [version |-> docs[f].version + 1, text |-> text, invalidated |-> FALSE]
<1>0. PICK lost \in {{}, Closed(ds)} :
        /\ behind' = behind \cup lost \cup (IF text = disk[f].at THEN {} ELSE {f})
        /\ Send(ds, lost)
  BY DEF Sync
<1>1. docs' = ds /\ reopened' = reopened \cup Closed(ds)
  BY DEF Sync
<1>2. /\ ds[f] = IF ~Open(f) \/ Stale(f, text) THEN doc ELSE docs[f]
      /\ \A g \in Files \ {f} : ds[g] = docs[g] \/ ds[g] = NoDoc
  BY DEF Synced
<1>3. \A g \in Files : docs[g].version \in Nat /\ HeldFile(g)
  BY DEF Shape, Given, Held
<1> HIDE DEF ds
<1>4. ASSUME NEW g \in Files
      PROVE  /\ overlay'[g] = IF g \in Closed(ds) \ lost THEN NoText
                              ELSE IF ds[g].version > docs[g].version
                                THEN [version |-> ds[g].version, text |-> ds[g].text]
                              ELSE overlay[g]
             /\ cached'[g] = IF g \in Closed(ds) \ lost THEN disk[g].at ELSE cached[g]
  BY <1>0 DEF Send
<1>5. f \notin behind' => text = disk[f].at
  BY <1>0
<1>6. ASSUME ~Open(f) \/ Stale(f, text)
      PROVE  Drawn(f, text) /\ Synced(f, text)[f].version = docs[f].version + 1
  <2>1. ds[f] = doc /\ doc.version = docs[f].version + 1 /\ doc.text = text
    BY <1>2, <1>6
  <2>2. doc.version # 0 /\ doc.version > docs[f].version
    BY <1>3, <2>1
  <2>3. f \notin Closed(ds)
    BY <2>1, <2>2 DEF Closed
  <2>4. overlay'[f] = [version |-> docs[f].version + 1, text |-> text] /\ cached'[f] = cached[f]
    BY <1>4, <2>1, <2>2, <2>3
  <2>5. docs'[f].version = docs[f].version + 1 /\ docs'[f].text = text
    BY <1>1, <2>1
  <2>6. Drawn(f, text)
    BY <1>5, <2>4, <2>5 DEF Drawn, NewDoc
  <2> QED
    BY <2>1, <2>6 DEF ds
<1>7. ASSUME ~(~Open(f) \/ Stale(f, text))
      PROVE  Stands(f) /\ docs[f].text = text /\ Synced(f, text)[f].version = docs[f].version
  <2>1. ds[f] = docs[f] /\ docs[f].text = text /\ Open(f)
    BY <1>2, <1>7 DEF Stale
  <2>2. docs[f].version > 0 /\ f \notin Closed(ds) /\ ~(ds[f].version > docs[f].version)
    BY <1>3, <2>1 DEF Open, Closed
  <2>3. Stands(f)
    BY <1>1, <1>4, <2>1, <2>2 DEF Stands
  <2> QED
    BY <2>1, <2>3 DEF ds
<1>8. ASSUME NEW g \in Files, g # f PROVE Dropped(g) \/ Abandoned(g) \/ Stands(g)
  <2>1. CASE ds[g] = docs[g]
    <3>1. g \notin Closed(ds) /\ ~(ds[g].version > docs[g].version)
      BY <1>3, <2>1 DEF Closed, Open
    <3> QED
      BY <1>1, <1>4, <2>1, <3>1 DEF Stands
  <2>2. CASE ds[g] = NoDoc /\ Open(g)
    <3>1. g \in Closed(ds) /\ ds[g].version = 0 /\ ~(ds[g].version > docs[g].version)
      BY <1>3, <2>2 DEF Closed, NoDoc, Open
    <3>2. CASE g \in lost
      BY <1>0, <1>1, <1>4, <2>2, <3>1, <3>2 DEF Abandoned
    <3>3. CASE g \notin lost
      BY <1>1, <1>4, <2>2, <3>1, <3>3 DEF Dropped
    <3> QED
      BY <3>2, <3>3
  <2>3. CASE ds[g] = NoDoc /\ ~Open(g)
    <3>1. docs[g].version = 0 /\ docs[g].text = 0
      <4>1. HeldFile(g) /\ docs[g].version \in Nat
        BY <1>3
      <4> QED
        BY <2>3, <4>1 DEF HeldFile, Open
    <3>2. ds[g].version = 0 /\ ds[g].text = 0 /\ g \notin Closed(ds)
      BY <2>3 DEF NoDoc, Closed
    <3>3. ~(ds[g].version > docs[g].version)
      BY <3>1, <3>2
    <3>4. docs'[g] = ds[g]
      BY <1>1
    <3>5. overlay'[g] = overlay[g] /\ cached'[g] = cached[g]
      BY <1>4, <3>2, <3>3
    <3> QED
      BY <3>1, <3>2, <3>4, <3>5 DEF Stands
  <2> QED
    BY <1>2, <1>8, <2>1, <2>2, <2>3
<1>9. \A g \in Files : FileStep(g)
  BY <1>6, <1>7, <1>8 DEF FileStep
<1> HIDE DEF doc
<1> QED
  BY <1>5, <1>6, <1>7, <1>9

LEMMA SyncUnsentFiles ==
  ASSUME Shape, NEW f \in Files, NEW text \in Nat, SyncUnsent(f, text)
  PROVE  /\ \A g \in Files : FileStep(g)
         /\ Open(f) => f \in behind'
<1>1. CASE Open(f)
  <2>1. /\ Stale(f, text) /\ docs' = [docs EXCEPT ![f] = Synced(f, text)[f]]
        /\ behind' = behind \cup {f} /\ UNCHANGED <<overlay, cached>>
    BY <1>1 DEF SyncUnsent, serverVars
  <2>2. Synced(f, text)[f] = [version |-> docs[f].version + 1, text |-> text, invalidated |-> FALSE]
    BY <2>1 DEF Synced
  <2>3. docs'[f] = [version |-> docs[f].version + 1, text |-> text, invalidated |-> FALSE]
    BY <2>1, <2>2 DEF Shape, Given
  <2>4. Stored(f, text)
    BY <1>1, <2>1, <2>3 DEF Stored, NewDoc
  <2>5. \A g \in Files \ {f} : Stands(g)
    BY <2>1 DEF Shape, Given, Stands
  <2> QED
    BY <2>1, <2>4, <2>5 DEF FileStep
<1>2. CASE ~Open(f)
  BY <1>2 DEF SyncUnsent, storeVars, serverVars, FileStep, Stands
<1> QED
  BY <1>1, <1>2

LEMMA TellRemovedFiles ==
  ASSUME Shape, NEW q \in Queries, NEW f \in Files, Tell(q, f), ~query[q].scan[f].exists, Open(f)
  PROVE  \A g \in Files : FileStep(g)
<1>1. /\ docs' = [docs EXCEPT ![f] = NoDoc]
      /\ reopened' = reopened \cup {f}
      /\ \/ /\ overlay' = [overlay EXCEPT ![f] = NoText]
            /\ cached' = [cached EXCEPT ![f] = disk[f].at]
         \/ UNCHANGED <<overlay, cached>> /\ behind' = behind \cup {f}
  BY DEF Tell, serverVars
<1>2. \A g \in Files \ {f} : Stands(g)
  BY <1>1 DEF Shape, Given, Bases, Stands
<1>3. /\ docs'[f] = NoDoc
      /\ \/ overlay'[f] = NoText /\ cached'[f] = disk[f].at
         \/ overlay'[f] = overlay[f] /\ cached'[f] = cached[f] /\ f \in behind'
  BY <1>1 DEF Shape, Given, Bases
<1>4. Dropped(f) \/ Abandoned(f)
  BY <1>1, <1>3 DEF Dropped, Abandoned
<1> QED
  BY <1>2, <1>4 DEF FileStep

LEMMA FilesStep ==
  ASSUME Shape, Barrier, Held, [Next]_vars
  PROVE  \A f \in Files : FileStep(f)
<1>1. ASSUME UNCHANGED <<docs, overlay>>,
             \A f \in Files : cached'[f] = cached[f] \/ cached'[f] = disk[f].at
      PROVE  \A f \in Files : FileStep(f)
  BY <1>1 DEF FileStep, Stands
<1>2. CASE UNCHANGED <<docs, overlay, cached>>
  BY <1>1, <1>2
<1>3. CASE UNCHANGED vars
  BY <1>2, <1>3 DEF vars, storeVars, serverVars
<1>4. CASE Accept \/ \E f \in Files : Edit(f) \/ Remove(f) \/ Publish(f)
  BY <1>2, <1>4 DEF Accept, Edit, Remove, Publish, storeVars, serverVars
<1>5. ASSUME NEW q \in Queries, Scan(q) PROVE \A f \in Files : FileStep(f)
  BY <1>2, <1>5 DEF Scan, storeVars, serverVars
<1>6. ASSUME NEW q \in Queries, Notify(q) PROVE \A f \in Files : FileStep(f)
  BY <1>1, <1>6 DEF Notify, storeVars
<1>7. ASSUME NEW q \in Queries, MarkDocs(q), NEW f \in Files PROVE FileStep(f)
  <2>1. docs'[f] = [docs[f] EXCEPT !.invalidated = Open(f)] /\ UNCHANGED <<overlay, cached>>
    BY <1>7 DEF MarkDocs, serverVars
  <2>2. docs'[f].version = docs[f].version /\ docs'[f].text = docs[f].text
    BY <2>1 DEF Shape, Given
  <2> QED
    BY <2>1, <2>2 DEF FileStep, Stands
<1>8. ASSUME NEW q \in Queries, NEW f \in Files, Tell(q, f) PROVE \A g \in Files : FileStep(g)
  <2>1. disk[f].at \in Nat
    BY DEF Shape, Sources, Stamps
  <2>2. CASE Sync(f, disk[f].at)
    BY <2>1, <2>2, SyncFiles
  <2>3. CASE SyncUnsent(f, disk[f].at)
    BY <2>1, <2>3, SyncUnsentFiles
  <2>4. CASE UNCHANGED <<storeVars, history, serverVars>>
    BY <1>2, <2>4 DEF storeVars, serverVars
  <2>5. CASE ~query[q].scan[f].exists /\ Open(f)
    BY <1>8, <2>5, TellRemovedFiles
  <2> QED
    BY <1>8, <2>2, <2>3, <2>4, <2>5 DEF Tell
<1>9. ASSUME NEW q \in Queries, SyncTarget(q) PROVE \A g \in Files : FileStep(g)
  <2>1. /\ query[q].file \in Files /\ query[q].text \in Nat
        /\ query[q].text <= disk[query[q].file].at
    BY <1>9 DEF SyncTarget, At, Shape, Callers, Locals, Barrier, Place
  <2> QED
    BY <1>9, <2>1, SyncFiles, SyncUnsentFiles DEF SyncTarget
<1>10. ASSUME NEW q \in Queries, NEW f \in Files, Ask(q, f) PROVE UNCHANGED <<docs, overlay, cached>>
  BY <1>10 DEF Ask, storeVars, serverVars
<1>11. ASSUME NEW q \in Queries, Mark(q) \/ Cancel(q) \/ Read(q) \/ Reuse(q) \/ Evaluate(q)
                                 \/ Store(q) \/ Wake(q)
       PROVE  UNCHANGED <<docs, overlay, cached>>
  BY <1>11 DEF Mark, Cancel, Read, Reuse, Evaluate, Store, Wake, storeVars, serverVars
<1>12. ASSUME NEW f \in Files, Load(f) PROVE \A g \in Files : FileStep(g)
  <2>1. cached' = [cached EXCEPT ![f] = disk[f].at] /\ UNCHANGED <<docs, overlay>>
    BY <1>12 DEF Load, storeVars
  <2>2. \A g \in Files : cached'[g] = cached[g] \/ cached'[g] = disk[g].at
    BY <2>1 DEF Shape, Given, Bases
  <2> QED
    BY <1>1, <2>1, <2>2
<1> QED
  BY <1>2, <1>3, <1>4, <1>5, <1>6, <1>7, <1>8, <1>9, <1>10, <1>11, <1>12 DEF Next

LEMMA InitHeld == Init => Held
  BY DEF Init, Held, HeldFile, Open, View, NoDoc, NoText

(***************************************************************************)
(* What the server was told.                                               *)
(***************************************************************************)

\* Some query is about to synchronize its document f.
Target(f) == \E q \in Queries : query[q].pc \in Handled /\ query[q].file = f

\* The server computes from what the last scan saw, or something newer, unless it
\* missed a text or waits for a handler to send the one it has.
ToldFile(f) ==
  scanned # <<>> => \/ f \in behind
                    \/ scanned[f].at <= View[f]
                    \/ Open(f) /\ Target(f)

\* A change the barrier is done with has reached the server, if it has the document.
ToldBy(q) ==
  query[q].pc \in Inside =>
    \A f \in Changes(query[q].scan) :
      f \notin query[q].todo /\ f \notin behind /\ f # query[q].file /\ Open(f)
        => query[q].scan[f].at <= View[f]

Told == (\A f \in Files : ToldFile(f)) /\ (\A q \in Queries : ToldBy(q))

\* The texts and versions of a file, typed.
LEMMA FileTypes ==
  ASSUME Shape, NEW f \in Files
  PROVE  /\ docs[f].version \in Nat /\ docs[f].text \in Nat
         /\ overlay[f].version \in Nat /\ overlay[f].text \in Nat
         /\ cached[f] \in Nat /\ disk[f].at \in Nat /\ View[f] \in Nat
         /\ scanned # <<>> => scanned[f].at \in Nat
  BY ViewIsABasis DEF Shape, Given, Sources, Stamps, Bases

LEMMA FileTypesNext ==
  ASSUME Shape', NEW f \in Files
  PROVE  View'[f] \in Nat
<1>1. overlay'[f].version \in Nat /\ overlay'[f].text \in Nat /\ cached'[f] \in Nat
  BY DEF Shape, Given, Bases
<1> QED
  BY <1>1, ViewOf

LEMMA DrawnView ==
  ASSUME Shape, NEW f \in Files, NEW text \in Nat, Drawn(f, text)
  PROVE  View'[f] = text /\ Open(f)'
  BY FileTypes, ViewOf DEF Drawn, NewDoc, Open

LEMMA DroppedView ==
  ASSUME NEW f \in Files, Dropped(f)
  PROVE  View'[f] = disk[f].at /\ ~Open(f)'
<1>1. NoDoc.version = 0 /\ NoText.version = 0
  BY DEF NoDoc, NoText
<1> QED
  BY <1>1, ViewOf DEF Dropped, Open

LEMMA OpenStep ==
  ASSUME Shape, NEW f \in Files, FileStep(f)
  PROVE  /\ Open(f) => Open(f)' \/ Dropped(f) \/ f \in behind'
         /\ ~Open(f) /\ Open(f)' => \E text \in Nat : Drawn(f, text)
<1>1. docs[f].version \in Nat
  BY FileTypes
<1>2. ASSUME NEW text \in Nat, Drawn(f, text) \/ Stored(f, text) PROVE Open(f)'
  BY <1>1, <1>2 DEF Drawn, Stored, NewDoc, Open
<1>3. CASE \E text \in Nat : Drawn(f, text)
  BY <1>2, <1>3
<1>4. CASE \E text \in Nat : Stored(f, text)
  BY <1>2, <1>4 DEF Stored
<1>5. CASE Dropped(f)
  BY <1>5, DroppedView
<1>6. CASE Stands(f)
  BY <1>6 DEF Stands, Open
<1>7. CASE Abandoned(f)
  BY <1>7 DEF Abandoned, Open, NoDoc
<1> QED
  BY <1>3, <1>4, <1>5, <1>6, <1>7 DEF FileStep

LEMMA ToldFileStays ==
  ASSUME Shape, Shape', Barrier, Forward, ViewGrows, NEW f \in Files, FileStep(f), ToldFile(f),
         scanned' = scanned, Target(f) => Target(f)'
  PROVE  ToldFile(f)'
<1> SUFFICES ASSUME scanned # <<>>, f \notin behind'
             PROVE  scanned[f].at <= View'[f] \/ (Open(f)' /\ Target(f)')
  BY DEF ToldFile
<1>1. /\ f \notin behind
      /\ scanned[f].at \in Nat /\ disk[f].at \in Nat /\ View[f] \in Nat /\ View'[f] \in Nat
      /\ scanned[f].at <= disk[f].at /\ View[f] <= View'[f]
  <2>1. f \notin behind
    BY DEF Forward
  <2>2. scanned[f].at <= disk[f].at /\ View[f] <= View'[f]
    BY DEF Barrier, Scans, ViewGrows
  <2> QED
    BY <2>1, <2>2, FileTypes, FileTypesNext
<1>2. CASE scanned[f].at <= View[f]
  BY <1>1, <1>2
<1>3. CASE Open(f) /\ Target(f)
  BY <1>1, <1>3, OpenStep, DroppedView
<1> QED
  BY <1>1, <1>2, <1>3 DEF ToldFile

LEMMA ToldByStays ==
  ASSUME Shape, Shape', Barrier, Forward, ViewGrows, \A f \in Files : FileStep(f),
         NEW q \in Queries, ToldBy(q), query[q].pc \in Inside, KeptScan(q), scanned' = scanned,
         query[q].todo \subseteq query'[q].todo
  PROVE  ToldBy(q)'
<1> SUFFICES ASSUME NEW f \in Changes(query[q].scan),
                    f \notin query[q].todo, f \notin behind', f # query[q].file, Open(f)'
             PROVE  query[q].scan[f].at <= View'[f]
  BY DEF ToldBy, KeptScan, Changes
<1>1. f \in Files /\ f \notin behind
  BY DEF Changes, Forward
<1>2. query[q].scan[f].at \in Nat /\ query[q].scan[f].at <= disk[f].at
  BY <1>1 DEF Barrier, Place, Stamps
<1>3. /\ disk[f].at \in Nat /\ View[f] \in Nat /\ View'[f] \in Nat
      /\ View[f] <= View'[f]
  BY <1>1, FileTypes, FileTypesNext DEF ViewGrows
<1>4. CASE Open(f)
  <2>1. query[q].scan[f].at <= View[f]
    BY <1>1, <1>4 DEF ToldBy
  <2> QED
    BY <1>2, <1>3, <2>1
<1>5. CASE ~Open(f)
  <2>1. PICK text \in Nat : Drawn(f, text)
    BY <1>1, <1>5, OpenStep
  <2>2. View'[f] = text /\ text = disk[f].at
    BY <1>1, <2>1, DrawnView DEF Drawn
  <2> QED
    BY <1>2, <2>2
<1> QED
  BY <1>4, <1>5

\* Synchronizing with the text of the disk brings the server up to date.
LEMMA SyncTells ==
  ASSUME Shape, Held, NEW f \in Files, NEW text \in Nat, text <= disk[f].at, Sync(f, text),
         f \notin behind'
  PROVE  View'[f] = disk[f].at
<1>1. f \notin behind /\ text = disk[f].at
  BY SyncFiles DEF Sync
<1>2. CASE Drawn(f, text)
  BY <1>1, <1>2, DrawnView
<1>3. CASE Stands(f) /\ docs[f].text = text /\ Open(f)
  <2>1. overlay[f].text = text /\ overlay[f].version > 0
    <3>1. HeldFile(f)
      BY DEF Held
    <3>2. overlay[f] = [version |-> docs[f].version, text |-> docs[f].text] /\ overlay[f].version > 0
      BY <1>1, <1>3, <3>1 DEF HeldFile
    <3> QED
      BY <1>3, <3>2
  <2> QED
    BY <1>1, <1>3, <2>1, ViewOf DEF Stands
<1> QED
  BY <1>2, <1>3, SyncFiles

\* Who has yet to send keeps its place, unless it reads, sends or gives up.
LEMMA TargetStays ==
  ASSUME NEW f \in Files, Target(f),
         \A q \in Queries : query[q].pc \in Handled => Stays(q)
  PROVE  Target(f)'
  BY DEF Target, Stays, Kept, KeptScan

\* A step outside the barriers and the handlers' synchronization tells nothing.
LEMMA ToldStays ==
  ASSUME Shape, Shape', Barrier, Forward, ViewGrows, \A f \in Files : FileStep(f), Told,
         scanned' = scanned,
         \A q \in Queries : query[q].pc \in Handled => Stays(q),
         \A q \in Queries : query'[q].pc \in Inside =>
           query[q].pc \in Inside /\ KeptScan(q) /\ query[q].todo \subseteq query'[q].todo
  PROVE  Told'
<1>1. ASSUME NEW f \in Files PROVE ToldFile(f)'
  BY <1>1, TargetStays, ToldFileStays DEF Told
<1>2. ASSUME NEW q \in Queries PROVE ToldBy(q)'
  <2>1. CASE query'[q].pc \in Inside
    BY <2>1, ToldByStays DEF Told
  <2>2. CASE query'[q].pc \notin Inside
    BY <2>2 DEF ToldBy
  <2> QED
    BY <2>1, <2>2
<1> QED
  BY <1>1, <1>2 DEF Told

\* The other queries while one moves.
LEMMA OthersToo ==
  ASSUME Shape, [Next]_vars, NEW q \in Queries, Moves(q), NEW p \in Queries, p # q
  PROVE  Stays(p)
  BY OneMover

LEMMA ToldByOthers ==
  ASSUME Shape, Shape', Barrier, Forward, ViewGrows, \A f \in Files : FileStep(f), Told,
         NEW q \in Queries, Moves(q), NEW p \in Queries, p # q, scanned' = scanned
  PROVE  ToldBy(p)'
<1>1. Stays(p)
  BY OneMover
<1>2. CASE query[p].pc \in Inside
  BY <1>1, <1>2, ToldByStays DEF Told, Stays, Kept
<1>3. CASE query[p].pc \notin Inside
  BY <1>1, <1>3 DEF Stays, ToldBy
<1> QED
  BY <1>2, <1>3

LEMMA ToldScan ==
  ASSUME Shape, Shape', Barrier, Held, Forward, ViewGrows, \A f \in Files : FileStep(f), Told,
         NEW q \in Queries, Scan(q)
  PROVE  Told'
<1>0. Moves(q)
  BY DEF Moves
<1>1. query[q].pc = "gate" /\ (query'[q].pc = "read" \/ (query'[q].pc = "mark" /\ scanned # <<>>))
  BY AfterScan DEF Scan, At, Shape
<1>2. CASE scanned # <<>>
  <2>1. scanned' = scanned
    BY <1>2 DEF Scan
  <2>2. ASSUME NEW f \in Files PROVE ToldFile(f)'
    <3>1. \A p \in Queries : query[p].pc \in Handled => Stays(p)
      BY <1>0, <1>1, OneMover DEF Handled
    <3> QED
      BY <2>1, <2>2, <3>1, TargetStays, ToldFileStays DEF Told
  <2>3. ToldBy(q)'
    <3>1. CASE query'[q].pc = "read"
      BY <3>1 DEF ToldBy, Inside
    <3>2. CASE query'[q].pc = "mark"
      <4>1. query'[q].scan = Walk /\ query'[q].todo = Changes(Walk)
        BY <3>2, AfterScan DEF Shape
      <4>2. Changes(query[q].scan)' = Changes(query'[q].scan)
        BY <2>1 DEF Changes
      <4> QED
        BY <4>1, <4>2 DEF ToldBy
    <3> QED
      BY <1>1, <3>1, <3>2
  <2>4. \A p \in Queries \ {q} : ToldBy(p)'
    BY <1>0, <2>1, ToldByOthers
  <2> QED
    BY <2>2, <2>3, <2>4 DEF Told
<1>3. CASE scanned = <<>>
  <2>1. /\ scanned' = Walk /\ behind' = behind \cup Outdated
        /\ UNCHANGED <<docs, overlay, cached>>
    BY <1>3 DEF Scan, storeVars, serverVars
  <2>2. ASSUME NEW f \in Files PROVE ToldFile(f)'
    <3> SUFFICES ASSUME f \notin behind' PROVE scanned'[f].at <= View'[f]
      BY DEF ToldFile
    <3>0. f \notin behind
      BY DEF Forward
    <3>1. docs[f] = NoDoc /\ ~Open(f)
      BY <1>3 DEF Barrier, Scans, NoDoc, Open
    <3>2. overlay[f].version = 0
      <4>1. HeldFile(f)
        BY DEF Held
      <4>2. NoText.version = 0
        BY DEF NoText
      <4> QED
        BY <3>0, <3>1, <4>1, <4>2 DEF HeldFile
    <3>3. View'[f] = disk[f].at
      <4>1. cached[f] = disk[f].at
        BY <2>1 DEF Outdated
      <4> QED
        BY <2>1, <3>2, <4>1, ViewOf
    <3>4. Walk[f].at = disk[f].at
      BY <1>3, WalkBetween DEF Barrier
    <3> QED
      BY <2>1, <3>3, <3>4, FileTypes
  <2>3. ASSUME NEW p \in Queries PROVE query'[p].pc \notin Inside
    <3>1. CASE p = q
      BY <1>1, <1>3, <3>1 DEF Inside
    <3>2. CASE p # q
      <4>1. query'[p] = query[p]
        BY <1>0, <3>2, OneMover
      <4> QED
        BY <1>3, <4>1 DEF Barrier, Place
    <3> QED
      BY <3>1, <3>2
  <2> QED
    BY <2>2, <2>3 DEF Told, ToldBy
<1> QED
  BY <1>2, <1>3

LEMMA ToldTell ==
  ASSUME Shape, Shape', Barrier, Held, Forward, ViewGrows, \A f \in Files : FileStep(f), Told,
         NEW q \in Queries, NEW f \in Files, Tell(q, f)
  PROVE  Told'
<1>0. Moves(q) /\ query[q].pc = "telling" /\ UNCHANGED <<disk, scanned>>
  BY DEF Moves, Tell, At
<1>1. ASSUME NEW g \in Files PROVE ToldFile(g)'
  <2>1. \A p \in Queries : query[p].pc \in Handled => Stays(p)
    BY <1>0, OneMover DEF Handled
  <2> QED
    BY <1>0, <1>1, <2>1, TargetStays, ToldFileStays DEF Told
<1>2. ToldBy(q)'
  <2>1. CASE query' = [query EXCEPT ![q] = Ended]
    BY <2>1, AfterEnd DEF Shape, ToldBy, Inside
  <2>2. CASE query' = [query EXCEPT ![q].todo = @ \ {f}]
    <3>1. /\ query'[q].pc = "telling" /\ query'[q].scan = query[q].scan
          /\ query'[q].file = query[q].file /\ query'[q].todo = query[q].todo \ {f}
      BY <1>0, <2>2, AfterTell DEF Shape, KeptScan
    <3>2. Changes(query[q].scan)' = Changes(query[q].scan)
      BY <1>0, <3>1 DEF Changes
    <3> SUFFICES ASSUME NEW g \in Changes(query[q].scan),
                        g \notin query[q].todo \ {f}, g \notin behind', g # query[q].file, Open(g)'
                 PROVE  query[q].scan[g].at <= View'[g]
      BY <3>1, <3>2 DEF ToldBy
    <3>3. /\ g \in Files /\ query[q].scan[g].at \in Nat /\ query[q].scan[g].at <= disk[g].at
      BY <1>0 DEF Changes, Barrier, Place, Stamps, Inside
    <3>4. /\ disk[g].at \in Nat /\ View[g] \in Nat /\ View'[g] \in Nat /\ View[g] <= View'[g]
          /\ g \notin behind
      BY <3>3, FileTypes, FileTypesNext DEF ViewGrows, Forward
    <3>5. CASE g \notin query[q].todo
      <4>1. CASE Open(g)
        <5>1. query[q].scan[g].at <= View[g]
          BY <1>0, <3>4, <3>5, <4>1 DEF Told, ToldBy, Inside
        <5> QED
          BY <3>3, <3>4, <5>1
      <4>2. CASE ~Open(g)
        <5>1. PICK text \in Nat : Drawn(g, text)
          BY <3>3, <4>2, OpenStep
        <5>2. View'[g] = text /\ text = disk[g].at
          BY <3>3, <5>1, DrawnView DEF Drawn
        <5> QED
          BY <3>3, <5>2
      <4> QED
        BY <4>1, <4>2
    <3>6. CASE g = f
      <4>1. CASE ~query[q].scan[f].exists /\ Open(f)
        <5>1. docs'[f] = NoDoc
          BY <4>1 DEF Tell, Shape, Given
        <5> QED
          BY <3>6, <5>1 DEF Open, NoDoc
      <4>2. CASE Sync(f, disk[f].at)
        BY <3>3, <3>4, <3>6, <4>2, SyncTells
      <4>3. CASE (~Open(f) \/ f = query[q].file) /\ UNCHANGED storeVars
        BY <3>6, <4>3 DEF Open, storeVars
      <4> QED
        <5>1. Ended.pc # "telling"
          BY EndedIsACall
        <5>2. query' # [query EXCEPT ![q] = Ended]
          <6>1. query' = [query EXCEPT ![q] = Ended] => query'[q].pc = "ended"
            BY AfterEnd DEF Shape
          <6> QED
            BY <3>1, <6>1
        <5> QED
          BY <4>1, <4>2, <4>3, <5>2 DEF Tell
    <3> QED
      BY <3>5, <3>6
  <2> QED
    BY <2>1, <2>2 DEF Tell
<1>3. \A p \in Queries \ {q} : ToldBy(p)'
  BY <1>0, ToldByOthers
<1> QED
  BY <1>1, <1>2, <1>3 DEF Told

LEMMA ToldNotify ==
  ASSUME Shape, Shape', Barrier, Held, Forward, ViewGrows, \A f \in Files : FileStep(f), Told,
         NEW q \in Queries, Notify(q)
  PROVE  Told'
<1>0. /\ Moves(q) /\ query[q].pc = "telling" /\ query[q].todo = {}
      /\ UNCHANGED <<disk, docs, overlay, behind>> /\ scanned' = query[q].scan
      /\ cached' = [f \in Files |-> IF f \in Changes(query[q].scan) THEN disk[f].at ELSE cached[f]]
  BY DEF Moves, Notify, At, storeVars, history
<1>1. query'[q].pc = "read" /\ query'[q].file = query[q].file
  BY AfterNotify DEF Shape, KeptScan
<1>2. scanned # <<>> /\ query[q].scan \in Stamps /\ gate = q
  BY <1>0 DEF Barrier, Place, Inside
<1>3. ASSUME NEW f \in Files PROVE ToldFile(f)'
  <2> SUFFICES ASSUME f \notin behind
               PROVE  query[q].scan[f].at <= View'[f] \/ (Open(f) /\ Target(f)')
    BY <1>0 DEF ToldFile, Open
  <2>1. /\ query[q].scan[f].at \in Nat /\ query[q].scan[f].at <= disk[f].at
    BY <1>0, <1>2 DEF Barrier, Place, Stamps, Inside
  <2>2. /\ disk[f].at \in Nat /\ View[f] \in Nat /\ View'[f] \in Nat /\ View[f] <= View'[f]
    BY <1>0, FileTypes, FileTypesNext DEF ViewGrows
  <2>3. CASE f \in Changes(query[q].scan) /\ ~Open(f)
    <3>1. overlay[f].version = 0
      <4>1. HeldFile(f) /\ NoText.version = 0
        BY DEF Held, NoText
      <4> QED
        BY <2>3, <4>1 DEF HeldFile
    <3>2. View'[f] = disk[f].at
      BY <1>0, <2>3, <3>1, ViewOf
    <3> QED
      BY <2>1, <3>2
  <2>4. CASE f \in Changes(query[q].scan) /\ Open(f) /\ f # query[q].file
    <3>1. query[q].scan[f].at <= View[f]
      BY <1>0, <2>4 DEF Told, ToldBy, Inside
    <3> QED
      BY <2>1, <2>2, <3>1
  <2>5. CASE f = query[q].file /\ Open(f)
    BY <1>1, <2>5 DEF Target, Handled
  <2>6. CASE f \notin Changes(query[q].scan)
    <3>1. query[q].scan[f] = scanned[f]
      BY <2>6 DEF Changes
    <3>2. CASE scanned[f].at <= View[f]
      BY <2>1, <2>2, <3>1, <3>2
    <3>3. CASE Open(f) /\ Target(f)
      <4>1. Target(f)'
        <5>1. \A p \in Queries : query[p].pc \in Handled => Stays(p)
          BY <1>0, OneMover DEF Handled
        <5> QED
          BY <3>3, <5>1, TargetStays
      <4> QED
        BY <3>3, <4>1
    <3> QED
      BY <1>2, <3>2, <3>3 DEF Told, ToldFile
  <2> QED
    BY <2>3, <2>4, <2>5, <2>6
<1>4. ASSUME NEW p \in Queries PROVE query'[p].pc \notin Inside
  <2>1. CASE p = q
    BY <1>1, <2>1 DEF Inside
  <2>2. CASE p # q
    <3>1. query'[p] = query[p]
      BY <1>0, <2>2, OneMover
    <3>2. query[p].pc \notin Inside
      BY <1>2, <2>2 DEF Barrier, Place
    <3> QED
      BY <3>1, <3>2
  <2> QED
    BY <2>1, <2>2
<1> QED
  BY <1>3, <1>4 DEF Told, ToldBy

LEMMA ToldRead ==
  ASSUME Shape, Shape', Barrier, Held, Forward, ViewGrows, \A f \in Files : FileStep(f), Told,
         NEW q \in Queries, Read(q)
  PROVE  Told'
<1>0. Moves(q) /\ query[q].pc = "read" /\ UNCHANGED <<disk, docs, overlay, cached, scanned>>
  BY DEF Moves, Read, At, storeVars, serverVars
<1>1. \A p \in Queries \ {q} : ToldBy(p)'
  BY <1>0, ToldByOthers
<1>2. /\ ToldBy(q)'
      /\ \/ query'[q].pc = "sync" /\ query'[q].file = query[q].file
         \/ Open(query[q].file) => query[q].file \in behind'
  BY AfterRead DEF Shape, ToldBy, Inside, KeptScan
<1>3. ASSUME NEW f \in Files PROVE ToldFile(f)'
  <2>1. CASE Target(f) => Target(f)'
    BY <1>0, <2>1, ToldFileStays DEF Told
  <2>2. CASE Target(f) /\ ~Target(f)'
    <3>1. f = query[q].file /\ ~(query'[q].pc = "sync" /\ query'[q].file = query[q].file)
      <4>1. PICK p \in Queries : query[p].pc \in Handled /\ query[p].file = f
        BY <2>2 DEF Target
      <4>2. p = q
        BY <1>0, <2>2, <4>1, OneMover DEF Target
      <4> QED
        BY <1>2, <2>2, <4>1, <4>2 DEF Target, Handled
    <3>2. Open(f) => f \in behind'
      BY <1>2, <3>1
    <3>3. CASE ~Open(f)
      <4>1. View'[f] = View[f]
        BY <1>0, ViewOf
      <4> QED
        BY <1>0, <3>3, <4>1 DEF Told, ToldFile, Forward
    <3> QED
      BY <3>2, <3>3 DEF ToldFile
  <2> QED
    BY <2>1, <2>2
<1> QED
  BY <1>1, <1>2, <1>3 DEF Told

LEMMA ToldSyncTarget ==
  ASSUME Shape, Shape', Barrier, Held, Forward, ViewGrows, \A f \in Files : FileStep(f), Told,
         NEW q \in Queries, SyncTarget(q)
  PROVE  Told'
<1> DEFINE text == query[q].text
<1>0. /\ Moves(q) /\ query[q].pc = "sync" /\ UNCHANGED <<disk, scanned>>
      /\ query[q].file \in Files /\ text \in Nat /\ text <= disk[query[q].file].at
  BY DEF Moves, SyncTarget, At, Shape, Callers, Locals, Barrier, Place
<1>1. \A p \in Queries \ {q} : ToldBy(p)'
  BY <1>0, ToldByOthers
<1>2. ToldBy(q)'
  BY AfterSyncTarget DEF Shape, ToldBy, Inside, SentBy
<1>3. ASSUME NEW f \in Files PROVE ToldFile(f)'
  <2>1. CASE f # query[q].file \/ ~Target(f)
    <3>1. Target(f) => Target(f)'
      <4> SUFFICES ASSUME Target(f) PROVE Target(f)'
        OBVIOUS
      <4>1. PICK p \in Queries : query[p].pc \in Handled /\ query[p].file = f
        BY DEF Target
      <4> QED
        BY <1>0, <2>1, <4>1, OneMover DEF Target
    <3> QED
      BY <1>0, <3>1, ToldFileStays DEF Told
  <2>2. CASE f = query[q].file
    <3>1. /\ scanned # <<>> /\ scanned[f].at <= disk[f].at
      BY <1>0 DEF Barrier, Scans, Place, Passed, Handled
    <3>2. CASE Sync(f, text)
      BY <1>0, <2>2, <3>1, <3>2, SyncTells DEF ToldFile
    <3>3. CASE SyncUnsent(f, text) /\ Open(f)
      BY <1>0, <2>2, <3>3, SyncUnsentFiles DEF ToldFile
    <3>4. CASE SyncUnsent(f, text) /\ ~Open(f)
      <4>1. View'[f] = View[f]
        BY <3>4, ViewOf DEF SyncUnsent, serverVars
      <4> QED
        BY <1>0, <3>4, <4>1 DEF Told, ToldFile, Forward
    <3> QED
      BY <2>2, <3>2, <3>3, <3>4 DEF SyncTarget
  <2> QED
    BY <2>1, <2>2
<1> QED
  BY <1>1, <1>2, <1>3 DEF Told

LEMMA ToldStep ==
  ASSUME Shape, Shape', Barrier, Held, Forward, ViewGrows, \A f \in Files : FileStep(f), Told,
         [Next]_vars
  PROVE  Told'
<1>1. CASE \E q \in Queries : Scan(q) \/ Notify(q) \/ Read(q) \/ SyncTarget(q)
  BY <1>1, ToldScan, ToldNotify, ToldRead, ToldSyncTarget
<1>2. CASE \E q \in Queries, f \in Files : Tell(q, f)
  BY <1>2, ToldTell
<1>3. ASSUME scanned' = scanned, \A q \in Queries : ~Moves(q) PROVE Told'
  <2>1. ASSUME NEW p \in Queries
        PROVE  /\ query[p].pc \in Handled => Stays(p)
               /\ query'[p].pc \in Inside =>
                    query[p].pc \in Inside /\ KeptScan(p) /\ query[p].todo \subseteq query'[p].todo
    <3>1. CASE Mark(p)
      BY <3>1, MarkStays DEF Mark, At, Inside, Handled, Shape, Kept
    <3>2. CASE ~Mark(p)
      <4>1. Stays(p)
        BY <1>3, <3>2, OthersStay
      <4> QED
        BY <4>1 DEF Stays, Kept
    <3> QED
      BY <3>1, <3>2
  <2> QED
    BY <1>3, <2>1, ToldStays
<1>4. ASSUME NEW q \in Queries, Moves(q), scanned' = scanned,
             query[q].pc \notin Handled,
             query'[q].pc \in Inside =>
               query[q].pc \in Inside /\ KeptScan(q) /\ query[q].todo \subseteq query'[q].todo
      PROVE  Told'
  <2>1. ASSUME NEW p \in Queries
        PROVE  /\ query[p].pc \in Handled => Stays(p)
               /\ query'[p].pc \in Inside =>
                    query[p].pc \in Inside /\ KeptScan(p) /\ query[p].todo \subseteq query'[p].todo
    <3>1. CASE p = q
      BY <1>4, <3>1
    <3>2. CASE p # q
      <4>1. Stays(p)
        BY <1>4, <3>2, OneMover
      <4> QED
        BY <4>1 DEF Stays, Kept
    <3> QED
      BY <3>1, <3>2
  <2> QED
    BY <1>4, <2>1, ToldStays
<1>5. ASSUME NEW q \in Queries, MarkDocs(q) PROVE Told'
  <2>1. query'[q].pc = "telling" /\ KeptScan(q) /\ query'[q].todo = query[q].todo
    BY <1>5, AfterMarkDocs DEF Shape
  <2>2. Moves(q) /\ scanned' = scanned /\ query[q].pc = "marked"
    BY <1>5 DEF Moves, MarkDocs, At
  <2> QED
    BY <1>4, <2>1, <2>2 DEF Inside, Handled
<1>6. ASSUME NEW q \in Queries, NEW f \in Files, Ask(q, f) PROVE Told'
  <2>1. query'[q].pc = "gate"
    BY <1>6, AfterAsk DEF Shape
  <2>2. Moves(q) /\ scanned' = scanned /\ query[q].pc = "idle"
    BY <1>6 DEF Moves, Ask, At
  <2> QED
    BY <1>4, <2>1, <2>2 DEF Inside, Handled
<1>7. ASSUME NEW q \in Queries, Cancel(q) PROVE Told'
  <2>1. query'[q].pc = "ended"
    BY <1>7, AfterEnd DEF Cancel, Shape
  <2>2. Moves(q) /\ scanned' = scanned /\ query[q].pc \notin Handled
    BY <1>7 DEF Moves, Cancel, Handled
  <2> QED
    BY <1>4, <2>1, <2>2 DEF Inside
<1>8. ASSUME NEW q \in Queries, Reuse(q) \/ Evaluate(q) \/ Store(q) \/ Wake(q) PROVE Told'
  <2>1. query'[q].pc \notin Inside
    BY <1>8, AfterAnswer, AfterSubscribed, AfterEvaluate DEF Reuse, Store, Wake, Shape, Inside
  <2>2. Moves(q) /\ scanned' = scanned /\ query[q].pc \notin Handled
    BY <1>8 DEF Moves, Reuse, Evaluate, Store, Wake, At, Handled
  <2> QED
    BY <1>4, <2>1, <2>2
<1>9. CASE /\ \A q \in Queries : ~Moves(q)
           /\ \/ UNCHANGED vars \/ Accept \/ \E f \in Files : Edit(f) \/ Remove(f) \/ Load(f) \/ Publish(f)
              \/ \E q \in Queries : Mark(q)
  <2>1. scanned' = scanned
    BY <1>9 DEF vars, Accept, Edit, Remove, Load, Publish, Mark
  <2> QED
    BY <1>3, <1>9, <2>1
<1> QED
  BY <1>1, <1>2, <1>5, <1>6, <1>7, <1>8, <1>9 DEF Next, Moves

LEMMA InitTold == Init => Told
<1> SUFFICES ASSUME Init PROVE Told
  OBVIOUS
<1>1. scanned = <<>> /\ \A q \in Queries : query[q].pc = "idle"
  BY DEF Init, Idle
<1> QED
  BY <1>1 DEF Told, ToldFile, ToldBy, Inside

(***************************************************************************)
(* Versions tell texts and results apart.                                  *)
(***************************************************************************)

AnyBasis == Bases \cup {<<>>}

\* Text t is, or was when a query or a cache took it, version v of file f.
TextOf(f, v, t) ==
  \/ docs[f].version = v /\ docs[f].text = t
  \/ merged[f].version = v /\ merged[f].text = t
  \/ \E q \in Queries : /\ query[q].file = f /\ query[q].pc \in Sent
                        /\ query[q].version = v /\ query[q].text = t

\* The diagnostics of version v of file f were, or may be, computed from b.
ResultOf(f, v, b) ==
  \/ overlay[f].version = v /\ View = b
  \/ push[f].version = v /\ push[f].basis = b
  \/ merged[f].version = v /\ merged[f].basis = b
  \/ \E i \in DOMAIN out : out[i].file = f /\ out[i].version = v /\ out[i].basis = b
  \/ \E q \in Queries : /\ query[q].file = f /\ query[q].pc = "store"
                        /\ query[q].version = v /\ query[q].basis = b

\* A query whose synchronization made version v of file f waits for its diagnostics.
Waits(q, f, v) ==
  query[q].file = f /\ query[q].pc \in Sent /\ query[q].changed /\ query[q].version = v

Rest(q) == Files \ (behind \cup query[q].beside)

\* Of a document never dropped no version is yet to come; a version has one text, its
\* results rest on this text, and on all its makers' scans had seen.
Honest(f) ==
  \A v \in Nat \ {0} :
    /\ \A t \in Nat : TextOf(f, v, t) => v <= docs[f].version
    /\ \A t, u \in Nat : TextOf(f, v, t) /\ TextOf(f, v, u) => t = u
    /\ \A b \in AnyBasis : ResultOf(f, v, b) =>
         /\ b \in Bases /\ v <= docs[f].version
         /\ \A t \in Nat : TextOf(f, v, t) => b[f] = t
         /\ \A q \in Queries : Waits(q, f, v) => Covers(b, query[q].scan, Rest(q))
HonestAll == \A f \in Files \ reopened : Honest(f)

\* What a step leaves in the caches, and with the queries, was there before.
CachesCarry(f) ==
  /\ push'[f].version > 0 => ResultOf(f, push'[f].version, push'[f].basis)
  /\ merged'[f].version > 0 => /\ ResultOf(f, merged'[f].version, merged'[f].basis)
                               /\ TextOf(f, merged'[f].version, merged'[f].text)
  /\ \A i \in DOMAIN out' :
       out'[i].file = f /\ out'[i].version > 0 => ResultOf(f, out'[i].version, out'[i].basis)
SentBefore(q) ==
  /\ query[q].pc \in Sent /\ Kept(q)
  /\ query'[q].pc = "store" => ResultOf(query[q].file, query[q].version, query'[q].basis)
QueriesCarry ==
  \A q \in Queries : query'[q].pc \in Sent =>
    SentBefore(q) \/ (query[q].pc = "sync" /\ SentBy(q) /\ Moves(q))

\* The text and the version of a document that was sent.
LEMMA SentText ==
  ASSUME Shape, Barrier, Held, NEW q \in Queries, query[q].pc = "sync", SentBy(q), UNCHANGED disk
  PROVE  LET f == query[q].file IN
         \/ /\ Drawn(f, query'[q].text) /\ query'[q].version = docs[f].version + 1
         \/ /\ Stands(f) /\ docs[f].text = query'[q].text
            /\ query'[q].version = docs[f].version /\ ~query'[q].changed
<1> DEFINE f == query[q].file
           text == query[q].text
<1>1. /\ f \in Files /\ text \in Nat /\ text <= disk[f].at
  BY DEF Shape, Callers, Locals, Barrier, Place
<1>2. /\ Sync(f, text) /\ query'[q].text = text
      /\ query'[q].version = Synced(f, text)[f].version
      /\ query'[q].changed = (Open(f) /\ Stale(f, text))
  BY DEF SentBy
<1>3. IF ~Open(f) \/ Stale(f, text)
        THEN Drawn(f, text) /\ Synced(f, text)[f].version = docs[f].version + 1
        ELSE Stands(f) /\ docs[f].text = text /\ Synced(f, text)[f].version = docs[f].version
  BY <1>1, <1>2, SyncFiles
<1> QED
  BY <1>2, <1>3

LEMMA TextCarry ==
  ASSUME Shape, Barrier, Held, NEW f \in Files, FileStep(f), f \notin reopened',
         CachesCarry(f), QueriesCarry, NEW v \in Nat \ {0}, NEW t \in Nat, TextOf(f, v, t)',
         \A q \in Queries : query[q].pc = "sync" /\ Moves(q) => UNCHANGED disk
  PROVE  TextOf(f, v, t) \/ (v = docs[f].version + 1 /\ NewDoc(f, t))
<1>1. CASE docs'[f].version = v /\ docs'[f].text = t
  <2>1. CASE Stands(f)
    BY <1>1, <2>1 DEF Stands, TextOf
  <2>2. ASSUME NEW text \in Nat, Drawn(f, text) \/ Stored(f, text)
        PROVE  v = docs[f].version + 1 /\ NewDoc(f, t)
    BY <1>1, <2>2 DEF Drawn, Stored, NewDoc
  <2> QED
    BY <2>1, <2>2 DEF FileStep, Dropped, Abandoned
<1>2. CASE merged'[f].version = v /\ merged'[f].text = t
  <2>1. v > 0
    OBVIOUS
  <2> QED
    BY <1>2, <2>1 DEF CachesCarry
<1>3. ASSUME NEW q \in Queries, query'[q].file = f, query'[q].pc \in Sent,
             query'[q].version = v, query'[q].text = t
      PROVE  TextOf(f, v, t) \/ (v = docs[f].version + 1 /\ NewDoc(f, t))
  <2>1. CASE SentBefore(q)
    BY <1>3, <2>1 DEF SentBefore, Kept, KeptScan, TextOf
  <2>2. CASE query[q].pc = "sync" /\ SentBy(q) /\ Moves(q)
    <3>1. query[q].file = f /\ UNCHANGED disk
      BY <1>3, <2>2 DEF SentBy, KeptScan
    <3>2. \/ Drawn(f, t) /\ v = docs[f].version + 1
          \/ docs[f].text = t /\ v = docs[f].version
      BY <1>3, <2>2, <3>1, SentText
    <3> QED
      BY <3>2 DEF Drawn, TextOf
  <2> QED
    BY <1>3, <2>1, <2>2 DEF QueriesCarry
<1> QED
  BY <1>1, <1>2, <1>3 DEF TextOf

\* Result b renews result a.
Renews(f, a, b) == a \in Bases =>
  b \in Bases /\ b[f] = a[f] /\ \A g \in Files \ behind' : a[g] <= b[g]

LEMMA ResultCarry ==
  ASSUME Shape, Shape', Held, ViewGrows, NEW f \in Files, FileStep(f), f \notin reopened',
         CachesCarry(f), QueriesCarry, NEW v \in Nat \ {0}, NEW b \in AnyBasis, ResultOf(f, v, b)'
  PROVE  \/ \E a \in AnyBasis : ResultOf(f, v, a) /\ Renews(f, a, b)
         \/ /\ v = docs[f].version + 1 /\ b = View'
            /\ \E text \in Nat : Drawn(f, text)
<1> DEFINE Old == \E a \in AnyBasis : ResultOf(f, v, a) /\ Renews(f, a, b)
<1>1. v > 0 /\ Renews(f, b, b)
  <2>1. b \in Bases => \A g \in Files : b[g] \in Nat
    BY DEF Bases
  <2> QED
    BY <2>1 DEF Renews
<1>2. CASE ResultOf(f, v, b)
  BY <1>1, <1>2
<1>3. CASE overlay'[f].version = v /\ View' = b
  <2>1. ASSUME NEW text \in Nat, Drawn(f, text) PROVE v = docs[f].version + 1
    BY <1>3, <2>1 DEF Drawn
  <2>2. CASE overlay'[f] = overlay[f]
    <3>1. View \in Bases /\ View' \in Bases
      <4>1. \A g \in Files : View'[g] \in Nat
        BY FileTypesNext
      <4>2. View' = [g \in Files |-> View'[g]]
        BY DEF View
      <4> QED
        BY <4>1, <4>2, ViewIsABasis DEF Shape, Bases
    <3>2. overlay[f].version > 0 /\ ResultOf(f, v, View)
      BY <1>1, <1>3, <2>2 DEF ResultOf
    <3>3. View'[f] = View[f]
      BY <2>2, <3>2, ViewOf
    <3>4. Renews(f, View, b)
      BY <1>3, <3>1, <3>3 DEF Renews, ViewGrows
    <3> QED
      BY <3>1, <3>2, <3>4 DEF AnyBasis
  <2> QED
    BY <1>3, <2>1, <2>2 DEF FileStep, Stored, Stands, Dropped, Abandoned
<1>4. CASE push'[f].version = v /\ push'[f].basis = b
  BY <1>1, <1>2, <1>4 DEF CachesCarry
<1>5. CASE merged'[f].version = v /\ merged'[f].basis = b
  BY <1>1, <1>2, <1>5 DEF CachesCarry
<1>6. CASE \E i \in DOMAIN out' : out'[i].file = f /\ out'[i].version = v /\ out'[i].basis = b
  BY <1>1, <1>2, <1>6 DEF CachesCarry
<1>7. ASSUME NEW q \in Queries, query'[q].file = f, query'[q].pc = "store",
             query'[q].version = v, query'[q].basis = b
      PROVE  ResultOf(f, v, b)
  <2>1. SentBefore(q)
    BY <1>7 DEF QueriesCarry, SentBy, Sent
  <2> QED
    BY <1>7, <2>1 DEF SentBefore, Kept, KeptScan
<1> QED
  BY <1>2, <1>3, <1>4, <1>5, <1>6, <1>7 DEF ResultOf

\* What a query has just sent covers what its scan had seen.
LEMMA SentCovers ==
  ASSUME Shape, Shape', Barrier, Held, Told, ViewGrows, Forward, UNCHANGED <<disk, scanned>>,
         NEW q \in Queries, query[q].pc = "sync", SentBy(q), query'[q].changed
  PROVE  Covers(View', query'[q].scan, Rest(q)')
<1> DEFINE f == query[q].file
           text == query[q].text
<1>1. f \in Files /\ text \in Nat /\ text <= disk[f].at
  BY DEF Shape, Callers, Locals, Barrier, Place
<1>2. Sync(f, text) /\ query'[q].scan = query[q].scan /\ query'[q].beside = Unsent(q)
  BY DEF SentBy, KeptScan
<1>3. scanned # <<>> /\ query[q].scan \in Stamps /\ \A g \in Files : query[q].scan[g].at <= scanned[g].at
  BY DEF Barrier, Place, Passed, Handled
<1> SUFFICES ASSUME NEW g \in Files, g \notin behind', g \notin Unsent(q)
             PROVE  query[q].scan[g].at <= View'[g]
  BY <1>2 DEF Covers, Rest
<1>4. /\ query[q].scan[g].at \in Nat /\ scanned[g].at \in Nat /\ disk[g].at \in Nat
      /\ View[g] \in Nat /\ View'[g] \in Nat /\ View[g] <= View'[g] /\ g \notin behind
      /\ query[q].scan[g].at <= scanned[g].at /\ scanned[g].at <= disk[g].at
  BY <1>3, FileTypes, FileTypesNext DEF Stamps, ViewGrows, Forward, Barrier, Scans
<1>5. CASE g = f
  <2>1. View'[g] = disk[g].at
    BY <1>1, <1>2, <1>5, SyncTells
  <2> QED
    BY <1>4, <2>1
<1>6. CASE g # f
  <2>1. ~Target(g)
    BY <1>6 DEF Target, Unsent, Handled
  <2>2. scanned[g].at <= View[g]
    BY <1>3, <1>4, <2>1 DEF Told, ToldFile
  <2> QED
    BY <1>4, <2>2
<1> QED
  BY <1>5, <1>6

\* The step relation of texts, results and queries of a file, and what follows.
TextsFrom(f) ==
  \A v \in Nat \ {0}, t \in Nat : TextOf(f, v, t)' =>
    TextOf(f, v, t) \/ (v = docs[f].version + 1 /\ NewDoc(f, t))
ResultsFrom(f) ==
  \A v \in Nat \ {0}, b \in AnyBasis : ResultOf(f, v, b)' =>
    \/ \E a \in AnyBasis : ResultOf(f, v, a) /\ Renews(f, a, b)
    \/ v = docs[f].version + 1 /\ b = View' /\ \E text \in Nat : Drawn(f, text)
WaitsFrom(f) ==
  \A q \in Queries, v \in Nat \ {0} : Waits(q, f, v)' =>
    \/ Waits(q, f, v) /\ Kept(q)
    \/ v = docs[f].version + 1 /\ Covers(View', query'[q].scan, Rest(q)')

LEMMA WaitsCarry ==
  ASSUME Shape, Shape', Barrier, Held, Told, ViewGrows, Forward, NEW f \in Files, QueriesCarry,
         \A q \in Queries : query[q].pc = "sync" /\ Moves(q) => UNCHANGED <<disk, scanned>>
  PROVE  WaitsFrom(f)
<1> SUFFICES ASSUME NEW q \in Queries, NEW v \in Nat \ {0}, Waits(q, f, v)'
             PROVE  \/ Waits(q, f, v) /\ Kept(q)
                    \/ v = docs[f].version + 1 /\ Covers(View', query'[q].scan, Rest(q)')
  BY DEF WaitsFrom
<1>1. query'[q].file = f /\ query'[q].pc \in Sent /\ query'[q].changed /\ query'[q].version = v
  BY DEF Waits
<1>2. CASE SentBefore(q)
  BY <1>1, <1>2 DEF SentBefore, Kept, KeptScan, Waits
<1>3. CASE query[q].pc = "sync" /\ SentBy(q) /\ Moves(q)
  <2>1. query[q].file = f /\ UNCHANGED <<disk, scanned>>
    BY <1>1, <1>3 DEF SentBy, KeptScan
  <2>2. v = docs[f].version + 1
    BY <1>1, <1>3, <2>1, SentText
  <2>3. Covers(View', query'[q].scan, Rest(q)')
    BY <1>1, <1>3, <2>1, SentCovers
  <2> QED
    BY <2>2, <2>3
<1> QED
  BY <1>1, <1>2, <1>3 DEF QueriesCarry

\* A query that waits has its own text under its version.
LEMMA WaitsText ==
  ASSUME Shape, NEW f \in Files, NEW q \in Queries, NEW v \in Nat, Waits(q, f, v)
  PROVE  TextOf(f, v, query[q].text) /\ query[q].text \in Nat
  BY DEF Waits, TextOf, Shape, Callers, Locals

LEMMA HonestFrom ==
  ASSUME Shape, Shape', Barrier, Forward, NEW f \in Files, FileStep(f), f \notin reopened',
         Honest(f), TextsFrom(f), ResultsFrom(f), WaitsFrom(f)
  PROVE  Honest(f)'
<1> DEFINE w == docs[f].version + 1
<1>1. docs[f].version \in Nat /\ docs'[f].version \in Nat
  BY DEF Shape, Given
<1>2. docs[f].version <= docs'[f].version /\ \A t \in Nat : NewDoc(f, t) => docs'[f].version = w
  <2>1. ~Dropped(f) /\ ~Abandoned(f)
    BY DEF Dropped, Abandoned
  <2>2. CASE \E text \in Nat : NewDoc(f, text)
    BY <1>1, <2>2 DEF NewDoc
  <2>3. CASE Stands(f)
    BY <1>1, <2>3 DEF Stands, NewDoc
  <2> QED
    BY <2>1, <2>2, <2>3 DEF FileStep, Drawn, Stored
<1> SUFFICES ASSUME NEW v \in Nat \ {0}
             PROVE  /\ \A t \in Nat : TextOf(f, v, t)' => v <= docs'[f].version
                    /\ \A t, u \in Nat : TextOf(f, v, t)' /\ TextOf(f, v, u)' => t = u
                    /\ \A b \in AnyBasis : ResultOf(f, v, b)' =>
                         /\ b \in Bases /\ v <= docs'[f].version
                         /\ \A t \in Nat : TextOf(f, v, t)' => b[f] = t
                         /\ \A q \in Queries : Waits(q, f, v)' =>
                              Covers(b, query'[q].scan, Rest(q)')
  BY DEF Honest, Covers
<1>3. \A t \in Nat : TextOf(f, v, t) => v <= docs[f].version
  BY DEF Honest
<1>4. \A t, u \in Nat : TextOf(f, v, t) /\ TextOf(f, v, u) => t = u
  BY DEF Honest
<1>5. ASSUME NEW a \in AnyBasis, ResultOf(f, v, a)
      PROVE  /\ a \in Bases /\ v <= docs[f].version
             /\ \A t \in Nat : TextOf(f, v, t) => a[f] = t
             /\ \A q \in Queries : Waits(q, f, v) => Covers(a, query[q].scan, Rest(q))
  BY <1>5 DEF Honest
<1>6. \A t \in Nat : TextOf(f, v, t)' => TextOf(f, v, t) \/ (v = w /\ NewDoc(f, t))
  BY DEF TextsFrom
<1> HIDE DEF w
<1>7. w \in Nat /\ ~(w <= docs[f].version)
  BY <1>1 DEF w
<1>8. ASSUME NEW t \in Nat, TextOf(f, v, t)' PROVE v <= docs'[f].version
  <2>1. CASE TextOf(f, v, t)
    <3>1. v <= docs[f].version
      BY <1>3, <2>1
    <3> QED
      BY <1>1, <1>2, <3>1
  <2>2. CASE v = w /\ NewDoc(f, t)
    BY <1>1, <1>2, <2>2
  <2> QED
    BY <1>6, <1>8, <2>1, <2>2
<1>9. ASSUME NEW t \in Nat, NEW u \in Nat, TextOf(f, v, t)', TextOf(f, v, u)' PROVE t = u
  <2>1. TextOf(f, v, t) \/ (v = w /\ NewDoc(f, t))
    BY <1>6, <1>9
  <2>2. TextOf(f, v, u) \/ (v = w /\ NewDoc(f, u))
    BY <1>6, <1>9
  <2> QED
    BY <1>3, <1>4, <1>7, <2>1, <2>2 DEF NewDoc
<1>10. ASSUME NEW b \in AnyBasis, ResultOf(f, v, b)'
       PROVE  /\ b \in Bases /\ v <= docs'[f].version
              /\ \A t \in Nat : TextOf(f, v, t)' => b[f] = t
              /\ \A q \in Queries : Waits(q, f, v)' => Covers(b, query'[q].scan, Rest(q)')
  <2>1. CASE \E a \in AnyBasis : ResultOf(f, v, a) /\ Renews(f, a, b)
    <3>1. PICK a \in AnyBasis : ResultOf(f, v, a) /\ Renews(f, a, b)
      BY <2>1
    <3>2. /\ a \in Bases /\ v <= docs[f].version /\ v # w
          /\ \A t \in Nat : TextOf(f, v, t) => a[f] = t
          /\ \A q \in Queries : Waits(q, f, v) => Covers(a, query[q].scan, Rest(q))
      BY <1>5, <1>7, <3>1
    <3>3. b \in Bases /\ b[f] = a[f] /\ \A g \in Files \ behind' : a[g] <= b[g]
      BY <3>1, <3>2 DEF Renews
    <3>4. ASSUME NEW q \in Queries, Waits(q, f, v)'
          PROVE  Covers(b, query'[q].scan, Rest(q)')
      <4>1. Waits(q, f, v) /\ Kept(q)
        BY <3>2, <3>4 DEF WaitsFrom, w
      <4>2. Covers(a, query[q].scan, Rest(q)) /\ query[q].scan \in Stamps
        BY <3>2, <4>1 DEF Barrier, Place, Waits, Passed
      <4>3. query'[q].scan = query[q].scan /\ Rest(q)' \subseteq Rest(q) /\ Rest(q)' \subseteq Files \ behind'
        BY <4>1 DEF Kept, KeptScan, Rest, Forward
      <4>4. \A g \in Files : a[g] \in Nat /\ b[g] \in Nat /\ query[q].scan[g].at \in Nat
        BY <3>2, <3>3, <4>2 DEF Bases, Stamps
      <4> SUFFICES ASSUME NEW g \in Rest(q)' PROVE b[g] >= query[q].scan[g].at
        BY <4>3 DEF Covers
      <4>5. g \in Files /\ a[g] <= b[g] /\ a[g] >= query[q].scan[g].at
        BY <3>3, <4>2, <4>3 DEF Covers
      <4> QED
        BY <4>4, <4>5
    <3>5. \A t \in Nat : TextOf(f, v, t)' => b[f] = t
      BY <1>6, <3>2, <3>3
    <3> QED
      BY <1>1, <1>2, <3>2, <3>3, <3>4, <3>5
  <2>2. CASE v = w /\ b = View' /\ \E text \in Nat : Drawn(f, text)
    <3>1. PICK text \in Nat : Drawn(f, text)
      BY <2>2
    <3>2. b[f] = text /\ NewDoc(f, text)
      BY <2>2, <3>1, DrawnView DEF Drawn
    <3>3. b \in Bases
      <4>1. \A g \in Files : View'[g] \in Nat
        BY FileTypesNext
      <4>2. View' = [g \in Files |-> View'[g]]
        BY DEF View
      <4> QED
        BY <2>2, <4>1, <4>2 DEF Bases
    <3>4. v <= docs'[f].version
      BY <1>2, <1>7, <2>2, <3>2
    <3>5. \A t \in Nat : ~TextOf(f, v, t)
      BY <1>3, <1>7, <2>2
    <3>6. \A t \in Nat : TextOf(f, v, t)' => b[f] = t
      BY <1>6, <3>2, <3>5 DEF NewDoc
    <3>7. ASSUME NEW q \in Queries, Waits(q, f, v)'
          PROVE  Covers(b, query'[q].scan, Rest(q)')
      <4>1. ~Waits(q, f, v)
        BY <3>5, WaitsText
      <4> QED
        BY <2>2, <3>7, <4>1 DEF WaitsFrom
    <3> QED
      BY <3>3, <3>4, <3>6, <3>7
  <2> QED
    BY <1>10, <2>1, <2>2 DEF ResultsFrom, w
<1> QED
  BY <1>8, <1>9, <1>10

\* Every action carries the texts and results over.
LEMMA SameCaches ==
  ASSUME NEW f \in Files, UNCHANGED <<push, merged, out>>
  PROVE  CachesCarry(f)
  BY DEF CachesCarry, ResultOf, TextOf

LEMMA CachesPublish ==
  ASSUME Shape, NEW g \in Files, Publish(g), NEW f \in Files
  PROVE  CachesCarry(f)
<1> DEFINE p == [file |-> g, version |-> overlay[g].version, basis |-> View]
<1>1. out' = Append(out, p) /\ UNCHANGED <<push, merged>> /\ out \in Seq(Publications)
  BY DEF Publish, cacheVars, Shape, Caches
<1>2. p.file = g /\ p.version = overlay[g].version /\ p.basis = View
  OBVIOUS
<1> HIDE DEF p
<1>3. \A i \in DOMAIN out' : (i \in DOMAIN out /\ out'[i] = out[i]) \/ out'[i] = p
  BY <1>1
<1>4. ASSUME NEW i \in DOMAIN out', out'[i].file = f, out'[i].version > 0
      PROVE  ResultOf(f, out'[i].version, out'[i].basis)
  <2>1. CASE i \in DOMAIN out /\ out'[i] = out[i]
    BY <1>4, <2>1 DEF ResultOf
  <2>2. CASE out'[i] = p
    BY <1>2, <1>4, <2>2 DEF ResultOf
  <2> QED
    BY <1>3, <2>1, <2>2
<1> QED
  BY <1>1, <1>4 DEF CachesCarry, ResultOf, TextOf

LEMMA CachesAccept ==
  ASSUME Shape, Accept, NEW f \in Files
  PROVE  CachesCarry(f)
<1> DEFINE p == Head(out)
<1>1. out \in Seq(Publications) /\ out # <<>> /\ out' = Tail(out) /\ merged' = merged
  BY DEF Accept, Shape, Caches
<1>2. 1 \in DOMAIN out /\ p = out[1] /\ \A i \in DOMAIN out' : i + 1 \in DOMAIN out /\ out'[i] = out[i + 1]
  BY <1>1
<1> HIDE DEF p
<1>3. \A i \in DOMAIN out' :
        out'[i].file = f /\ out'[i].version > 0 => ResultOf(f, out'[i].version, out'[i].basis)
  BY <1>2 DEF ResultOf
<1>4. push'[f] = push[f]
      \/ (p.file = f /\ push'[f] = [version |-> p.version, text |-> 0, basis |-> p.basis])
  <2>1. push' = push \/ push' = [push EXCEPT ![p.file] = [version |-> p.version, text |-> 0, basis |-> p.basis]]
    BY DEF Accept, p
  <2>2. push = [g \in Files |-> push[g]]
    BY DEF Shape, Caches
  <2> QED
    BY <2>1, <2>2
<1>5. ResultOf(f, push'[f].version, push'[f].basis)
  <2>1. CASE push'[f] = push[f]
    BY <2>1 DEF ResultOf
  <2>2. CASE p.file = f /\ push'[f] = [version |-> p.version, text |-> 0, basis |-> p.basis]
    BY <1>2, <2>2 DEF ResultOf
  <2> QED
    BY <1>4, <2>1, <2>2
<1> QED
  BY <1>1, <1>3, <1>5 DEF CachesCarry, ResultOf, TextOf

LEMMA CachesMark ==
  ASSUME NEW q \in Queries, Mark(q), NEW f \in Files
  PROVE  CachesCarry(f)
<1>1. push'[f].version = 0 /\ merged'[f].version = 0 /\ out' = out
  BY DEF Mark, Nothing, serverVars
<1> QED
  BY <1>1 DEF CachesCarry, ResultOf

LEMMA CachesStore ==
  ASSUME Shape, NEW q \in Queries, Store(q), NEW f \in Files
  PROVE  CachesCarry(f)
<1>1. UNCHANGED <<push, out>> /\ query[q].pc = "store"
  BY DEF Store, serverVars, At
<1>2. \/ merged'[f] = merged[f]
      \/ /\ f = query[q].file /\ merged'[f].version = query[q].version
         /\ merged'[f].text = query[q].text /\ merged'[f].basis = query[q].basis
  BY DEF Store, Shape, Caches
<1>3. /\ ResultOf(f, merged'[f].version, merged'[f].basis)
      /\ TextOf(f, merged'[f].version, merged'[f].text)
  BY <1>1, <1>2 DEF ResultOf, TextOf, Sent
<1> QED
  BY <1>1, <1>3 DEF CachesCarry, ResultOf

LEMMA CachesStep ==
  ASSUME Shape, [Next]_vars, NEW f \in Files
  PROVE  CachesCarry(f)
<1>1. CASE UNCHANGED vars
  BY <1>1, SameCaches DEF vars, cacheVars, serverVars
<1>2. CASE Accept \/ \E g \in Files : Publish(g)
  BY <1>2, CachesAccept, CachesPublish
<1>3. CASE \E g \in Files : Edit(g) \/ Remove(g) \/ Load(g)
  BY <1>3, SameCaches DEF Edit, Remove, Load, cacheVars, serverVars
<1>4. ASSUME NEW q \in Queries, Mark(q) \/ Store(q) PROVE CachesCarry(f)
  BY <1>4, CachesMark, CachesStore
<1>5. ASSUME NEW q \in Queries, NEW g \in Files, Ask(q, g) \/ Tell(q, g)
      PROVE  UNCHANGED <<push, merged, out>>
  BY <1>5 DEF Ask, Tell, Sync, SyncUnsent, Send, cacheVars, serverVars
<1>6. ASSUME NEW q \in Queries, SyncTarget(q) PROVE UNCHANGED <<push, merged, out>>
  BY <1>6 DEF SyncTarget, Sync, SyncUnsent, Send, cacheVars, serverVars
<1>7. ASSUME NEW q \in Queries, Scan(q) \/ MarkDocs(q) \/ Notify(q) \/ Cancel(q) \/ Read(q)
                                \/ Reuse(q) \/ Evaluate(q) \/ Wake(q)
      PROVE  UNCHANGED <<push, merged, out>>
  BY <1>7 DEF Scan, MarkDocs, Notify, Cancel, Read, Reuse, Evaluate, Wake, cacheVars, serverVars
<1> QED
  BY <1>1, <1>2, <1>3, <1>4, <1>5, <1>6, <1>7, SameCaches DEF Next

LEMMA QueriesStep ==
  ASSUME Shape, [Next]_vars
  PROVE  QueriesCarry
<1> SUFFICES ASSUME NEW q \in Queries, query'[q].pc \in Sent
             PROVE  SentBefore(q) \/ (query[q].pc = "sync" /\ SentBy(q) /\ Moves(q))
  BY DEF QueriesCarry
<1>1. CASE Stays(q)
  BY <1>1 DEF Stays, SentBefore, ResultOf
<1>2. CASE Mark(q)
  BY <1>2, MarkStays DEF Shape, Sent
<1>3. ASSUME NEW f \in Files, Ask(q, f) \/ Tell(q, f) PROVE FALSE
  <2>1. CASE Ask(q, f)
    BY <2>1, AfterAsk DEF Shape, Sent
  <2>2. CASE Tell(q, f)
    BY <2>2, AfterTell, AfterEnd DEF Tell, At, Shape, Sent
  <2> QED
    BY <1>3, <2>1, <2>2
<1>4. CASE Scan(q) \/ MarkDocs(q) \/ Notify(q) \/ Cancel(q) \/ Read(q)
  BY <1>4, AfterScan, AfterMarkDocs, AfterNotify, AfterEnd, AfterRead DEF Cancel, Shape, Sent
<1>5. CASE SyncTarget(q)
  BY <1>5, AfterSyncTarget DEF SyncTarget, At, Shape, Sent, Moves
<1>6. CASE Reuse(q) \/ Store(q) \/ Wake(q)
  <2>1. query'[q].pc = "evaluate" /\ Kept(q)
    BY <1>6, AfterAnswer, AfterSubscribed DEF Reuse, Store, Wake, Shape, Sent
  <2>2. query[q].pc \in Sent
    BY <1>6 DEF Reuse, Store, Wake, At, Sent
  <2> QED
    BY <2>1, <2>2 DEF SentBefore
<1>7. CASE Evaluate(q)
  <2>1. query[q].pc \in Sent
    BY <1>7 DEF Evaluate, At, Sent
  <2> QED
    BY <1>7, <2>1, AfterEvaluate DEF SentBefore, Shape, Current, ResultOf
<1> QED
  BY <1>1, <1>2, <1>3, <1>4, <1>5, <1>6, <1>7, OthersStay DEF Moves

LEMMA HonestStep ==
  ASSUME Shape, Shape', Barrier, Held, Told, Forward, ViewGrows, \A f \in Files : FileStep(f),
         HonestAll, [Next]_vars
  PROVE  HonestAll'
<1> SUFFICES ASSUME NEW f \in Files, f \notin reopened' PROVE Honest(f)'
  BY DEF HonestAll
<1>1. f \notin reopened /\ Honest(f)
  BY DEF Forward, HonestAll
<1>2. CachesCarry(f) /\ QueriesCarry
  BY CachesStep, QueriesStep
<1>3. ASSUME NEW q \in Queries, query[q].pc = "sync", Moves(q) PROVE UNCHANGED <<disk, scanned>>
  BY <1>3 DEF Moves, Ask, Scan, Tell, MarkDocs, Notify, Cancel, Read, SyncTarget, Reuse, Evaluate,
     Store, Wake, At
<1>4. TextsFrom(f)
  BY <1>2, <1>3, TextCarry DEF TextsFrom
<1>5. ResultsFrom(f)
  BY <1>2, ResultCarry DEF ResultsFrom
<1>6. WaitsFrom(f)
  BY <1>2, <1>3, WaitsCarry
<1> QED
  BY <1>1, <1>4, <1>5, <1>6, HonestFrom

LEMMA InitHonest == Init => HonestAll
<1> SUFFICES ASSUME Init, NEW f \in Files, NEW v \in Nat \ {0}
             PROVE  /\ \A t : ~TextOf(f, v, t)
                    /\ \A b : ~ResultOf(f, v, b)
  BY DEF HonestAll, Honest
<1>1. /\ docs[f].version = 0 /\ push[f].version = 0 /\ merged[f].version = 0
      /\ overlay[f].version = 0 /\ DOMAIN out = {}
      /\ \A q \in Queries : query[q].pc = "idle"
  BY DEF Init, NoDoc, NoText, Nothing, Idle
<1> QED
  BY <1>1 DEF TextOf, ResultOf, Sent

(***************************************************************************)
(* Confirmed answers.                                                      *)
(***************************************************************************)

FitsItsVersion(q) ==
  At(q, "answered") /\ query[q].file \notin reopened =>
    /\ query[q].basis[query[q].file] = query[q].text
    /\ query[q].changed => Covers(query[q].basis, query[q].scan, Rest(q))

LEMMA FitsIsFresh == FreshFitsItsVersion <=> \A q \in Queries : FitsItsVersion(q)
  BY DEF FreshFitsItsVersion, FitsItsVersion, Rest

\* A query that was answered keeps its answer, and less of it is promised later.
LEMMA FitsStays ==
  ASSUME NEW q \in Queries, Stays(q), Forward, FitsItsVersion(q)
  PROVE  FitsItsVersion(q)'
  BY DEF Stays, Kept, KeptScan, Forward, FitsItsVersion, At, Covers, Rest

\* What a query is answered from its caches fits.
LEMMA FitsAnswer ==
  ASSUME Shape, Barrier, HonestAll, Forward, NEW q \in Queries, query[q].pc \in Sent,
         NEW basis \in AnyBasis, ResultOf(query[q].file, query[q].version, basis), Answer(q, basis)
  PROVE  FitsItsVersion(q)'
<1> DEFINE f == query[q].file
           v == query[q].version
<1>1. CASE query'[q].pc = "ended"
  BY <1>1 DEF FitsItsVersion, At
<1>2. CASE query'[q].pc = "answered" /\ Kept(q) /\ query'[q].basis = basis
  <2> SUFFICES ASSUME f \notin reopened'
               PROVE  /\ basis[f] = query[q].text
                      /\ query[q].changed => Covers(basis, query[q].scan, Rest(q)')
    BY <1>2 DEF FitsItsVersion, Kept, KeptScan, Covers
  <2>1. f \in Files /\ v \in Nat \ {0} /\ query[q].text \in Nat
    BY DEF Shape, Callers, Locals, Barrier, Place, Sent
  <2>2. Honest(f)
    BY <2>1 DEF HonestAll, Forward
  <2>3. TextOf(f, v, query[q].text)
    BY DEF TextOf
  <2>4. /\ basis[f] = query[q].text
        /\ Waits(q, f, v) => Covers(basis, query[q].scan, Rest(q))
    BY <2>1, <2>2, <2>3 DEF Honest
  <2>5. query[q].changed => Waits(q, f, v)
    BY DEF Waits
  <2>6. Rest(q)' \subseteq Rest(q)
    BY <1>2 DEF Kept, Rest, Forward
  <2> QED
    BY <2>4, <2>5, <2>6 DEF Covers
<1> QED
  BY <1>1, <1>2, AfterAnswer DEF Shape

LEMMA FitsStep ==
  ASSUME Shape, Barrier, HonestAll, Forward, FreshFitsItsVersion, [Next]_vars
  PROVE  FreshFitsItsVersion'
<1> SUFFICES ASSUME NEW q \in Queries PROVE FitsItsVersion(q)'
  BY FitsIsFresh DEF FreshFitsItsVersion, FitsItsVersion, Rest
<1>1. FitsItsVersion(q)
  BY FitsIsFresh
<1>2. CASE Stays(q)
  BY <1>1, <1>2, FitsStays
<1>3. CASE query'[q].pc # "answered"
  BY <1>3 DEF FitsItsVersion, At
<1>4. ASSUME NEW f \in Files, Ask(q, f) \/ Tell(q, f) PROVE query'[q].pc # "answered"
  <2>1. CASE Ask(q, f)
    BY <2>1, AfterAsk DEF Shape
  <2>2. CASE Tell(q, f)
    BY <2>2, AfterTell, AfterEnd DEF Tell, At, Shape
  <2> QED
    BY <1>4, <2>1, <2>2
<1>5. CASE Scan(q) \/ Mark(q) \/ MarkDocs(q) \/ Notify(q) \/ Cancel(q) \/ Read(q) \/ SyncTarget(q)
  BY <1>3, <1>5, AfterScan, MarkStays, AfterMarkDocs, AfterNotify, AfterEnd, AfterRead,
     AfterSyncTarget DEF Cancel, SentBy, Shape
<1>6. CASE Evaluate(q) \/ Wake(q)
  BY <1>3, <1>6, AfterEvaluate, AfterSubscribed DEF Wake, Shape
<1>7. CASE Reuse(q)
  <2>1. CASE query' = Subscribed(q)
    BY <1>3, <2>1, AfterSubscribed DEF Shape
  <2>2. CASE merged[query[q].file].version = query[q].version /\ Answer(q, merged[query[q].file].basis)
    <3>1. query[q].pc \in Sent /\ query[q].file \in Files
      BY <1>7 DEF Reuse, At, Sent, Shape, Callers
    <3>2. merged[query[q].file].basis \in AnyBasis
      BY <3>1 DEF Shape, Caches, AnyBasis
    <3>3. ResultOf(query[q].file, query[q].version, merged[query[q].file].basis)
      BY <2>2 DEF ResultOf
    <3> QED
      BY <2>2, <3>1, <3>2, <3>3, FitsAnswer
  <2> QED
    BY <1>7, <2>1, <2>2 DEF Reuse
<1>8. CASE Store(q)
  <2>1. query[q].pc = "store" /\ query[q].pc \in Sent /\ Answer(q, query[q].basis)
    BY <1>8 DEF Store, At, Sent
  <2>2. query[q].basis \in AnyBasis /\ ResultOf(query[q].file, query[q].version, query[q].basis)
    BY <2>1 DEF ResultOf, Shape, Callers, Locals, AnyBasis
  <2> QED
    BY <2>1, <2>2, FitsAnswer
<1>9. CASE ~Moves(q) /\ ~Mark(q)
  BY <1>2, <1>9, OthersStay
<1> QED
  BY <1>3, <1>4, <1>5, <1>6, <1>7, <1>8, <1>9 DEF Moves

FreshInv == Shape /\ Barrier /\ Held /\ Told /\ HonestAll /\ FreshFitsItsVersion

LEMMA FreshStep == FreshInv /\ [Next]_vars => FreshInv'
<1> SUFFICES ASSUME FreshInv, [Next]_vars PROVE FreshInv'
  OBVIOUS
<1>1. Shape' /\ Forward
  BY ShapeStep, ForwardStep DEF FreshInv
<1>2. Barrier'
  BY <1>1, BarrierStep DEF FreshInv
<1>3. \A f \in Files : FileStep(f)
  BY FilesStep DEF FreshInv
<1>4. Held' /\ ViewGrows
  BY <1>1, <1>3, HeldStep DEF FreshInv
<1>5. Told'
  BY <1>1, <1>3, <1>4, ToldStep DEF FreshInv
<1>6. HonestAll'
  BY <1>1, <1>3, <1>4, HonestStep DEF FreshInv
<1>7. FreshFitsItsVersion'
  BY <1>1, FitsStep DEF FreshInv
<1> QED
  BY <1>1, <1>2, <1>4, <1>5, <1>6, <1>7 DEF FreshInv

\* Confirmed diagnostics of a document never dropped rest on the text the query read;
\* those of a new version rest on everything the query's scan had seen, except the files
\* the server was left behind on or a handler had yet to send (the barrier of refreshDisk and
\* the version check of diagCache.publish).
THEOREM ConfirmedIsFresh == Spec => []FreshFitsItsVersion
<1>1. Init => FreshInv
  <2>1. Init => FreshFitsItsVersion
    BY DEF Init, FreshFitsItsVersion, At, Idle
  <2> QED
    BY <2>1, InitShape, InitBarrier, InitHeld, InitTold, InitHonest DEF FreshInv
<1>2. FreshInv => FreshFitsItsVersion
  BY DEF FreshInv
<1> QED
  BY <1>1, <1>2, FreshStep, PTL DEF Spec
=============================================================================
