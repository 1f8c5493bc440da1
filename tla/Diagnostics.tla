---------------------------- MODULE Diagnostics ----------------------------
(***************************************************************************)
(* The diagnostics of one language server: src/internal/lsp/disk.go,       *)
(* sync.go and diagnostics.go.  A query first passes a barrier: it scans   *)
(* the sources and tells the server what changed.  It then synchronizes    *)
(* its own document, which gets a new version when its text changed or a   *)
(* change elsewhere has invalidated it, and waits for a publication that   *)
(* bears this version.                                                     *)
(*                                                                         *)
(* A text is the number of the edit that made it.  A publication carries   *)
(* its basis: the texts of all files the server computed it from.  The     *)
(* pipe to the server is first in, first out, and so is the one back: a    *)
(* message on its way out and an answer on its way back are the same       *)
(* delay, so the server takes messages at once and its publications wait.  *)
(* Pull reports, unversioned publications and servers that take no         *)
(* documents are left out: gopls offers none of them by default.           *)
(***************************************************************************)
EXTENDS Naturals, Sequences, FiniteSets

CONSTANTS
  Queries,     \* the diagnostics queries, one call each; they may overlap
  Files,       \* the sources; the diagnostics of each depend on all
  None,        \* no query holds the gate
  MaxOpen,     \* MaxOpenDocuments
  MaxEdits,    \* bound: changes of the sources
  MaxVersion,  \* bound: document versions
  MaxOut       \* bound: publications under way

ASSUME NoneAssumption == None \notin Queries

VARIABLES
  disk,       \* disk[f]: the edit that made it what it is, and whether it exists
  edits,      \* edits so far
  scanned,    \* c.disk: the last scan the server was told of, <<>> before the first
  gate,       \* c.queryGate: the query between scan and notification
  docs,       \* c.docs: the documents the server was given
  recent,     \* lastUse: the open documents, the least recently used first
  push,       \* c.diag.push: the last publication accepted for a file
  merged,     \* c.diag.merged: the last confirmed result of a file
  query,      \* query[q]: where q is, and its locals
  overlay,    \* the server's open documents
  cached,     \* what the server read of the files it was not given
  out,        \* publications the read loop has not reached
  reopened,   \* history: files whose document was dropped from the store
  behind      \* history: files of which the server missed a new text or the closing, got
              \* an old text, or had read one older than the first scan saw

cacheVars == <<push, merged>>
history == <<reopened, behind>>
serverVars == <<overlay, cached, out>>
storeVars == <<docs, recent>>
vars == <<disk, edits, scanned, gate, storeVars, cacheVars, query, serverVars, history>>

NoDoc == [version |-> 0, text |-> 0, invalidated |-> FALSE]
NoText == [version |-> 0, text |-> 0]
Nothing == [version |-> 0, text |-> 0, basis |-> <<>>]
Idle == [pc |-> "idle", file |-> None, scan |-> <<>>, todo |-> {}, quiet |-> TRUE,
         text |-> 0, version |-> 0, changed |-> FALSE, woken |-> FALSE, basis |-> <<>>,
         beside |-> {}]   \* history: documents that others had yet to send
Ended == [Idle EXCEPT !.pc = "ended"]

Init ==
  /\ disk = [f \in Files |-> [at |-> 0, exists |-> TRUE]]
  /\ edits = 0
  /\ scanned = <<>>
  /\ gate = None
  /\ docs = [f \in Files |-> NoDoc]
  /\ recent = <<>>
  /\ push = [f \in Files |-> Nothing]
  /\ merged = [f \in Files |-> Nothing]
  /\ query = [q \in Queries |-> Idle]
  /\ overlay = [f \in Files |-> NoText]
  /\ cached = [f \in Files |-> 0]
  /\ out = <<>>
  /\ reopened = {}
  /\ behind = {}

At(q, where) == query[q].pc = where
Open(f) == docs[f].version > 0

(***************************************************************************)
(* The sources and the server.                                             *)
(***************************************************************************)

Edit(f) ==
  /\ edits < MaxEdits
  /\ edits' = edits + 1
  /\ disk' = [disk EXCEPT ![f] = [at |-> edits + 1, exists |-> TRUE]]
  /\ UNCHANGED <<scanned, gate, storeVars, cacheVars, query, serverVars, history>>

Remove(f) ==
  /\ edits < MaxEdits
  /\ disk[f].exists
  /\ edits' = edits + 1
  /\ disk' = [disk EXCEPT ![f] = [at |-> edits + 1, exists |-> FALSE]]
  /\ UNCHANGED <<scanned, gate, storeVars, cacheVars, query, serverVars, history>>

\* What the server computes from: the text it was given, or what it read.
View == [f \in Files |-> IF overlay[f].version > 0 THEN overlay[f].text ELSE cached[f]]

Publish(f) ==
  /\ Len(out) < MaxOut
  /\ overlay[f].version > 0
  /\ out' = Append(out, [file |-> f, version |-> overlay[f].version, basis |-> View])
  /\ UNCHANGED <<disk, edits, scanned, gate, storeVars, cacheVars, query, overlay, cached, history>>

\* The server reads a file when it loads the workspace, or later when it first needs it.
Load(f) ==
  /\ cached[f] # disk[f].at
  /\ cached' = [cached EXCEPT ![f] = disk[f].at]
  /\ UNCHANGED <<disk, edits, scanned, gate, storeVars, cacheVars, query, overlay, out, history>>

\* Every query that has taken the signal is woken.
Listening == {"evaluate", "asleep"}
Woken(q) == [query[q] EXCEPT !.woken = query[q].pc \in Listening]

\* Mutant: a publication is taken for the version the document has.
AcceptAnyVersion ==
  /\ out # <<>>
  /\ LET p == Head(out) IN
     IF Open(p.file)
       THEN /\ push' = [push EXCEPT ![p.file] =
                          [version |-> docs[p.file].version, text |-> 0, basis |-> p.basis]]
            /\ query' = [q \in Queries |-> Woken(q)]
       ELSE UNCHANGED <<push, query>>
  /\ out' = Tail(out)
  /\ UNCHANGED <<disk, edits, scanned, gate, storeVars, merged, overlay, cached, history>>

\* A publication counts only for the version the document now has.
Accept ==
  /\ out # <<>>
  /\ LET p == Head(out) IN
     IF Open(p.file) /\ p.version = docs[p.file].version
       THEN /\ push' = [push EXCEPT ![p.file] =
                          [version |-> p.version, text |-> 0, basis |-> p.basis]]
            /\ query' = [q \in Queries |-> Woken(q)]
       ELSE UNCHANGED <<push, query>>
  /\ out' = Tail(out)
  /\ UNCHANGED <<disk, edits, scanned, gate, storeVars, merged, overlay, cached, history>>

(***************************************************************************)
(* Synchronizing a document: one critical section of the document store.   *)
(***************************************************************************)

Stale(f, text) == docs[f].text # text \/ docs[f].invalidated

\* The least recently used documents make room; the new one stays.
UsedLast(f) ==
  LET order == Append(SelectSeq(recent, LAMBDA g : g # f), f)
  IN  SubSeq(order, IF Len(order) > MaxOpen THEN Len(order) - MaxOpen + 1 ELSE 1, Len(order))

\* The documents after a synchronization of f with this text.
Synced(f, text) ==
  [g \in Files |->
     IF g = f THEN IF ~Open(f) \/ Stale(f, text)
                     THEN [version |-> docs[f].version + 1, text |-> text, invalidated |-> FALSE]
                     ELSE docs[f]
     ELSE IF \E i \in DOMAIN UsedLast(f) : UsedLast(f)[i] = g THEN docs[g]
     ELSE NoDoc]

Closed(ds) == {g \in Files : Open(g) /\ ds[g].version = 0}

\* The server is told of a new text and of the documents dropped, but for the
\* lost ones, which it keeps.
Send(ds, lost) ==
  /\ overlay' = [g \in Files |->
                   IF g \in Closed(ds) \ lost THEN NoText
                   ELSE IF ds[g].version > docs[g].version
                     THEN [version |-> ds[g].version, text |-> ds[g].text]
                   ELSE overlay[g]]
  /\ cached' = [g \in Files |-> IF g \in Closed(ds) \ lost THEN disk[g].at ELSE cached[g]]
  /\ UNCHANGED out

\* A query cancelled once its own text is out no longer closes what it evicts:
\* the error of that notification is dropped.
Sync(f, text) ==
  LET ds == Synced(f, text) IN
  /\ ds[f].version <= MaxVersion
  /\ docs' = ds
  /\ recent' = UsedLast(f)
  /\ reopened' = reopened \cup Closed(ds)
  /\ \E lost \in {{}, Closed(ds)} :
       /\ behind' = behind \cup lost \cup (IF text = disk[f].at THEN {} ELSE {f})
       /\ Send(ds, lost)

\* The query was cancelled in between: the store has moved on, the server has
\* not been told.  A document that could not be opened is forgotten again.
SyncUnsent(f, text) ==
  /\ docs[f].version < MaxVersion
  /\ IF Open(f)
       THEN /\ Stale(f, text)
            /\ docs' = [docs EXCEPT ![f] = Synced(f, text)[f]]
            /\ recent' = UsedLast(f)
            /\ behind' = behind \cup {f}
       ELSE UNCHANGED <<storeVars, behind>>
  /\ UNCHANGED <<serverVars, reopened>>

(***************************************************************************)
(* The barrier.                                                            *)
(***************************************************************************)

Ask(q, f) ==
  /\ At(q, "idle")
  /\ query' = [query EXCEPT ![q] = [Idle EXCEPT !.pc = "gate", !.file = f]]
  /\ UNCHANGED <<disk, edits, scanned, gate, storeVars, cacheVars, serverVars, history>>

\* scanSources: a file that is gone has no stamp, since it was first missed.
Walk == [f \in Files |-> IF scanned = <<>> \/ disk[f].exists \/ scanned[f].exists
                           THEN disk[f] ELSE scanned[f]]

\* A new file, a changed one, or one that is gone.
Changes(next) == {f \in Files : next[f] # scanned[f]}

\* What the server has read older than the first scan saw.
Outdated == {f \in Files : cached[f] # disk[f].at}

\* The gate is taken, the tree is walked.  Without a change the gate is given
\* back at once.  The first scan is only the base of all later ones: the server is
\* not told of what changed between its own reading and this scan.
Scan(q) ==
  /\ At(q, "gate")
  /\ gate = None
  /\ scanned' = IF scanned = <<>> THEN Walk ELSE scanned
  /\ behind' = IF scanned = <<>> THEN behind \cup Outdated ELSE behind
  /\ IF scanned = <<>> \/ Changes(Walk) = {}
       THEN /\ query' = [query EXCEPT ![q].pc = "read", ![q].scan = Walk]
            /\ UNCHANGED gate
       ELSE /\ query' = [query EXCEPT ![q].pc = "mark", ![q].scan = Walk,
                                      ![q].todo = Changes(Walk)]
            /\ gate' = q
  /\ UNCHANGED <<disk, edits, storeVars, cacheVars, serverVars, reopened>>

\* Queries past their own barrier have sampled the epoch.
Sampled(q) == query[q].pc \notin {"idle", "gate", "answered", "ended"}

\* The epoch moves on, which queries past their own barrier will notice, and
\* all results are dropped.
Mark(q) ==
  /\ At(q, "mark")
  /\ push' = [f \in Files |-> Nothing]
  /\ merged' = [f \in Files |-> Nothing]
  /\ query' = [p \in Queries |->
                 IF p = q THEN [query[p] EXCEPT !.pc = "marked"]
                 ELSE [Woken(p) EXCEPT !.quiet = ~Sampled(p)]]
  /\ UNCHANGED <<disk, edits, scanned, gate, storeVars, serverVars, history>>

MarkDocs(q) ==
  /\ At(q, "marked")
  /\ docs' = [f \in Files |-> [docs[f] EXCEPT !.invalidated = Open(f)]]
  /\ query' = [query EXCEPT ![q].pc = "telling"]
  /\ UNCHANGED <<disk, edits, scanned, gate, recent, cacheVars, serverVars, history>>

\* One change: the document of a removed file is closed, or only forgotten when the
\* query is cancelled; an open one that is not the query's own gets its new text,
\* unless the file cannot be read (gone by now, unreadable, too large, not UTF-8).
Tell(q, f) ==
  LET told == [query EXCEPT ![q].todo = @ \ {f}]
      removed == ~query[q].scan[f].exists
  IN
  /\ At(q, "telling")
  /\ f \in query[q].todo
  /\ \/ /\ removed /\ Open(f)
        /\ docs' = [docs EXCEPT ![f] = NoDoc]
        /\ recent' = SelectSeq(recent, LAMBDA g : g # f)
        /\ reopened' = reopened \cup {f}
        /\ \/ /\ overlay' = [overlay EXCEPT ![f] = NoText]
              /\ cached' = [cached EXCEPT ![f] = disk[f].at]
              /\ query' = told
              /\ UNCHANGED <<behind, out, gate>>
           \/ /\ behind' = behind \cup {f}
              /\ query' = [query EXCEPT ![q] = Ended]
              /\ gate' = None
              /\ UNCHANGED serverVars
     \/ /\ ~Open(f) \/ (~removed /\ f = query[q].file)
        /\ query' = told
        /\ UNCHANGED <<storeVars, history, serverVars, gate>>
     \/ /\ ~removed
        /\ Open(f) /\ f # query[q].file
        /\ disk[f].exists
        /\ Sync(f, disk[f].at)
        /\ query' = told
        /\ UNCHANGED gate
     \/ /\ ~removed
        /\ Open(f) /\ f # query[q].file
        /\ \/ SyncUnsent(f, disk[f].at) /\ disk[f].exists
           \/ UNCHANGED <<storeVars, history, serverVars>>
        /\ query' = [query EXCEPT ![q] = Ended]
        /\ gate' = None
  /\ UNCHANGED <<disk, edits, scanned, cacheVars>>

\* The server reads the changed files it was not given.  Only now does the scan
\* count as told.
Notify(q) ==
  /\ At(q, "telling")
  /\ query[q].todo = {}
  /\ cached' = [f \in Files |-> IF f \in Changes(query[q].scan) THEN disk[f].at ELSE cached[f]]
  /\ scanned' = query[q].scan
  /\ gate' = None
  /\ query' = [query EXCEPT ![q].pc = "read", ![q].todo = {}]
  /\ UNCHANGED <<disk, edits, storeVars, cacheVars, overlay, out, history>>

\* A cancelled query gives the gate back; what it changed stays.
Cancel(q) ==
  /\ query[q].pc \in {"telling", "asleep"}
  /\ query' = [query EXCEPT ![q] = Ended]
  /\ gate' = IF gate = q THEN None ELSE gate
  /\ UNCHANGED <<disk, edits, scanned, storeVars, cacheVars, serverVars, history>>

(***************************************************************************)
(* The handler, outside the gate.                                          *)
(***************************************************************************)

\* The text is read before the document store is locked.  A file that is gone,
\* unreadable, too large or not UTF-8 ends the query: an open document then keeps the
\* text the server has, which the barrier has counted as told.
Read(q) ==
  LET f == query[q].file IN
  /\ At(q, "read")
  /\ \/ /\ disk[f].exists
        /\ query' = [query EXCEPT ![q].pc = "sync", ![q].text = disk[f].at]
        /\ UNCHANGED behind
     \/ /\ query' = [query EXCEPT ![q] = Ended]
        /\ behind' = IF Open(f) THEN behind \cup {f} ELSE behind
  /\ UNCHANGED <<disk, edits, scanned, gate, storeVars, cacheVars, serverVars, reopened>>

\* The documents that other queries, past the barrier, have not synchronized yet:
\* the barrier left each to its query.
Unsent(q) == {query[r].file : r \in {r \in Queries \ {q} : query[r].pc \in {"read", "sync"}}}

SyncTarget(q) ==
  LET f == query[q].file IN
  /\ At(q, "sync")
  /\ \/ /\ Sync(f, query[q].text)
        /\ query' = [query EXCEPT ![q].pc = "synced",
                                  ![q].version = Synced(f, query[q].text)[f].version,
                                  ![q].changed = Open(f) /\ Stale(f, query[q].text),
                                  ![q].beside = Unsent(q)]
     \/ /\ SyncUnsent(f, query[q].text)
        /\ query' = [query EXCEPT ![q] = Ended]
  /\ UNCHANGED <<disk, edits, scanned, gate, cacheVars>>

\* An answer with diagnostics.  One that a later barrier overlapped is called
\* unconfirmed, which is an honest answer to nothing.
Answer(q, basis) ==
  query' = [query EXCEPT ![q] = IF query[q].quiet
                                  THEN [@ EXCEPT !.pc = "answered", !.basis = basis]
                                  ELSE Ended]

\* The signal is taken before the caches are read.
Subscribed(q) == [query EXCEPT ![q].pc = "evaluate", ![q].woken = FALSE]

\* An unchanged document may reuse the last confirmed result.
Reuse(q) ==
  LET f == query[q].file IN
  /\ At(q, "synced")
  /\ IF /\ ~query[q].changed
        /\ merged[f].version = query[q].version /\ merged[f].text = query[q].text
       THEN Answer(q, merged[f].basis)
       ELSE query' = Subscribed(q)
  /\ UNCHANGED <<disk, edits, scanned, gate, storeVars, cacheVars, serverVars, history>>

Current(q) == push[query[q].file].version = query[q].version

\* Mutant: the signal is taken after the look at the caches.
EvaluateFirst(q) ==
  /\ \/ /\ At(q, "evaluate")
        /\ query' = IF Current(q)
                      THEN [query EXCEPT ![q].pc = "store", ![q].basis = push[query[q].file].basis]
                      ELSE [query EXCEPT ![q].pc = "looked"]
     \/ /\ At(q, "looked")
        /\ query' = [query EXCEPT ![q].pc = "asleep", ![q].woken = FALSE]
  /\ UNCHANGED <<disk, edits, scanned, gate, storeVars, cacheVars, serverVars, history>>

Evaluate(q) ==
  /\ At(q, "evaluate")
  /\ query' = IF Current(q)
                THEN [query EXCEPT ![q].pc = "store", ![q].basis = push[query[q].file].basis]
                ELSE [query EXCEPT ![q].pc = "asleep"]
  /\ UNCHANGED <<disk, edits, scanned, gate, storeVars, cacheVars, serverVars, history>>

Store(q) ==
  /\ At(q, "store")
  /\ merged' = [merged EXCEPT ![query[q].file] =
       [version |-> query[q].version, text |-> query[q].text, basis |-> query[q].basis]]
  /\ Answer(q, query[q].basis)
  /\ UNCHANGED <<disk, edits, scanned, gate, storeVars, push, serverVars, history>>

Wake(q) ==
  /\ At(q, "asleep")
  /\ query[q].woken
  /\ query' = Subscribed(q)
  /\ UNCHANGED <<disk, edits, scanned, gate, storeVars, cacheVars, serverVars, history>>

(***************************************************************************)
(* The specification.                                                      *)
(***************************************************************************)

Next ==
  \/ \E f \in Files : Edit(f) \/ Remove(f) \/ Load(f) \/ Publish(f)
  \/ Accept
  \/ \E q \in Queries :
       \/ \E f \in Files : Ask(q, f) \/ Tell(q, f)
       \/ Scan(q) \/ Mark(q) \/ MarkDocs(q) \/ Notify(q) \/ Cancel(q)
       \/ Read(q) \/ SyncTarget(q) \/ Reuse(q) \/ Evaluate(q)
       \/ Store(q) \/ Wake(q)

Spec == Init /\ [][Next]_vars

(***************************************************************************)
(* Properties.                                                             *)
(***************************************************************************)

\* Confirmed diagnostics were computed from the very text the query read and,
\* when the query itself sent a new version of it, from everything its scan had
\* seen.  What voids this is set apart.  A document dropped from the store starts
\* again at version 1 (`reopened`).  The server is `behind` on a file when a cancelled
\* query did not send the text it stored or close the document it dropped, when the
\* text a query read was outdated as it was sent, when the handler could not read an
\* open file that the barrier had left to it, and when the file changed between the
\* server's own reading and the first scan.  And a barrier leaves the document of its
\* query to a handler that others overtake (`beside`).
Covers(basis, scan, fs) == \A f \in fs : basis[f] >= scan[f].at
FreshFitsItsVersion ==
  \A q \in Queries :
    At(q, "answered") /\ query[q].file \notin reopened =>
      /\ query[q].basis[query[q].file] = query[q].text
      /\ query[q].changed =>
           Covers(query[q].basis, query[q].scan, Files \ (behind \cup query[q].beside))

\* A publication between the look at the caches and the wait is not missed.
NoLostWakeup ==
  \A q \in Queries : At(q, "asleep") /\ ~query[q].woken => ~Current(q)

\* Confirmed diagnostics cover every change the query's scan has seen
\* (disk.go: "late publications bearing the old target version cannot pass as fresh").
FreshIsCurrent ==
  \A q \in Queries :
    At(q, "answered") /\ query[q].file \notin reopened =>
      Covers(query[q].basis, query[q].scan, Files \ behind)

\* The server has the text the store says it was sent (sync.go: "version is the
\* last version sent on the wire").
ServerHasText ==
  \A f \in Files : Open(f) => overlay[f].text = docs[f].text

\* What the server reads by itself is no older than the last scan it was told of
\* (doc/lsp.md: "File size and modification time changes, additions and removals are
\* sent as disk notifications").
ReadIsCurrent ==
  scanned # <<>> => \A f \in Files : overlay[f] = NoText => cached[f] >= scanned[f].at

\* An open document has what the last scan saw, unless its handler is still on the way
\* (doc/lsp.md: "open changed dependencies are also refreshed as document overlays").
OpenIsRefreshed ==
  scanned # <<>> =>
    \A f \in Files :
      Open(f) /\ (\A q \in Queries : query[q].file = f => query[q].pc \notin {"read", "sync"}) =>
        docs[f].text >= scanned[f].at

\* A version is never used twice for a document (sync.go: "it only advances,
\* never repeats, within the generation").
VersionsNeverRepeat == reopened = {}
=============================================================================
