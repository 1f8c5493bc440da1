----------------------------- MODULE EditLedger -----------------------------
(***************************************************************************)
(* The ledger of editable reads (src/internal/tools/editledger) with the   *)
(* read, write and edit tools that use it (src/internal/tools/writetool,   *)
(* readtool), on top of the file protocol of AtomicFile.                   *)
(*                                                                         *)
(* An agent is a writer of AtomicFile that runs one tool at a time and     *)
(* owns a ledger; other writers and outsiders move the file under it.  The *)
(* language model calling the tools is free to quote any tag and lines.  A *)
(* grant is the set of lines one tool result printed.                      *)
(***************************************************************************)
EXTENDS AtomicFile, SequencesExt

CONSTANTS
  Agents,         \* writers whose ledger is modelled
  Lines,          \* lines an edit can name
  Tag,            \* the short tag a revision is shown by
  MaxTracked,     \* maxTrackedSnapshots
  MaxGrants       \* maxGrantsPerSnapshot

ASSUME EditLedgerAssumption ==
  /\ Agents \subseteq Writers
  /\ DOMAIN Tag = {Revision[n] : n \in 0..MaxWrites}
  /\ {MaxTracked, MaxGrants} \subseteq Nat \ {0}

VARIABLES
  ledger,   \* each agent's ledger
  call,     \* the write or edit each agent has under way
  printed   \* the anchors each agent was shown since a tool of it last landed

toolVars == <<ledger, call, printed>>
allVars == <<vars, toolVars>>

Snapshot(p, n) == [path |-> p, rev |-> Revision[n]]

Empty == [grants |-> << >>, older |-> {}]
NoCall == [tool |-> "none"]
NoPrint == [anchors |-> << >>, last |-> "none"]

Newest(q, n) == SubSeq(q, IF Len(q) > n THEN Len(q) - n + 1 ELSE 1, Len(q))
Live(L) == DOMAIN L.grants

-----------------------------------------------------------------------------
(* The ledger's own operations, all under its lock.  Why a dead snapshot   *)
(* died only words a refusal, and is left out.                             *)

\* The snapshots retired, superseded, consumed or evicted: forget of each.
Forget(L, snaps) ==
  LET rest == Live(L) \ snaps
  IN [grants |-> Restrict(L.grants, rest), older |-> L.older \cap (rest \X rest)]

\* The order of arrival is the relation "came before": who came before all others?
Oldest(L) == {s \in Live(L) : \A t \in Live(L) \ {s} : <<s, t>> \in L.older}

\* A snapshot is tracked in order of arrival; the oldest makes room for it.
Track(L, s) ==
  LET full == [grants |-> [t \in Live(L) \cup {s} |-> IF t = s THEN <<>> ELSE L.grants[t]],
               older |-> L.older \cup (Live(L) \X {s})]
  IN IF s \in Live(L) THEN L
     ELSE Forget(full, IF Cardinality(Live(full)) > MaxTracked THEN Oldest(full) ELSE {})

\* Any other live snapshot of the path that shows the same tag goes.
Admit(L, s) ==
  Track(Forget(L, {c \in Live(L) : c.path = s.path /\ c.rev # s.rev /\ Tag[c.rev] = Tag[s.rev]}), s)

SetGrants(L, s, grants) == [L EXCEPT !.grants[s] = Newest(grants, MaxGrants)]

Authorize(L, s, grant) ==
  LET a == Admit(L, s) IN SetGrants(a, s, Append(a.grants[s], grant))

OfPath(L, p) == {s \in Live(L) : s.path = p}

\* The write tool's result: no earlier observation describes the file.
Supersede(L, s, grant) == Authorize(Forget(L, OfPath(L, s.path)), s, grant)

\* The live snapshots an edit quoting this tag may mean.
Quoted(L, p, tag) == {s \in OfPath(L, p) : Tag[s.rev] = tag}

\* One and the same read must have shown every line the edit names.
Covered(L, s, lines) == \E i \in DOMAIN L.grants[s] : lines \subseteq L.grants[s][i]

\* Claim takes every snapshot of the path.
Claimed(L, p) == Forget(L, OfPath(L, p))
Removed(L, p) == Restrict(L.grants, OfPath(L, p))

\* Mutant of Release: what a failed edit had claimed stays dead.
ReleaseNothing(L, removed, order) == L

GiveBack(L, s, grants) == LET a == Admit(L, s) IN SetGrants(a, s, grants \o a.grants[s])

\* They come back one by one, in the order a Go map yields them.
Release(L, removed, order) ==
  LET after[i \in 0..Len(order)] ==
        IF i = 0 THEN L ELSE GiveBack(after[i - 1], order[i], removed[order[i]])
  IN after[Len(order)]

-----------------------------------------------------------------------------
(* The tools. *)

InitTools ==
  /\ Init
  /\ ledger = [w \in Agents |-> Empty]
  /\ call = [w \in Agents |-> NoCall]
  /\ printed = [w \in Agents |-> NoPrint]

Free(w) == call[w] = NoCall /\ writer[w].stage = "idle"

\* Anchors of a path replace those shown of it before.
Shows(pr, s, grant) ==
  LET paths == DOMAIN pr.anchors \cup {s.path}
  IN [anchors |-> [p \in paths |-> IF p = s.path THEN [snap |-> s, grant |-> grant] ELSE pr.anchors[p]],
      last |-> s.path]

Silent(w) == printed' = printed

\* read with mode "edit": the anchors printed are authorized.  A grep is one such
\* step for each file it prints: it reads them all and authorizes them one by one,
\* while the agent runs nothing else that touches its ledger.
Read(w, p, grant) ==
  LET s == Snapshot(p, file[p])
  IN /\ Free(w)
     /\ ledger' = [ledger EXCEPT ![w] = Authorize(@, s, grant)]
     /\ printed' = [printed EXCEPT ![w] = Shows(@, s, grant)]
     /\ UNCHANGED <<vars, call>>

\* Mutant of StillCurrent: the tag is all that is compared.
StillTagged(s, p) == Tag[s.rev] = Tag[Revision[file[p]]]

\* staleRevision: the claimed revision is compared, not its tag.
StillCurrent(s, p) == s.rev = Revision[file[p]]

EditOf(L, s, p) == [tool |-> "edit", path |-> p, snap |-> s, wrote |-> 0, removed |-> Removed(L, p)]

\* An edit whose claim is granted and whose file is the one that was read
\* goes on to the guarded replacement.  (A refused claim leaves everything as
\* it was and is not a step.)
Edit(w, p, tag, lines) ==
  /\ Free(w)
  /\ \E s \in Quoted(ledger[w], p, tag) :
       /\ Covered(ledger[w], s, lines)
       /\ StillCurrent(s, p)
       /\ ledger' = [ledger EXCEPT ![w] = Claimed(@, p)]
       /\ call' = [call EXCEPT ![w] = EditOf(ledger[w], s, p)]
       /\ Silent(w)
       /\ Begin(w, p, TRUE)

\* One that was claimed and gives up before it stages anything: the file
\* cannot be read, is not the revision claimed, or the edits do not apply.
EditGivesUp(w, p, tag, lines) ==
  /\ Free(w)
  /\ \E s \in Quoted(ledger[w], p, tag) : Covered(ledger[w], s, lines)
  /\ \E order \in SetToSeqs(OfPath(ledger[w], p)) :
       ledger' = [ledger EXCEPT ![w] = Release(Claimed(@, p), Removed(@, p), order)]
  /\ UNCHANGED <<vars, call, printed>>

\* The write tool replaces a file it need not have read.
WriteFile(w, p) ==
  /\ Free(w)
  /\ call' = [call EXCEPT ![w] = [tool |-> "write", path |-> p, wrote |-> 0]]
  /\ UNCHANGED <<ledger, printed>>
  /\ Begin(w, p, FALSE)

\* What AtomicFile does for the call, up to its return.
Inner(w) ==
  /\ Join(w) \/ Acquire(w) \/ Approve(w) \/ Refuse(w) \/ RenameFails(w) \/ Unlock(w)
  /\ UNCHANGED toolVars

Renamed(w) ==
  /\ RenameFile(w)
  /\ call' = [call EXCEPT ![w].wrote = stamp']
  /\ UNCHANGED <<ledger, printed>>

Returns(w) == (Drop(w) \/ StageFails(w)) /\ call' = [call EXCEPT ![w] = NoCall]

\* A failed edit hands its claim back, a failed write has none.
Fails(w) ==
  /\ call[w] # NoCall /\ call[w].wrote = 0
  /\ \/ /\ call[w].tool = "edit"
        /\ \E order \in SetToSeqs(DOMAIN call[w].removed) :
             ledger' = [ledger EXCEPT ![w] = Release(@, call[w].removed, order)]
     \/ call[w].tool = "write" /\ UNCHANGED ledger
  /\ Silent(w)
  /\ Returns(w)

\* A landed edit or write prints anchors of what it wrote and authorizes them.
Lands(w, grant) ==
  LET p == call[w].path
      s == Snapshot(p, call[w].wrote)
  IN /\ call[w] # NoCall /\ call[w].wrote # 0
     /\ \/ /\ call[w].tool = "edit"
           /\ ledger' = [ledger EXCEPT ![w] = Authorize(@, s, grant)]
        \/ /\ call[w].tool = "write"
           /\ ledger' = [ledger EXCEPT ![w] = Supersede(@, s, grant)]
     /\ printed' = [printed EXCEPT ![w] = Shows(NoPrint, s, grant)]
     /\ Returns(w)

\* The agent's tools are rebuilt for a new session: a fresh ledger.
RebuildTools(w) ==
  /\ Free(w)
  /\ ledger' = [ledger EXCEPT ![w] = Empty]
  /\ printed' = [printed EXCEPT ![w] = NoPrint]
  /\ UNCHANGED <<vars, call>>

ToolStep(w) ==
  \/ \E p \in Paths, grant \in SUBSET Lines : Read(w, p, grant)
  \/ \E p \in Paths, tag \in {Tag[r] : r \in DOMAIN Tag}, lines \in SUBSET Lines \ {{}} :
       Edit(w, p, tag, lines) \/ EditGivesUp(w, p, tag, lines)
  \/ \E p \in Paths : WriteFile(w, p)
  \/ \E grant \in SUBSET Lines : Lands(w, grant)
  \/ Inner(w) \/ Renamed(w) \/ Fails(w) \/ RebuildTools(w)

Outside(p) == WriteOutside(p) /\ UNCHANGED toolVars

\* A writer of another session, or one without a ledger.
Other(w) == WriterStep(w) /\ UNCHANGED toolVars

NextTools ==
  \/ \E w \in Agents : ToolStep(w)
  \/ \E w \in Writers \ Agents : Other(w)
  \/ \E p \in Paths : Outside(p)

SpecTools == InitTools /\ [][NextTools]_allVars

-----------------------------------------------------------------------------
\* An edit replaces the very revision its anchors were read from, not one that
\* merely shows the same tag: "a same-tag replacement of the file between the
\* read and the edit cannot pass as the read revision" (ledger.go:195).  What
\* slips in between the last check and the rename comes from outside.
EditsMatchTheirRead ==
  \A w \in Agents \cap At({"renaming"}) : call[w].tool = "edit" =>
    LET now == file[call[w].path]
    IN call[w].snap.rev = Revision[now] \/ now \in foreign \cap window

Authorizes(L, shown) == shown.snap \in Live(L) /\ Covered(L, shown.snap, shown.grant)

\* The anchors an agent has in its conversation authorize an edit as long as no tool
\* of it lands and however many edits it fails in between: those shown last always
\* do, and those of another file do unless a full ledger may have made room.
PrintedAuthorizes ==
  \A w \in Agents : Free(w) => \A p \in DOMAIN printed[w].anchors :
    \/ Authorizes(ledger[w], printed[w].anchors[p])
    \/ p # printed[w].last /\ Cardinality(Live(ledger[w])) = MaxTracked

\* "A printed grant is always a real one" (write.go:106), of every file shown: false
\* of the code.  Tracking a snapshot again does not make it younger, so a result
\* that names more files than the ledger has room for, one of them the oldest it
\* tracks, loses that one before it is shown (grep.go:543, ledger.go:443).
AllPrintedAuthorize ==
  \A w \in Agents : Free(w) =>
    \A p \in DOMAIN printed[w].anchors : Authorizes(ledger[w], printed[w].anchors[p])
=============================================================================
