----------------------------- MODULE AtomicFile -----------------------------
(***************************************************************************)
(* Replacing a file (src/internal/atomicfile): every writer of the process *)
(* stages its bytes, takes the lock of its path, checks, and renames.  The *)
(* lock of a path is an entry of a registry that exists while somebody     *)
(* holds or awaits it: entries are created, shared, counted and dropped.   *)
(*                                                                         *)
(* What a write leaves in a file is the number of the write; Revision says *)
(* which of them hold the same bytes (util.RevisionOf), and is all a       *)
(* reader can tell apart.  A lock entry is its number in order of          *)
(* creation.  Paths are lock keys: two spellings of one path meet on one   *)
(* (lockKey), two aliases of a file through directory links are two paths. *)
(***************************************************************************)
EXTENDS Naturals, FiniteSets

CONSTANTS
  Writers,      \* goroutines that write through the package
  Paths,        \* lock keys
  MaxWrites,    \* bound: contents written
  Revision,     \* the revision of what each write leaves
  MaxEntries    \* bound: lock entries created

ASSUME AtomicFileAssumption ==
  /\ IsFiniteSet(Writers)
  /\ MaxWrites \in Nat
  /\ DOMAIN Revision = 0..MaxWrites
  /\ MaxEntries \in Nat

VARIABLES
  writer,    \* where each writer stands
  registry,  \* writeLocks.entries, 0 where there is none
  refs,      \* lockEntry.refs, of every entry there ever was
  created,   \* entries created so far
  file,      \* what each path holds
  stamp,     \* contents written so far, by anyone
  foreign,   \* those written past the package
  window,    \* those of them written between some writer's last read and its rename
  lost       \* contents replaced by a guarded writer that had not seen them

locks == <<registry, refs, created>>
files == <<file, stamp, foreign, window, lost>>
vars == <<writer, locks, files>>

Entries == 1..MaxEntries

\* Where a writer stands in write(); "waiting" to "dropping" count in refs,
\* "checking" to "unlocking" hold the entry's mutex.
Counted == {"waiting", "checking", "renaming", "unlocking", "dropping"}
Inside == {"checking", "renaming", "unlocking"}
Stages == {"idle", "staging"} \cup Counted

Idle == [stage |-> "idle"]
Writing(p, guarded) ==
  [stage |-> "staging", path |-> p, guarded |-> guarded, base |-> file[p], entry |-> 0]

Same(a, b) == Revision[a] = Revision[b]

At(stages) == {w \in Writers : writer[w].stage \in stages}

Init ==
  /\ writer = [w \in Writers |-> Idle]
  /\ registry = [p \in Paths |-> 0]
  /\ refs = [e \in Entries |-> 0]
  /\ created = 0
  /\ file = [p \in Paths |-> 0]
  /\ stamp = 0
  /\ foreign = {}
  /\ window = {}
  /\ lost = {}

\* A caller reads the file and asks for a replacement, guarded by Verify (an
\* edit) or not (a whole-file write).
Begin(w, p, guarded) ==
  /\ writer[w].stage = "idle"
  /\ writer' = [writer EXCEPT ![w] = Writing(p, guarded)]
  /\ UNCHANGED <<locks, files>>

\* The first Guard refuses, or staging fails: nothing was touched.
StageFails(w) ==
  /\ writer[w].stage = "staging"
  /\ writer' = [writer EXCEPT ![w] = Idle]
  /\ UNCHANGED <<locks, files>>

\* lockPath under writeLocks.mu: join the path's entry, or create it.
Join(w) ==
  LET p == writer[w].path
      e == IF registry[p] = 0 THEN created + 1 ELSE registry[p]
  IN /\ writer[w].stage = "staging"
     /\ e \in Entries
     /\ registry' = [registry EXCEPT ![p] = e]
     /\ created' = IF registry[p] = 0 THEN e ELSE created
     /\ refs' = [refs EXCEPT ![e] = @ + 1]
     /\ writer' = [writer EXCEPT ![w].stage = "waiting", ![w].entry = e]
     /\ UNCHANGED files

\* Mutant: the mutex is taken for reading.
AcquireShared(w) ==
  /\ writer[w].stage = "waiting"
  /\ writer' = [writer EXCEPT ![w].stage = "checking"]
  /\ UNCHANGED <<locks, files>>

\* entry.mu.Lock: whoever else is inside an entry holds its mutex.
Acquire(w) ==
  /\ writer[w].stage = "waiting"
  /\ \A v \in At(Inside) : writer[v].entry # writer[w].entry
  /\ writer' = [writer EXCEPT ![w].stage = "checking"]
  /\ UNCHANGED <<locks, files>>

\* The leaf, the directory and the second Guard are checked again, then Verify
\* judges what the file holds now; a writer that fails either gives up.
Approve(w) ==
  /\ writer[w].stage = "checking"
  /\ writer[w].guarded => Same(file[writer[w].path], writer[w].base)
  /\ writer' = [writer EXCEPT ![w].stage = "renaming"]
  /\ UNCHANGED <<locks, files>>

Refuse(w) ==
  /\ writer[w].stage = "checking"
  /\ writer' = [writer EXCEPT ![w].stage = "unlocking"]
  /\ UNCHANGED <<locks, files>>

RenameFile(w) ==
  LET p == writer[w].path
  IN /\ writer[w].stage = "renaming"
     /\ stamp < MaxWrites
     /\ stamp' = stamp + 1
     /\ file' = [file EXCEPT ![p] = stamp + 1]
     /\ lost' = IF writer[w].guarded /\ ~Same(file[p], writer[w].base) THEN lost \cup {file[p]} ELSE lost
     /\ writer' = [writer EXCEPT ![w].stage = "unlocking"]
     /\ UNCHANGED <<locks, foreign, window>>

RenameFails(w) ==
  /\ writer[w].stage = "renaming"
  /\ writer' = [writer EXCEPT ![w].stage = "unlocking"]
  /\ UNCHANGED <<locks, files>>

\* release: entry.mu.Unlock ...
Unlock(w) ==
  /\ writer[w].stage = "unlocking"
  /\ writer' = [writer EXCEPT ![w].stage = "dropping"]
  /\ UNCHANGED <<locks, files>>

\* Mutant: the entry goes with whoever leaves first.
DropAlways(w) ==
  LET e == writer[w].entry
  IN /\ writer[w].stage = "dropping"
     /\ refs' = [refs EXCEPT ![e] = @ - 1]
     /\ registry' = [registry EXCEPT ![writer[w].path] = 0]
     /\ writer' = [writer EXCEPT ![w] = Idle]
     /\ UNCHANGED <<created, files>>

\* Mutant: the count is tested before it is lowered.
DropLeaks(w) ==
  LET e == writer[w].entry
  IN /\ writer[w].stage = "dropping"
     /\ refs' = [refs EXCEPT ![e] = @ - 1]
     /\ registry' = IF refs[e] = 0 THEN [registry EXCEPT ![writer[w].path] = 0] ELSE registry
     /\ writer' = [writer EXCEPT ![w] = Idle]
     /\ UNCHANGED <<created, files>>

\* ... then, under writeLocks.mu, the entry loses a user, and goes with the last.
Drop(w) ==
  LET e == writer[w].entry
  IN /\ writer[w].stage = "dropping"
     /\ refs' = [refs EXCEPT ![e] = @ - 1]
     /\ registry' = IF refs[e] = 1 THEN [registry EXCEPT ![writer[w].path] = 0] ELSE registry
     /\ writer' = [writer EXCEPT ![w] = Idle]
     /\ UNCHANGED <<created, files>>

\* An editor, another process or an alias of the path: it knows no lock.
WriteOutside(p) ==
  /\ stamp < MaxWrites
  /\ stamp' = stamp + 1
  /\ file' = [file EXCEPT ![p] = stamp + 1]
  /\ foreign' = foreign \cup {stamp + 1}
  /\ window' = IF \E w \in At({"renaming"}) : writer[w].path = p
               THEN window \cup {stamp + 1} ELSE window
  /\ UNCHANGED <<writer, locks, lost>>

WriterStep(w) ==
  \/ \E p \in Paths, guarded \in BOOLEAN : Begin(w, p, guarded)
  \/ StageFails(w) \/ Join(w) \/ Acquire(w) \/ Approve(w) \/ Refuse(w)
  \/ RenameFile(w) \/ RenameFails(w) \/ Unlock(w) \/ Drop(w)

Next ==
  \/ \E w \in Writers : WriterStep(w)
  \/ \E p \in Paths : WriteOutside(p)

Spec == Init /\ [][Next]_vars

-----------------------------------------------------------------------------
WriterRecord ==
  [stage : {"idle"}]
  \cup [stage : Stages \ {"idle"}, path : Paths, guarded : BOOLEAN, base : Nat,
        entry : {0} \cup Entries]

TypeOK ==
  /\ writer \in [Writers -> WriterRecord]
  /\ registry \in [Paths -> {0} \cup Entries]
  /\ refs \in [Entries -> Nat]
  /\ created \in {0} \cup Entries
  /\ file \in [Paths -> Nat]
  /\ stamp \in Nat
  /\ foreign \subseteq Nat /\ window \subseteq Nat /\ lost \subseteq Nat

\* "No cooperating writer can slip between a check and the swap it authorizes"
\* (pathlock.go:31): one writer at a time is past the lock of a path, though
\* entries are dropped and created anew while others come and go.
OneWriterPerPath ==
  \A v, w \in At(Inside) : writer[v].path = writer[w].path => v = w

\* A guarded read-modify-write "cannot lose a cooperating writer's update"
\* (atomicfile.go:30); what it does lose came from outside and landed in "the
\* residual window — the two syscalls between that read and the rename"
\* (atomicfile.go:38).
NoUpdateLost == lost \subseteq foreign \cap window

\* The registry holds exactly the paths that somebody holds or awaits, "and
\* never grows with the paths a session touches" (pathlock.go:9).
RegistryFollowsUse ==
  \A p \in Paths : registry[p] # 0 <=> \E w \in At(Counted) : writer[w].path = p

=============================================================================
