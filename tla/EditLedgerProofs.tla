-------------------------- MODULE EditLedgerProofs --------------------------
(***************************************************************************)
(* Proofs about AtomicFile and about EditLedger on top of it, for any      *)
(* finite set of writers, any paths, agents, ledgers and limits.           *)
(*                                                                         *)
(* That a path's lock excludes rests on the registry being exact: all who  *)
(* count on a path share the one entry the registry has for it, and the    *)
(* entry's reference count is how many they are.  The tools only ever move *)
(* the files by AtomicFile's own steps, so what is proved of AtomicFile    *)
(* holds under them; and a call's claim stays tied to what its writer read *)
(* until the rename.  A ledger with what a call took from it is as it was  *)
(* before the call, so what was printed stays good when the call fails.    *)
(***************************************************************************)
EXTENDS EditLedger, FiniteSetTheorems, SequenceTheorems, NaturalsInduction, TLAPS

(***************************************************************************)
(* The file protocol.                                                      *)
(***************************************************************************)

Users(e) == {w \in At(Counted) : writer[w].entry = e}

Counts == \A e \in Entries : refs[e] = Cardinality(Users(e))

Shared ==
  \A w \in At(Counted) :
    writer[w].entry \in Entries /\ registry[writer[w].path] = writer[w].entry

Distinct ==
  /\ \A p, q \in Paths : registry[p] = registry[q] /\ registry[p] # 0 => p = q
  /\ \A p \in Paths : registry[p] <= created

InUse == \A p \in Paths : registry[p] # 0 => \E w \in At(Counted) : writer[w].path = p

Registered == Counts /\ Shared /\ Distinct /\ InUse

Exclusive == \A v, w \in At(Inside) : writer[v].entry = writer[w].entry => v = w

\* What a guarded writer is about to replace it has seen, or came from outside
\* after its last look.
Approved ==
  \A w \in At({"renaming"}) : writer[w].guarded =>
    Same(file[writer[w].path], writer[w].base) \/ file[writer[w].path] \in foreign \cap window

IInv == TypeOK /\ Registered /\ Exclusive /\ Approved /\ lost \subseteq foreign \cap window

-----------------------------------------------------------------------------

LEMMA UsersFinite == \A e : IsFiniteSet(Users(e)) /\ Cardinality(Users(e)) \in Nat
<1> TAKE e
<1>1. Users(e) \subseteq Writers
  BY DEF Users, At
<1> QED
  BY <1>1, AtomicFileAssumption, FS_Subset, FS_CardinalityType

\* A writer past staging is a full record.
LEMMA Record ==
  ASSUME TypeOK, NEW w \in Writers, writer[w].stage # "idle"
  PROVE  writer[w] \in [stage : Stages \ {"idle"}, path : Paths, guarded : BOOLEAN,
                        base : Nat, entry : {0} \cup Entries]
BY DEF TypeOK, WriterRecord

\* A step that moves a counted writer to another counted stage leaves the
\* registry exact.
LEMMA Moves ==
  ASSUME TypeOK, Registered, NEW w \in Writers, NEW s \in Counted,
         writer[w].stage \in Counted,
         writer' = [writer EXCEPT ![w].stage = s],
         UNCHANGED locks
  PROVE  /\ writer' \in [Writers -> WriterRecord]
         /\ Registered'
         /\ \A v \in Writers \ {w} : writer'[v] = writer[v]
         /\ writer'[w].stage = s
         /\ writer'[w].path = writer[w].path /\ writer'[w].entry = writer[w].entry
         /\ writer'[w].guarded = writer[w].guarded /\ writer'[w].base = writer[w].base
<1>1. writer[w] \in [stage : Stages \ {"idle"}, path : Paths, guarded : BOOLEAN,
                     base : Nat, entry : {0} \cup Entries]
  BY Record DEF Counted
<1>2. writer \in [Writers -> WriterRecord]
  BY DEF TypeOK
<1>3. [writer[w] EXCEPT !.stage = s] \in WriterRecord
  BY <1>1 DEF WriterRecord, Stages, Counted
<1>4. /\ writer' \in [Writers -> WriterRecord]
      /\ \A v \in Writers \ {w} : writer'[v] = writer[v]
      /\ writer'[w] = [writer[w] EXCEPT !.stage = s]
  BY <1>2, <1>3
<1>5. /\ writer'[w].stage = s
      /\ writer'[w].path = writer[w].path /\ writer'[w].entry = writer[w].entry
      /\ writer'[w].guarded = writer[w].guarded /\ writer'[w].base = writer[w].base
  BY <1>1, <1>4
<1>6. At(Counted)' = At(Counted)
  BY <1>4, <1>5 DEF At
<1>7. \A e : Users(e)' = Users(e)
  BY <1>4, <1>5, <1>6 DEF Users, At
<1>8. Registered'
  <2>1. Counts'
    BY <1>7 DEF Registered, Counts, locks
  <2>2. Shared'
    BY <1>4, <1>5, <1>6 DEF Registered, Shared, locks, At
  <2>3. Distinct'
    BY DEF Registered, Distinct, locks
  <2>4. InUse'
    BY <1>4, <1>5, <1>6 DEF Registered, InUse, locks, At
  <2> QED
    BY <2>1, <2>2, <2>3, <2>4 DEF Registered
<1> QED
  BY <1>4, <1>5, <1>8

\* A step of a writer that is not counted before or after does not touch the
\* registry either.
LEMMA Idles ==
  ASSUME TypeOK, Registered, Exclusive, NEW w \in Writers, NEW r \in WriterRecord,
         writer[w].stage \notin Counted, r.stage \notin Counted,
         writer' = [writer EXCEPT ![w] = r],
         UNCHANGED <<locks, file, foreign, window>>, Approved
  PROVE  writer' \in [Writers -> WriterRecord] /\ Registered' /\ Exclusive' /\ Approved'
<1>1. writer \in [Writers -> WriterRecord]
  BY DEF TypeOK
<1>2. /\ writer' \in [Writers -> WriterRecord]
      /\ \A v \in Writers \ {w} : writer'[v] = writer[v]
      /\ writer'[w] = r
  BY <1>1
<1>3. At(Counted)' = At(Counted) /\ At(Inside)' = At(Inside) /\ At({"renaming"})' = At({"renaming"})
      /\ w \notin At(Counted) /\ w \notin At(Inside) /\ w \notin At({"renaming"})
  BY <1>2 DEF At, Counted, Inside
<1>4. \A e : Users(e)' = Users(e)
  BY <1>2, <1>3 DEF Users, At
<1>5. Registered'
  BY <1>2, <1>3, <1>4 DEF Registered, Counts, Shared, Distinct, InUse, locks, At
<1>6. Exclusive'
  BY <1>2, <1>3 DEF Exclusive, At
<1>7. Approved'
  BY <1>2, <1>3 DEF Approved, At
<1> QED
  BY <1>2, <1>5, <1>6, <1>7

\* The stage changes of writers inside keep each other out.
LEMMA StaysExclusive ==
  ASSUME TypeOK, Exclusive, NEW w \in Writers, NEW s \in Counted,
         writer[w].stage \in Inside \/ s \notin Inside,
         \A v \in Writers \ {w} : writer'[v] = writer[v],
         writer'[w].stage = s, writer'[w].entry = writer[w].entry
  PROVE  Exclusive'
<1>1. \A v \in At(Inside)' : v \in At(Inside) /\ writer'[v].entry = writer[v].entry
  BY DEF At
<1> QED
  BY <1>1 DEF Exclusive

\* Two writers inside are on different paths.
LEMMA OnePath ==
  ASSUME Shared, Exclusive PROVE OneWriterPerPath
<1>1. At(Inside) \subseteq At(Counted)
  BY DEF At, Inside, Counted
<1> QED
  BY <1>1 DEF OneWriterPerPath, Shared, Exclusive

-----------------------------------------------------------------------------

LEMMA InitIInv == Init => IInv
<1> SUFFICES ASSUME Init PROVE IInv
  OBVIOUS
<1>1. \A w \in Writers : writer[w] = Idle
  BY DEF Init
<1>2. \A S \in {Counted, Inside, {"renaming"}} : At(S) = {}
  BY <1>1 DEF At, Idle, Counted, Inside
<1>3. TypeOK
  BY AtomicFileAssumption DEF Init, TypeOK, WriterRecord, Idle, Entries
<1>4. Counts
  <2>1. \A e \in Entries : Users(e) = {}
    BY <1>2 DEF Users
  <2> QED
    BY <2>1, FS_EmptySet DEF Counts, Init
<1>5. Shared /\ Exclusive /\ Approved
  BY <1>2 DEF Shared, Exclusive, Approved
<1>6. Distinct /\ InUse
  BY DEF Distinct, InUse, Init
<1>7. lost \subseteq foreign \cap window
  BY DEF Init
<1> QED
  BY <1>3, <1>4, <1>5, <1>6, <1>7 DEF IInv, Registered

\* Join counts the writer on the path's entry, old or new.
LEMMA JoinStep == ASSUME IInv, NEW w \in Writers, Join(w) PROVE IInv'
<1> DEFINE p == writer[w].path
<1>1. /\ writer[w] \in [stage : Stages \ {"idle"}, path : Paths, guarded : BOOLEAN,
                        base : Nat, entry : {0} \cup Entries]
      /\ p \in Paths /\ writer[w].stage = "staging"
  BY Record DEF IInv, Join
<1>0. PICK e \in Entries :
        /\ e = IF registry[p] = 0 THEN created + 1 ELSE registry[p]
        /\ registry' = [registry EXCEPT ![p] = e]
        /\ created' = IF registry[p] = 0 THEN e ELSE created
        /\ refs' = [refs EXCEPT ![e] = @ + 1]
        /\ writer' = [writer EXCEPT ![w].stage = "waiting", ![w].entry = e]
        /\ UNCHANGED files
  BY DEF Join
<1> DEFINE r == [[writer[w] EXCEPT !.stage = "waiting"] EXCEPT !.entry = e]
<1>2. /\ created \in Nat /\ e \in Nat /\ e # 0
      /\ \A q \in Paths : registry[q] \in Nat
  <2>1. {0} \cup Entries \subseteq Nat /\ 0 \notin Entries
    BY AtomicFileAssumption DEF Entries
  <2> QED
    BY <2>1 DEF IInv, TypeOK
<1>3. /\ registry' = [registry EXCEPT ![p] = e]
      /\ created' = IF registry[p] = 0 THEN e ELSE created
      /\ refs' = [refs EXCEPT ![e] = @ + 1]
      /\ UNCHANGED files
  BY <1>0
<1>4. writer' = [writer EXCEPT ![w] = r]
  BY <1>0
<1>5. r \in [stage : Stages \ {"idle"}, path : Paths, guarded : BOOLEAN,
             base : Nat, entry : {0} \cup Entries]
      /\ r.stage = "waiting" /\ r.path = p /\ r.entry = e
  BY <1>1, <1>2 DEF Stages, Counted
<1> HIDE DEF r
<1>6. /\ writer' \in [Writers -> WriterRecord]
      /\ writer'[w] = r
      /\ \A v \in Writers \ {w} : writer'[v] = writer[v]
  BY <1>4, <1>5 DEF IInv, TypeOK, WriterRecord
<1>7. TypeOK'
  <2>1. refs' \in [Entries -> Nat]
    BY <1>2, <1>3 DEF IInv, TypeOK
  <2> QED
    BY <1>1, <1>2, <1>3, <1>6, <2>1 DEF IInv, TypeOK, files
<1>8. At(Counted)' = At(Counted) \cup {w} /\ w \notin At(Counted)
      /\ At(Inside)' = At(Inside) /\ w \notin At(Inside)
      /\ At({"renaming"})' = At({"renaming"}) /\ w \notin At({"renaming"})
  BY <1>1, <1>5, <1>6 DEF At, Counted, Inside
<1>9. /\ registry[p] = 0 => \A q \in Paths : registry[q] # e
      /\ registry[p] # 0 => e = registry[p]
  BY <1>0, <1>2 DEF IInv, Registered, Distinct
<1>10. Counts'
  <2>1. Users(e)' = Users(e) \cup {w} /\ w \notin Users(e)
    BY <1>5, <1>6, <1>8 DEF Users, At
  <2>2. \A f \in Entries \ {e} : Users(f)' = Users(f)
    BY <1>5, <1>6, <1>8 DEF Users, At
  <2>3. Cardinality(Users(e)') = Cardinality(Users(e)) + 1
    BY <2>1, UsersFinite, FS_AddElement
  <2> QED
    BY <1>0, <1>3, <2>2, <2>3 DEF Counts, IInv, Registered, TypeOK
<1>11. Shared'
  <2> SUFFICES ASSUME NEW v \in At(Counted)'
               PROVE  writer'[v].entry \in Entries /\ registry'[writer'[v].path] = writer'[v].entry
    BY DEF Shared
  <2>1. CASE v = w
    BY <2>1, <1>1, <1>2, <1>3, <1>5, <1>6 DEF IInv, TypeOK
  <2>2. CASE v # w
    <3>1. v \in At(Counted) /\ v \in Writers /\ writer'[v] = writer[v]
      BY <2>2, <1>6, <1>8 DEF At
    <3>2. writer[v].path \in Paths
      BY <3>1, Record DEF IInv, At, Counted
    <3>3. writer[v].entry \in Entries /\ registry[writer[v].path] = writer[v].entry
      BY <3>1 DEF IInv, Registered, Shared
    <3>4. writer[v].entry # 0
      BY <3>3, AtomicFileAssumption DEF Entries
    <3>5. registry'[writer[v].path] = registry[writer[v].path]
      BY <1>1, <1>3, <1>9, <3>2, <3>3, <3>4 DEF IInv, TypeOK
    <3> QED
      BY <3>1, <3>3, <3>5
  <2> QED
    BY <2>1, <2>2
<1>12. Distinct'
  <2>1. \A q \in Paths : registry'[q] = IF q = p THEN e ELSE registry[q]
    BY <1>1, <1>3 DEF IInv, TypeOK
  <2>2. \A q \in Paths : registry[q] <= created /\ registry[q] = e => q = p
    BY <1>1, <1>2, <1>9 DEF IInv, Registered, Distinct
  <2>3. \A q \in Paths : registry[q] <= created
    BY DEF IInv, Registered, Distinct
  <2>4. \A q \in Paths : registry'[q] <= created'
    BY <1>0, <1>1, <1>2, <1>3, <2>1, <2>3
  <2>5. \A q1, q2 \in Paths : registry'[q1] = registry'[q2] /\ registry'[q1] # 0 => q1 = q2
    BY <2>1, <2>2, <2>3 DEF IInv, Registered, Distinct
  <2> QED
    BY <2>4, <2>5 DEF Distinct
<1>13. InUse'
  <2> SUFFICES ASSUME NEW q \in Paths, registry'[q] # 0
               PROVE  \E v \in At(Counted)' : writer'[v].path = q
    BY DEF InUse
  <2>1. CASE q = p
    BY <2>1, <1>5, <1>6, <1>8
  <2>2. CASE q # p
    <3>1. registry[q] # 0
      BY <2>2, <1>1, <1>3 DEF IInv, TypeOK
    <3>2. PICK v \in At(Counted) : writer[v].path = q
      BY <3>1 DEF IInv, Registered, InUse
    <3>3. v \in At(Counted)' /\ writer'[v] = writer[v]
      BY <1>6, <1>8 DEF At
    <3> QED
      BY <3>2, <3>3
  <2> QED
    BY <2>1, <2>2
<1>14. Exclusive' /\ Approved'
  BY <1>3, <1>6, <1>8 DEF Exclusive, Approved, IInv, At, files
<1>15. (lost \subseteq foreign \cap window)'
  BY <1>3 DEF IInv, files
<1> QED
  BY <1>7, <1>10, <1>11, <1>12, <1>13, <1>14, <1>15 DEF IInv, Registered

\* Drop uncounts the writer; the entry goes exactly when nobody else counts on it.
LEMMA DropStep == ASSUME IInv, NEW w \in Writers, Drop(w) PROVE IInv'
<1> DEFINE p == writer[w].path
<1>0. PICK e : e = writer[w].entry
  OBVIOUS
<1>1. /\ writer[w] \in [stage : Stages \ {"idle"}, path : Paths, guarded : BOOLEAN,
                        base : Nat, entry : {0} \cup Entries]
      /\ p \in Paths /\ writer[w].stage = "dropping" /\ w \in At(Counted)
  BY Record DEF IInv, Drop, At, Counted
<1>2. e \in Entries /\ registry[p] = e /\ e # 0
  BY <1>0, <1>1, AtomicFileAssumption DEF IInv, Registered, Shared, Entries
<1>3. /\ refs' = [refs EXCEPT ![e] = @ - 1]
      /\ registry' = IF refs[e] = 1 THEN [registry EXCEPT ![p] = 0] ELSE registry
      /\ writer' = [writer EXCEPT ![w] = Idle]
      /\ UNCHANGED <<created, files>>
  BY <1>0 DEF Drop
<1>4. /\ writer' \in [Writers -> WriterRecord]
      /\ writer'[w] = Idle
      /\ \A v \in Writers \ {w} : writer'[v] = writer[v]
  BY <1>3 DEF IInv, TypeOK, WriterRecord, Idle
<1>5. /\ At(Counted)' = At(Counted) \ {w}
      /\ At(Inside)' = At(Inside) /\ w \notin At(Inside)
      /\ At({"renaming"})' = At({"renaming"}) /\ w \notin At({"renaming"})
  BY <1>1, <1>4 DEF At, Counted, Inside, Idle
<1>6. w \in Users(e) /\ Users(e)' = Users(e) \ {w}
  BY <1>0, <1>1, <1>4, <1>5 DEF Users, At
<1>7. /\ Cardinality(Users(e)') = Cardinality(Users(e)) - 1
      /\ refs[e] = Cardinality(Users(e)) /\ refs[e] \in Nat
      /\ IsFiniteSet(Users(e)') /\ Cardinality(Users(e)') \in Nat
  <2>1. IsFiniteSet(Users(e)) /\ Cardinality(Users(e)) \in Nat
    BY UsersFinite
  <2>2. /\ IsFiniteSet(Users(e) \ {w})
        /\ Cardinality(Users(e) \ {w}) = Cardinality(Users(e)) - 1
    BY <2>1, <1>6, FS_RemoveElement
  <2>3. Cardinality(Users(e) \ {w}) \in Nat
    BY <2>2, FS_CardinalityType
  <2> QED
    BY <1>2, <1>6, <2>1, <2>2, <2>3 DEF IInv, Registered, Counts
<1>8. refs[e] = 1 <=> Users(e)' = {}
  BY <1>7, FS_EmptySet
<1>9. refs' \in [Entries -> Nat]
  BY <1>2, <1>3, <1>7 DEF IInv, TypeOK
<1>10. TypeOK'
  <2>1. registry' \in [Paths -> {0} \cup Entries]
    BY <1>1, <1>3 DEF IInv, TypeOK
  <2> QED
    BY <1>3, <1>4, <1>9, <2>1 DEF IInv, TypeOK, files
<1>11. Counts'
  <2>1. \A f \in Entries \ {e} : Users(f)' = Users(f)
    BY <1>0, <1>4, <1>5 DEF Users, At
  <2> QED
    BY <1>2, <1>3, <1>7, <2>1 DEF Counts, IInv, Registered, TypeOK
<1>12. Shared'
  <2> SUFFICES ASSUME NEW v \in At(Counted)'
               PROVE  writer'[v].entry \in Entries /\ registry'[writer'[v].path] = writer'[v].entry
    BY DEF Shared
  <2>1. v \in At(Counted) /\ v # w /\ v \in Writers /\ writer'[v] = writer[v]
    BY <1>4, <1>5 DEF At
  <2>2. /\ writer[v].entry \in Entries /\ registry[writer[v].path] = writer[v].entry
        /\ writer[v].path \in Paths
    BY <2>1, Record DEF IInv, Registered, Shared, At, Counted
  <2>3. CASE refs[e] = 1
    <3>1. writer[v].entry # e
      BY <2>1, <2>3, <1>6, <1>8 DEF Users
    <3>2. writer[v].path # p
      BY <3>1, <2>2, <1>2
    <3> QED
      BY <3>2, <2>1, <2>2, <2>3, <1>1, <1>3 DEF IInv, TypeOK
  <2>4. CASE refs[e] # 1
    BY <2>1, <2>2, <2>4, <1>3
  <2> QED
    BY <2>3, <2>4
<1>13. Distinct'
  <2>1. \A q \in Paths : registry'[q] = registry[q] \/ registry'[q] = 0
    BY <1>1, <1>3 DEF IInv, TypeOK
  <2>2. \A q \in Paths : registry'[q] <= created
    <3>1. {0} \cup Entries \subseteq Nat
      BY AtomicFileAssumption DEF Entries
    <3> QED
      BY <2>1, <3>1, <1>3 DEF IInv, Registered, Distinct, TypeOK
  <2> QED
    BY <2>1, <2>2, <1>3 DEF IInv, Registered, Distinct
<1>14. InUse'
  <2> SUFFICES ASSUME NEW q \in Paths, registry'[q] # 0
               PROVE  \E v \in At(Counted)' : writer'[v].path = q
    BY DEF InUse
  <2>1. registry[q] = registry'[q] /\ registry[q] # 0
    BY <1>1, <1>3 DEF IInv, TypeOK
  <2>2. CASE q = p
    <3>1. refs[e] # 1
      BY <2>2, <1>1, <1>3 DEF IInv, TypeOK
    <3>2. PICK v \in Users(e)' : TRUE
      BY <3>1, <1>8
    <3>3. v \in At(Counted) /\ v \in At(Counted)' /\ writer[v].entry = e /\ writer'[v] = writer[v]
          /\ writer[v].path \in Paths
      BY <3>2, <1>4, <1>5, <1>6, Record DEF Users, At, IInv, Counted
    <3>4. registry[writer[v].path] = registry[p]
      BY <3>3, <1>2 DEF IInv, Registered, Shared
    <3>5. writer[v].path = q
      BY <3>3, <3>4, <2>1, <2>2 DEF IInv, Registered, Distinct
    <3> QED
      BY <3>3, <3>5
  <2>3. CASE q # p
    <3>1. PICK v \in At(Counted) : writer[v].path = q
      BY <2>1 DEF IInv, Registered, InUse
    <3>2. v \in At(Counted)' /\ writer'[v] = writer[v]
      BY <3>1, <2>3, <1>4, <1>5 DEF At
    <3> QED
      BY <3>1, <3>2
  <2> QED
    BY <2>2, <2>3
<1>15. Exclusive' /\ Approved'
  BY <1>3, <1>4, <1>5 DEF Exclusive, Approved, IInv, At, files
<1>16. (lost \subseteq foreign \cap window)'
  BY <1>3 DEF IInv, files
<1> QED
  BY <1>10, <1>11, <1>12, <1>13, <1>14, <1>15, <1>16 DEF IInv, Registered

\* Every other step of a writer.
LEMMA BeginStep ==
  ASSUME IInv, NEW w \in Writers, NEW p \in Paths, NEW guarded \in BOOLEAN, Begin(w, p, guarded)
  PROVE  IInv'
<1>1. Writing(p, guarded) \in WriterRecord /\ Writing(p, guarded).stage = "staging"
  BY DEF IInv, TypeOK, Writing, WriterRecord, Stages
<1>2. writer' \in [Writers -> WriterRecord] /\ Registered' /\ Exclusive' /\ Approved'
  BY <1>1, Idles DEF IInv, Begin, Counted, files
<1> QED
  BY <1>2 DEF IInv, TypeOK, Begin, locks, files

LEMMA StageFailsStep == ASSUME IInv, NEW w \in Writers, StageFails(w) PROVE IInv'
<1>1. Idle \in WriterRecord /\ Idle.stage = "idle"
  BY DEF Idle, WriterRecord
<1>2. writer' \in [Writers -> WriterRecord] /\ Registered' /\ Exclusive' /\ Approved'
  BY <1>1, Idles DEF IInv, StageFails, Counted, files
<1> QED
  BY <1>2 DEF IInv, TypeOK, StageFails, locks, files

LEMMA AcquireStep == ASSUME IInv, NEW w \in Writers, Acquire(w) PROVE IInv'
<1>1. /\ writer' \in [Writers -> WriterRecord] /\ Registered'
      /\ \A v \in Writers \ {w} : writer'[v] = writer[v]
      /\ writer'[w].stage = "checking" /\ writer'[w].entry = writer[w].entry
  BY Moves DEF IInv, Acquire, Counted
<1>2. /\ At(Inside)' = At(Inside) \cup {w} /\ At({"renaming"})' = At({"renaming"})
      /\ w \notin At({"renaming"})
      /\ \A v \in At(Inside) : v # w /\ writer'[v] = writer[v]
  BY <1>1 DEF At, Inside, Acquire
<1>3. Exclusive'
  BY <1>1, <1>2 DEF Exclusive, IInv, Acquire
<1>4. Approved'
  BY <1>1, <1>2 DEF Approved, IInv, Acquire, files, At
<1> QED
  BY <1>1, <1>3, <1>4 DEF IInv, TypeOK, Acquire, locks, files

LEMMA ApproveStep == ASSUME IInv, NEW w \in Writers, Approve(w) PROVE IInv'
<1>1. /\ writer' \in [Writers -> WriterRecord] /\ Registered'
      /\ \A v \in Writers \ {w} : writer'[v] = writer[v]
      /\ writer'[w].stage = "renaming" /\ writer'[w].entry = writer[w].entry
      /\ writer'[w].path = writer[w].path /\ writer'[w].guarded = writer[w].guarded
      /\ writer'[w].base = writer[w].base
  BY Moves DEF IInv, Approve, Counted
<1>2. Exclusive'
  BY <1>1, StaysExclusive DEF IInv, Approve, Inside, Counted
<1>3. Approved'
  <2>1. At({"renaming"})' = At({"renaming"}) \cup {w}
    BY <1>1 DEF At
  <2> QED
    BY <1>1, <2>1 DEF Approved, IInv, Approve, files, At
<1> QED
  BY <1>1, <1>2, <1>3 DEF IInv, TypeOK, Approve, locks, files

\* Steps that leave a path's contents and go to "unlocking" or "dropping".
LEMMA LeavingStep ==
  ASSUME IInv, NEW w \in Writers, Refuse(w) \/ RenameFails(w) \/ Unlock(w)
  PROVE  IInv'
<1> DEFINE s == IF Unlock(w) THEN "dropping" ELSE "unlocking"
<1>1. /\ writer[w].stage \in Inside /\ s \in Counted /\ (s \in Inside \/ s = "dropping")
      /\ s # "renaming"
      /\ writer' = [writer EXCEPT ![w].stage = s] /\ UNCHANGED <<locks, files>>
  BY DEF Refuse, RenameFails, Unlock, Inside, Counted
<1> HIDE DEF s
<1>2. /\ writer' \in [Writers -> WriterRecord] /\ Registered'
      /\ \A v \in Writers \ {w} : writer'[v] = writer[v]
      /\ writer'[w].stage = s /\ writer'[w].entry = writer[w].entry
  BY <1>1, Moves DEF IInv, Inside, Counted
<1>3. Exclusive'
  BY <1>1, <1>2, StaysExclusive DEF IInv
<1>4. Approved'
  <2>1. \A v \in At({"renaming"})' : v \in At({"renaming"}) /\ writer'[v] = writer[v]
    BY <1>1, <1>2 DEF At
  <2> QED
    BY <1>1, <2>1 DEF Approved, IInv, files
<1> QED
  BY <1>1, <1>2, <1>3, <1>4 DEF IInv, TypeOK, locks, files

\* The rename: no other writer is about to rename on that path.
LEMMA RenameStep == ASSUME IInv, NEW w \in Writers, RenameFile(w) PROVE IInv'
<1> DEFINE p == writer[w].path
<1>1. /\ writer' \in [Writers -> WriterRecord] /\ Registered'
      /\ \A v \in Writers \ {w} : writer'[v] = writer[v]
      /\ writer'[w].stage = "unlocking" /\ writer'[w].entry = writer[w].entry
  BY Moves DEF IInv, RenameFile, Counted
<1>2. Exclusive'
  BY <1>1, StaysExclusive DEF IInv, RenameFile, Inside, Counted
<1>3. w \in At({"renaming"}) /\ w \in At(Inside) /\ p \in Paths
  BY Record DEF IInv, RenameFile, At, Inside
<1>4. \A v \in At({"renaming"})' : /\ v \in At({"renaming"}) /\ writer'[v] = writer[v]
                                   /\ writer[v].path \in Paths /\ writer[v].path # p
  <2> SUFFICES ASSUME NEW v \in At({"renaming"})'
               PROVE  /\ v \in At({"renaming"}) /\ writer'[v] = writer[v]
                      /\ writer[v].path \in Paths /\ writer[v].path # p
    OBVIOUS
  <2>1. v # w /\ v \in Writers /\ v \in At({"renaming"}) /\ v \in At(Inside) /\ writer'[v] = writer[v]
    BY <1>1 DEF At, Inside
  <2>2. writer[v].path # p
    BY <2>1, <1>3, OnePath DEF OneWriterPerPath, IInv, Registered
  <2>3. writer[v].path \in Paths
    BY <2>1, Record DEF IInv, At
  <2> QED
    BY <2>1, <2>2, <2>3
<1>5. Approved'
  BY <1>3, <1>4 DEF Approved, IInv, TypeOK, RenameFile
<1>6. (lost \subseteq foreign \cap window)'
  <2>1. writer[w].guarded => Same(file[p], writer[w].base) \/ file[p] \in foreign \cap window
    BY <1>3 DEF IInv, Approved
  <2> QED
    BY <2>1 DEF IInv, RenameFile
<1>7. TypeOK'
  <2>1. stamp' \in Nat /\ file' \in [Paths -> Nat]
    BY <1>3 DEF IInv, TypeOK, RenameFile
  <2>2. lost' \subseteq Nat
    BY <1>3 DEF IInv, TypeOK, RenameFile
  <2> QED
    BY <1>1, <2>1, <2>2 DEF IInv, TypeOK, RenameFile, locks
<1> QED
  BY <1>1, <1>2, <1>5, <1>6, <1>7 DEF IInv

\* Whatever is written from outside onto a path about to be renamed is in the window.
LEMMA OutsideStep == ASSUME IInv, NEW p \in Paths, WriteOutside(p) PROVE IInv'
<1>1. UNCHANGED <<writer, locks, lost>> /\ stamp' = stamp + 1 /\ stamp \in Nat
      /\ foreign \subseteq foreign' /\ window \subseteq window'
      /\ foreign' = foreign \cup {stamp + 1}
      /\ file' = [file EXCEPT ![p] = stamp + 1]
  BY DEF IInv, TypeOK, WriteOutside
<1>2. TypeOK'
  <2>1. foreign' \subseteq Nat /\ window' \subseteq Nat
    BY <1>1 DEF IInv, TypeOK, WriteOutside
  <2>2. file' \in [Paths -> Nat] /\ stamp' \in Nat
    BY <1>1 DEF IInv, TypeOK
  <2> QED
    BY <1>1, <2>1, <2>2 DEF IInv, TypeOK, locks
<1>3. Registered' /\ Exclusive'
  BY <1>1 DEF IInv, Registered, Counts, Users, Shared, Distinct, InUse, Exclusive, At, locks
<1>4. Approved'
  <2> SUFFICES ASSUME NEW w \in At({"renaming"}), writer[w].guarded
               PROVE  \/ Same(file'[writer[w].path], writer[w].base)
                      \/ file'[writer[w].path] \in foreign' \cap window'
    BY <1>1 DEF Approved, At
  <2>1. writer[w].path \in Paths
    BY Record DEF IInv, At
  <2>2. CASE writer[w].path = p
    <3>1. stamp + 1 \in window'
      BY <2>2 DEF WriteOutside
    <3> QED
      BY <2>1, <2>2, <3>1, <1>1 DEF IInv, TypeOK
  <2>3. CASE writer[w].path # p
    BY <2>1, <2>3, <1>1 DEF IInv, Approved, TypeOK
  <2> QED
    BY <2>2, <2>3
<1>5. (lost \subseteq foreign \cap window)'
  BY <1>1 DEF IInv
<1> QED
  BY <1>2, <1>3, <1>4, <1>5 DEF IInv

LEMMA NextIInv == IInv /\ [Next]_vars => IInv'
<1> SUFFICES ASSUME IInv, [Next]_vars PROVE IInv'
  OBVIOUS
<1>1. CASE UNCHANGED vars
  BY <1>1 DEF vars, locks, files, IInv, TypeOK, Registered, Counts, Users, Shared, Distinct, InUse,
              Exclusive, Approved, At
<1>2. ASSUME NEW w \in Writers, WriterStep(w) PROVE IInv'
  BY <1>2, BeginStep, StageFailsStep, JoinStep, AcquireStep, ApproveStep, LeavingStep,
     RenameStep, DropStep DEF WriterStep
<1>3. ASSUME NEW p \in Paths, WriteOutside(p) PROVE IInv'
  BY <1>3, OutsideStep
<1> QED
  BY <1>1, <1>2, <1>3 DEF Next

LEMMA Invariance == Spec => []IInv
BY InitIInv, NextIInv, PTL DEF Spec

-----------------------------------------------------------------------------

\* One writer at a time is past the lock of a path (write() from lockPath to
\* its release), however entries come and go in lockPath's registry.
THEOREM Exclusion == Spec => []OneWriterPerPath
<1>1. IInv => OneWriterPerPath
  BY OnePath DEF IInv, Registered
<1> QED
  BY <1>1, Invariance, PTL

\* No guarded replacement (runParsedEdit through WriteWith) overwrites what a
\* cooperating writer put there after the edit read the file, and a change from
\* outside only when it lands between Verify's read and the rename.
THEOREM UpdatesSurvive == Spec => []NoUpdateLost
<1>1. IInv => NoUpdateLost
  BY DEF IInv, NoUpdateLost
<1> QED
  BY <1>1, Invariance, PTL

\* The registry of locks holds an entry for exactly the paths in use.
THEOREM RegistryIsExact == Spec => []RegistryFollowsUse
<1>1. ASSUME IInv, NEW p \in Paths
      PROVE  registry[p] # 0 <=> \E w \in At(Counted) : writer[w].path = p
  <2>1. \A w \in At(Counted) : writer[w].entry \in Entries /\ registry[writer[w].path] = writer[w].entry
    BY <1>1 DEF IInv, Registered, Shared
  <2>2. \A w \in At(Counted) : registry[writer[w].path] # 0
    BY <2>1, AtomicFileAssumption DEF Entries
  <2> QED
    BY <1>1, <2>2 DEF IInv, Registered, InUse
<1>2. IInv => RegistryFollowsUse
  BY <1>1 DEF RegistryFollowsUse
<1> QED
  BY <1>2, Invariance, PTL

(***************************************************************************)
(* The tools.                                                              *)
(***************************************************************************)

\* An edit under way is a guarded write of the file it claimed, planned
\* against the revision its claim authorizes.
Calls ==
  /\ call = [w \in Agents |-> call[w]]
  /\ \A w \in Agents : /\ "tool" \in DOMAIN call[w]
                       /\ call[w].tool = "edit" => {"path", "snap"} \subseteq DOMAIN call[w]

Tied ==
  \A w \in Agents : writer[w].stage # "idle" /\ call[w].tool = "edit" =>
    /\ writer[w].guarded /\ writer[w].path = call[w].path
    /\ call[w].snap.rev = Revision[writer[w].base]

LInv == IInv /\ Calls /\ Tied

-----------------------------------------------------------------------------

\* Every step of the tools is a step of the file protocol or leaves it alone.
LEMMA ToolsStepFiles == NextTools => [Next]_vars
<1>1. ASSUME NEW w \in Agents, ToolStep(w) PROVE [Next]_vars
  <2>0. w \in Writers
    BY EditLedgerAssumption
  <2>1. ASSUME NEW p \in Paths, Begin(w, p, TRUE) \/ Begin(w, p, FALSE) PROVE Next
    BY <2>0, <2>1 DEF Next, WriterStep
  <2>2. CASE Inner(w) \/ Renamed(w) \/ Fails(w) \/ \E g \in SUBSET Lines : Lands(w, g)
    BY <2>0, <2>2 DEF Next, WriterStep, Inner, Renamed, Fails, Lands, Returns
  <2>3. CASE RebuildTools(w)
    BY <2>3 DEF RebuildTools
  <2>4. ASSUME NEW p \in Paths, NEW g, Read(w, p, g) PROVE UNCHANGED vars
    BY <2>4 DEF Read
  <2>5. ASSUME NEW p \in Paths, NEW t, NEW ls, Edit(w, p, t, ls) \/ EditGivesUp(w, p, t, ls)
        PROVE  [Next]_vars
    BY <2>5, <2>1 DEF Edit, EditGivesUp
  <2>6. ASSUME NEW p \in Paths, WriteFile(w, p) PROVE Next
    BY <2>6, <2>1 DEF WriteFile
  <2> QED
    BY <1>1, <2>2, <2>3, <2>4, <2>5, <2>6 DEF ToolStep
<1>2. ASSUME NEW w \in Writers \ Agents, Other(w) PROVE Next
  BY <1>2 DEF Other, Next
<1>3. ASSUME NEW p \in Paths, Outside(p) PROVE Next
  BY <1>3 DEF Outside, Next
<1> QED
  BY <1>1, <1>2, <1>3 DEF NextTools

\* The tools implement the file protocol: what is proved of AtomicFile holds
\* of the edit, write and read tools on top of it (hashline.go:417, write.go:92).
THEOREM ToolsImplementFiles == SpecTools => Spec
<1>1. InitTools => Init
  BY DEF InitTools
<1>2. [NextTools]_allVars => [Next]_vars
  BY ToolsStepFiles DEF allVars, vars
<1> QED
  BY <1>1, <1>2, PTL DEF SpecTools, Spec

\* The steps of the file protocol inside a call keep the writer's request.
LEMMA InnerKeeps ==
  ASSUME TypeOK, NEW w \in Writers,
         Inner(w) \/ Renamed(w)
  PROVE  /\ \A v \in Writers \ {w} : writer'[v] = writer[v]
         /\ writer[w].stage # "idle"
         /\ writer'[w].guarded = writer[w].guarded /\ writer'[w].path = writer[w].path
         /\ writer'[w].base = writer[w].base
<1>1. writer[w].stage # "idle"
  BY DEF Inner, Renamed, Join, Acquire, Approve, Refuse, RenameFails, Unlock, RenameFile
<1>2. writer[w] \in [stage : Stages \ {"idle"}, path : Paths, guarded : BOOLEAN, base : Nat,
                     entry : {0} \cup Entries]
  BY <1>1, Record
<1>3. ASSUME NEW s, writer' = [writer EXCEPT ![w].stage = s]
      PROVE  /\ \A v \in Writers \ {w} : writer'[v] = writer[v]
             /\ writer'[w].guarded = writer[w].guarded /\ writer'[w].path = writer[w].path
             /\ writer'[w].base = writer[w].base
  BY <1>2, <1>3 DEF TypeOK
<1>4. CASE Join(w)
  BY <1>2, <1>4 DEF TypeOK, Join
<1>5. CASE Acquire(w) \/ Approve(w) \/ Refuse(w) \/ RenameFails(w) \/ Unlock(w) \/ RenameFile(w)
  BY <1>3, <1>5 DEF Acquire, Approve, Refuse, RenameFails, Unlock, RenameFile
<1> QED
  BY <1>1, <1>4, <1>5 DEF Inner, Renamed

\* A call that returns leaves its writer idle, and one begun is what was asked.
LEMMA EndsIdle ==
  ASSUME TypeOK, NEW w \in Writers, Drop(w) \/ StageFails(w)
  PROVE  writer'[w].stage = "idle" /\ \A v \in Writers \ {w} : writer'[v] = writer[v]
BY DEF TypeOK, Drop, StageFails, Idle

LEMMA BeginsAsAsked ==
  ASSUME TypeOK, NEW w \in Writers, NEW p \in Paths, NEW g \in BOOLEAN, Begin(w, p, g)
  PROVE  /\ writer'[w].guarded = g /\ writer'[w].path = p /\ writer'[w].base = file[p]
         /\ \A v \in Writers \ {w} : writer'[v] = writer[v]
BY DEF TypeOK, Begin, Writing

LEMMA OthersStep ==
  ASSUME TypeOK, NEW w \in Writers, WriterStep(w)
  PROVE  \A v \in Writers \ {w} : writer'[v] = writer[v]
BY DEF TypeOK, WriterStep, Begin, StageFails, Join, Acquire, Approve, Refuse, RenameFile,
       RenameFails, Unlock, Drop

LEMMA TiedStep ==
  ASSUME LInv, [NextTools]_allVars
  PROVE  Calls' /\ Tied'
<1>0. TypeOK /\ Agents \subseteq Writers
  BY EditLedgerAssumption DEF LInv, IInv
<1>1. CASE UNCHANGED allVars
  BY <1>1 DEF allVars, vars, toolVars, LInv, Calls, Tied
<1>2. ASSUME NEW w \in Agents, ToolStep(w) PROVE Calls' /\ Tied'
  <2>0. w \in Writers
    BY <1>0
  <2> DEFINE Rest == \A v \in Agents \ {w} : writer'[v] = writer[v]
  <2>1. CASE Inner(w) \/ Renamed(w)
    <3>1. Rest /\ writer[w].stage # "idle"
          /\ writer'[w].guarded = writer[w].guarded /\ writer'[w].path = writer[w].path
          /\ writer'[w].base = writer[w].base
      BY <1>0, <2>0, <2>1, InnerKeeps
    <3>2. CASE UNCHANGED call
      BY <3>1, <3>2 DEF Calls, Tied, LInv
    <3>3. CASE call' = [call EXCEPT ![w].wrote = stamp']
      <4>1. /\ call' = [v \in Agents |-> call'[v]]
            /\ \A v \in Agents \ {w} : call'[v] = call[v]
            /\ call'[w] = [call[w] EXCEPT !.wrote = stamp']
        BY <3>3 DEF Calls, LInv
      <4>2. DOMAIN call'[w] = DOMAIN call[w]
        BY <4>1
      <4>3. call'[w].tool = call[w].tool
        BY <4>1 DEF Calls, LInv
      <4>4. CASE call[w].tool = "edit"
        <5>1. {"path", "snap"} \subseteq DOMAIN call[w]
          BY <4>4 DEF Calls, LInv
        <5>2. call'[w].path = call[w].path /\ call'[w].snap = call[w].snap
          BY <4>1, <5>1
        <5> QED
          BY <3>1, <4>1, <4>2, <4>3, <4>4, <5>1, <5>2 DEF Calls, Tied, LInv
      <4>5. CASE call[w].tool # "edit"
        <5>1. Calls'
          BY <4>1, <4>2, <4>3, <4>5 DEF Calls, LInv
        <5>2. ASSUME NEW v \in Agents, call'[v].tool = "edit", writer'[v].stage # "idle"
              PROVE  /\ writer'[v].guarded /\ writer'[v].path = call'[v].path
                     /\ call'[v].snap.rev = Revision[writer'[v].base]
          <6>1. v # w
            BY <4>3, <4>5, <5>2
          <6>2. writer'[v] = writer[v] /\ call'[v] = call[v]
            BY <3>1, <4>1, <6>1
          <6> QED
            BY <5>2, <6>2 DEF Tied, LInv
        <5>3. Tied'
          BY <5>2 DEF Tied
        <5> QED
          BY <5>1, <5>3
      <4> QED
        BY <4>4, <4>5
    <3> QED
      BY <2>1, <3>2, <3>3 DEF Inner, Renamed, toolVars
  <2>2. ASSUME Returns(w) PROVE Calls' /\ Tied'
    <3>1. writer'[w].stage = "idle" /\ Rest
      BY <1>0, <2>0, <2>2, EndsIdle DEF Returns
    <3>2. call' = [v \in Agents |-> call'[v]] /\ call'[w] = NoCall
          /\ \A v \in Agents \ {w} : call'[v] = call[v]
      BY <2>2 DEF Returns, Calls, LInv
    <3> QED
      BY <3>1, <3>2 DEF Calls, Tied, LInv, NoCall
  <2>3. ASSUME UNCHANGED <<vars, call>> PROVE Calls' /\ Tied'
    BY <2>3 DEF vars, Calls, Tied, LInv
  <2>4. ASSUME NEW p \in Paths, NEW t, NEW ls, Edit(w, p, t, ls) PROVE Calls' /\ Tied'
    <3>1. PICK s \in Quoted(ledger[w], p, t) :
            /\ s.rev = Revision[file[p]]
            /\ call' = [call EXCEPT ![w] = EditOf(ledger[w], s, p)]
            /\ Begin(w, p, TRUE)
      BY <2>4 DEF Edit, StillCurrent
    <3>2. /\ writer'[w].guarded /\ writer'[w].path = p /\ writer'[w].base = file[p] /\ Rest
      BY <1>0, <2>0, <3>1, BeginsAsAsked
    <3>3. /\ call' = [v \in Agents |-> call'[v]] /\ call'[w] = EditOf(ledger[w], s, p)
          /\ \A v \in Agents \ {w} : call'[v] = call[v]
      BY <3>1 DEF Calls, LInv
    <3>4. {"tool", "path", "snap"} \subseteq DOMAIN call'[w]
          /\ call'[w].path = p /\ call'[w].snap = s
      BY <3>3 DEF EditOf
    <3> QED
      BY <3>1, <3>2, <3>3, <3>4 DEF Calls, Tied, LInv
  <2>5. ASSUME NEW p \in Paths, WriteFile(w, p) PROVE Calls' /\ Tied'
    <3>1. Rest
      BY <1>0, <2>0, <2>5, BeginsAsAsked DEF WriteFile
    <3>2. /\ call' = [v \in Agents |-> call'[v]]
          /\ "tool" \in DOMAIN call'[w] /\ call'[w].tool = "write"
          /\ \A v \in Agents \ {w} : call'[v] = call[v]
      BY <2>5 DEF WriteFile, Calls, LInv
    <3> QED
      BY <3>1, <3>2 DEF Calls, Tied, LInv
  <2> QED
    BY <1>2, <2>1, <2>2, <2>3, <2>4, <2>5
    DEF ToolStep, Fails, Lands, Read, EditGivesUp, RebuildTools
<1>3. ASSUME NEW w \in Writers \ Agents, Other(w) PROVE Calls' /\ Tied'
  <2>1. UNCHANGED call /\ \A v \in Agents : writer'[v] = writer[v]
    BY <1>0, <1>3, OthersStep DEF Other, toolVars
  <2> QED
    BY <2>1 DEF Calls, Tied, LInv
<1>4. ASSUME NEW p \in Paths, Outside(p) PROVE Calls' /\ Tied'
  BY <1>4 DEF Outside, WriteOutside, toolVars, Calls, Tied, LInv
<1> QED
  BY <1>1, <1>2, <1>3, <1>4 DEF NextTools

LEMMA ToolsInductive == LInv /\ [NextTools]_allVars => LInv'
<1> SUFFICES ASSUME LInv, [NextTools]_allVars PROVE LInv'
  OBVIOUS
<1>1. [Next]_vars
  BY ToolsStepFiles DEF allVars, vars
<1> QED
  BY <1>1, NextIInv, TiedStep DEF LInv

\* Whatever the tags, the ledgers and the other writers do, an edit renames
\* over the revision its anchors were read from (hashline.go:512), or over an
\* outsider's write in the last window.
THEOREM EditsLandWhereRead == SpecTools => []EditsMatchTheirRead
<1>1. InitTools => LInv
  <2> SUFFICES ASSUME InitTools PROVE LInv
    OBVIOUS
  <2>1. IInv
    BY InitIInv DEF InitTools
  <2>2. Calls /\ Tied
    BY EditLedgerAssumption DEF InitTools, Init, Calls, Tied, NoCall, Idle
  <2> QED
    BY <2>1, <2>2 DEF LInv
<1>2. LInv => EditsMatchTheirRead
  <2> SUFFICES ASSUME LInv, NEW w \in Agents \cap At({"renaming"}), call[w].tool = "edit"
               PROVE  LET now == file[call[w].path]
                      IN call[w].snap.rev = Revision[now] \/ now \in foreign \cap window
    BY DEF EditsMatchTheirRead
  <2>1. /\ writer[w].guarded /\ writer[w].path = call[w].path
        /\ call[w].snap.rev = Revision[writer[w].base]
    BY DEF LInv, Tied, At
  <2>2. \/ Same(file[writer[w].path], writer[w].base)
        \/ file[writer[w].path] \in foreign \cap window
    BY <2>1 DEF LInv, IInv, Approved
  <2> QED
    BY <2>1, <2>2 DEF Same
<1> QED
  BY <1>1, <1>2, ToolsInductive, PTL DEF SpecTools

(***************************************************************************)
(* The ledger.  What was printed stays authorized because a claim and its  *)
(* release cancel out: together with what a claim took, the ledger never   *)
(* tracks more than it may, and has one snapshot of a path for a tag.      *)
(***************************************************************************)

Grants == {g \in Seq(SUBSET Lines) : Len(g) <= MaxGrants}

\* The order of arrival.
Ordered(T, R) ==
  /\ R \subseteq T \X T
  /\ \A x \in T : <<x, x>> \notin R
  /\ \A x, y, z \in T : <<x, y>> \in R /\ <<y, z>> \in R => <<x, z>> \in R
  /\ \A x, y \in T : x # y => <<x, y>> \in R \/ <<y, x>> \in R

Sound(L) ==
  /\ L = [grants |-> L.grants, older |-> L.older]
  /\ L.grants \in [Live(L) -> Grants]
  /\ Ordered(Live(L), L.older)

OneTag(S) ==
  \A s, t \in S : s.path = t.path /\ s.rev # t.rev => Tag[s.rev] # Tag[t.rev]

Shaped(s) == s = [path |-> s.path, rev |-> s.rev]

Fits(S) ==
  /\ IsFiniteSet(S) /\ Cardinality(S) <= MaxTracked
  /\ OneTag(S) /\ \A s \in S : Shaped(s)

Full(S) == Cardinality(S) = MaxTracked

-----------------------------------------------------------------------------

\* Of finitely many snapshots one is the oldest: a ledger that is too full loses one.
LEMMA SomeoneIsOldest ==
  ASSUME NEW T, IsFiniteSet(T), T # {}, NEW R, Ordered(T, R)
  PROVE  \E x \in T : \A y \in T \ {x} : <<x, y>> \in R
<1> DEFINE Before(x) == {y \in T : <<y, x>> \in R}
           Family == {Before(x) : x \in T}
<1>1. Family \subseteq FiniteSubsetsOf(T) /\ Family # {}
  <2>1. Family \subseteq SUBSET T /\ Family # {}
    OBVIOUS
  <2>2. FiniteSubsetsOf(T) = SUBSET T
    BY FS_FiniteSubsetsOfFinite
  <2>. QED  BY <2>1, <2>2
<1>2. IsWellFoundedOn(StrictSubsetOrdering(T), FiniteSubsetsOf(T))
  BY FS_StrictSubsetOrderingWellFounded
<1>3. PICK F \in Family : \A G \in Family : ~(<<G, F>> \in StrictSubsetOrdering(T))
  <2>. HIDE DEF Family
  <2>. QED  BY <1>1, <1>2, WFMin
<1>4. PICK x \in T : F = Before(x)
  BY <1>3
<1>5. ASSUME NEW y \in T, <<y, x>> \in R PROVE FALSE
  <2>1. Before(y) \subseteq Before(x) /\ y \in Before(x) /\ y \notin Before(y)
    BY <1>5 DEF Ordered
  <2>2. <<Before(y), Before(x)>> \in StrictSubsetOrdering(T)
    BY <2>1 DEF StrictSubsetOrdering
  <2>. QED  BY <1>3, <1>4, <2>2
<1>. QED  BY <1>5 DEF Ordered

LEMMA ForgetLemma ==
  ASSUME NEW L, Sound(L), NEW X
  PROVE  /\ Sound(Forget(L, X)) /\ Live(Forget(L, X)) = Live(L) \ X
         /\ \A s \in Live(L) \ X : Forget(L, X).grants[s] = L.grants[s]
<1> DEFINE rest == Live(L) \ X
<1>1. /\ Forget(L, X).grants = [s \in rest |-> L.grants[s]]
      /\ Forget(L, X).older = L.older \cap (rest \X rest)
      /\ Forget(L, X) = [grants |-> Forget(L, X).grants, older |-> Forget(L, X).older]
  BY DEF Forget, Restrict
<1>2. Live(Forget(L, X)) = rest
  BY <1>1 DEF Live
<1>3. Ordered(rest, L.older \cap (rest \X rest))
  BY DEF Sound, Ordered
<1>. QED  BY <1>1, <1>2, <1>3 DEF Sound

LEMMA LimitsAreNatural ==
  /\ MaxTracked \in Nat /\ MaxTracked >= 1
  /\ MaxGrants \in Nat /\ MaxGrants >= 1
BY EditLedgerAssumption

\* t tracks s after L.
Tracks(L, s, t) ==
  /\ Sound(t) /\ s \in Live(t) /\ Live(t) \subseteq Live(L) \cup {s}
  /\ IsFiniteSet(Live(t)) /\ Cardinality(Live(t)) <= MaxTracked
  /\ t.grants[s] = IF s \in Live(L) THEN L.grants[s] ELSE <<>>
  /\ \A x \in Live(t) \ {s} : t.grants[x] = L.grants[x]
  /\ Cardinality(Live(L) \cup {s}) <= MaxTracked => Live(t) = Live(L) \cup {s}
  /\ Full(Live(t)) \/ Live(t) = Live(L) \cup {s}

LEMMA TrackLemma ==
  ASSUME NEW L, Sound(L), IsFiniteSet(Live(L)), Cardinality(Live(L)) <= MaxTracked, NEW s
  PROVE  Tracks(L, s, Track(L, s))
<1>1. CASE s \in Live(L)
  <2>1. Track(L, s) = L /\ Live(L) \cup {s} = Live(L)
    BY <1>1 DEF Track
  <2>. QED  BY <1>1, <2>1 DEF Tracks
<1>2. CASE s \notin Live(L)
  <2> DEFINE full == [grants |-> [t \in Live(L) \cup {s} |-> IF t = s THEN <<>> ELSE L.grants[t]],
                      older |-> L.older \cup (Live(L) \X {s})]
             gone == IF Cardinality(Live(full)) > MaxTracked THEN Oldest(full) ELSE {}
  <2>1. Track(L, s) = Forget(full, gone)
    BY <1>2 DEF Track
  <2>2. /\ Live(full) = Live(L) \cup {s}
        /\ full.grants[s] = <<>> /\ \A x \in Live(L) : full.grants[x] = L.grants[x]
        /\ full.older = L.older \cup (Live(L) \X {s})
    BY <1>2 DEF Live
  <2>3. Sound(full)
    <3>1. Ordered(Live(L) \cup {s}, L.older \cup (Live(L) \X {s}))
      BY <1>2 DEF Sound, Ordered
    <3>2. <<>> \in Grants
      BY LimitsAreNatural DEF Grants
    <3>3. full.grants \in [Live(L) \cup {s} -> Grants]
      BY <3>2 DEF Sound
    <3>. QED  BY <2>2, <3>1, <3>3 DEF Sound
  <2> HIDE DEF full
  <2>4. IsFiniteSet(Live(full)) /\ Cardinality(Live(full)) = Cardinality(Live(L)) + 1
    BY <1>2, <2>2, FS_AddElement
  <2>5. Cardinality(Live(L)) \in Nat
    BY FS_CardinalityType
  <2>6. s \notin gone
    <3>. SUFFICES ASSUME s \in Oldest(full), Cardinality(Live(full)) > MaxTracked PROVE FALSE
      OBVIOUS
    <3>1. Live(L) # {}
      BY <2>4, <2>5, LimitsAreNatural, FS_EmptySet
    <3>2. PICK x \in Live(L) : TRUE
      BY <3>1
    <3>3. <<s, x>> \in full.older
      BY <1>2, <2>2, <3>2 DEF Oldest
    <3>. QED  BY <1>2, <2>2, <3>2, <3>3 DEF Sound, Ordered
  <2>7. Cardinality(Live(full) \ gone) <= MaxTracked
    <3>1. CASE Cardinality(Live(full)) > MaxTracked
      <4>1. PICK x \in Live(full) : \A y \in Live(full) \ {x} : <<x, y>> \in full.older
        BY <2>2, <2>3, <2>4, SomeoneIsOldest DEF Sound
      <4>2. gone \subseteq Live(full) /\ x \in gone
        BY <3>1, <4>1 DEF Oldest
      <4>3. Live(full) \ gone \subseteq Live(full) \ {x}
        BY <4>2
      <4>4. IsFiniteSet(Live(full) \ {x})
            /\ Cardinality(Live(full) \ {x}) = Cardinality(Live(full)) - 1
        BY <2>4, <4>1, FS_RemoveElement
      <4> HIDE DEF gone
      <4>5. Cardinality(Live(full) \ gone) <= Cardinality(Live(full) \ {x})
        BY <4>3, <4>4, FS_Subset
      <4>6. IsFiniteSet(Live(full) \ gone)
        BY <2>4, FS_Subset
      <4>7. Cardinality(Live(full) \ gone) \in Nat
        BY <4>6, FS_CardinalityType
      <4>. QED  BY <2>4, <2>5, <4>4, <4>5, <4>7, LimitsAreNatural
    <3>2. CASE ~(Cardinality(Live(full)) > MaxTracked)
      BY <2>4, <2>5, <3>2, LimitsAreNatural
    <3>. QED  BY <3>1, <3>2
  <2>0. gone = {} \/ Full(Live(full) \ gone)
    <3>. SUFFICES ASSUME Cardinality(Live(full)) > MaxTracked PROVE Full(Live(full) \ gone)
      OBVIOUS
    <3>1. PICK x \in Live(full) : \A y \in Live(full) \ {x} : <<x, y>> \in full.older
      BY <2>2, <2>3, <2>4, SomeoneIsOldest DEF Sound
    <3>2. ASSUME NEW y \in Oldest(full), y # x PROVE FALSE
      <4>1. y \in Live(full) /\ <<x, y>> \in full.older /\ <<y, x>> \in full.older
        BY <3>1, <3>2 DEF Oldest
      <4>. QED  BY <2>3, <3>1, <4>1 DEF Sound, Ordered
    <3>3. gone = {x}
      BY <3>1, <3>2 DEF Oldest
    <3>4. Cardinality(Live(full) \ {x}) = Cardinality(Live(full)) - 1
      BY <2>4, <3>1, FS_RemoveElement
    <3> HIDE DEF gone
    <3>. QED  BY <2>4, <2>5, <3>3, <3>4, LimitsAreNatural DEF Full
  <2>8. IsFiniteSet(Live(full) \ gone)
    BY <2>4, FS_Subset
  <2>9. Cardinality(Live(L) \cup {s}) <= MaxTracked => gone = {}
    BY <2>2, <2>4, <2>5, LimitsAreNatural
  <2> HIDE DEF gone
  <2>10. /\ Sound(Track(L, s)) /\ Live(Track(L, s)) = Live(full) \ gone
         /\ \A x \in Live(full) \ gone : Track(L, s).grants[x] = full.grants[x]
    BY <2>1, <2>3, ForgetLemma
  <2>11. s \in Live(Track(L, s)) /\ Live(Track(L, s)) \subseteq Live(L) \cup {s}
    BY <2>2, <2>6, <2>10
  <2>12. Track(L, s).grants[s] = <<>>
    BY <2>2, <2>6, <2>10
  <2>13. \A x \in Live(Track(L, s)) \ {s} : Track(L, s).grants[x] = L.grants[x]
    BY <2>2, <2>10
  <2>14. Cardinality(Live(L) \cup {s}) <= MaxTracked => Live(Track(L, s)) = Live(L) \cup {s}
    BY <2>2, <2>9, <2>10
  <2>15. Full(Live(Track(L, s))) \/ Live(Track(L, s)) = Live(L) \cup {s}
    BY <2>0, <2>2, <2>10
  <2>. QED  BY <1>2, <2>7, <2>8, <2>10, <2>11, <2>12, <2>13, <2>14, <2>15 DEF Tracks
<1>. QED  BY <1>1, <1>2

\* What a snapshot admitted retires, the tag of the path it shows no longer stands for.
Clashing(L, s) == {c \in Live(L) : c.path = s.path /\ c.rev # s.rev /\ Tag[c.rev] = Tag[s.rev]}

\* What is authorized for one path costs another nothing, unless the ledger is full;
\* and it stays full.
Spares(L, s, r) ==
  \/ Full(Live(r))
  \/ /\ ~Full(Live(L))
     /\ \A x \in Live(L) : x.path # s.path => x \in Live(r) /\ r.grants[x] = L.grants[x]

\* a tracks s after L, and the only one of its path that shows its tag; one that
\* fits in drives out no other.
Admits(L, s, a) ==
  /\ Sound(a) /\ s \in Live(a) /\ Fits(Live(a))
  /\ a.grants[s] = IF s \in Live(L) THEN L.grants[s] ELSE <<>>
  /\ Fits(Live(L) \cup {s}) =>
       /\ Live(a) = Live(L) \cup {s}
       /\ \A x \in Live(L) \ {s} : a.grants[x] = L.grants[x]
  /\ Spares(L, s, a)

LEMMA AdmitLemma ==
  ASSUME NEW L, Sound(L), Fits(Live(L)), NEW s, Shaped(s)
  PROVE  Admits(L, s, Admit(L, s))
<1> DEFINE kept == Forget(L, Clashing(L, s))
           a == Admit(L, s)
<1>1. a = Track(kept, s)
  BY DEF Admit, Clashing
<1>2. /\ Sound(kept) /\ Live(kept) = Live(L) \ Clashing(L, s)
      /\ \A x \in Live(kept) : kept.grants[x] = L.grants[x]
  BY ForgetLemma
<1>3. IsFiniteSet(Live(kept)) /\ Cardinality(Live(kept)) <= MaxTracked
  <2>1. IsFiniteSet(Live(L)) /\ Cardinality(Live(L)) <= MaxTracked
    BY DEF Fits
  <2>2. IsFiniteSet(Live(kept)) /\ Cardinality(Live(kept)) <= Cardinality(Live(L))
    BY <1>2, <2>1, FS_Subset
  <2>3. Cardinality(Live(kept)) \in Nat /\ Cardinality(Live(L)) \in Nat
    BY <2>1, <2>2, FS_CardinalityType
  <2>. QED  BY <2>1, <2>2, <2>3, LimitsAreNatural
<1>4. s \notin Clashing(L, s)
  BY DEF Clashing
<1> HIDE DEF kept, a
<1>5. Tracks(kept, s, a)
  BY <1>1, <1>2, <1>3, TrackLemma
<1>6. OneTag(Live(a))
  <2>1. OneTag(Live(kept) \cup {s})
    BY <1>2 DEF Fits, OneTag, Clashing
  <2>. QED  BY <1>5, <2>1 DEF OneTag, Tracks
<1>s. \A x \in Live(a) : Shaped(x)
  BY <1>2, <1>5 DEF Fits, Tracks
<1>7. a.grants[s] = IF s \in Live(L) THEN L.grants[s] ELSE <<>>
  BY <1>2, <1>4, <1>5 DEF Tracks
<1>8. ASSUME Fits(Live(L) \cup {s})
      PROVE  Live(a) = Live(L) \cup {s} /\ \A x \in Live(L) \ {s} : a.grants[x] = L.grants[x]
  <2>1. Clashing(L, s) = {}
    BY <1>8 DEF Fits, OneTag, Clashing
  <2>2. Live(kept) = Live(L)
    BY <1>2, <2>1
  <2>3. Live(a) = Live(L) \cup {s}
    BY <1>5, <1>8, <2>2 DEF Fits, Tracks
  <2>. QED  BY <1>2, <1>5, <2>2, <2>3 DEF Tracks
<1>9. Full(Live(L)) => Full(Live(a))
  <2>. SUFFICES ASSUME Full(Live(L)) PROVE Full(Live(a))
    OBVIOUS
  <2>1. CASE Clashing(L, s) = {}
    <3>1. Live(kept) = Live(L)
      BY <1>2, <2>1
    <3>2. Cardinality(Live(L) \cup {s}) = MaxTracked => Live(a) = Live(L) \cup {s}
      BY <1>5, <3>1, LimitsAreNatural DEF Tracks
    <3>3. CASE s \in Live(L)
      <4>1. Live(L) \cup {s} = Live(L)
        BY <3>3
      <4>. QED  BY <3>2, <4>1 DEF Full
    <3>4. CASE s \notin Live(L)
      <4>1. Cardinality(Live(L) \cup {s}) = MaxTracked + 1
        BY <3>4, FS_AddElement DEF Fits, Full
      <4>2. Cardinality(Live(a)) <= MaxTracked
        BY <1>5 DEF Tracks
      <4>3. Live(a) # Live(L) \cup {s}
        BY <4>1, <4>2, LimitsAreNatural
      <4>. QED  BY <1>5, <3>1, <4>3 DEF Tracks
    <3>. QED  BY <3>3, <3>4
  <2>2. CASE Clashing(L, s) # {}
    <3>1. PICK c \in Clashing(L, s) : TRUE
      BY <2>2
    <3>2. c \in Live(L) /\ c.path = s.path /\ c.rev # s.rev /\ Tag[c.rev] = Tag[s.rev]
      BY <3>1 DEF Clashing
    <3>3. s \notin Live(L)
      BY <3>2 DEF Fits, OneTag
    <3>4. ASSUME NEW d \in Clashing(L, s) PROVE d = c
      <4>1. d \in Live(L) /\ d.path = c.path /\ Tag[d.rev] = Tag[c.rev]
        BY <3>2, <3>4 DEF Clashing
      <4>2. d.rev = c.rev
        BY <3>2, <4>1 DEF Fits, OneTag
      <4>3. Shaped(c) /\ Shaped(d)
        BY <3>2, <4>1 DEF Fits
      <4>. QED  BY <4>1, <4>2, <4>3 DEF Shaped
    <3>5. Live(kept) = Live(L) \ {c} /\ s \notin Live(kept)
      BY <1>2, <3>1, <3>3, <3>4
    <3>6. IsFiniteSet(Live(kept)) /\ Cardinality(Live(kept)) = MaxTracked - 1
      BY <3>2, <3>5, FS_RemoveElement DEF Fits, Full
    <3>7. Cardinality(Live(kept) \cup {s}) = MaxTracked
      BY <3>5, <3>6, FS_AddElement, LimitsAreNatural
    <3>. QED  BY <1>5, <3>7, LimitsAreNatural DEF Tracks, Full
  <2>. QED  BY <2>1, <2>2
<1>10. Spares(L, s, a)
  <2>1. CASE Full(Live(a))
    BY <2>1 DEF Spares
  <2>2. CASE ~Full(Live(a))
    <3>1. Live(a) = Live(kept) \cup {s} /\ ~Full(Live(L))
      BY <1>5, <1>9, <2>2 DEF Tracks
    <3>2. ASSUME NEW x \in Live(L), x.path # s.path
          PROVE  x \in Live(a) /\ a.grants[x] = L.grants[x]
      <4>1. x \in Live(kept) /\ x # s
        BY <1>2, <3>2 DEF Clashing
      <4>. QED  BY <1>2, <1>5, <3>1, <4>1 DEF Tracks
    <3>. QED  BY <3>1, <3>2 DEF Spares
  <2>. QED  BY <2>1, <2>2
<1>. QED  BY <1>5, <1>6, <1>s, <1>7, <1>8, <1>10 DEF Fits, Tracks, Admits, a

LEMMA NewestLemma ==
  ASSUME NEW S, NEW q \in Seq(S), NEW n \in Nat, n >= 1
  PROVE  /\ Newest(q, n) \in Seq(S) /\ Len(Newest(q, n)) <= n
         /\ Len(q) <= n => Newest(q, n) = q
         /\ Len(q) >= 1 =>
              Len(Newest(q, n)) >= 1 /\ Newest(q, n)[Len(Newest(q, n))] = q[Len(q)]
<1>1. Len(q) \in Nat
  BY LenProperties
<1>2. CASE Len(q) > n
  <2> DEFINE m == Len(q) - n + 1
  <2>1. m \in Int /\ m >= 1 /\ m <= Len(q) /\ Len(q) - m + 1 = n
    BY <1>1, <1>2
  <2>2. Newest(q, n) = SubSeq(q, m, Len(q))
    BY <1>2 DEF Newest
  <2> HIDE DEF m
  <2>3. \A i \in m..Len(q) : q[i] \in S
    BY <1>1, <2>1, ElementOfSeq
  <2>4. /\ SubSeq(q, m, Len(q)) \in Seq(S)
        /\ Len(SubSeq(q, m, Len(q))) = n
        /\ SubSeq(q, m, Len(q))[n] = q[Len(q)]
    <3>1. /\ SubSeq(q, m, Len(q)) \in Seq(S)
          /\ Len(SubSeq(q, m, Len(q))) = IF m <= Len(q) THEN Len(q) - m + 1 ELSE 0
          /\ \A i \in 1..(Len(q) - m + 1) : SubSeq(q, m, Len(q))[i] = q[m + i - 1]
      BY <1>1, <2>1, <2>3, SubSeqProperties
    <3>2. n \in 1..(Len(q) - m + 1) /\ m + n - 1 = Len(q)
      BY <1>1, <2>1
    <3>. QED  BY <2>1, <3>1, <3>2
  <2>. QED  BY <1>1, <1>2, <2>2, <2>4
<1>3. CASE ~(Len(q) > n)
  <2>1. Newest(q, n) = SubSeq(q, 1, Len(q))
    BY <1>3 DEF Newest
  <2>2. Newest(q, n) = q
    BY <2>1, SubSeqFull
  <2>. QED  BY <1>1, <1>3, <2>2
<1>. QED  BY <1>2, <1>3

\* Setting the grants of a live snapshot touches nothing else.
LEMMA SetGrantsLemma ==
  ASSUME NEW L, Sound(L), NEW s \in Live(L), NEW q \in Seq(SUBSET Lines)
  PROVE  LET r == SetGrants(L, s, q)
         IN /\ Sound(r) /\ Live(r) = Live(L)
            /\ r.grants[s] = Newest(q, MaxGrants)
            /\ \A x \in Live(L) \ {s} : r.grants[x] = L.grants[x]
<1> DEFINE r == SetGrants(L, s, q)
<1>1. Newest(q, MaxGrants) \in Grants
  BY NewestLemma, LimitsAreNatural DEF Grants
<1>2. r = [grants |-> [L.grants EXCEPT ![s] = Newest(q, MaxGrants)], older |-> L.older]
  BY DEF SetGrants, Sound
<1>3. r.grants = [L.grants EXCEPT ![s] = Newest(q, MaxGrants)] /\ r.older = L.older
      /\ r = [grants |-> r.grants, older |-> r.older]
  BY <1>2
<1>4. r.grants \in [Live(L) -> Grants] /\ Live(r) = Live(L)
  BY <1>1, <1>3 DEF Sound, Live
<1>5. r.grants[s] = Newest(q, MaxGrants) /\ \A x \in Live(L) \ {s} : r.grants[x] = L.grants[x]
  BY <1>3 DEF Sound
<1>6. Sound(r)
  BY <1>3, <1>4 DEF Sound
<1>. QED  BY <1>4, <1>5, <1>6

\* What was just printed is authorized, as the newest grant of its snapshot.
LEMMA AuthorizeLemma ==
  ASSUME NEW L, Sound(L), Fits(Live(L)), NEW s, Shaped(s), NEW grant \in SUBSET Lines
  PROVE  LET r == Authorize(L, s, grant)
         IN /\ Sound(r) /\ Fits(Live(r)) /\ s \in Live(r)
            /\ \E i \in DOMAIN r.grants[s] : r.grants[s][i] = grant
            /\ Spares(L, s, r)
<1> DEFINE a == Admit(L, s)
           q == Append(a.grants[s], grant)
           r == Authorize(L, s, grant)
<1>1. Sound(a) /\ s \in Live(a) /\ Fits(Live(a)) /\ Spares(L, s, a)
  BY AdmitLemma DEF Admits
<1>2. a.grants[s] \in Seq(SUBSET Lines)
  BY <1>1 DEF Sound, Grants
<1>3. q \in Seq(SUBSET Lines) /\ Len(q) >= 1 /\ q[Len(q)] = grant
  BY <1>2
<1>4. r = SetGrants(a, s, q)
  BY DEF Authorize
<1> HIDE DEF a, q, r
<1>5. /\ Sound(r) /\ Live(r) = Live(a) /\ r.grants[s] = Newest(q, MaxGrants)
      /\ \A x \in Live(a) \ {s} : r.grants[x] = a.grants[x]
  BY <1>1, <1>3, <1>4, SetGrantsLemma
<1>6. /\ Newest(q, MaxGrants) \in Seq(SUBSET Lines) /\ Len(Newest(q, MaxGrants)) >= 1
      /\ Newest(q, MaxGrants)[Len(Newest(q, MaxGrants))] = grant
  BY <1>3, NewestLemma, LimitsAreNatural
<1>7. \E i \in DOMAIN r.grants[s] : r.grants[s][i] = grant
  BY <1>5, <1>6
<1>8. Spares(L, s, r)
  <2>1. \A x \in Live(a) : x.path # s.path => r.grants[x] = a.grants[x]
    BY <1>5
  <2>. QED  BY <1>1, <1>5, <2>1 DEF Spares
<1>. QED  BY <1>1, <1>5, <1>7, <1>8 DEF r

\* One that comes back into a ledger where it fits has the grants it went with.
Returned(L, s, g, r) ==
  /\ Sound(r) /\ Live(r) = Live(L) \cup {s}
  /\ r.grants[s] = g
  /\ \A x \in Live(L) : r.grants[x] = L.grants[x]

LEMMA GiveBackLemma ==
  ASSUME NEW L, Sound(L), Fits(Live(L)), NEW s, s \notin Live(L), Fits(Live(L) \cup {s}),
         NEW g \in Grants
  PROVE  Returned(L, s, g, GiveBack(L, s, g))
<1> DEFINE a == Admit(L, s)
           r == GiveBack(L, s, g)
<1>1. /\ Sound(a) /\ Live(a) = Live(L) \cup {s} /\ a.grants[s] = <<>>
      /\ \A x \in Live(L) : a.grants[x] = L.grants[x]
  <2>1. Shaped(s)
    BY DEF Fits
  <2>. QED  BY <2>1, AdmitLemma DEF Admits
<1>2. g \o a.grants[s] = g /\ g \in Seq(SUBSET Lines) /\ Len(g) <= MaxGrants
  BY <1>1 DEF Grants
<1>3. r = SetGrants(a, s, g)
  BY <1>2 DEF GiveBack
<1>4. Newest(g, MaxGrants) = g
  BY <1>2, NewestLemma, LimitsAreNatural
<1> HIDE DEF a, r
<1>5. /\ Sound(r) /\ Live(r) = Live(a) /\ r.grants[s] = Newest(g, MaxGrants)
      /\ \A x \in Live(a) \ {s} : r.grants[x] = a.grants[x]
  BY <1>1, <1>2, <1>3, SetGrantsLemma
<1>. QED  BY <1>1, <1>4, <1>5 DEF r, Returned

-----------------------------------------------------------------------------
(* A release gives back one snapshot after the other.                      *)

\* The ledger after i of them.
Chain(L, removed, order, n, g) ==
  g = [i \in 0..n |-> IF i = 0 THEN L ELSE GiveBack(g[i - 1], order[i], removed[order[i]])]

LEMMA LeastOf ==
  ASSUME NEW S, S \subseteq Nat, S # {}
  PROVE  \E m \in S : \A k \in S : m <= k
<1>1. PICK m \in S : \A k \in S : ~(<<k, m>> \in OpToRel(<, Nat))
  BY NatLessThanWellFounded, WFMin
<1>2. \A k \in S : ~(k < m)
  BY <1>1 DEF OpToRel
<1>. QED  BY <1>2

LEMMA ChainExists ==
  ASSUME NEW L, NEW removed, NEW order, NEW n \in Nat
  PROVE  \E g : Chain(L, removed, order, n, g)
<1> DEFINE Has(m) == \E g : Chain(L, removed, order, m, g)
           bad == {m \in Nat : ~Has(m)}
<1>1. Has(0)
  <2>1. Chain(L, removed, order, 0, [i \in 0..0 |-> L])
    BY DEF Chain
  <2>. QED  BY <2>1
<1>2. ASSUME NEW m \in Nat, Has(m) PROVE Has(m + 1)
  <2>1. PICK g : Chain(L, removed, order, m, g)
    BY <1>2
  <2> DEFINE last == GiveBack(g[m], order[m + 1], removed[order[m + 1]])
             h == [i \in 0..(m + 1) |-> IF i = m + 1 THEN last ELSE g[i]]
  <2>2. ASSUME NEW i \in 0..(m + 1)
        PROVE  h[i] = IF i = 0 THEN L ELSE GiveBack(h[i - 1], order[i], removed[order[i]])
    <3>1. CASE i = 0
      <4>1. g[0] = L
        BY <2>1 DEF Chain
      <4>. QED  BY <3>1, <4>1
    <3>2. CASE i # 0 /\ i # m + 1
      <4>1. i \in 0..m /\ i - 1 \in 0..(m + 1) /\ i - 1 # m + 1
        BY <3>2
      <4>2. h[i] = g[i] /\ h[i - 1] = g[i - 1]
        BY <3>2, <4>1
      <4>3. g[i] = GiveBack(g[i - 1], order[i], removed[order[i]])
        BY <2>1, <3>2, <4>1 DEF Chain
      <4> HIDE DEF h
      <4>. QED  BY <3>2, <4>2, <4>3
    <3>3. CASE i = m + 1
      <4>1. i # 0 /\ i - 1 = m /\ m \in 0..(m + 1) /\ m # m + 1
        BY <3>3
      <4>2. h[m] = g[m] /\ h[i] = last
        BY <3>3, <4>1
      <4> HIDE DEF h
      <4>. QED  BY <3>3, <4>1, <4>2
    <3>. QED  BY <3>1, <3>2, <3>3
  <2>3. h = [i \in 0..(m + 1) |-> h[i]]
    OBVIOUS
  <2> HIDE DEF h
  <2>4. Chain(L, removed, order, m + 1, h)
    BY <2>2, <2>3 DEF Chain
  <2>. QED  BY <2>4
<1> HIDE DEF Has
<1>3. bad = {}
  <2>. SUFFICES ASSUME bad # {} PROVE FALSE
    OBVIOUS
  <2>1. PICK m \in bad : \A k \in bad : m <= k
    BY LeastOf
  <2>2. m \in Nat /\ ~Has(m) /\ m # 0
    BY <1>1, <2>1
  <2>3. m - 1 \in Nat /\ Has(m - 1)
    BY <2>1, <2>2
  <2>. QED  BY <1>2, <2>2, <2>3
<1>. QED  BY <1>3 DEF Has

LEMMA ReleaseIsAChain ==
  ASSUME NEW L, NEW removed, NEW order, Len(order) \in Nat
  PROVE  \E g : Chain(L, removed, order, Len(order), g)
                /\ Release(L, removed, order) = g[Len(order)]
<1> DEFINE f == CHOOSE g : Chain(L, removed, order, Len(order), g)
<1>1. Chain(L, removed, order, Len(order), f)
  BY ChainExists
<1>2. Release(L, removed, order) = f[Len(order)]
  BY DEF Release, Chain
<1>. QED  BY <1>1, <1>2

Given(order, m) == {order[i] : i \in 1..m}

\* r is L with the first m of the order given back.
Restores(L, removed, order, m, r) ==
  /\ Sound(r) /\ Live(r) = Live(L) \cup Given(order, m)
  /\ \A x \in Live(L) : r.grants[x] = L.grants[x]
  /\ \A x \in Given(order, m) : r.grants[x] = removed[x]

LEMMA FitsLess ==
  ASSUME NEW S, Fits(S), NEW T \in SUBSET S
  PROVE  Fits(T)
<1>1. IsFiniteSet(T) /\ Cardinality(T) <= Cardinality(S)
  BY FS_Subset DEF Fits
<1>2. Cardinality(T) \in Nat /\ Cardinality(S) \in Nat
  BY <1>1, FS_CardinalityType DEF Fits
<1>. QED  BY <1>1, <1>2, LimitsAreNatural DEF Fits, OneTag

LEMMA OrderLemma ==
  ASSUME NEW D, IsFiniteSet(D), NEW order \in SetToSeqs(D)
  PROVE  /\ Len(order) \in Nat
         /\ \A i \in 1..Len(order) : order[i] \in D
         /\ \A i, j \in 1..Len(order) : i # j => order[i] # order[j]
         /\ Given(order, Len(order)) = D
<1> DEFINE n == Cardinality(D)
<1>1. n \in Nat
  BY FS_CardinalityType
<1>2. order \in [1..n -> D] /\ \A i, j \in 1..n : i # j => order[i] # order[j]
  BY DEF SetToSeqs
<1>3. order \in Seq(D) /\ Len(order) = n
  BY <1>1, <1>2
<1>4. order \in Injection(1..n, D)
  BY <1>2 DEF Injection, IsInjective
<1>5. IsFiniteSet(1..n) /\ Cardinality(1..n) = n
  BY <1>1, FS_Interval
<1>6. order \in Surjection(1..n, D)
  <2> HIDE DEF n
  <2>1. Cardinality(1..n) = Cardinality(D) => order \in Surjection(1..n, D)
    BY <1>4, FS_Injection
  <2>. QED  BY <1>5, <2>1 DEF n
<1>7. \A x \in D : \E i \in 1..n : order[i] = x
  BY <1>6 DEF Surjection
<1>. QED  BY <1>1, <1>2, <1>3, <1>7 DEF Given

\* A release after a claim gives everything back, whatever the order.
LEMMA ReleaseLemma ==
  ASSUME NEW L, Sound(L), NEW removed, removed \in [DOMAIN removed -> Grants],
         Live(L) \cap DOMAIN removed = {}, Fits(Live(L) \cup DOMAIN removed),
         NEW order \in SetToSeqs(DOMAIN removed)
  PROVE  LET r == Release(L, removed, order)
         IN /\ Sound(r) /\ Live(r) = Live(L) \cup DOMAIN removed
            /\ \A x \in Live(L) : r.grants[x] = L.grants[x]
            /\ \A x \in DOMAIN removed : r.grants[x] = removed[x]
<1> DEFINE n == Len(order)
           D == DOMAIN removed
<1>1. IsFiniteSet(D)
  BY FS_Subset DEF Fits
<1>2. /\ n \in Nat /\ \A i \in 1..n : order[i] \in D
      /\ \A i, j \in 1..n : i # j => order[i] # order[j]
      /\ Given(order, n) = D
  BY <1>1, OrderLemma
<1>3. PICK g : Chain(L, removed, order, n, g) /\ Release(L, removed, order) = g[n]
  BY <1>2, ReleaseIsAChain
<1> HIDE DEF n, D
<1> DEFINE Done(m) == Restores(L, removed, order, m, g[m])
           bad == {m \in 0..n : ~Done(m)}
<1>4. Done(0)
  <2>1. g[0] = L /\ Given(order, 0) = {}
    BY <1>2, <1>3 DEF Chain, Given
  <2>. QED  BY <2>1 DEF Restores
<1>5. ASSUME NEW m \in 1..n, Done(m - 1) PROVE Done(m)
  <2> DEFINE M == g[m - 1]
             s == order[m]
  <2>1. g[m] = GiveBack(M, s, removed[s])
    BY <1>2, <1>3 DEF Chain
  <2>2. Given(order, m) = Given(order, m - 1) \cup {s}
    BY <1>2 DEF Given
  <2>3. s \in D /\ s \notin Live(L) /\ s \notin Given(order, m - 1)
    BY <1>2 DEF Given, D
  <2>4. /\ Sound(M) /\ Live(M) = Live(L) \cup Given(order, m - 1)
        /\ \A x \in Live(L) : M.grants[x] = L.grants[x]
        /\ \A x \in Given(order, m - 1) : M.grants[x] = removed[x]
    BY <1>5 DEF Restores
  <2>5. Given(order, m) \subseteq D
    BY <1>2 DEF Given
  <2>6. Live(M) \subseteq Live(L) \cup D /\ Live(M) \cup {s} \subseteq Live(L) \cup D
    BY <2>2, <2>4, <2>5
  <2>7. Fits(Live(M)) /\ Fits(Live(M) \cup {s})
    BY <2>6, FitsLess DEF D
  <2>8. removed[s] \in Grants
    BY <2>3 DEF D
  <2> HIDE DEF M, s
  <2>9. Returned(M, s, removed[s], g[m])
    <3>1. Sound(M) /\ s \notin Live(M)
      BY <2>3, <2>4
    <3>. QED  BY <2>1, <2>7, <2>8, <3>1, GiveBackLemma
  <2>. QED  BY <2>2, <2>4, <2>9 DEF Restores, Returned
<1>6. bad = {}
  <2>. SUFFICES ASSUME bad # {} PROVE FALSE
    OBVIOUS
  <2> HIDE DEF Done
  <2>0. bad \subseteq Nat
    BY <1>2
  <2>1. PICK m \in bad : \A k \in bad : m <= k
    BY <2>0, LeastOf
  <2>2. m \in 1..n /\ ~Done(m)
    BY <1>2, <1>4, <2>1
  <2>3. m - 1 \in 0..n /\ ~(m <= m - 1)
    BY <1>2, <2>2
  <2>4. Done(m - 1)
    BY <2>1, <2>3
  <2>. QED  BY <1>5, <2>2, <2>4
<1>7. Done(n)
  BY <1>2, <1>6
<1>. QED  BY <1>2, <1>3, <1>7 DEF Restores, D

-----------------------------------------------------------------------------
(* The agent's account: its ledger, what a call has taken from it, and     *)
(* what it was shown last.                                                 *)

\* The grants an edit under way has claimed.
Taken(k) == IF k.tool = "edit" THEN k.removed ELSE << >>

GrantsWith(L, H) == [s \in Live(L) \cup DOMAIN H |-> IF s \in Live(L) THEN L.grants[s] ELSE H[s]]

\* Somewhere among these grants is the one that was printed.
Good(all, shown) ==
  /\ shown.snap \in DOMAIN all
  /\ \E i \in DOMAIN all[shown.snap] : shown.grant \subseteq all[shown.snap][i]

\* Those printed last are there, and all of them while there is room.
Shown(all, pr) ==
  \A p \in DOMAIN pr.anchors :
    /\ pr.anchors[p].snap.path = p
    /\ \/ Good(all, pr.anchors[p])
       \/ p # pr.last /\ Full(DOMAIN all)

Account(L, H, pr) ==
  /\ Sound(L)
  /\ H \in [DOMAIN H -> Grants] /\ Live(L) \cap DOMAIN H = {}
  /\ Fits(Live(L) \cup DOMAIN H)
  /\ Shown(GrantsWith(L, H), pr)

Accounts ==
  /\ ledger = [w \in Agents |-> ledger[w]]
  /\ printed = [w \in Agents |-> printed[w]]
  /\ call = [w \in Agents |-> call[w]]
  /\ \A w \in Agents : /\ "tool" \in DOMAIN call[w]
                       /\ call[w].tool = "edit" => "removed" \in DOMAIN call[w]
                       /\ Account(ledger[w], Taken(call[w]), printed[w])

LEMMA NothingTaken ==
  ASSUME NEW L, NEW pr
  PROVE  Account(L, << >>, pr) <=> Sound(L) /\ Fits(Live(L)) /\ Shown(L.grants, pr)
<1>1. DOMAIN << >> = {} /\ << >> \in [DOMAIN << >> -> Grants]
  OBVIOUS
<1>2. Live(L) \cup DOMAIN << >> = Live(L) /\ Live(L) \cap DOMAIN << >> = {}
  BY <1>1
<1>3. Sound(L) => GrantsWith(L, << >>) = L.grants
  BY <1>2 DEF Sound, GrantsWith
<1>. QED  BY <1>1, <1>2, <1>3 DEF Account

\* A claim moves grants from the ledger to the call.
LEMMA ClaimLemma ==
  ASSUME NEW L, NEW pr, Account(L, << >>, pr), NEW p
  PROVE  Account(Claimed(L, p), Removed(L, p), pr)
<1> DEFINE M == Claimed(L, p)
           H == Removed(L, p)
<1>1. Sound(L) /\ Fits(Live(L)) /\ Shown(L.grants, pr)
  BY NothingTaken
<1>2. OfPath(L, p) \subseteq Live(L)
  BY DEF OfPath
<1>3. H = [s \in OfPath(L, p) |-> L.grants[s]] /\ DOMAIN H = OfPath(L, p)
  BY DEF Removed, Restrict
<1>4. /\ Sound(M) /\ Live(M) = Live(L) \ OfPath(L, p)
      /\ \A s \in Live(M) : M.grants[s] = L.grants[s]
  BY <1>1, ForgetLemma DEF Claimed
<1> HIDE DEF M, H
<1>5. Live(M) \cup DOMAIN H = Live(L) /\ Live(M) \cap DOMAIN H = {}
  BY <1>2, <1>3, <1>4
<1>6. H \in [DOMAIN H -> Grants]
  BY <1>1, <1>2, <1>3 DEF Sound
<1>7. GrantsWith(M, H) = L.grants
  <2>1. \A s \in Live(L) : (IF s \in Live(M) THEN M.grants[s] ELSE H[s]) = L.grants[s]
    BY <1>2, <1>3, <1>4
  <2>2. L.grants = [s \in Live(L) |-> L.grants[s]]
    BY <1>1 DEF Sound
  <2>. QED  BY <1>5, <2>1, <2>2 DEF GrantsWith
<1>8. Account(M, H, pr)
  BY <1>1, <1>4, <1>5, <1>6, <1>7 DEF Account
<1>. QED  BY <1>8 DEF M, H

\* A release moves them back.
LEMMA ReleaseKeepsAccount ==
  ASSUME NEW L, NEW H, NEW pr, Account(L, H, pr), NEW order \in SetToSeqs(DOMAIN H)
  PROVE  Account(Release(L, H, order), << >>, pr)
<1> DEFINE r == Release(L, H, order)
<1>1. /\ Sound(L) /\ H \in [DOMAIN H -> Grants] /\ Live(L) \cap DOMAIN H = {}
      /\ Fits(Live(L) \cup DOMAIN H) /\ Shown(GrantsWith(L, H), pr)
  BY DEF Account
<1>2. /\ Sound(r) /\ Live(r) = Live(L) \cup DOMAIN H
      /\ \A x \in Live(L) : r.grants[x] = L.grants[x]
      /\ \A x \in DOMAIN H : r.grants[x] = H[x]
  BY <1>1, ReleaseLemma
<1> HIDE DEF r
<1>3. r.grants = GrantsWith(L, H)
  <2>1. r.grants = [s \in Live(r) |-> r.grants[s]]
    BY <1>2 DEF Sound
  <2>2. \A s \in Live(r) : r.grants[s] = IF s \in Live(L) THEN L.grants[s] ELSE H[s]
    BY <1>2
  <2>. QED  BY <1>2, <2>1, <2>2 DEF GrantsWith
<1>4. Account(r, << >>, pr)
  BY <1>1, <1>2, <1>3, NothingTaken
<1>. QED  BY <1>4 DEF r

\* A ledger is sound and within its limits whatever was taken from it.
LEMMA AccountIsSound ==
  ASSUME NEW L, NEW H, NEW pr, Account(L, H, pr)
  PROVE  Sound(L) /\ Fits(Live(L))
BY FitsLess DEF Account

LEMMA NothingIsShown ==
  ASSUME NEW L, Sound(L), Fits(Live(L))
  PROVE  Account(L, << >>, NoPrint)
<1>1. DOMAIN NoPrint.anchors = {}
  BY DEF NoPrint
<1>2. Shown(L.grants, NoPrint)
  BY <1>1 DEF Shown
<1>. QED  BY <1>2, NothingTaken

\* What is authorized when it is printed is shown, beside what was before.
LEMMA AuthorizedIsShown ==
  ASSUME NEW L, NEW pr, Account(L, << >>, pr), NEW s, Shaped(s), NEW grant \in SUBSET Lines
  PROVE  Account(Authorize(L, s, grant), << >>, Shows(pr, s, grant))
<1> DEFINE r == Authorize(L, s, grant)
           now == Shows(pr, s, grant)
<1>0. Sound(L) /\ Fits(Live(L)) /\ Shown(L.grants, pr)
  BY NothingTaken
<1>1. /\ Sound(r) /\ Fits(Live(r)) /\ s \in Live(r)
      /\ \E i \in DOMAIN r.grants[s] : r.grants[s][i] = grant
      /\ Spares(L, s, r)
  BY <1>0, AuthorizeLemma
<1>2. /\ DOMAIN now.anchors = DOMAIN pr.anchors \cup {s.path} /\ now.last = s.path
      /\ now.anchors[s.path] = [snap |-> s, grant |-> grant]
      /\ \A p \in DOMAIN pr.anchors : p # s.path => now.anchors[p] = pr.anchors[p]
  BY DEF Shows
<1>3. DOMAIN r.grants = Live(r) /\ DOMAIN L.grants = Live(L)
  BY DEF Live
<1> HIDE DEF r, now
<1>4. Good(r.grants, now.anchors[s.path]) /\ now.anchors[s.path].snap.path = s.path
  BY <1>1, <1>2, <1>3 DEF Good
<1>5. ASSUME NEW p \in DOMAIN pr.anchors, p # s.path
      PROVE  /\ now.anchors[p].snap.path = p
             /\ Good(r.grants, now.anchors[p]) \/ Full(DOMAIN r.grants)
  <2> DEFINE a == pr.anchors[p]
  <2>1. now.anchors[p] = a
    BY <1>2, <1>5
  <2>2. a.snap.path = p /\ (Good(L.grants, a) \/ Full(Live(L)))
    BY <1>0, <1>3 DEF Shown
  <2> HIDE DEF a
  <2>3. CASE Full(Live(r))
    BY <1>3, <2>1, <2>2, <2>3
  <2>4. CASE ~Full(Live(r))
    <3>1. ~Full(Live(L)) /\ Good(L.grants, a)
      BY <1>1, <2>2, <2>4 DEF Spares
    <3>2. a.snap \in Live(L) /\ a.snap.path # s.path
      BY <1>3, <1>5, <2>2, <3>1 DEF Good
    <3>3. a.snap \in Live(r) /\ r.grants[a.snap] = L.grants[a.snap]
      BY <1>1, <2>4, <3>2 DEF Spares
    <3>4. Good(r.grants, a)
      BY <1>3, <3>1, <3>3 DEF Good
    <3>. QED  BY <2>1, <2>2, <3>4
  <2>. QED  BY <2>3, <2>4
<1>6. Shown(r.grants, now)
  <2>. SUFFICES ASSUME NEW p \in DOMAIN now.anchors
                PROVE  /\ now.anchors[p].snap.path = p
                       /\ \/ Good(r.grants, now.anchors[p])
                          \/ p # now.last /\ Full(DOMAIN r.grants)
    BY DEF Shown
  <2>1. CASE p = s.path
    BY <1>4, <2>1
  <2>2. CASE p # s.path
    BY <1>2, <1>5, <2>2
  <2>. QED  BY <2>1, <2>2
<1>7. Account(r, << >>, now)
  BY <1>1, <1>6, NothingTaken
<1>. QED  BY <1>7 DEF r, now

LEMMA SupersedeIsShown ==
  ASSUME NEW L, Sound(L), Fits(Live(L)), NEW s, Shaped(s), NEW grant \in SUBSET Lines
  PROVE  Account(Supersede(L, s, grant), << >>, Shows(NoPrint, s, grant))
<1> DEFINE M == Forget(L, OfPath(L, s.path))
<1>1. Sound(M) /\ Live(M) \subseteq Live(L)
  BY ForgetLemma
<1>2. Fits(Live(M))
  BY <1>1, FitsLess
<1>3. Supersede(L, s, grant) = Authorize(M, s, grant)
  BY DEF Supersede
<1> HIDE DEF M
<1>4. Account(M, << >>, NoPrint)
  BY <1>1, <1>2, NothingIsShown
<1>. QED  BY <1>3, <1>4, AuthorizedIsShown

LEMMA EmptyAccount == Account(Empty, << >>, NoPrint)
<1>1. Empty.grants = << >> /\ Empty.older = {} /\ Live(Empty) = {}
  BY DEF Empty, Live
<1>2. Sound(Empty)
  BY <1>1 DEF Sound, Ordered, Empty
<1>3. Fits(Live(Empty))
  BY <1>1, FS_EmptySet, LimitsAreNatural DEF Fits, OneTag
<1>. QED  BY <1>2, <1>3, NothingIsShown

LEMMA InitAccounts == InitTools => Accounts
<1>. SUFFICES ASSUME InitTools PROVE Accounts
  OBVIOUS
<1>1. "tool" \in DOMAIN NoCall /\ NoCall.tool = "none" /\ Taken(NoCall) = << >>
  BY DEF NoCall, Taken
<1>. QED  BY EmptyAccount, <1>1 DEF InitTools, Accounts

\* A step of one agent, after which its account is in order.
Balances(w, L, k, pr) ==
  /\ ledger' = [ledger EXCEPT ![w] = L]
  /\ call' = [call EXCEPT ![w] = k]
  /\ printed' = [printed EXCEPT ![w] = pr]
  /\ "tool" \in DOMAIN k /\ (k.tool = "edit" => "removed" \in DOMAIN k)
  /\ Account(L, Taken(k), pr)

LEMMA OneAgent ==
  ASSUME Accounts, NEW w \in Agents, NEW L, NEW k, NEW pr, Balances(w, L, k, pr)
  PROVE  Accounts'
<1>1. /\ ledger' = [v \in Agents |-> ledger'[v]] /\ printed' = [v \in Agents |-> printed'[v]]
      /\ call' = [v \in Agents |-> call'[v]]
      /\ ledger'[w] = L /\ call'[w] = k /\ printed'[w] = pr
      /\ \A v \in Agents \ {w} :
           ledger'[v] = ledger[v] /\ call'[v] = call[v] /\ printed'[v] = printed[v]
  BY DEF Accounts, Balances
<1>2. ASSUME NEW v \in Agents
      PROVE  /\ "tool" \in DOMAIN call'[v]
             /\ call'[v].tool = "edit" => "removed" \in DOMAIN call'[v]
             /\ Account(ledger'[v], Taken(call'[v]), printed'[v])
  <2>1. CASE v = w
    BY <1>1, <2>1 DEF Balances
  <2>2. CASE v # w
    BY <1>1, <2>2 DEF Accounts
  <2>. QED  BY <2>1, <2>2
<1>. QED  BY <1>1, <1>2 DEF Accounts

LEMMA SameAsBefore ==
  ASSUME Accounts, NEW w \in Agents
  PROVE  /\ ledger = [ledger EXCEPT ![w] = ledger[w]] /\ call = [call EXCEPT ![w] = call[w]]
         /\ printed = [printed EXCEPT ![w] = printed[w]]
         /\ "tool" \in DOMAIN call[w] /\ (call[w].tool = "edit" => "removed" \in DOMAIN call[w])
         /\ Account(ledger[w], Taken(call[w]), printed[w])
         /\ call[w].tool # "edit" => Account(ledger[w], << >>, printed[w])
         /\ Sound(ledger[w]) /\ Fits(Live(ledger[w]))
         /\ Free(w) => Taken(call[w]) = << >> /\ call[w].tool # "edit"
<1>1. /\ "tool" \in DOMAIN call[w] /\ (call[w].tool = "edit" => "removed" \in DOMAIN call[w])
      /\ Account(ledger[w], Taken(call[w]), printed[w])
  BY DEF Accounts
<1>2. Sound(ledger[w]) /\ Fits(Live(ledger[w]))
  BY <1>1, AccountIsSound
<1>3. /\ ledger = [ledger EXCEPT ![w] = ledger[w]] /\ call = [call EXCEPT ![w] = call[w]]
      /\ printed = [printed EXCEPT ![w] = printed[w]]
  BY DEF Accounts
<1>4. Free(w) => Taken(call[w]) = << >> /\ call[w].tool # "edit"
  BY DEF Free, NoCall, Taken
<1>5. call[w].tool # "edit" => Taken(call[w]) = << >>
  BY DEF Taken
<1>. QED  BY <1>1, <1>2, <1>3, <1>4, <1>5

LEMMA AccountsStep ==
  ASSUME Accounts, [NextTools]_allVars
  PROVE  Accounts'
<1>1. ASSUME UNCHANGED toolVars PROVE Accounts'
  BY <1>1 DEF toolVars, Accounts
<1>2. ASSUME NEW w \in Agents, ToolStep(w) PROVE Accounts'
  <2> DEFINE L == ledger[w]
             k == call[w]
             pr == printed[w]
  <2>0. /\ ledger = [ledger EXCEPT ![w] = L] /\ call = [call EXCEPT ![w] = k]
        /\ printed = [printed EXCEPT ![w] = pr]
        /\ "tool" \in DOMAIN k /\ (k.tool = "edit" => "removed" \in DOMAIN k)
        /\ Account(L, Taken(k), pr)
        /\ k.tool # "edit" => Account(L, << >>, pr)
        /\ Sound(L) /\ Fits(Live(L))
        /\ Free(w) => Taken(k) = << >> /\ k.tool # "edit"
    BY SameAsBefore
  <2>n. "tool" \in DOMAIN NoCall /\ NoCall.tool # "edit" /\ Taken(NoCall) = << >>
    BY DEF NoCall, Taken
  <2>1. ASSUME NEW p \in Paths, NEW grant \in SUBSET Lines, Read(w, p, grant) PROVE Accounts'
    <3> DEFINE s == Snapshot(p, file[p])
    <3>1. /\ ledger' = [ledger EXCEPT ![w] = Authorize(L, s, grant)] /\ call' = call /\ Free(w)
          /\ printed' = [printed EXCEPT ![w] = Shows(pr, s, grant)]
      BY <2>1 DEF Read
    <3>s. Shaped(s)
      BY DEF Shaped, Snapshot
    <3> HIDE DEF s, L, k, pr
    <3>2. Account(Authorize(L, s, grant), << >>, Shows(pr, s, grant))
      BY <2>0, <3>1, <3>s, AuthorizedIsShown
    <3>b. Balances(w, Authorize(L, s, grant), k, Shows(pr, s, grant))
      BY <2>0, <3>1, <3>2 DEF Balances
    <3>. QED  BY <3>b, OneAgent
  <2>2. ASSUME NEW p \in Paths, NEW t, NEW ls, Edit(w, p, t, ls) PROVE Accounts'
    <3>1. PICK s : /\ ledger' = [ledger EXCEPT ![w] = Claimed(L, p)] /\ Free(w)
                   /\ call' = [call EXCEPT ![w] = EditOf(L, s, p)] /\ printed' = printed
      BY <2>2 DEF Edit, Silent
    <3> DEFINE e == EditOf(L, s, p)
    <3>2. "tool" \in DOMAIN e /\ "removed" \in DOMAIN e /\ Taken(e) = Removed(L, p)
      BY DEF EditOf, Taken
    <3> HIDE DEF e, L, k, pr
    <3>3. Account(Claimed(L, p), Removed(L, p), pr)
      BY <2>0, <3>1, ClaimLemma
    <3>b. Balances(w, Claimed(L, p), e, pr)
      BY <2>0, <3>1, <3>2, <3>3 DEF Balances, e
    <3>. QED  BY <3>b, OneAgent
  <2>3. ASSUME NEW p \in Paths, NEW t, NEW ls, EditGivesUp(w, p, t, ls) PROVE Accounts'
    <3>1. PICK order \in SetToSeqs(OfPath(L, p)) :
            /\ ledger' = [ledger EXCEPT ![w] = Release(Claimed(L, p), Removed(L, p), order)]
            /\ Free(w) /\ call' = call /\ printed' = printed
      BY <2>3 DEF EditGivesUp
    <3>2. DOMAIN Removed(L, p) = OfPath(L, p)
      BY DEF Removed, Restrict
    <3> HIDE DEF L, k, pr
    <3>3. Account(Claimed(L, p), Removed(L, p), pr)
      BY <2>0, <3>1, ClaimLemma
    <3>4. Account(Release(Claimed(L, p), Removed(L, p), order), << >>, pr)
      BY <3>2, <3>3, ReleaseKeepsAccount
    <3>b. Balances(w, Release(Claimed(L, p), Removed(L, p), order), k, pr)
      BY <2>0, <3>1, <3>4 DEF Balances
    <3>. QED  BY <3>b, OneAgent
  <2>4. ASSUME NEW p \in Paths, WriteFile(w, p) PROVE Accounts'
    <3> DEFINE e == [tool |-> "write", path |-> p, wrote |-> 0]
    <3>1. ledger' = ledger /\ printed' = printed /\ call' = [call EXCEPT ![w] = e] /\ Free(w)
      BY <2>4 DEF WriteFile
    <3>2. "tool" \in DOMAIN e /\ e.tool # "edit" /\ Taken(e) = << >>
      BY DEF Taken
    <3> HIDE DEF e, L, k, pr
    <3>b. Balances(w, L, e, pr)
      BY <2>0, <3>1, <3>2 DEF Balances
    <3>. QED  BY <3>b, OneAgent
  <2>5. CASE Inner(w)
    BY <1>1, <2>5 DEF Inner
  <2>6. CASE Renamed(w)
    <3> DEFINE e == [k EXCEPT !.wrote = stamp']
    <3>1. ledger' = ledger /\ printed' = printed /\ call' = [call EXCEPT ![w] = e]
      BY <2>6 DEF Renamed
    <3>2. /\ "tool" \in DOMAIN e /\ e.tool = k.tool
          /\ k.tool = "edit" => "removed" \in DOMAIN e /\ e.removed = k.removed
      BY <2>0
    <3> HIDE DEF e, L, k, pr
    <3>3. Taken(e) = Taken(k)
      BY <3>2 DEF Taken
    <3>b. Balances(w, L, e, pr)
      BY <2>0, <3>1, <3>2, <3>3 DEF Balances
    <3>. QED  BY <3>b, OneAgent
  <2>7. CASE Fails(w)
    <3>1. printed' = printed /\ call' = [call EXCEPT ![w] = NoCall]
      BY <2>7 DEF Fails, Silent, Returns
    <3>2. CASE k.tool = "edit" /\ \E order \in SetToSeqs(DOMAIN k.removed) :
                 ledger' = [ledger EXCEPT ![w] = Release(L, k.removed, order)]
      <4>1. PICK order \in SetToSeqs(DOMAIN k.removed) :
              ledger' = [ledger EXCEPT ![w] = Release(L, k.removed, order)]
        BY <3>2
      <4>2. Taken(k) = k.removed
        BY <3>2 DEF Taken
      <4> HIDE DEF L, k, pr
      <4>3. Account(Release(L, k.removed, order), << >>, pr)
        BY <2>0, <4>2, ReleaseKeepsAccount
      <4>b. Balances(w, Release(L, k.removed, order), NoCall, pr)
        BY <2>0, <2>n, <3>1, <4>1, <4>3 DEF Balances
      <4>. QED  BY <4>b, OneAgent
    <3>3. CASE k.tool = "write" /\ ledger' = ledger
      <4>1. Account(L, << >>, pr)
        BY <2>0, <3>3
      <4> HIDE DEF L, k, pr
      <4>b. Balances(w, L, NoCall, pr)
        BY <2>0, <2>n, <3>1, <3>3, <4>1 DEF Balances
      <4>. QED  BY <4>b, OneAgent
    <3>. QED  BY <2>7, <3>2, <3>3 DEF Fails
  <2>8. ASSUME NEW grant \in SUBSET Lines, Lands(w, grant) PROVE Accounts'
    <3> DEFINE s == Snapshot(k.path, k.wrote)
               now == Shows(NoPrint, s, grant)
    <3>1. /\ printed' = [printed EXCEPT ![w] = now] /\ call' = [call EXCEPT ![w] = NoCall]
          /\ \/ ledger' = [ledger EXCEPT ![w] = Authorize(L, s, grant)]
             \/ ledger' = [ledger EXCEPT ![w] = Supersede(L, s, grant)]
      BY <2>8 DEF Lands, Returns
    <3>2. /\ Account(Authorize(L, s, grant), << >>, now)
          /\ Account(Supersede(L, s, grant), << >>, now)
      <4>1. Sound(L) /\ Fits(Live(L)) /\ Shaped(s)
        BY <2>0 DEF Shaped, Snapshot
      <4> HIDE DEF s, L, k, pr
      <4>2. Account(L, << >>, NoPrint)
        BY <4>1, NothingIsShown
      <4>. QED  BY <4>1, <4>2, AuthorizedIsShown, SupersedeIsShown
    <3> HIDE DEF s, now, L, k, pr
    <3>b. Balances(w, Authorize(L, s, grant), NoCall, now) \/ Balances(w, Supersede(L, s, grant), NoCall, now)
      BY <2>n, <3>1, <3>2 DEF Balances
    <3>. QED  BY <3>b, OneAgent
  <2>9. CASE RebuildTools(w)
    <3>1. /\ ledger' = [ledger EXCEPT ![w] = Empty] /\ printed' = [printed EXCEPT ![w] = NoPrint]
          /\ call' = call /\ Free(w)
      BY <2>9 DEF RebuildTools
    <3>2. Account(Empty, << >>, NoPrint)
      BY EmptyAccount
    <3> HIDE DEF L, k, pr
    <3>b. Balances(w, Empty, k, NoPrint)
      BY <2>0, <3>1, <3>2 DEF Balances
    <3>. QED  BY <3>b, OneAgent
  <2>. QED
    BY <1>2, <2>1, <2>2, <2>3, <2>4, <2>5, <2>6, <2>7, <2>8, <2>9 DEF ToolStep
<1>3. ASSUME NEW w \in Writers \ Agents, Other(w) PROVE Accounts'
  BY <1>1, <1>3 DEF Other
<1>4. ASSUME NEW p \in Paths, Outside(p) PROVE Accounts'
  BY <1>1, <1>4 DEF Outside
<1>. QED  BY <1>1, <1>2, <1>3, <1>4 DEF NextTools, allVars

\* The anchors an agent has in its conversation authorize an edit as long as no tool
\* of it lands and however many edits fail in between, in whatever order their claims
\* come back: those printed last always do, however small the ledger is, and those of
\* another file do unless the ledger is full.
THEOREM PrintedStaysGood == SpecTools => []PrintedAuthorizes
<1>1. Accounts => PrintedAuthorizes
  <2>. SUFFICES ASSUME Accounts, NEW w \in Agents, Free(w), NEW p \in DOMAIN printed[w].anchors
                PROVE  \/ Authorizes(ledger[w], printed[w].anchors[p])
                       \/ p # printed[w].last /\ Cardinality(Live(ledger[w])) = MaxTracked
    BY DEF PrintedAuthorizes
  <2>1. Account(ledger[w], << >>, printed[w])
    BY SameAsBefore
  <2>2. Shown(ledger[w].grants, printed[w])
    BY <2>1, NothingTaken
  <2>3. \/ Good(ledger[w].grants, printed[w].anchors[p])
        \/ p # printed[w].last /\ Full(DOMAIN ledger[w].grants)
    BY <2>2 DEF Shown
  <2>. QED  BY <2>3 DEF Good, Full, Authorizes, Covered, Live
<1>. QED  BY <1>1, InitAccounts, AccountsStep, PTL DEF SpecTools
=============================================================================
