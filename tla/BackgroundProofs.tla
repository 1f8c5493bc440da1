-------------------------- MODULE BackgroundProofs --------------------------
(***************************************************************************)
(* Proofs about what works in the background of a session: first the job   *)
(* manager (JobManager), for any set of jobs, scopes and clients, then the *)
(* watches (Watches), for any bounds, budget and set of subscribers.  The  *)
(* two share no state, and no fact of one is used for the other.           *)
(***************************************************************************)
EXTENDS JobManager, Watches, FiniteSetTheorems, FunctionTheorems, SequenceTheorems,
        NaturalsInduction, WellFoundedInduction, TLAPS

\* Every set of slot holders is finite, and so is every part of it.
LEMMA FiniteParts ==
  ASSUME NEW S \in SUBSET Jobs
  PROVE  IsFiniteSet(S) /\ Cardinality(S) \in Nat
BY JobsAssumption, FS_Subset, FS_CardinalityType

\* A slot taken for a new holder, and one given back by a holder, keep the
\* count of slots exact.
LEMMA AddHolder ==
  ASSUME NEW S \in SUBSET Jobs, NEW j \in Jobs, j \notin S
  PROVE  Cardinality(S \cup {j}) = Cardinality(S) + 1
BY FiniteParts, FS_AddElement

LEMMA RemoveHolder ==
  ASSUME NEW S \in SUBSET Jobs, NEW j \in S
  PROVE  Cardinality(S \ {j}) = Cardinality(S) - 1
BY FiniteParts, FS_RemoveElement

LEMMA RemoveHolders ==
  ASSUME NEW S \in SUBSET Jobs, NEW R \in SUBSET S
  PROVE  Cardinality(S \ R) = Cardinality(S) - Cardinality(R)
<1>1. S \cap R = R
  OBVIOUS
<1> QED
  BY <1>1, FiniteParts, FS_Difference

\* The initial states satisfy the invariant.
LEMMA InitInv == Init => IInv
<1> SUFFICES ASSUME Init PROVE IInv
  OBVIOUS
<1>1. TypeOK
  BY LimitAssumption, BoundAssumption DEF Init, TypeOK, PCs, Status, ClosePCs, ClientPCs
<1>2. Shape
  BY DEF Init, Shape, Admitted, Working, Registered
<1>3. SlotsExact
  <2>1. Holders = {}
    BY DEF Init, Holders, Admitted
  <2> QED
    BY <2>1, FS_EmptySet DEF SlotsExact, Init
<1>4. CloseShape /\ NothingRunsAfterClose
  BY DEF Init, CloseShape, NothingRunsAfterClose
<1> QED
  BY <1>1, <1>2, <1>3, <1>4 DEF IInv

\* One step of a Spawn call or of a job's goroutine keeps the count of slots.
LEMMA JobSlots ==
  ASSUME IInv, NEW j \in Jobs, JobStep(j)
  PROVE  SlotsExact'
<1> USE DEF IInv, TypeOK, Shape, SlotsExact
<1>h. Holders \in SUBSET Jobs
  BY DEF Holders
<1>1. CASE Admit(j)
  <2>1. Holders' = Holders \cup {j} /\ j \notin Holders
    BY <1>1 DEF Holders, Admit, Admitted, Working, Registered, Goto, StoreFails, jobVars, memVars, diskVars, closeVars, clientVars, procVars
  <2> QED
    BY <2>1, <1>1, <1>h, AddHolder DEF Admit
<1>2. CASE Refuse(j)
  <2>1. Holders' = Holders /\ slots' = slots
    BY <1>2 DEF Holders, Refuse, Admitted, Working, Registered, Goto, StoreFails, jobVars, memVars, diskVars, closeVars, clientVars, procVars
  <2> QED
    BY <2>1
<1>3. CASE Create(j)
  <2>1. Holders' = Holders /\ slots' = slots
    BY <1>3 DEF Holders, Create, Admitted, Working, Registered, Goto, StoreFails, jobVars, memVars, diskVars, closeVars, clientVars, procVars
  <2> QED
    BY <2>1
<1>4. CASE CreateFails(j)
  <2>1. Holders' = Holders \ {j} /\ j \in Holders
    BY <1>4 DEF Holders, CreateFails, Admitted, Working, Registered, Goto, StoreFails, jobVars, memVars, diskVars, closeVars, clientVars, procVars
  <2> QED
    BY <2>1, <1>4, <1>h, RemoveHolder DEF CreateFails
<1>5. CASE SpawnAborted(j)
  <2>1. Holders' = Holders /\ slots' = slots
    BY <1>5 DEF Holders, SpawnAborted, Admitted, Working, Registered, Goto, StoreFails, jobVars, memVars, diskVars, closeVars, clientVars, procVars
  <2> QED
    BY <2>1
<1>6. CASE Register(j)
  <2>1. Holders' = Holders /\ slots' = slots
    BY <1>6 DEF Holders, Register, Admitted, Working, Registered, Goto, StoreFails, jobVars, memVars, diskVars, closeVars, clientVars, procVars
  <2> QED
    BY <2>1
<1>7. CASE DropAdmission(j)
  <2>1. Holders' = Holders \ {j} /\ j \in Holders
    BY <1>7 DEF Holders, DropAdmission, Admitted, Working, Registered, Goto, StoreFails, jobVars, memVars, diskVars, closeVars, clientVars, procVars
  <2> QED
    BY <2>1, <1>7, <1>h, RemoveHolder DEF DropAdmission
<1>8. CASE Unwind(j)
  <2>1. Holders' = Holders /\ slots' = slots
    BY <1>8 DEF Holders, Unwind, Admitted, Working, Registered, Goto, StoreFails, jobVars, memVars, diskVars, closeVars, clientVars, procVars
  <2> QED
    BY <2>1
<1>9. CASE Start(j)
  <2>1. Holders' = Holders /\ slots' = slots
    BY <1>9 DEF Holders, Start, Admitted, Working, Registered, Goto, StoreFails, jobVars, memVars, diskVars, closeVars, clientVars, procVars
  <2> QED
    BY <2>1
<1>10. CASE BindSession(j)
  <2>1. Holders' = Holders /\ slots' = slots
    BY <1>10 DEF Holders, BindSession, Admitted, Working, Registered, Goto, StoreFails, jobVars, memVars, diskVars, closeVars, clientVars, procVars
  <2> QED
    BY <2>1
<1>11. CASE RunnerReturns(j)
  <2>1. Holders' = Holders /\ slots' = slots
    BY <1>11 DEF Holders, RunnerReturns, Admitted, Working, Registered, Goto, StoreFails, jobVars, memVars, diskVars, closeVars, clientVars, procVars
  <2> QED
    BY <2>1
<1>12. CASE CommitOutcome(j)
  <2>1. Holders' = Holders /\ slots' = slots
    BY <1>12 DEF Holders, CommitOutcome, Admitted, Working, Registered, Goto, StoreFails, jobVars, memVars, diskVars, closeVars, clientVars, procVars
  <2> QED
    BY <2>1
<1>13. CASE Publish(j)
  <2>1. Holders' = Holders /\ slots' = slots
    BY <1>13 DEF Holders, Publish, Admitted, Working, Registered, Goto, StoreFails, jobVars, memVars, diskVars, closeVars, clientVars, procVars
  <2> QED
    BY <2>1
<1>14. CASE Exit(j)
  <2>1. CASE j \in persistErr
    <3>1. Holders' = Holders
      BY <1>14, <2>1 DEF Holders, Exit, Admitted, Working, Registered, Goto, StoreFails, jobVars, memVars, diskVars, closeVars, clientVars, procVars
    <3> QED
      BY <3>1, <1>14, <2>1 DEF Exit
  <2>2. CASE j \notin persistErr
    <3>1. Holders' = Holders \ {j} /\ j \in Holders
      BY <1>14, <2>2 DEF Holders, Exit, Admitted, Working, Registered, Goto, StoreFails, jobVars, memVars, diskVars, closeVars, clientVars, procVars
    <3> QED
      BY <3>1, <1>14, <2>2, <1>h, RemoveHolder DEF Exit
  <2> QED
    BY <2>1, <2>2
<1>15. CASE Recover(j) \/ PeerReads(j) \/ PeerWrites(j)
  BY <1>15 DEF Holders, Recover, PeerReads, PeerWrites, Goto, StoreFails, jobVars, memVars, diskVars, closeVars, clientVars, procVars
<1> QED
  BY <1>1, <1>2, <1>3, <1>4, <1>5, <1>6, <1>7, <1>8, <1>9, <1>10, <1>11, <1>12, <1>13, <1>14, <1>15 DEF JobStep, SpawnStep, RunStep

\* Such a step moves a job between the manager's sets as its place says.
LEMMA JobShape ==
  ASSUME IInv, NEW j \in Jobs, JobStep(j)
  PROVE  Shape'
<1> USE DEF IInv, TypeOK, Shape
<1>1. CASE Admit(j)
  BY <1>1 DEF Admit, Admitted, Working, Registered, Terminal, Goto, StoreFails, jobVars, memVars, diskVars, closeVars, clientVars, procVars
<1>2. CASE Refuse(j)
  BY <1>2 DEF Refuse, Admitted, Working, Registered, Terminal, Goto, StoreFails, jobVars, memVars, diskVars, closeVars, clientVars, procVars
<1>3. CASE Create(j)
  BY <1>3 DEF Create, Admitted, Working, Registered, Terminal, Goto, StoreFails, jobVars, memVars, diskVars, closeVars, clientVars, procVars
<1>4. CASE CreateFails(j)
  BY <1>4 DEF CreateFails, Admitted, Working, Registered, Terminal, Goto, StoreFails, jobVars, memVars, diskVars, closeVars, clientVars, procVars
<1>5. CASE SpawnAborted(j)
  BY <1>5 DEF SpawnAborted, Admitted, Working, Registered, Terminal, Goto, StoreFails, jobVars, memVars, diskVars, closeVars, clientVars, procVars
<1>6. CASE Register(j)
  BY <1>6 DEF Register, Admitted, Working, Registered, Terminal, Goto, StoreFails, jobVars, memVars, diskVars, closeVars, clientVars, procVars
<1>7. CASE DropAdmission(j)
  BY <1>7 DEF DropAdmission, Admitted, Working, Registered, Terminal, Goto, StoreFails, jobVars, memVars, diskVars, closeVars, clientVars, procVars
<1>8. CASE Unwind(j)
  BY <1>8 DEF Unwind, Admitted, Working, Registered, Terminal, Goto, StoreFails, jobVars, memVars, diskVars, closeVars, clientVars, procVars
<1>9. CASE Start(j)
  BY <1>9 DEF Start, Admitted, Working, Registered, Terminal, Goto, StoreFails, jobVars, memVars, diskVars, closeVars, clientVars, procVars
<1>10. CASE BindSession(j)
  BY <1>10 DEF BindSession, Admitted, Working, Registered, Terminal, Goto, StoreFails, jobVars, memVars, diskVars, closeVars, clientVars, procVars
<1>11. CASE RunnerReturns(j)
  BY <1>11 DEF RunnerReturns, Admitted, Working, Registered, Terminal, Goto, StoreFails, jobVars, memVars, diskVars, closeVars, clientVars, procVars
<1>12. CASE CommitOutcome(j)
  BY <1>12 DEF CommitOutcome, Admitted, Working, Registered, Terminal, Goto, StoreFails, jobVars, memVars, diskVars, closeVars, clientVars, procVars
<1>13. CASE Publish(j)
  BY <1>13 DEF Publish, Admitted, Working, Registered, Terminal, Goto, StoreFails, jobVars, memVars, diskVars, closeVars, clientVars, procVars
<1>14. CASE Exit(j)
  BY <1>14 DEF Exit, Admitted, Working, Registered, Terminal, Goto, StoreFails, jobVars, memVars, diskVars, closeVars, clientVars, procVars
<1>15. CASE Recover(j)
  BY <1>15 DEF Recover, Admitted, Working, Registered, Terminal, Goto, StoreFails, jobVars, memVars, diskVars, closeVars, clientVars, procVars
<1>16. CASE PeerReads(j)
  BY <1>16 DEF PeerReads, Admitted, Working, Registered, Terminal, Goto, StoreFails, jobVars, memVars, diskVars, closeVars, clientVars, procVars
<1>17. CASE PeerWrites(j)
  BY <1>17 DEF PeerWrites, Admitted, Working, Registered, Terminal, Goto, StoreFails, jobVars, memVars, diskVars, closeVars, clientVars, procVars
<1> QED
  BY <1>1, <1>2, <1>3, <1>4, <1>5, <1>6, <1>7, <1>8, <1>9, <1>10, <1>11, <1>12, <1>13, <1>14, <1>15, <1>16, <1>17 DEF JobStep, SpawnStep, RunStep

\* The count of slots stays within the channel when it stays exact and does not
\* grow beyond its capacity.
LEMMA SlotsRange ==
  ASSUME SlotsExact', Shape', pc' \in [Jobs -> PCs], slots' \in Int, slots' <= MaxConcurrent
  PROVE  slots' \in 0..MaxConcurrent
<1>1. Holders' \in SUBSET Jobs
  BY DEF Shape, Holders
<1>2. Cardinality(Holders') \in Nat
  BY <1>1, FiniteParts
<1> QED
  BY <1>2, LimitAssumption DEF SlotsExact

\* Such a step keeps every variable within its type.
LEMMA JobType ==
  ASSUME IInv, NEW j \in Jobs, JobStep(j)
  PROVE  TypeOK'
<1> USE DEF IInv, TypeOK
<1>a. pc' \in [Jobs -> PCs] /\ slots' \in Int /\ slots' <= MaxConcurrent => slots' \in 0..MaxConcurrent
  BY SlotsRange, JobSlots, JobShape
<1>b. /\ pc[j] \in {"finishing", "committed", "published"} => final[j] \in Terminal
      /\ MaxConcurrent \in Int /\ MaxFaults \in Int /\ MaxCrashes \in Int
  BY LimitAssumption, BoundAssumption DEF Shape
<1>1. CASE Admit(j)
  BY <1>1, <1>a, <1>b DEF Admit, PCs, Admitted, Registered, Status, Terminal, Stale, Goto, StoreFails, jobVars, memVars, diskVars, closeVars, clientVars, procVars
<1>2. CASE Refuse(j)
  BY <1>2, <1>a, <1>b DEF Refuse, PCs, Admitted, Registered, Status, Terminal, Stale, Goto, StoreFails, jobVars, memVars, diskVars, closeVars, clientVars, procVars
<1>3. CASE Create(j)
  BY <1>3, <1>a, <1>b DEF Create, PCs, Admitted, Registered, Status, Terminal, Stale, Goto, StoreFails, jobVars, memVars, diskVars, closeVars, clientVars, procVars
<1>4. CASE CreateFails(j)
  BY <1>4, <1>a, <1>b DEF CreateFails, PCs, Admitted, Registered, Status, Terminal, Stale, Goto, StoreFails, jobVars, memVars, diskVars, closeVars, clientVars, procVars
<1>5. CASE SpawnAborted(j)
  BY <1>5, <1>a, <1>b DEF SpawnAborted, PCs, Admitted, Registered, Status, Terminal, Stale, Goto, StoreFails, jobVars, memVars, diskVars, closeVars, clientVars, procVars
<1>6. CASE Register(j)
  BY <1>6, <1>a, <1>b DEF Register, PCs, Admitted, Registered, Status, Terminal, Stale, Goto, StoreFails, jobVars, memVars, diskVars, closeVars, clientVars, procVars
<1>7. CASE DropAdmission(j)
  BY <1>7, <1>a, <1>b DEF DropAdmission, PCs, Admitted, Registered, Status, Terminal, Stale, Goto, StoreFails, jobVars, memVars, diskVars, closeVars, clientVars, procVars
<1>8. CASE Unwind(j)
  BY <1>8, <1>a, <1>b DEF Unwind, PCs, Admitted, Registered, Status, Terminal, Stale, Goto, StoreFails, jobVars, memVars, diskVars, closeVars, clientVars, procVars
<1>9. CASE Start(j)
  BY <1>9, <1>a, <1>b DEF Start, PCs, Admitted, Registered, Status, Terminal, Stale, Goto, StoreFails, jobVars, memVars, diskVars, closeVars, clientVars, procVars
<1>10. CASE BindSession(j)
  BY <1>10, <1>a, <1>b DEF BindSession, PCs, Admitted, Registered, Status, Terminal, Stale, Goto, StoreFails, jobVars, memVars, diskVars, closeVars, clientVars, procVars
<1>11. CASE RunnerReturns(j)
  BY <1>11, <1>a, <1>b DEF RunnerReturns, PCs, Admitted, Registered, Status, Terminal, Stale, Goto, StoreFails, jobVars, memVars, diskVars, closeVars, clientVars, procVars
<1>12. CASE CommitOutcome(j)
  BY <1>12, <1>a, <1>b DEF CommitOutcome, PCs, Admitted, Registered, Status, Terminal, Stale, Goto, StoreFails, jobVars, memVars, diskVars, closeVars, clientVars, procVars
<1>13. CASE Publish(j)
  BY <1>13, <1>a, <1>b DEF Publish, PCs, Admitted, Registered, Status, Terminal, Stale, Goto, StoreFails, jobVars, memVars, diskVars, closeVars, clientVars, procVars
<1>14. CASE Exit(j)
  BY <1>14, <1>a, <1>b DEF Exit, PCs, Admitted, Registered, Status, Terminal, Stale, Goto, StoreFails, jobVars, memVars, diskVars, closeVars, clientVars, procVars
<1>15. CASE Recover(j)
  BY <1>15, <1>a, <1>b DEF Recover, PCs, Admitted, Registered, Status, Terminal, Stale, Goto, StoreFails, jobVars, memVars, diskVars, closeVars, clientVars, procVars
<1>16. CASE PeerReads(j)
  BY <1>16, <1>a, <1>b DEF PeerReads, PCs, Admitted, Registered, Status, Terminal, Stale, Goto, StoreFails, jobVars, memVars, diskVars, closeVars, clientVars, procVars
<1>17. CASE PeerWrites(j)
  BY <1>17, <1>a, <1>b DEF PeerWrites, PCs, Admitted, Registered, Status, Terminal, Stale, Goto, StoreFails, jobVars, memVars, diskVars, closeVars, clientVars, procVars
<1> QED
  BY <1>1, <1>2, <1>3, <1>4, <1>5, <1>6, <1>7, <1>8, <1>9, <1>10, <1>11, <1>12, <1>13, <1>14, <1>15, <1>16, <1>17 DEF JobStep, SpawnStep, RunStep

\* No step of a job escapes a Close call that covers it.
LEMMA JobClose ==
  ASSUME IInv, NEW j \in Jobs, JobStep(j)
  PROVE  CloseShape' /\ NothingRunsAfterClose'
<1> USE DEF IInv, TypeOK, Shape, CloseShape, NothingRunsAfterClose
<1>1. CASE Admit(j)
  BY <1>1, ScopesAssumption DEF Admit, Barred, Admitted, Working, Registered, Goto, StoreFails, jobVars, memVars, diskVars, closeVars, clientVars, procVars
<1>2. CASE Refuse(j)
  BY <1>2, ScopesAssumption DEF Refuse, Barred, Admitted, Working, Registered, Goto, StoreFails, jobVars, memVars, diskVars, closeVars, clientVars, procVars
<1>3. CASE Create(j)
  BY <1>3, ScopesAssumption DEF Create, Barred, Admitted, Working, Registered, Goto, StoreFails, jobVars, memVars, diskVars, closeVars, clientVars, procVars
<1>4. CASE CreateFails(j)
  BY <1>4, ScopesAssumption DEF CreateFails, Barred, Admitted, Working, Registered, Goto, StoreFails, jobVars, memVars, diskVars, closeVars, clientVars, procVars
<1>5. CASE SpawnAborted(j)
  BY <1>5, ScopesAssumption DEF SpawnAborted, Barred, Admitted, Working, Registered, Goto, StoreFails, jobVars, memVars, diskVars, closeVars, clientVars, procVars
<1>6. CASE Register(j)
  BY <1>6, ScopesAssumption DEF Register, Barred, Admitted, Working, Registered, Goto, StoreFails, jobVars, memVars, diskVars, closeVars, clientVars, procVars
<1>7. CASE DropAdmission(j)
  BY <1>7, ScopesAssumption DEF DropAdmission, Barred, Admitted, Working, Registered, Goto, StoreFails, jobVars, memVars, diskVars, closeVars, clientVars, procVars
<1>8. CASE Unwind(j)
  BY <1>8, ScopesAssumption DEF Unwind, Barred, Admitted, Working, Registered, Goto, StoreFails, jobVars, memVars, diskVars, closeVars, clientVars, procVars
<1>9. CASE Start(j)
  BY <1>9, ScopesAssumption DEF Start, Barred, Admitted, Working, Registered, Goto, StoreFails, jobVars, memVars, diskVars, closeVars, clientVars, procVars
<1>10. CASE BindSession(j)
  BY <1>10, ScopesAssumption DEF BindSession, Barred, Admitted, Working, Registered, Goto, StoreFails, jobVars, memVars, diskVars, closeVars, clientVars, procVars
<1>11. CASE RunnerReturns(j)
  BY <1>11, ScopesAssumption DEF RunnerReturns, Barred, Admitted, Working, Registered, Goto, StoreFails, jobVars, memVars, diskVars, closeVars, clientVars, procVars
<1>12. CASE CommitOutcome(j)
  BY <1>12, ScopesAssumption DEF CommitOutcome, Barred, Admitted, Working, Registered, Goto, StoreFails, jobVars, memVars, diskVars, closeVars, clientVars, procVars
<1>13. CASE Publish(j)
  BY <1>13, ScopesAssumption DEF Publish, Barred, Admitted, Working, Registered, Goto, StoreFails, jobVars, memVars, diskVars, closeVars, clientVars, procVars
<1>14. CASE Exit(j)
  BY <1>14, ScopesAssumption DEF Exit, Barred, Admitted, Working, Registered, Goto, StoreFails, jobVars, memVars, diskVars, closeVars, clientVars, procVars
<1>15. CASE Recover(j)
  BY <1>15, ScopesAssumption DEF Recover, Barred, Admitted, Working, Registered, Goto, StoreFails, jobVars, memVars, diskVars, closeVars, clientVars, procVars
<1>16. CASE PeerReads(j)
  BY <1>16, ScopesAssumption DEF PeerReads, Barred, Admitted, Working, Registered, Goto, StoreFails, jobVars, memVars, diskVars, closeVars, clientVars, procVars
<1>17. CASE PeerWrites(j)
  BY <1>17, ScopesAssumption DEF PeerWrites, Barred, Admitted, Working, Registered, Goto, StoreFails, jobVars, memVars, diskVars, closeVars, clientVars, procVars
<1> QED
  BY <1>1, <1>2, <1>3, <1>4, <1>5, <1>6, <1>7, <1>8, <1>9, <1>10, <1>11, <1>12, <1>13, <1>14, <1>15, <1>16, <1>17 DEF JobStep, SpawnStep, RunStep

\* A reconciliation under m.mu frees exactly the slots of the jobs it removes,
\* for whatever jobs it meets and whichever writes fail.
LEMMA ReconcileInv ==
  ASSUME IInv, NEW R \in SUBSET live, NEW F \in SUBSET R, Reconcile(R, F),
         UNCHANGED <<pc, final, pending, meta, exited, barred, proc>>
  PROVE  /\ SlotsExact' /\ Shape'
         /\ slots' \in 0..MaxConcurrent /\ faults' \in 0..MaxFaults
         /\ live' \subseteq Jobs /\ persistErr' \subseteq Jobs
         /\ disk' \in [Jobs -> Status] /\ outcome' \subseteq Jobs
<1> DEFINE wrote == (R \cap persistErr) \ F
           freed == wrote \cap exited
<1> USE DEF IInv
<1>1. /\ disk' = [j \in Jobs |-> IF j \in wrote THEN meta[j] ELSE disk[j]]
      /\ outcome' = outcome \cup wrote
      /\ persistErr' = persistErr \ wrote
      /\ live' = live \ freed
      /\ slots' = slots - Cardinality(freed)
      /\ faults' = faults + Cardinality(F)
      /\ faults + Cardinality(F) <= MaxFaults
  BY DEF Reconcile
<1>2. wrote \subseteq persistErr /\ freed \subseteq live /\ wrote \subseteq Jobs /\ live \subseteq Jobs
  BY DEF TypeOK
<1>3. Holders \in SUBSET Jobs /\ freed \in SUBSET Holders /\ Holders' = Holders \ freed
  BY <1>1, <1>2 DEF Holders, Shape, TypeOK, Admitted
<1>4. SlotsExact'
  BY <1>1, <1>3, RemoveHolders DEF SlotsExact
<1>5. Shape'
  BY <1>1, <1>2 DEF Shape, TypeOK, Working, Registered
<1>6. Cardinality(freed) \in Nat /\ Cardinality(F) \in Nat /\ Cardinality(Holders') \in Nat
  BY <1>2, <1>3, FiniteParts
<1>7. slots' \in 0..MaxConcurrent
  <2>1. slots' = Cardinality(Holders')
    BY <1>4 DEF SlotsExact
  <2> QED
    BY <2>1, <1>1, <1>6, LimitAssumption DEF TypeOK
<1>8. faults' \in 0..MaxFaults
  BY <1>1, <1>6, BoundAssumption DEF TypeOK
<1>9. /\ live' \subseteq Jobs /\ persistErr' \subseteq Jobs
      /\ disk' \in [Jobs -> Status] /\ outcome' \subseteq Jobs
  BY <1>1, <1>2 DEF TypeOK
<1> QED
  BY <1>4, <1>5, <1>7, <1>8, <1>9

\* A reconciliation disturbs no Close call.
LEMMA ReconcileClose ==
  ASSUME IInv, UNCHANGED <<pc, pending, barred, closeVars>>
  PROVE  CloseShape' /\ NothingRunsAfterClose'
BY DEF IInv, CloseShape, NothingRunsAfterClose, closeVars

\* A read of loadInfo keeps the invariant, whether or not it reconciles.
LEMMA LoadInv ==
  ASSUME IInv, NEW q \in Clients, NEW from \in ClientPCs, NEW otherwise \in ClientPCs,
         NEW reading \in ClientPCs, Load(q, from, otherwise, reading)
  PROVE  IInv'
<1>1. UNCHANGED <<pc, final, cancelled, pending, meta, exited, barred, cpc, reap, reapAdm,
                  crashes, proc, peer, skipped, target>>
  BY DEF Load, jobVars, closeVars, procVars
<1>2. CloseShape' /\ NothingRunsAfterClose'
  BY <1>1, ReconcileClose DEF closeVars
<1>3. CASE target[q] \in live
  <2>1. PICK F \in SUBSET {target[q]} :
          /\ Reconcile({target[q]}, F)
          /\ qpc' = [qpc EXCEPT ![q] =
               IF F # {} THEN "undelivered"
               ELSE IF meta[target[q]] \in Terminal THEN "terminal" ELSE otherwise]
          /\ answer' = [answer EXCEPT ![q] =
               IF F = {} /\ meta[target[q]] \in Terminal THEN meta[target[q]] ELSE "none"]
    BY <1>3 DEF Load
  <2>2. {target[q]} \in SUBSET live /\ F \in SUBSET {target[q]}
    BY <1>3
  <2>3. /\ SlotsExact' /\ Shape'
        /\ slots' \in 0..MaxConcurrent /\ faults' \in 0..MaxFaults
        /\ live' \subseteq Jobs /\ persistErr' \subseteq Jobs
        /\ disk' \in [Jobs -> Status] /\ outcome' \subseteq Jobs
    BY <1>1, <2>1, <2>2, ReconcileInv
  <2>4. qpc' \in [Clients -> ClientPCs] /\ answer' \in [Clients -> Terminal \cup {"none"}]
    <3>1. (IF F # {} THEN "undelivered"
             ELSE IF meta[target[q]] \in Terminal THEN "terminal" ELSE otherwise) \in ClientPCs
      BY DEF ClientPCs
    <3> QED
      BY <2>1, <3>1 DEF IInv, TypeOK
  <2> QED
    BY <1>1, <1>2, <2>3, <2>4 DEF IInv, TypeOK
<1>4. CASE target[q] \notin live
  BY <1>1, <1>2, <1>4 DEF Load, IInv, TypeOK, Shape, SlotsExact, Holders, diskVars
<1> QED
  BY <1>3, <1>4

\* A step that only moves a client keeps the invariant.
LEMMA ClientOnly ==
  ASSUME IInv, UNCHANGED <<jobVars, memVars, diskVars, closeVars, procVars>>,
         faults' \in 0..MaxFaults, qpc' \in [Clients -> ClientPCs], target' \in [Clients -> Jobs \cup {"none"}],
         answer' \in [Clients -> Terminal \cup {"none"}]
  PROVE  IInv'
<1> USE DEF jobVars, memVars, diskVars, closeVars, procVars
<1>1. TypeOK'
  BY DEF IInv, TypeOK
<1>2. Shape' /\ SlotsExact'
  BY DEF IInv, Shape, SlotsExact, Holders
<1>3. CloseShape' /\ NothingRunsAfterClose'
  BY DEF IInv, CloseShape, NothingRunsAfterClose
<1> QED
  BY <1>1, <1>2, <1>3 DEF IInv

\* A step of a caller of Wait or Cancel keeps the invariant.
LEMMA ClientInv ==
  ASSUME IInv, NEW q \in Clients, ClientStep(q)
  PROVE  IInv'
<1> USE DEF jobVars, memVars, diskVars, closeVars, clientVars, procVars, ClientPCs, Step
<1>1. CASE Load(q, "load", "look", "read") \/ Load(q, "reload", "lost", "reread")
           \/ Load(q, "stat", "notrunning", "statread")
  BY <1>1, LoadInv
<1>2. ASSUME NEW from \in ClientPCs, NEW otherwise \in ClientPCs, Read(q, from, otherwise)
      PROVE  IInv'
  <2>1. qpc' \in [Clients -> ClientPCs] /\ answer' \in [Clients -> Terminal \cup {"none"}]
    BY <1>2 DEF Read, ClientPCs, IInv, TypeOK
  <2>2. faults' \in 0..MaxFaults
    BY <1>2, BoundAssumption DEF Read, StoreFails, IInv, TypeOK
  <2> QED
    BY <1>2, <2>1, <2>2, ClientOnly DEF Read, IInv, TypeOK
<1>3. CASE \E j \in Jobs : CallWait(q, j) \/ CallCancel(q, j)
  <2>1. qpc' \in [Clients -> ClientPCs] /\ target' \in [Clients -> Jobs \cup {"none"}]
    BY <1>3 DEF CallWait, CallCancel, IInv, TypeOK
  <2> QED
    BY <1>3, <2>1, ClientOnly DEF CallWait, CallCancel, IInv, TypeOK
<1>4. CASE Look(q) \/ Woken(q) \/ TimesOut(q) \/ CancelAbsent(q) \/ CancelDone(q) \/ Return(q)
  <2>1. /\ qpc' \in [Clients -> ClientPCs]
        /\ target' \in [Clients -> Jobs \cup {"none"}]
        /\ answer' \in [Clients -> Terminal \cup {"none"}]
    BY <1>4 DEF Look, Woken, TimesOut, CancelAbsent, CancelDone, Return, IInv, TypeOK
  <2>2. UNCHANGED <<jobVars, memVars, diskVars, closeVars, faults, procVars>>
    BY <1>4 DEF Look, Woken, TimesOut, CancelAbsent, CancelDone, Return
  <2> QED
    BY <2>1, <2>2, ClientOnly DEF IInv, TypeOK
<1>5. CASE CancelLive(q)
  BY <1>5 DEF CancelLive, IInv, TypeOK, Shape, SlotsExact, Holders, CloseShape,
              NothingRunsAfterClose
<1> QED
  BY <1>1, <1>2, <1>3, <1>4, <1>5 DEF ClientStep

\* A step of a Close call keeps the invariant.
LEMMA CloseInv ==
  ASSUME IInv, NEW s \in Scopes, CloseStep(s)
  PROVE  IInv'
<1> USE ScopesAssumption DEF jobVars, memVars, diskVars, closeVars, clientVars, procVars
<1>1. CASE CallClose(s)
  BY <1>1 DEF CallClose, IInv, TypeOK, Shape, SlotsExact, Holders, CloseShape,
              NothingRunsAfterClose, ClosePCs
<1>2. CASE CloseDrained(s)
  <2>1. TypeOK' /\ Shape' /\ SlotsExact'
    BY <1>2 DEF CloseDrained, IInv, TypeOK, Shape, SlotsExact, Holders, ClosePCs
  <2>2. CloseShape'
    BY <1>2 DEF CloseDrained, IInv, TypeOK, CloseShape
  <2>3. \A j \in Covers[s] : /\ j \notin pending
                             /\ pc[j] \notin Admitted \cup {"unwinding"} \cup Working
    BY <1>2 DEF CloseDrained, IInv, TypeOK, Shape, CloseShape, Working
  <2>4. NothingRunsAfterClose'
    BY <1>2, <2>3 DEF CloseDrained, IInv, TypeOK, NothingRunsAfterClose
  <2> QED
    BY <2>1, <2>2, <2>4 DEF IInv
<1>3. CASE CloseTimesOut(s)
  BY <1>3 DEF CloseTimesOut, IInv, TypeOK, Shape, SlotsExact, Holders, CloseShape,
              NothingRunsAfterClose, ClosePCs
<1>4. CASE CloseReconcile(s)
  <2>1. PICK R \in SUBSET (live \cap Covers[s]) : \E F \in SUBSET R : Reconcile(R, F)
    BY <1>4 DEF CloseReconcile
  <2>1a. PICK F \in SUBSET R : Reconcile(R, F)
    BY <2>1
  <2>2. /\ SlotsExact' /\ Shape'
        /\ slots' \in 0..MaxConcurrent /\ faults' \in 0..MaxFaults
        /\ live' \subseteq Jobs /\ persistErr' \subseteq Jobs
        /\ disk' \in [Jobs -> Status] /\ outcome' \subseteq Jobs
    <3>1. R \in SUBSET live /\ UNCHANGED <<pc, final, pending, meta, exited, barred, proc>>
      BY <1>4, <2>1 DEF CloseReconcile, jobVars, clientVars, procVars
    <3> QED
      BY <2>1a, <3>1, ReconcileInv
  <2>3. PICK next \in {"closed", "undelivered", "timeout"} : cpc' = [cpc EXCEPT ![s] = next]
    BY <1>4 DEF CloseReconcile
  <2>4. TypeOK'
    BY <1>4, <2>2, <2>3 DEF CloseReconcile, IInv, TypeOK, ClosePCs
  <2>5. CloseShape' /\ NothingRunsAfterClose'
    BY <1>4, <2>3 DEF CloseReconcile, IInv, TypeOK, CloseShape, NothingRunsAfterClose
  <2> QED
    BY <2>2, <2>4, <2>5 DEF IInv
<1> QED
  BY <1>1, <1>2, <1>3, <1>4 DEF CloseStep

\* Every step of the manager keeps the invariant.
LEMMA NextInv == IInv /\ [Next]_vars => IInv'
<1> SUFFICES ASSUME IInv, [Next]_vars PROVE IInv'
  OBVIOUS
<1>1. CASE \E j \in Jobs : JobStep(j)
  BY <1>1, JobSlots, JobShape, JobType, JobClose DEF IInv
<1>2. CASE \E q \in Clients : ClientStep(q)
  BY <1>2, ClientInv
<1>3. CASE \E s \in Scopes : CloseStep(s)
  BY <1>3, CloseInv
<1>4. CASE \E R \in SUBSET Jobs : Query(R)
  <2>1. PICK R \in SUBSET Jobs : Query(R)
    BY <1>4
  <2>2. PICK F \in SUBSET R : Reconcile(R, F)
    BY <2>1 DEF Query
  <2>3. R \in SUBSET live
    BY <2>1 DEF Query, IInv, Shape, TypeOK, Working, Registered
  <2>4. /\ SlotsExact' /\ Shape'
        /\ slots' \in 0..MaxConcurrent /\ faults' \in 0..MaxFaults
        /\ live' \subseteq Jobs /\ persistErr' \subseteq Jobs
        /\ disk' \in [Jobs -> Status] /\ outcome' \subseteq Jobs
    <3>1. UNCHANGED <<pc, final, pending, meta, exited, barred, proc>>
      BY <2>1 DEF Query, jobVars, procVars
    <3> QED
      BY <2>2, <2>3, <3>1, ReconcileInv
  <2>5. CloseShape' /\ NothingRunsAfterClose'
    BY <2>1, ReconcileClose DEF Query, jobVars
  <2> QED
    BY <2>1, <2>4, <2>5 DEF Query, IInv, TypeOK, jobVars, closeVars, clientVars, procVars
<1>5. CASE Crash
  <2>1. Holders' = {}
    BY <1>5 DEF Crash, Holders, Admitted
  <2>2. SlotsExact'
    BY <1>5, <2>1, FS_EmptySet DEF Crash, SlotsExact
  <2>3. TypeOK'
    BY <1>5, LimitAssumption, BoundAssumption
    DEF Crash, IInv, TypeOK, PCs, Status, ClosePCs, ClientPCs, diskVars
  <2>4. Shape' /\ CloseShape' /\ NothingRunsAfterClose'
    BY <1>5 DEF Crash, IInv, TypeOK, Shape, CloseShape, NothingRunsAfterClose, Admitted, Working,
                Registered
  <2> QED
    BY <2>2, <2>3, <2>4 DEF IInv
<1>6. CASE Recovered
  BY <1>6 DEF Recovered, IInv, TypeOK, Shape, SlotsExact, Holders, CloseShape,
              NothingRunsAfterClose, jobVars, memVars, diskVars, closeVars, clientVars
<1>7. CASE UNCHANGED vars
  BY <1>7 DEF vars, IInv, TypeOK, Shape, SlotsExact, Holders, CloseShape, NothingRunsAfterClose,
              jobVars, memVars, diskVars, closeVars, clientVars, procVars
<1> QED
  BY <1>1, <1>2, <1>3, <1>4, <1>5, <1>6, <1>7 DEF Next

\* The inductive invariant holds in every reachable state.
THEOREM Invariance == Spec => []IInv
BY InitInv, NextInv, PTL DEF Spec

\* Type correctness: in particular the slots channel is never received from
\* while empty nor filled beyond its capacity.
THEOREM TypeCorrect == Spec => []TypeOK
<1>1. IInv => TypeOK
  BY DEF IInv
<1> QED
  BY <1>1, Invariance, PTL

\* Slots are neither leaked nor returned twice, on any path of Spawn and run,
\* for any number of jobs, slots, clients and failing writes.
THEOREM SlotsAreExact == Spec => []SlotsExact
<1>1. IInv => SlotsExact
  BY DEF IInv
<1> QED
  BY <1>1, Invariance, PTL

\* After a Close call has drained, no admission or runner it covers remains or
\* appears, even while another process rewrites the store.
THEOREM ShutdownReaps == Spec => []NothingRunsAfterClose
<1>1. IInv => NothingRunsAfterClose
  BY DEF IInv
<1> QED
  BY <1>1, Invariance, PTL

(***************************************************************************)
(* The store: what is durable, what callers are told, and the contract of  *)
(* the pool.  From here on no other process writes the store.              *)
(***************************************************************************)

\* What a durable outcome may never suffer.
Immutable == \A j \in outcome : j \in outcome' /\ disk'[j] = disk[j]

LEMMA InitStore == Init => StoreInv
BY DEF Init, StoreInv, Recorded, Asked, NeverLosesJob, AnswersAreDurable, Written, Registered,
       Terminal, Stale

\* A step of a job's call or goroutine changes nothing of another job, and
\* leaves that job's record as the invariant describes it.
LEMMA JobRecorded ==
  ASSUME ~PeerOpens, IInv, StoreInv, NEW j \in Jobs, JobStep(j)
  PROVE  Immutable /\ peer' = {} /\ \A k \in Jobs : Recorded(k)'
<1> USE DEF IInv, TypeOK, Shape, StoreInv, Immutable
<1>1. CASE Admit(j) \/ Refuse(j) \/ SpawnAborted(j) \/ Register(j) \/ Unwind(j)
  BY <1>1 DEF Admit, Refuse, SpawnAborted, Register, Unwind, Recorded, Written, Stale, Goto, Admitted,
     Working, Registered, Terminal, Status, jobVars, memVars, diskVars, procVars
<1>2. CASE Create(j) \/ CreateFails(j) \/ DropAdmission(j)
  BY <1>2 DEF Create, CreateFails, DropAdmission, Recorded, Written, Stale, Goto, Admitted,
     Working, Registered, Terminal, Status, jobVars, memVars, diskVars, procVars
<1>3. CASE Start(j) \/ BindSession(j) \/ RunnerReturns(j)
  BY <1>3 DEF Start, BindSession, RunnerReturns, Recorded, Written, Stale, Goto, Admitted,
     Working, Registered, Terminal, Status, jobVars, memVars, diskVars, procVars
<1>4. CASE CommitOutcome(j)
  BY <1>4 DEF CommitOutcome, Recorded, Written, Stale, Goto, Admitted,
     Working, Registered, Terminal, Status, jobVars, memVars, diskVars, procVars
<1>5. CASE Publish(j) \/ Exit(j)
  BY <1>5 DEF Publish, Exit, Recorded, Written, Stale, Goto, Admitted,
     Working, Registered, Terminal, Status, jobVars, memVars, diskVars, procVars
<1>6. CASE Recover(j)
  BY <1>6 DEF Recover, Recorded, Written, Stale, Goto, Admitted,
     Working, Registered, Terminal, Status, jobVars, memVars, diskVars, procVars
<1>7. CASE PeerReads(j) \/ PeerWrites(j)
  BY <1>7 DEF PeerReads, PeerWrites
<1> QED
  BY <1>1, <1>2, <1>3, <1>4, <1>5, <1>6, <1>7 DEF JobStep, SpawnStep, RunStep

\* An id that was returned stays known, and a job that left memory stays away.
LEMMA JobKnown ==
  ASSUME ~PeerOpens, IInv, StoreInv, NEW j \in Jobs, JobStep(j)
  PROVE  /\ UNCHANGED clientVars
         /\ \A k \in Jobs : pc[k] \in Registered \cup {"gone"} =>
              /\ pc'[k] \in Registered \cup {"gone"}
              /\ pc'[k] \in Registered => pc[k] \in Registered
              /\ k \in live' => k \in live
         /\ proc' = proc /\ (proc = "up" => skipped' = skipped)
<1> USE DEF IInv, TypeOK, Goto, Registered, Admitted
<1>1. CASE Admit(j) \/ Refuse(j) \/ SpawnStep(j)
  BY <1>1 DEF Admit, Refuse, SpawnStep, Create, CreateFails, SpawnAborted, Register, DropAdmission,
     Unwind, jobVars, memVars, procVars
<1>2. CASE RunStep(j) \/ BindSession(j) \/ RunnerReturns(j)
  BY <1>2 DEF RunStep, Start, CommitOutcome, Publish, Exit, BindSession, RunnerReturns, jobVars, memVars, procVars
<1>3. CASE Recover(j) \/ PeerReads(j) \/ PeerWrites(j)
  BY <1>3 DEF Recover, PeerReads, PeerWrites, jobVars, memVars, procVars
<1> QED
  BY <1>1, <1>2, <1>3 DEF JobStep

\* What holds of one caller.
Served(q) ==
  /\ Asked(q)
  /\ qpc[q] \in {"lost", "notrunning"} => target[q] \in skipped
  /\ answer[q] # "none" =>
       answer[q] = disk[target[q]] /\ (pc[target[q]] \in Registered => target[q] \in outcome)

LEMMA ByCaller ==
  /\ StoreInv => \A q \in Clients : Served(q)
  /\ peer' = {} /\ (\A j \in Jobs : Recorded(j)') /\ (\A q \in Clients : Served(q)') => StoreInv'
BY DEF StoreInv, Served, NeverLosesJob, AnswersAreDurable

\* What no step does to a job some caller knows: forget its id, bring it back
\* to memory, or change its terminal status.
Keeps ==
  /\ \A k \in Jobs : pc[k] \in Registered \cup {"gone"} =>
       /\ pc'[k] \in Registered \cup {"gone"}
       /\ pc'[k] \in Registered => pc[k] \in Registered
       /\ k \in live' => k \in live
       /\ disk[k] \in Terminal => disk'[k] = disk[k]
  /\ proc' = "recovering" => proc = "recovering"
  /\ proc = "up" => skipped' = skipped

\* The status a caller was given stays the one on disk, whatever moves after.
LEMMA ServedStays ==
  ASSUME IInv, StoreInv, Immutable, Keeps, NEW q \in Clients,
         qpc'[q] = qpc[q], target'[q] = target[q], answer'[q] = answer[q]
  PROVE  Served(q)'
<1>1. Served(q)
  BY ByCaller
<1>2. answer[q] # "none" =>
        /\ target[q] \in Jobs /\ pc[target[q]] \in Registered \cup {"gone"}
        /\ disk[target[q]] = answer[q] /\ answer[q] \in Terminal
  BY <1>1 DEF Served, Asked, IInv, TypeOK
<1>3. Asked(q)'
  BY <1>1 DEF Served, Asked, Keeps
<1>4. qpc[q] # "idle" => proc = "up"
  BY <1>1 DEF Served, Asked, IInv, TypeOK
<1> QED
  BY <1>1, <1>2, <1>3, <1>4 DEF Served, Keeps, Immutable

LEMMA JobStore ==
  ASSUME ~PeerOpens, IInv, StoreInv, NEW j \in Jobs, JobStep(j)
  PROVE  StoreInv' /\ Immutable
<1>1. Immutable /\ peer' = {} /\ \A k \in Jobs : Recorded(k)'
  BY JobRecorded
<1>2. \A k \in Jobs : pc[k] \in Registered \cup {"gone"} /\ disk[k] \in Terminal => disk'[k] = disk[k]
  <2> SUFFICES ASSUME NEW k \in Jobs, pc[k] \in Registered \cup {"gone"}, disk[k] \in Terminal
               PROVE  disk'[k] = disk[k]
    OBVIOUS
  <2>1. CASE k \in outcome
    BY <2>1, <1>1 DEF Immutable
  <2>2. CASE k \notin outcome /\ pc[k] \in Registered
    BY <2>2 DEF StoreInv, Recorded, Stale, Terminal
  <2>3. CASE pc[k] = "gone"
    BY <2>3 DEF JobStep, Admit, Refuse, SpawnStep, Create, CreateFails, SpawnAborted, Register,
       DropAdmission, Unwind, RunStep, Start, CommitOutcome, Publish, Exit, BindSession,
       RunnerReturns, Recover, PeerReads, PeerWrites, diskVars, IInv, TypeOK, StoreInv, Stale, Terminal
  <2> QED
    BY <2>1, <2>2, <2>3
<1>3. Keeps /\ UNCHANGED clientVars
  BY <1>2, JobKnown DEF Keeps
<1> QED
  BY <1>1, <1>3, ByCaller, ServedStays DEF clientVars

\* A reconciliation makes outcomes durable as they are in memory, and touches
\* nothing that already was.
LEMMA ReconcileStore ==
  ASSUME IInv, StoreInv, NEW R \in SUBSET live, NEW F \in SUBSET R, Reconcile(R, F),
         UNCHANGED <<pc, final, meta, proc, skipped>>
  PROVE  /\ Immutable /\ Keeps
         /\ \A k \in Jobs : Recorded(k)'
         /\ \A k \in R \ F : k \notin persistErr'
<1> DEFINE wrote == (R \cap persistErr) \ F
<1>1. /\ disk' = [j \in Jobs |-> IF j \in wrote THEN meta[j] ELSE disk[j]]
      /\ outcome' = outcome \cup wrote
      /\ persistErr' = persistErr \ wrote
      /\ live' \subseteq live
  BY DEF Reconcile
<1>2. \A k \in wrote : /\ k \in Jobs /\ k \notin outcome /\ pc[k] \in Written
                       /\ meta[k] = final[k] /\ final[k] \in Terminal
  BY DEF StoreInv, Recorded, IInv, TypeOK, Shape, Written
<1>3. Immutable
  BY <1>1, <1>2 DEF Immutable, IInv, TypeOK
<1>4. Keeps
  BY <1>1, <1>2 DEF Keeps, StoreInv, Recorded, Written, Registered, Stale, Terminal
<1>5. ASSUME NEW k \in Jobs PROVE Recorded(k)'
  BY <1>1, <1>2 DEF StoreInv, Recorded, Stale, Written, Registered
<1> QED
  BY <1>1, <1>3, <1>4, <1>5

\* A step that leaves the jobs alone.
LEMMA JobsAlone ==
  ASSUME StoreInv, UNCHANGED <<jobVars, memVars, diskVars, procVars>>
  PROVE  Immutable /\ Keeps /\ peer' = {} /\ \A k \in Jobs : Recorded(k)'
BY DEF StoreInv, Recorded, Stale, Immutable, Keeps, jobVars, memVars, diskVars, procVars

\* A query of a caller, in loadInfo's critical section: what it answers about a
\* live job is on disk by then, and a job that is not live is looked up there.
LEMMA LoadStore ==
  ASSUME IInv, StoreInv, NEW q \in Clients,
         \/ Load(q, "load", "look", "read") \/ Load(q, "reload", "lost", "reread")
         \/ Load(q, "stat", "notrunning", "statread")
  PROVE  StoreInv' /\ Immutable
<1> DEFINE t == target[q]
<1>1. /\ UNCHANGED <<target, jobVars, pending, meta, exited, barred, closeVars, procVars>>
      /\ qpc[q] \in {"load", "reload", "stat"} /\ proc = "up"
  BY DEF Load
<1>2. t \in Jobs /\ pc[t] \in Registered \cup {"gone"} /\ answer[q] = "none"
  BY <1>1 DEF StoreInv, Asked, IInv, TypeOK
<1>3. \A p \in Clients : p # q => qpc'[p] = qpc[p] /\ target'[p] = target[p] /\ answer'[p] = answer[p]
  BY DEF Load, IInv, TypeOK
<1>4. CASE t \in live
  <2>1. Load(q, "load", "look", "read")
    BY <1>1, <1>4 DEF Load, StoreInv, Asked
  <2>2. PICK F \in SUBSET {t} :
          /\ Reconcile({t}, F)
          /\ qpc' = [qpc EXCEPT ![q] =
               IF F # {} THEN "undelivered"
               ELSE IF meta[t] \in Terminal THEN "terminal" ELSE "look"]
          /\ answer' = [answer EXCEPT ![q] =
               IF F = {} /\ meta[t] \in Terminal THEN meta[t] ELSE "none"]
    BY <2>1, <1>4 DEF Load
  <2>3. Immutable /\ Keeps /\ (\A k \in Jobs : Recorded(k)') /\ (\A k \in {t} \ F : k \notin persistErr')
    BY <1>1, <1>4, <2>2, ReconcileStore DEF jobVars, procVars
  <2>4. F = {} /\ meta[t] \in Terminal => t \in outcome' /\ disk'[t] = meta[t]
    BY <1>1, <1>2, <2>3 DEF StoreInv, Recorded, Written, Registered, jobVars
  <2>5. \/ qpc'[q] = "terminal" /\ answer'[q] = meta[t] /\ t \in outcome' /\ disk'[t] = meta[t]
        \/ qpc'[q] \in {"undelivered", "look"} /\ answer'[q] = "none"
    BY <2>2, <2>4 DEF IInv, TypeOK
  <2>6. Served(q)'
    BY <1>1, <1>2, <2>3, <2>5 DEF Served, Asked, Keeps, procVars
  <2>7. \A p \in Clients : p # q => Served(p)'
    BY <1>3, <2>3, ServedStays
  <2>8. peer' = {}
    BY <1>1 DEF StoreInv, procVars
  <2> QED
    BY <2>3, <2>6, <2>7, <2>8, ByCaller
<1>5. CASE t \notin live
  <2>1. /\ UNCHANGED <<jobVars, memVars, diskVars, procVars>>
        /\ qpc'[q] \in {"read", "reread", "statread"} /\ answer' = answer
    BY <1>1, <1>5 DEF Load, memVars, IInv, TypeOK
  <2>2. Immutable /\ Keeps /\ peer' = {} /\ \A k \in Jobs : Recorded(k)'
    BY <2>1, JobsAlone
  <2>3. Served(q)'
    BY <1>1, <1>2, <1>5, <2>1 DEF Served, Asked, jobVars, memVars, procVars
  <2>4. \A p \in Clients : p # q => Served(p)'
    BY <1>3, <2>2, ServedStays
  <2> QED
    BY <2>2, <2>3, <2>4, ByCaller
<1> QED
  BY <1>4, <1>5

\* The read of meta.json after the lock was dropped: a job seen to leave memory
\* is found terminal, unless its Spawn never got as far as the disk.
LEMMA ReadStore ==
  ASSUME IInv, StoreInv, NEW q \in Clients,
         \/ Read(q, "read", "look") \/ Read(q, "reread", "lost")
         \/ Read(q, "statread", "notrunning")
  PROVE  StoreInv' /\ Immutable
<1> DEFINE t == target[q]
<1>1. UNCHANGED <<target, jobVars, memVars, diskVars, procVars>> /\ proc = "up"
  BY DEF Read
<1>2. t \in Jobs /\ pc[t] \in Registered \cup {"gone"} /\ answer[q] = "none"
  BY DEF Read, StoreInv, Asked, IInv, TypeOK
<1>3. Immutable /\ Keeps /\ peer' = {} /\ \A k \in Jobs : Recorded(k)'
  BY <1>1, JobsAlone
<1>4. qpc[q] \in {"reread", "statread"} => ~Stale(t) \/ t \in skipped
  <2> SUFFICES ASSUME t \notin live PROVE ~Stale(t) \/ t \in skipped
    BY DEF StoreInv, Asked
  <2>1. pc[t] = "gone" \/ (pc[t] = "done" /\ t \notin persistErr)
    BY <1>2 DEF IInv, Shape, Working, Registered
  <2> QED
    BY <1>1, <1>2, <2>1 DEF StoreInv, Recorded, Written, Stale, Terminal
<1>5. disk[t] \in Terminal /\ pc[t] \in Registered => t \in outcome
  BY <1>2 DEF StoreInv, Recorded, Stale, Terminal
<1>6. \/ /\ disk[t] \in Terminal
         /\ qpc' = [qpc EXCEPT ![q] = "terminal"] /\ answer' = [answer EXCEPT ![q] = disk[t]]
      \/ /\ \/ qpc' = [qpc EXCEPT ![q] = "notfound"]
            \/ qpc[q] = "read" /\ qpc' = [qpc EXCEPT ![q] = "look"]
            \/ /\ t \in skipped
               /\ \/ qpc' = [qpc EXCEPT ![q] = "lost"] \/ qpc' = [qpc EXCEPT ![q] = "notrunning"]
         /\ answer' = [answer EXCEPT ![q] = "none"]
  BY <1>2, <1>4 DEF Read, Terminal, Stale, IInv, TypeOK, Status
<1>7. Served(q)'
  BY <1>1, <1>2, <1>5, <1>6 DEF Served, Asked, IInv, TypeOK, jobVars, memVars, diskVars, procVars, Terminal
<1>8. \A p \in Clients : p # q => Served(p)'
  BY <1>1, <1>3, <1>6, ServedStays DEF IInv, TypeOK
<1> QED
  BY <1>3, <1>7, <1>8, ByCaller

LEMMA ClientStore ==
  ASSUME IInv, StoreInv, NEW q \in Clients, ClientStep(q)
  PROVE  StoreInv' /\ Immutable
<1>1. CASE \/ Load(q, "load", "look", "read") \/ Load(q, "reload", "lost", "reread")
           \/ Load(q, "stat", "notrunning", "statread")
  BY <1>1, LoadStore
<1>2. CASE \/ Read(q, "read", "look") \/ Read(q, "reread", "lost")
           \/ Read(q, "statread", "notrunning")
  BY <1>2, ReadStore
<1>3. CASE \/ \E j \in Jobs : CallWait(q, j) \/ CallCancel(q, j)
           \/ Look(q) \/ Woken(q) \/ TimesOut(q) \/ CancelAbsent(q) \/ CancelDone(q) \/ Return(q)
  <2>1. UNCHANGED <<jobVars, memVars, diskVars, procVars>>
    BY <1>3 DEF CallWait, CallCancel, Look, Woken, TimesOut, CancelAbsent, CancelDone, Return
  <2>2. Immutable /\ Keeps /\ peer' = {} /\ \A k \in Jobs : Recorded(k)'
    BY <2>1, JobsAlone
  <2>3. \A p \in Clients : p # q => Served(p)'
    <3>1. \A p \in Clients : p # q =>
            qpc'[p] = qpc[p] /\ target'[p] = target[p] /\ answer'[p] = answer[p]
      BY <1>3 DEF CallWait, CallCancel, Look, Woken, TimesOut, CancelAbsent, CancelDone, Return,
         Step, IInv, TypeOK
    <3> QED
      BY <2>2, <3>1, ServedStays
  <2>4. Served(q)'
    BY <1>3, <2>1, ByCaller DEF CallWait, CallCancel, Look, Woken, TimesOut, CancelAbsent, CancelDone,
       Return, Step, Served, Asked, IInv, TypeOK, jobVars, memVars, diskVars, procVars
  <2> QED
    BY <2>2, <2>3, <2>4, ByCaller
<1>4. CASE CancelLive(q)
  <2>1. /\ Immutable /\ Keeps /\ peer' = {}
        /\ \A k \in Jobs : Recorded(k)'
    BY <1>4 DEF CancelLive, Immutable, Keeps, Recorded, Stale, StoreInv, memVars, diskVars, procVars
  <2>2. \A p \in Clients : p # q => Served(p)'
    BY <1>4, <2>1, ServedStays DEF CancelLive, Step, IInv, TypeOK
  <2>3. Served(q)'
    BY <1>4, ByCaller DEF CancelLive, Step, Served, Asked, IInv, TypeOK, memVars, diskVars, procVars
  <2> QED
    BY <2>1, <2>2, <2>3, ByCaller
<1> QED
  BY <1>1, <1>2, <1>3, <1>4 DEF ClientStep

\* The callers are left alone: what they were told stands.
LEMMA CallersAlone ==
  ASSUME IInv, StoreInv, Immutable, Keeps, peer' = {}, UNCHANGED clientVars,
         \A k \in Jobs : Recorded(k)'
  PROVE  StoreInv'
BY ByCaller, ServedStays DEF clientVars

LEMMA CloseStore ==
  ASSUME IInv, StoreInv, NEW s \in Scopes, CloseStep(s)
  PROVE  StoreInv' /\ Immutable
<1>1. CASE CallClose(s) \/ CloseDrained(s) \/ CloseTimesOut(s)
  <2>1. /\ Immutable /\ Keeps /\ peer' = {} /\ UNCHANGED clientVars
        /\ \A k \in Jobs : Recorded(k)'
    BY <1>1 DEF CallClose, CloseDrained, CloseTimesOut, StoreInv, Immutable, Keeps, Recorded, Stale,
       jobVars, memVars, diskVars, procVars
  <2> QED
    BY <2>1, CallersAlone
<1>2. CASE CloseReconcile(s)
  <2>1. PICK R \in SUBSET (live \cap Covers[s]) : \E F \in SUBSET R : Reconcile(R, F)
    BY <1>2 DEF CloseReconcile
  <2>2. PICK F \in SUBSET R : Reconcile(R, F)
    BY <2>1
  <2>3. UNCHANGED <<pc, final, meta, proc, skipped, peer, clientVars>>
    BY <1>2 DEF CloseReconcile, jobVars, procVars
  <2>4. Immutable /\ Keeps /\ \A k \in Jobs : Recorded(k)'
    BY <2>2, <2>3, ReconcileStore
  <2> QED
    BY <2>3, <2>4, CallersAlone DEF StoreInv
<1> QED
  BY <1>1, <1>2 DEF CloseStep

\* Every step of the manager, of its callers and of the process keeps the
\* store's invariant and every durable outcome.
LEMMA NextStore == ~PeerOpens /\ IInv /\ StoreInv /\ [Next]_vars => StoreInv' /\ Immutable
<1> SUFFICES ASSUME ~PeerOpens, IInv, StoreInv, [Next]_vars PROVE StoreInv' /\ Immutable
  OBVIOUS
<1>1. CASE \E j \in Jobs : JobStep(j)
  BY <1>1, JobStore
<1>2. CASE \E q \in Clients : ClientStep(q)
  BY <1>2, ClientStore
<1>3. CASE \E s \in Scopes : CloseStep(s)
  BY <1>3, CloseStore
<1>4. CASE \E R \in SUBSET Jobs : Query(R)
  <2>1. PICK R \in SUBSET Jobs : Query(R)
    BY <1>4
  <2>2. PICK F \in SUBSET R : Reconcile(R, F)
    BY <2>1 DEF Query
  <2>3. R \in SUBSET live
    BY <2>1 DEF Query, IInv, Shape, TypeOK, Working, Registered
  <2>4. UNCHANGED <<pc, final, meta, proc, skipped, peer, clientVars>>
    BY <2>1 DEF Query, jobVars, procVars
  <2>5. Immutable /\ Keeps /\ \A k \in Jobs : Recorded(k)'
    BY <2>2, <2>3, <2>4, ReconcileStore
  <2> QED
    BY <2>4, <2>5, CallersAlone DEF StoreInv
<1>5. CASE Crash
  BY <1>5 DEF Crash, StoreInv, Recorded, Asked, NeverLosesJob, AnswersAreDurable, Immutable, Written,
              Registered, Terminal, Stale, diskVars, IInv, TypeOK
<1>6. CASE Recovered
  <2>1. /\ Immutable /\ Keeps /\ peer' = {} /\ UNCHANGED clientVars
        /\ \A k \in Jobs : Recorded(k)'
    BY <1>6 DEF Recovered, StoreInv, Immutable, Keeps, Recorded, Stale, jobVars, memVars, diskVars
  <2> QED
    BY <2>1, CallersAlone
<1>7. CASE UNCHANGED vars
  <2>1. Immutable /\ Keeps /\ peer' = {} /\ \A k \in Jobs : Recorded(k)'
    BY <1>7, JobsAlone DEF vars
  <2> QED
    BY <1>7, <2>1, CallersAlone DEF vars
<1> QED
  BY <1>1, <1>2, <1>3, <1>4, <1>5, <1>6, <1>7 DEF Next

THEOREM StoreInvariance == ~PeerOpens => (Spec => []StoreInv)
<1> SUFFICES ASSUME ~PeerOpens PROVE Spec => []StoreInv
  OBVIOUS
<1>1. IInv /\ StoreInv /\ [Next]_vars => StoreInv'
  BY NextStore
<1> QED
  BY <1>1, InitStore, Invariance, PTL DEF Spec

\* NeverLosesJob: whatever the interleaving of the reads Wait and Cancel make
\* without a common lock, a job whose id was returned is reported lost or not
\* running only when it is a leftover recovery could not read and passed over:
\* whatever else left memory is found terminal on disk.
THEOREM NoJobIsLost == ~PeerOpens => (Spec => []NeverLosesJob)
<1> SUFFICES ASSUME ~PeerOpens PROVE Spec => []NeverLosesJob
  OBVIOUS
<1>1. StoreInv => NeverLosesJob
  BY DEF StoreInv
<1> QED
  BY <1>1, StoreInvariance, PTL

\* AnswersAreDurable: a status loadInfo reports is the one meta.json holds, and
\* stays it.
THEOREM AnswersAreOnDisk == ~PeerOpens => (Spec => []AnswersAreDurable)
<1> SUFFICES ASSUME ~PeerOpens PROVE Spec => []AnswersAreDurable
  OBVIOUS
<1>1. StoreInv => AnswersAreDurable
  BY DEF StoreInv
<1> QED
  BY <1>1, StoreInvariance, PTL

\* OutcomeImmutable: no retried write, recovery or late callback changes a
\* durable outcome.
THEOREM OutcomesStand == ~PeerOpens => (Spec => OutcomeImmutable)
<1> SUFFICES ASSUME ~PeerOpens PROVE Spec => OutcomeImmutable
  OBVIOUS
<1>1. IInv /\ StoreInv /\ [Next]_vars => [\A j \in outcome : j \in outcome' /\ disk'[j] = disk[j]]_vars
  BY NextStore DEF Immutable
<1> QED
  BY <1>1, StoreInvariance, Invariance, PTL DEF Spec, OutcomeImmutable

(***************************************************************************)
(* The manager implements the contract of JobPool.                         *)
(***************************************************************************)

\* What the mapping makes of a job at each place.
LEMMA Phases ==
  ASSUME IInv, StoreInv, NEW j \in Jobs
  PROVE  /\ Phase(j) \in {"idle", "held", "running", "settled", "dropped"}
         /\ Phase(j) = "idle"    <=> pc[j] = "new"
         /\ Phase(j) = "held"    <=> pc[j] \in Admitted
         /\ Phase(j) = "running" <=> j \in live
         /\ Phase(j) = "settled" <=> j \in outcome /\ j \notin live
  BY DEF Phase, IInv, Shape, TypeOK, StoreInv, Recorded, Admitted, Registered, Working, Written

LEMMA PhaseValue ==
  ASSUME IInv, StoreInv, NEW j \in Jobs
  PROVE  Phase(j) = IF pc[j] = "new" THEN "idle" ELSE IF pc[j] \in Admitted THEN "held"
                    ELSE IF j \in live THEN "running" ELSE IF j \in outcome THEN "settled"
                    ELSE "dropped"
  BY Phases

\* The same of the state a step leads to.
LEMMA PhaseNext ==
  ASSUME IInv', StoreInv', NEW j \in Jobs
  PROVE  Phase(j)' = IF pc'[j] = "new" THEN "idle" ELSE IF pc'[j] \in Admitted THEN "held"
                     ELSE IF j \in live' THEN "running" ELSE IF j \in outcome' THEN "settled"
                     ELSE "dropped"
  BY DEF Phase, IInv, Shape, TypeOK, StoreInv, Recorded, Admitted, Registered, Working, Written

\* The places taken in the pool are the slots.
LEMMA PoolOccupied ==
  ASSUME IInv, StoreInv
  PROVE  Pool!Cardinality(Pool!Occupied) = slots
<1>1. Pool!Occupied = Holders
  BY Phases DEF Pool!Occupied, Holders, IInv, TypeOK
<1>2. Pool!Cardinality(Holders) = Cardinality(Holders)
  BY Zenon DEF Pool!Cardinality, Cardinality
<1> QED
  BY <1>1, <1>2 DEF IInv, SlotsExact

\* A step that takes one job from one phase to another.
LEMMA OneMoves ==
  ASSUME NEW j \in Jobs, NEW to, Phase(j)' = to, \A k \in Jobs : k # j => Phase(k)' = Phase(k)
  PROVE  Pool!Become(j, Phase(j), to)
BY DEF Pool!Become

\* A step that moves nothing in the pool.
LEMMA NothingMoves ==
  ASSUME \A k \in Jobs : Phase(k)' = Phase(k), UNCHANGED <<barred, outcome>>
  PROVE  UNCHANGED Pool!vars
BY DEF Pool!vars

\* Every step of a job's call or goroutine is one of its steps in the pool, or
\* moves nothing there.
LEMMA JobImplements ==
  ASSUME IInv, StoreInv, IInv', StoreInv', NEW j \in Jobs, JobStep(j)
  PROVE  Pool!Next \/ UNCHANGED Pool!vars
<1> USE DEF jobVars, memVars, diskVars, procVars, Goto
<1>0. pc \in [Jobs -> PCs] /\ outcome \subseteq Jobs /\ peer = {}
  BY DEF IInv, TypeOK, StoreInv
<1>1. CASE Admit(j)
  <2>1. /\ Phase(j) = "idle" /\ Phase(j)' = "held"
        /\ \A k \in Jobs : k # j => Phase(k)' = Phase(k)
    BY <1>0, <1>1, PhaseValue, PhaseNext DEF Admit, Admitted
  <2>2. Pool!Open(j) /\ Pool!Cardinality(Pool!Occupied) < MaxConcurrent
    BY <1>1, PoolOccupied DEF Admit, Pool!Open, Barred
  <2>3. Pool!Take(j)
    BY <1>1, <2>1, <2>2, OneMoves DEF Pool!Take, Admit
  <2> QED
    BY <2>3 DEF Pool!Next
<1>2. CASE Refuse(j) \/ CreateFails(j) \/ DropAdmission(j)
  <2>1. /\ Phase(j) \in {"idle", "held"} /\ Phase(j)' = "dropped"
        /\ \A k \in Jobs : k # j => Phase(k)' = Phase(k)
    <3>1. j \notin live /\ j \notin outcome
      BY <1>0, <1>2 DEF Refuse, CreateFails, DropAdmission, IInv, Shape, StoreInv, Recorded,
         Admitted, Registered, Working, Written
    <3> QED
      BY <1>0, <1>2, <3>1, PhaseValue, PhaseNext DEF Refuse, CreateFails, DropAdmission, Admitted
  <2>2. Pool!Drop(j)
    BY <1>2, <2>1, OneMoves DEF Pool!Drop, Refuse, CreateFails, DropAdmission
  <2> QED
    BY <2>2 DEF Pool!Next
<1>3. CASE Register(j) /\ ~Barred(j)
  <2>1. /\ Phase(j) = "held" /\ Phase(j)' = "running"
        /\ \A k \in Jobs : k # j => Phase(k)' = Phase(k)
    BY <1>0, <1>3, PhaseValue, PhaseNext DEF Register, Admitted
  <2>2. Pool!Start(j)
    BY <1>3, <2>1, OneMoves DEF Pool!Start, Pool!Open, Register, Barred
  <2> QED
    BY <2>2 DEF Pool!Next
<1>4. CASE CommitOutcome(j)
  <2>1. j \in live /\ \A k \in Jobs : Phase(k)' = Phase(k)
    <3>1. j \in live /\ pc[j] \notin {"new"} \cup Admitted
      BY <1>0, <1>4 DEF CommitOutcome, IInv, Shape, Working, Registered, Admitted
    <3> QED
      BY <1>0, <1>4, <3>1, PhaseValue, PhaseNext DEF CommitOutcome, Admitted
  <2>2. CASE outcome' = outcome
    BY <1>4, <2>1, <2>2, NothingMoves DEF CommitOutcome
  <2>3. CASE outcome' = outcome \cup {j}
    <3>1. Pool!Commit({j})
      <4>1. {} \in SUBSET {j} /\ Phase(j) = "running"
        BY <2>1, Phases
      <4>2. [k \in Jobs |-> Phase(k)]' =
              [k \in Jobs |-> IF k \in {} THEN "settled" ELSE [i \in Jobs |-> Phase(i)][k]]
        BY <2>1
      <4> QED
        BY <1>4, <2>3, <4>1, <4>2 DEF Pool!Commit, CommitOutcome
    <3> QED
      BY <3>1 DEF Pool!Next
  <2> QED
    BY <1>4, <2>2, <2>3 DEF CommitOutcome
<1>5. CASE Exit(j) /\ j \notin persistErr
  <2>1. j \in outcome /\ j \in live
    BY <1>0, <1>5 DEF Exit, IInv, Shape, Working, Registered, StoreInv, Recorded, Written
  <2>2. /\ Phase(j) = "running" /\ Phase(j)' = "settled"
        /\ \A k \in Jobs : k # j => Phase(k)' = Phase(k)
    BY <1>0, <1>5, <2>1, PhaseValue, PhaseNext DEF Exit, Admitted
  <2>3. Pool!Settle(j)
    BY <1>5, <2>1, <2>2, OneMoves DEF Pool!Settle, Exit
  <2> QED
    BY <2>3 DEF Pool!Next
<1>6. CASE \/ Create(j) \/ SpawnAborted(j) \/ (Register(j) /\ Barred(j)) \/ Unwind(j)
           \/ Start(j) \/ BindSession(j) \/ RunnerReturns(j) \/ Publish(j)
           \/ (Exit(j) /\ j \in persistErr) \/ Recover(j)
  <2>1. \A k \in Jobs : Phase(k)' = Phase(k)
    BY <1>0, <1>6, PhaseValue, PhaseNext DEF Create, SpawnAborted, Register, Unwind, Start,
       BindSession, RunnerReturns, Publish, Exit, Recover, Admitted
  <2>2. UNCHANGED <<barred, outcome>>
    BY <1>6 DEF Create, SpawnAborted, Register, Unwind, Start, BindSession, RunnerReturns, Publish,
       Exit, Recover
  <2> QED
    BY <2>1, <2>2, NothingMoves
<1>7. CASE PeerReads(j) \/ PeerWrites(j)
  BY <1>0, <1>7 DEF PeerReads, PeerWrites, StoreInv
<1> QED
  BY <1>1, <1>2, <1>3, <1>4, <1>5, <1>6, <1>7 DEF JobStep, SpawnStep, RunStep

\* The writes a reconciliation makes are one commit of the pool, which frees the
\* places of the jobs that had exited.
LEMMA ReconcileImplements ==
  ASSUME IInv, StoreInv, IInv', StoreInv', NEW R \in SUBSET live, NEW F \in SUBSET R,
         Reconcile(R, F), UNCHANGED <<pc, barred>>
  PROVE  Pool!Next
<1> DEFINE wrote == (R \cap persistErr) \ F
           freed == wrote \cap exited
<1>1. outcome' = outcome \cup wrote /\ live' = live \ freed
  BY DEF Reconcile
<1>2. live \subseteq Jobs /\ \A k \in live : pc[k] \in Registered
  BY DEF IInv, TypeOK, Shape, Working, Registered
<1>3. \A k \in Jobs : Phase(k)' = IF k \in freed THEN "settled" ELSE Phase(k)
  <2> SUFFICES ASSUME NEW k \in Jobs PROVE Phase(k)' = IF k \in freed THEN "settled" ELSE Phase(k)
    OBVIOUS
  <2>1. CASE k \in live
    BY <1>1, <1>2, <2>1, PhaseValue, PhaseNext DEF Registered, Admitted
  <2>2. CASE k \notin live
    BY <1>1, <2>2, PhaseValue, PhaseNext
  <2> QED
    BY <2>1, <2>2
<1>4. wrote \in SUBSET Jobs /\ wrote \subseteq {k \in Jobs : Phase(k) = "running"}
  BY <1>2, Phases
<1>5. Pool!Commit(wrote)
  <2>1. wrote \subseteq {k \in Jobs : [i \in Jobs |-> Phase(i)][k] = "running"}
    BY <1>4
  <2>2. freed \in SUBSET wrote
    OBVIOUS
  <2>3. [k \in Jobs |-> Phase(k)]' =
          [k \in Jobs |-> IF k \in freed THEN "settled" ELSE [i \in Jobs |-> Phase(i)][k]]
    BY <1>3
  <2> QED
    BY <1>1, <2>1, <2>2, <2>3 DEF Pool!Commit
<1> QED
  BY <1>4, <1>5 DEF Pool!Next

\* Steps that touch no job.
LEMMA AloneImplements ==
  ASSUME IInv, StoreInv, IInv', StoreInv', UNCHANGED <<pc, live, outcome>>
  PROVE  /\ \A k \in Jobs : Phase(k)' = Phase(k)
         /\ barred' = barred => UNCHANGED Pool!vars
<1>1. \A k \in Jobs : Phase(k)' = Phase(k)
  BY PhaseValue, PhaseNext
<1> QED
  BY <1>1, NothingMoves

\* A crash loses what is not durable.
LEMMA CrashImplements ==
  ASSUME IInv, StoreInv, IInv', StoreInv', Crash
  PROVE  Pool!Next
<1>1. \A k \in Jobs : Phase(k)' =
        CASE Phase(k) = "running" /\ k \in outcome    -> "settled"
          [] Phase(k) = "running" /\ k \notin outcome -> "dropped"
          [] Phase(k) = "held"                        -> "dropped"
          [] OTHER                                    -> Phase(k)
  <2> SUFFICES ASSUME NEW k \in Jobs
               PROVE  Phase(k)' =
                 CASE Phase(k) = "running" /\ k \in outcome    -> "settled"
                   [] Phase(k) = "running" /\ k \notin outcome -> "dropped"
                   [] Phase(k) = "held"                        -> "dropped"
                   [] OTHER                                    -> Phase(k)
    OBVIOUS
  <2>1. Phase(k)' = IF pc[k] = "new" THEN "idle" ELSE IF k \in outcome THEN "settled" ELSE "dropped"
    BY PhaseNext DEF Crash, Admitted, diskVars
  <2>2. pc[k] \in Admitted \cup {"new"} => k \notin outcome /\ k \notin live
    BY DEF IInv, Shape, StoreInv, Recorded, Admitted, Registered, Working, Written
  <2> QED
    BY <2>1, <2>2, PhaseValue DEF Admitted
<1>2. Pool!Lose
  BY <1>1 DEF Pool!Lose, Crash, diskVars
<1> QED
  BY <1>2 DEF Pool!Next

LEMMA NextImplements ==
  ASSUME IInv, StoreInv, IInv', StoreInv', [Next]_vars
  PROVE  Pool!Next \/ UNCHANGED Pool!vars
<1> USE DEF jobVars, memVars, diskVars, closeVars, clientVars, procVars
<1>1. CASE \E j \in Jobs : JobStep(j)
  BY <1>1, JobImplements
<1>2. ASSUME NEW q \in Clients, ClientStep(q) PROVE Pool!Next \/ UNCHANGED Pool!vars
  <2>1. ASSUME NEW from, NEW otherwise, NEW reading, Load(q, from, otherwise, reading), target[q] \in live
        PROVE  Pool!Next
    <3>1. PICK F \in SUBSET {target[q]} : Reconcile({target[q]}, F)
      BY <2>1 DEF Load
    <3> QED
      BY <2>1, <3>1, ReconcileImplements DEF Load
  <2>2. \/ UNCHANGED <<pc, live, outcome, barred>>
        \/ /\ target[q] \in live
           /\ \/ Load(q, "load", "look", "read") \/ Load(q, "reload", "lost", "reread")
              \/ Load(q, "stat", "notrunning", "statread")
    BY <1>2 DEF ClientStep, CallWait, CallCancel, Load, Read, Look, Woken, TimesOut, CancelLive,
       CancelAbsent, CancelDone, Return
  <2> QED
    BY <2>1, <2>2, AloneImplements
<1>3. ASSUME NEW s \in Scopes, CloseStep(s) PROVE Pool!Next \/ UNCHANGED Pool!vars
  <2>1. CASE CallClose(s)
    <3>1. \A k \in Jobs : Phase(k)' = Phase(k)
      BY <2>1, AloneImplements DEF CallClose
    <3>2. Pool!Shut(s)
      BY <2>1, <3>1 DEF Pool!Shut, CallClose
    <3> QED
      BY <3>2 DEF Pool!Next
  <2>2. CASE CloseDrained(s) \/ CloseTimesOut(s)
    BY <2>2, AloneImplements DEF CloseDrained, CloseTimesOut
  <2>3. CASE CloseReconcile(s)
    <3>1. PICK R \in SUBSET (live \cap Covers[s]) : \E F \in SUBSET R : Reconcile(R, F)
      BY <2>3 DEF CloseReconcile
    <3>2. PICK F \in SUBSET R : Reconcile(R, F)
      BY <3>1
    <3> QED
      BY <2>3, <3>2, ReconcileImplements DEF CloseReconcile
  <2> QED
    BY <1>3, <2>1, <2>2, <2>3 DEF CloseStep
<1>4. ASSUME NEW R \in SUBSET Jobs, Query(R) PROVE Pool!Next
  <2>1. PICK F \in SUBSET R : Reconcile(R, F)
    BY <1>4 DEF Query
  <2>2. R \in SUBSET live
    BY <1>4 DEF Query, IInv, Shape, TypeOK, Working, Registered
  <2> QED
    BY <1>4, <2>1, <2>2, ReconcileImplements DEF Query
<1>5. CASE Crash
  BY <1>5, CrashImplements
<1>6. CASE Recovered \/ UNCHANGED vars
  BY <1>6, AloneImplements DEF Recovered, vars
<1> QED
  BY <1>1, <1>2, <1>3, <1>4, <1>5, <1>6 DEF Next

\* ImplementsPool: to its callers the manager, with its lock, channels,
\* goroutines and files, is the pool: at most MaxConcurrent places, none taken
\* in a scope that was shut down, and a runner's place is free again only once
\* its outcome is durable.
THEOREM ManagerIsPool == ~PeerOpens => (Spec => ImplementsPool)
<1> SUFFICES ASSUME ~PeerOpens PROVE Spec => ImplementsPool
  OBVIOUS
<1>1. Init => Pool!Init
  BY DEF Init, Pool!Init, Phase, Admitted, Registered
<1>2. IInv /\ StoreInv /\ IInv' /\ StoreInv' /\ [Next]_vars => [Pool!Next]_(Pool!vars)
  BY NextImplements
<1> QED
  BY <1>1, <1>2, Invariance, StoreInvariance, PTL DEF Spec, ImplementsPool, Pool!Spec

-----------------------------------------------------------------------------
(***************************************************************************)
(* The invariant of the watch manager.                                     *)
(***************************************************************************)
\* The flag Subscribe's cancel and Close look at says whether the channel is closed.
FlagTellsClosed == \A s \in Subs : chan[s].closed <=> chan[s].phase = "closed"

\* The window is what is left of the events shown: the events missing from it
\* are all as old as the flood window, and never more than FloodLimit are in it.
BudgetExact ==
  LET gone == Len(shown) - Len(window)
  IN /\ gone \in Nat
     /\ Len(window) <= FloodLimit
     /\ \A i \in 1..Len(window) : window[i] = shown[gone + i]
     /\ \A i \in 1..Len(shown) : shown[i] <= now
     /\ \A i \in 1..gone : now - shown[i] >= FloodWindow

\* Whoever heard a watch's last event, the watch is finished; what is heard is
\* from a watch that was started.
HeardIsTrue ==
  \A s \in Subs : \A i \in DOMAIN chan[s].heard :
    /\ chan[s].heard[i].id \in Ids
    /\ chan[s].heard[i].final => ~Live(chan[s].heard[i].id)

\* A finished watch keeps its last event, and more than that only while it is
\* among the FinishedLogKeep newest.
FinishedKept ==
  /\ \A id \in Ids : ~Live(id) =>
       /\ entry[id].log # <<>>
       /\ entry[id].log[Len(entry[id].log)].final
       /\ (entry[id].log[Len(entry[id].log)].why = "flooded") = entry[id].flooded
       /\ Len(entry[id].log) > 1 => \E i \in 1..Len(finished) : finished[i] = id
  /\ Len(finished) <= FinishedLogKeep
  /\ \A i \in 1..Len(finished) : ~Live(finished[i])

\* The type invariant, by what its parts are about.
WatchRecord == [stage : Stages, cancelled : BOOLEAN, flooded : BOOLEAN, log : Seq(Events)]
Channel == [phase : {"none", "open", "closed"}, closed : BOOLEAN,
            callable : BOOLEAN, heard : Seq(Events), taken : Nat]

EntriesOK ==
  /\ entry \in Seq(WatchRecord) /\ Len(entry) <= MaxStarts
  /\ \A id \in Ids : Len(entry[id].log) <= LogLimit
ChannelsOK == subs \subseteq Subs /\ chan \in [Subs -> Channel]
FinishedOK == finished \in Seq(Ids)
BudgetOK == now \in 0..MaxTime /\ window \in Seq(0..MaxTime) /\ shown \in Seq(0..MaxTime)
FlagsOK ==
  closed \in BOOLEAN /\ closing \in {"open", "waiting", "returned"} /\ panicked \in BOOLEAN
Typed == EntriesOK /\ ChannelsOK /\ FinishedOK /\ BudgetOK /\ FlagsOK

WatchInv ==
  /\ Typed
  /\ FlagTellsClosed /\ ~panicked
  /\ BudgetExact /\ FloodBudget
  /\ HeardIsTrue /\ FinalLast
  /\ FinishedKept

\* What trimming a log leaves: never too much, never nothing, and the last event.
LEMMA NewestKeepsLast ==
  ASSUME NEW S, NEW log \in Seq(S), NEW n \in Nat \ {0}
  PROVE  /\ Newest(log, n) \in Seq(S)
         /\ Len(Newest(log, n)) <= n /\ Len(Newest(log, n)) <= Len(log)
         /\ log # <<>> =>
              /\ Newest(log, n) # <<>>
              /\ Newest(log, n)[Len(Newest(log, n))] = log[Len(log)]
<1> DEFINE k == (IF Len(log) > n THEN Len(log) - n ELSE 0) + 1
           newest == SubSeq(log, k, Len(log))
<1>1. Len(log) \in Nat /\ (log # <<>> => Len(log) > 0)
  BY EmptySeq
<1>2. k \in 1..(Len(log) + 1) /\ Len(log) - k + 1 <= n
  BY <1>1
<1>3. log # <<>> => k <= Len(log)
  BY <1>1
<1>4. Newest(log, n) = newest
  BY DEF Newest
<1> HIDE DEF k
<1>5. \A i \in k..Len(log) : log[i] \in S
  BY <1>1, <1>2
<1>6. /\ newest \in Seq(S)
      /\ Len(newest) = IF k <= Len(log) THEN Len(log) - k + 1 ELSE 0
      /\ \A i \in 1..(Len(log) - k + 1) : newest[i] = log[k + i - 1]
  BY <1>1, <1>2, <1>5, SubSeqProperties
<1> HIDE DEF newest
<1>7. Len(newest) <= n /\ Len(newest) <= Len(log)
  BY <1>1, <1>2, <1>6
<1>8. ASSUME log # <<>>
      PROVE  newest # <<>> /\ newest[Len(newest)] = log[Len(log)]
  <2>1. Len(newest) = Len(log) - k + 1 /\ Len(newest) > 0
    BY <1>1, <1>2, <1>3, <1>6, <1>8
  <2>2. newest[Len(log) - k + 1] = log[k + (Len(log) - k + 1) - 1]
    BY <1>1, <1>2, <1>6, <2>1
  <2> QED
    BY <1>1, <1>2, <2>1, <2>2
<1> QED
  BY <1>4, <1>6, <1>7, <1>8

\* A sequence without its first k elements.
LEMMA CutFront ==
  ASSUME NEW S, NEW s \in Seq(S), NEW k \in 0..Len(s)
  PROVE  /\ SubSeq(s, k + 1, Len(s)) \in Seq(S)
         /\ Len(SubSeq(s, k + 1, Len(s))) = Len(s) - k
         /\ \A i \in 1..(Len(s) - k) : SubSeq(s, k + 1, Len(s))[i] = s[k + i]
<1> DEFINE m == k + 1
           n == Len(s)
<1>0. Len(s) \in Nat /\ m \in Int /\ n \in Int /\ m \in 1..(n + 1)
  OBVIOUS
<1>1. \A i \in m..n : s[i] \in S
  BY <1>0
<1> HIDE DEF m, n
<1>2. /\ SubSeq(s, m, n) \in Seq(S)
      /\ Len(SubSeq(s, m, n)) = IF m <= n THEN n - m + 1 ELSE 0
      /\ \A i \in 1..(n - m + 1) : SubSeq(s, m, n)[i] = s[m + i - 1]
  BY <1>0, <1>1, SubSeqProperties
<1>3. /\ n - m + 1 = n - k /\ \A i \in Nat : m + i - 1 = k + i
      /\ (IF m <= n THEN n - m + 1 ELSE 0) = n - k
  BY <1>0 DEF m, n
<1>4. \A i \in 1..(n - k) : SubSeq(s, m, n)[i] = s[k + i]
  BY <1>0, <1>2, <1>3
<1> QED
  BY <1>2, <1>3, <1>4 DEF m, n

LEMMA LeastOfSet ==
  ASSUME NEW S, S \subseteq Nat, S # {}
  PROVE  \E n \in S : \A k \in S : n <= k
<1>1. PICK n \in S : \A k \in S : ~(<<k, n>> \in OpToRel(<, Nat))
  BY NatLessThanWellFounded, WFMin
<1>2. \A k \in S : ~(k < n)
  BY <1>1 DEF OpToRel
<1> QED
  BY <1>2

\* The prune takes a prefix of the window, of events that have left it by age.
LEMMA PruneTakesOld ==
  ASSUME BudgetOK
  PROVE  \E k \in 1..(Len(window) + 1) :
           /\ PruneWindow = SubSeq(window, k, Len(window))
           /\ \A i \in 1..(k - 1) : now - window[i] >= FloodWindow
<1> DEFINE young == Younger(FloodWindow)
<1>0. Len(window) \in Nat /\ DOMAIN window = 1..Len(window)
      /\ \A i \in 1..Len(window) : window[i] \in Int
  <2>1. window \in Seq(0..MaxTime) /\ MaxTime \in Nat
    BY WatchAssumption DEF BudgetOK
  <2> QED
    BY <2>1, ElementOfSeq, LenProperties
<1>f. now \in Int /\ FloodWindow \in Int
  BY WatchAssumption DEF BudgetOK
<1>1. young \subseteq 1..Len(window)
  BY <1>0 DEF Younger
<1>2. \A i \in 1..Len(window) : i \notin young => now - window[i] >= FloodWindow
  BY <1>0, <1>f DEF Younger
<1> HIDE DEF young
<1>3. CASE young = {}
  <2>1. PruneWindow = SubSeq(window, Len(window) + 1, Len(window))
    BY <1>3 DEF PruneWindow, Remainder, young
  <2> QED
    BY <2>1, <1>0, <1>2, <1>3
<1>4. CASE young # {}
  <2>1. \E n \in young : \A k \in young : n <= k
    <3>1. young \subseteq Nat
      BY <1>0, <1>1
    <3> QED
      BY <1>4, <3>1, LeastOfSet
  <2>2. Min(young) \in young /\ \A k \in young : Min(young) <= k
    BY <2>1 DEF Min
  <2>3. PruneWindow = SubSeq(window, Min(young), Len(window))
    BY <1>4 DEF PruneWindow, Remainder, young
  <2>5. Min(young) \in 1..Len(window)
    BY <2>2, <1>1
  <2>4. ASSUME NEW i \in 1..(Min(young) - 1)
        PROVE  i \in 1..Len(window) /\ i \notin young
    <3>1. ~(Min(young) <= i) /\ i <= Len(window)
      BY <2>5, <1>0
    <3> QED
      BY <3>1, <2>2
  <2>6. \A i \in 1..(Min(young) - 1) : now - window[i] >= FloodWindow
    BY <2>4, <1>2
  <2>7. Min(young) \in 1..(Len(window) + 1)
    BY <2>5, <1>0
  <2> QED
    BY <2>3, <2>6, <2>7
<1> QED
  BY <1>3, <1>4


(***************************************************************************)
(* Types.                                                                  *)
(***************************************************************************)
LEMMA TypedIsTypeOK == Typed => WatchTypeOK
BY DEF Typed, WatchTypeOK, EntriesOK, ChannelsOK, FinishedOK, BudgetOK, FlagsOK, WatchRecord, Channel

LEMMA EntryAt ==
  ASSUME EntriesOK
  PROVE  /\ Len(entry) \in Nat /\ Ids = DOMAIN entry /\ Ids \subseteq 1..MaxStarts
         /\ \A id \in Ids : entry[id] \in WatchRecord
<1>1. entry \in Seq(WatchRecord) /\ Len(entry) <= MaxStarts /\ MaxStarts \in Nat
  BY WatchAssumption DEF EntriesOK
<1> QED
  BY <1>1, LenProperties, ElementOfSeq DEF Ids

\* One watch changes: the others keep what they have, and none is added.
LEMMA OneEntry ==
  ASSUME EntriesOK, NEW id \in Ids, NEW r \in WatchRecord, Len(r.log) <= LogLimit,
         entry' = [entry EXCEPT ![id] = r]
  PROVE  /\ EntriesOK' /\ Ids' = Ids
         /\ \A i \in Ids : entry'[i] = IF i = id THEN r ELSE entry[i]
<1>1. entry \in Seq(WatchRecord) /\ id \in 1..Len(entry)
  BY DEF EntriesOK, Ids
<1>2. /\ entry' \in Seq(WatchRecord) /\ Len(entry') = Len(entry)
      /\ \A i \in 1..Len(entry) : entry'[i] = IF i = id THEN r ELSE entry[i]
  BY <1>1, ExceptSeq
<1>3. Ids' = Ids /\ \A i \in Ids : entry'[i] = IF i = id THEN r ELSE entry[i]
  BY <1>2 DEF Ids
<1>4. \A i \in Ids : Len(entry'[i].log) <= LogLimit
  BY <1>3 DEF EntriesOK
<1> QED
  BY <1>2, <1>3, <1>4 DEF EntriesOK

\* Every watch may change at once: what a rebuilt list has to be.
LEMMA AllEntries ==
  ASSUME EntriesOK, NEW r, entry' = r, r = [i \in Ids |-> r[i]],
         \A i \in Ids : r[i] \in WatchRecord /\ Len(r[i].log) <= LogLimit
  PROVE  EntriesOK' /\ Ids' = Ids
<1>1. Len(entry) \in Nat /\ Len(entry) <= MaxStarts
  BY EntryAt DEF EntriesOK
<1>2. r \in [1..Len(entry) -> WatchRecord]
  BY DEF Ids
<1>3. r \in Seq(WatchRecord) /\ Len(r) = Len(entry)
  BY <1>1, <1>2
<1> QED
  BY <1>1, <1>3 DEF EntriesOK, Ids

\* What a publication does to a channel: one more event, or nothing.
LEMMA Published ==
  ASSUME ChannelsOK, NEW ev \in Events, PublishLocked(ev), subs' = subs
  PROVE  /\ ChannelsOK'
         /\ \A s \in Subs :
              /\ chan'[s].phase = chan[s].phase /\ chan'[s].closed = chan[s].closed
              /\ chan'[s].heard = chan[s].heard \/ chan'[s].heard = Append(chan[s].heard, ev)
<1>1. ASSUME NEW s \in Subs
      PROVE  /\ chan'[s] \in Channel
             /\ chan'[s].phase = chan[s].phase /\ chan'[s].closed = chan[s].closed
             /\ chan'[s].heard = chan[s].heard \/ chan'[s].heard = Append(chan[s].heard, ev)
  <2>1. chan[s] \in Channel
    BY DEF ChannelsOK
  <2>2. chan'[s] = chan[s] \/ chan'[s] = [chan[s] EXCEPT !.heard = Append(@, ev)]
    BY DEF PublishLocked
  <2>3. chan[s].heard \in Seq(Events)
    BY <2>1 DEF Channel
  <2>4. Append(chan[s].heard, ev) \in Seq(Events)
    BY <2>3, AppendProperties
  <2> QED
    BY <2>1, <2>2, <2>4 DEF Channel
<1>2. chan' = [s \in Subs |-> chan'[s]]
  BY DEF PublishLocked
<1>3. chan' \in [Subs -> Channel]
  BY <1>1, <1>2
<1> QED
  BY <1>1, <1>3 DEF ChannelsOK


LEMMA EventIsEvent ==
  ASSUME EntriesOK, NEW id \in Ids
  PROVE  Event(id) \in Events /\ \A why \in Reasons : FinalEvent(id, why) \in Events
BY EntryAt DEF Event, FinalEvent, Events

\* A log with one more event, trimmed: a log again, and that event is its last.
LEMMA LogsOneMore ==
  ASSUME EntriesOK, NEW id \in Ids, NEW ev \in Events
  PROVE  LET log == Newest(Append(entry[id].log, ev), LogLimit)
         IN log \in Seq(Events) /\ Len(log) <= LogLimit /\ log # <<>> /\ log[Len(log)] = ev
<1> DEFINE full == Append(entry[id].log, ev)
<1>1. entry[id].log \in Seq(Events)
  BY EntryAt DEF WatchRecord
<1>2. full \in Seq(Events) /\ full # <<>> /\ full[Len(full)] = ev
  BY <1>1, AppendProperties
<1> HIDE DEF full
<1>3. LogLimit \in Nat \ {0}
  BY WatchAssumption
<1>4. LET log == Newest(full, LogLimit)
      IN log \in Seq(Events) /\ Len(log) <= LogLimit /\ log # <<>> /\ log[Len(log)] = full[Len(full)]
  BY <1>2, <1>3, NewestKeepsLast
<1> QED
  BY <1>2, <1>4 DEF full

\* The steps that change one watch's stage or flags.
LEMMA FlagSteps ==
  ASSUME Typed, NEW id \in Ids,
         Launch(id) \/ EmitFlooded(id) \/ CancelFlooded(id) \/ Stop(id)
  PROVE  /\ EntriesOK' /\ Ids' = Ids
         /\ \A i \in Ids : entry'[i].log = entry[i].log
         /\ \A i \in Ids : Live(i)' = Live(i)
         /\ \A i \in Ids : ~Live(i) => entry'[i].flooded = entry[i].flooded
<1> USE DEF Typed
<1>t. entry[id] \in WatchRecord /\ Len(entry[id].log) <= LogLimit
  BY EntryAt DEF EntriesOK
<1>1. ASSUME NEW r \in WatchRecord, entry' = [entry EXCEPT ![id] = r],
             r.log = entry[id].log, (r.stage = "finished") = (entry[id].stage = "finished"),
             entry[id].stage = "finished" => r.flooded = entry[id].flooded
      PROVE  /\ EntriesOK' /\ Ids' = Ids
             /\ \A i \in Ids : entry'[i].log = entry[i].log
             /\ \A i \in Ids : Live(i)' = Live(i)
             /\ \A i \in Ids : ~Live(i) => entry'[i].flooded = entry[i].flooded
  <2>1. EntriesOK' /\ Ids' = Ids /\ \A i \in Ids : entry'[i] = IF i = id THEN r ELSE entry[i]
    BY <1>t, <1>1, OneEntry
  <2> QED
    BY <1>1, <2>1 DEF Live
<1>2. CASE Launch(id)
  <2>1. [entry[id] EXCEPT !.stage = "running"] \in WatchRecord
    BY <1>t DEF WatchRecord, Stages
  <2>2. entry' = [entry EXCEPT ![id] = [entry[id] EXCEPT !.stage = "running"]]
    BY <1>2 DEF Launch
  <2>3. entry[id].stage = "starting"
    BY <1>2 DEF Launch
  <2> QED
    BY <1>1, <1>t, <2>1, <2>2, <2>3 DEF WatchRecord
<1>3. CASE EmitFlooded(id)
  <2>1. [entry[id] EXCEPT !.flooded = TRUE, !.stage = "flooding"] \in WatchRecord
    BY <1>t DEF WatchRecord, Stages
  <2>2. entry' = [entry EXCEPT ![id] = [entry[id] EXCEPT !.flooded = TRUE, !.stage = "flooding"]]
    BY <1>3 DEF EmitFlooded
  <2>3. entry[id].stage = "running"
    BY <1>3 DEF EmitFlooded
  <2> QED
    BY <1>1, <1>t, <2>1, <2>2, <2>3 DEF WatchRecord
<1>4. CASE CancelFlooded(id)
  <2>1. [entry[id] EXCEPT !.cancelled = TRUE, !.stage = "running"] \in WatchRecord
    BY <1>t DEF WatchRecord, Stages
  <2>2. entry' = [entry EXCEPT ![id] = [entry[id] EXCEPT !.cancelled = TRUE, !.stage = "running"]]
    BY <1>4 DEF CancelFlooded
  <2>3. entry[id].stage = "flooding"
    BY <1>4 DEF CancelFlooded
  <2> QED
    BY <1>1, <1>t, <2>1, <2>2, <2>3 DEF WatchRecord
<1>5. CASE Stop(id)
  <2>1. [entry[id] EXCEPT !.cancelled = TRUE] \in WatchRecord
    BY <1>t DEF WatchRecord
  <2>2. entry' = [entry EXCEPT ![id] = [entry[id] EXCEPT !.cancelled = TRUE]]
    BY <1>5 DEF Stop
  <2> QED
    BY <1>1, <1>t, <2>1, <2>2 DEF WatchRecord
<1> QED
  BY <1>2, <1>3, <1>4, <1>5

\* emit within the budget changes one log, of a watch that lives.
LEMMA EmitEntries ==
  ASSUME Typed, NEW id \in Ids, Emit(id)
  PROVE  /\ EntriesOK' /\ Ids' = Ids
         /\ Live(id) /\ \A i \in Ids : Live(i)' = Live(i)
         /\ \A i \in Ids : i # id => entry'[i] = entry[i]
<1> USE DEF Typed
<1> DEFINE log == Newest(Append(entry[id].log, Event(id)), LogLimit)
<1>1. log \in Seq(Events) /\ Len(log) <= LogLimit
  BY EventIsEvent, LogsOneMore
<1>2. entry' = [entry EXCEPT ![id] = [entry[id] EXCEPT !.log = log]] /\ entry[id].stage = "running"
  BY DEF Emit
<1> HIDE DEF log
<1>3. [entry[id] EXCEPT !.log = log] \in WatchRecord /\ [entry[id] EXCEPT !.log = log].log = log
      /\ [entry[id] EXCEPT !.log = log].stage = "running"
  BY <1>1, <1>2, EntryAt DEF WatchRecord
<1>4. /\ EntriesOK' /\ Ids' = Ids
      /\ \A i \in Ids : entry'[i] = IF i = id THEN [entry[id] EXCEPT !.log = log] ELSE entry[i]
  BY <1>1, <1>2, <1>3, OneEntry
<1> QED
  BY <1>2, <1>3, <1>4 DEF Live


LEMMA StartEntries ==
  ASSUME Typed, StartWatch
  PROVE  /\ EntriesOK' /\ Ids \subseteq Ids'
         /\ \A i \in Ids : entry'[i] = entry[i]
         /\ \A i \in Ids' : i \notin Ids => Live(i)'
<1> DEFINE r == [stage |-> "starting", cancelled |-> FALSE, flooded |-> FALSE, log |-> <<>>]
<1>0. entry \in Seq(WatchRecord) /\ Len(entry) < MaxStarts /\ entry' = Append(entry, r)
  BY DEF Typed, EntriesOK, StartWatch
<1>1. r \in WatchRecord /\ r.log = <<>> /\ r.stage = "starting"
  <2>1. <<>> \in Seq(Events)
    BY EmptySeq
  <2> QED
    BY <2>1 DEF WatchRecord, Stages
<1> HIDE DEF r
<1>2. /\ entry' \in Seq(WatchRecord) /\ Len(entry') = Len(entry) + 1
      /\ \A i \in 1..Len(entry) : entry'[i] = entry[i]
      /\ entry'[Len(entry) + 1] = r
  BY <1>0, <1>1, AppendProperties
<1>3. Len(entry) \in Nat /\ MaxStarts \in Nat /\ LogLimit \in Nat
  BY <1>0, WatchAssumption
<1>4. Ids \subseteq Ids' /\ \A i \in Ids' : i \notin Ids => i = Len(entry) + 1
  BY <1>2, <1>3 DEF Ids
<1>5. \A i \in Ids' : Len(entry'[i].log) <= LogLimit
  <2>1. Len(<<>>) = 0
    OBVIOUS
  <2>2. \A i \in Ids : Len(entry'[i].log) <= LogLimit
    BY <1>2 DEF Typed, EntriesOK, Ids
  <2>3. Len(r.log) <= LogLimit
    BY <2>1, <1>1, <1>3
  <2> QED
    BY <1>2, <1>4, <2>2, <2>3
<1>6. Len(entry') <= MaxStarts
  BY <1>0, <1>2, <1>3
<1> QED
  <2>1. EntriesOK'
    BY <1>2, <1>5, <1>6 DEF EntriesOK
  <2>2. \A i \in Ids' : i \notin Ids => Live(i)'
    BY <1>1, <1>2, <1>4 DEF Live
  <2>3. \A i \in Ids : entry'[i] = entry[i]
    BY <1>2 DEF Ids
  <2> QED
    BY <1>4, <2>1, <2>2, <2>3

LEMMA CloseEntries ==
  ASSUME Typed, Close
  PROVE  /\ EntriesOK' /\ Ids' = Ids
         /\ \A i \in Ids : entry'[i].log = entry[i].log
         /\ \A i \in Ids : Live(i)' = Live(i) /\ entry'[i].flooded = entry[i].flooded
<1> DEFINE r == [id \in Ids |-> [entry[id] EXCEPT !.cancelled = TRUE]]
<1>0. EntriesOK /\ entry' = r
  BY DEF Typed, Close
<1>1. ASSUME NEW i \in Ids
      PROVE  /\ r[i] \in WatchRecord /\ Len(r[i].log) <= LogLimit
             /\ r[i].log = entry[i].log /\ r[i].stage = entry[i].stage
             /\ r[i].flooded = entry[i].flooded
  <2>1. entry[i] \in WatchRecord /\ Len(entry[i].log) <= LogLimit
    BY <1>0, EntryAt DEF EntriesOK
  <2>2. r[i] = [entry[i] EXCEPT !.cancelled = TRUE]
    OBVIOUS
  <2> QED
    BY <2>1, <2>2 DEF WatchRecord
<1>2. r = [i \in Ids |-> r[i]]
  OBVIOUS
<1> HIDE DEF r
<1>3. EntriesOK' /\ Ids' = Ids
  BY <1>0, <1>1, <1>2, AllEntries
<1> QED
  BY <1>0, <1>1, <1>3 DEF Live

\* finish's list of finished watches, by its own names.
Full(id) == Append(finished, id)
Excess(id) == IF Len(Full(id)) > FinishedLogKeep THEN Len(Full(id)) - FinishedLogKeep ELSE 0
Left(id) == SubSeq(Full(id), Excess(id) + 1, Len(Full(id)))
Shrunk(id) == {Full(id)[i] : i \in 1..Excess(id)}

\* What is left of the list of finished watches, with one more of them.
LEMMA FinishedOneMore ==
  ASSUME Typed, NEW id \in Ids, Len(finished) <= FinishedLogKeep
  PROVE  /\ Left(id) \in Seq(Ids) /\ Len(Left(id)) <= FinishedLogKeep
         /\ \A i \in 1..Len(Left(id)) :
              Left(id)[i] = id \/ \E j \in 1..Len(finished) : Left(id)[i] = finished[j]
         /\ \A i \in Ids : (i = id \/ \E j \in 1..Len(finished) : finished[j] = i) =>
              i \in Shrunk(id) \/ \E k \in 1..Len(Left(id)) : Left(id)[k] = i
<1> DEFINE full == Full(id)
           excess == Excess(id)
           left == Left(id)
<1>1. finished \in Seq(Ids) /\ FinishedLogKeep \in Nat \ {0} /\ Len(finished) \in Nat
  BY WatchAssumption DEF Typed, FinishedOK
<1>2. /\ full \in Seq(Ids) /\ Len(full) = Len(finished) + 1
      /\ \A i \in 1..Len(finished) : full[i] = finished[i]
      /\ full[Len(finished) + 1] = id
  BY <1>1, AppendProperties DEF Full
<1> HIDE DEF full
<1>3. excess \in 0..1 /\ Len(full) - excess <= FinishedLogKeep
  BY <1>1, <1>2 DEF Excess, full
<1> HIDE DEF excess, left
<1>5. /\ left \in Seq(Ids) /\ Len(left) = Len(full) - excess
      /\ \A i \in 1..Len(left) : left[i] = full[excess + i]
  <2>1. left = SubSeq(full, excess + 1, Len(full))
    BY DEF Left, left, full, excess
  <2>2. excess \in 0..Len(full)
    BY <1>1, <1>2, <1>3
  <2> QED
    BY <1>2, <2>1, <2>2, CutFront
<1>6. ASSUME NEW i \in 1..Len(left)
      PROVE  left[i] = id \/ \E j \in 1..Len(finished) : left[i] = finished[j]
  <2>1. excess + i \in 1..(Len(finished) + 1)
    BY <1>1, <1>2, <1>3, <1>5
  <2>2. excess + i = Len(finished) + 1 \/ excess + i \in 1..Len(finished)
    BY <2>1, <1>1
  <2> QED
    BY <2>2, <1>2, <1>5
<1>7. ASSUME NEW i \in Ids, i = id \/ \E j \in 1..Len(finished) : finished[j] = i
      PROVE  i \in {full[k] : k \in 1..excess} \/ \E k \in 1..Len(left) : left[k] = i
  <2>1. PICK p \in 1..Len(full) : full[p] = i
    BY <1>1, <1>2, <1>7
  <2>2. p \in 1..excess \/ p - excess \in 1..Len(left)
    BY <1>1, <1>2, <1>3, <1>5
  <2>3. p - excess \in 1..Len(left) => left[p - excess] = full[p]
    <3>1. excess + (p - excess) = p
      BY <1>2, <1>3
    <3> QED
      BY <3>1, <1>5
  <2> QED
    BY <2>1, <2>2, <2>3
<1> QED
  BY <1>3, <1>5, <1>6, <1>7 DEF Shrunk, full, excess, left


\* finish marks one watch; the ones it shrinks keep their last event and no other.
LEMMA FinishEntries ==
  ASSUME Typed, NEW id \in Ids, NEW failed \in BOOLEAN, Finish(id, failed)
  PROVE  /\ EntriesOK' /\ Ids' = Ids /\ finished' = Left(id)
         /\ Live(id) /\ ~Live(id)' /\ \A i \in Ids : i # id => Live(i)' = Live(i)
         /\ \A i \in Ids : entry'[i].flooded = entry[i].flooded
         /\ \A i \in Ids : i # id /\ entry[i].log # <<>> =>
              /\ entry'[i].log # <<>> /\ Len(entry'[i].log) <= Len(entry[i].log)
              /\ entry'[i].log[Len(entry'[i].log)] = entry[i].log[Len(entry[i].log)]
         /\ entry'[id].log # <<>>
         /\ \E why \in Reasons :
              /\ entry'[id].log[Len(entry'[id].log)] = FinalEvent(id, why)
              /\ (why = "flooded") = entry[id].flooded
              /\ PublishLocked(FinalEvent(id, why))
         /\ \A i \in Shrunk(id) : i \in Ids => Len(entry'[i].log) <= 1
<1> DEFINE why == IF entry[id].flooded THEN "flooded" ELSE IF failed THEN "failed" ELSE "ended"
           log == Newest(Append(entry[id].log, FinalEvent(id, why)), LogLimit)
           one == [entry[id] EXCEPT !.stage = "finished", !.cancelled = TRUE, !.log = log]
           r == [i \in Ids |-> IF i \in Shrunk(id)
                               THEN [(IF i = id THEN one ELSE entry[i]) EXCEPT !.log = Newest(@, 1)]
                               ELSE IF i = id THEN one ELSE entry[i]]
<1>0. EntriesOK /\ entry[id] \in WatchRecord
  BY EntryAt DEF Typed
<1>1. why \in Reasons /\ (why = "flooded") = entry[id].flooded
  BY <1>0 DEF Reasons, WatchRecord
<1>2. /\ finished' = Left(id)
      /\ entry[id].stage = "running" /\ PublishLocked(FinalEvent(id, why))
      /\ entry' = [i \in Ids |-> IF i \in Shrunk(id)
           THEN [[entry EXCEPT ![id].stage = "finished", ![id].cancelled = TRUE,
                               ![id].log = log][i] EXCEPT !.log = Newest(@, 1)]
           ELSE [entry EXCEPT ![id].stage = "finished", ![id].cancelled = TRUE,
                              ![id].log = log][i]]
  BY DEF Finish, Left, Full, Excess, Shrunk
<1>l. log \in Seq(Events) /\ Len(log) <= LogLimit /\ log # <<>> /\ log[Len(log)] = FinalEvent(id, why)
  BY <1>0, <1>1, EventIsEvent, LogsOneMore
<1> HIDE DEF why, log
<1>3. one \in WatchRecord /\ one.log = log /\ one.stage = "finished"
      /\ one.flooded = entry[id].flooded
  BY <1>0, <1>l DEF WatchRecord, Stages
<1>4. entry' = r
  <2> DEFINE ended == [entry EXCEPT ![id].stage = "finished", ![id].cancelled = TRUE,
                                    ![id].log = log]
  <2>1. \A i \in Ids : ended[i] = IF i = id THEN one ELSE entry[i]
    <3>1. \A i \in Ids : i \in DOMAIN entry
      BY <1>0, EntryAt
    <3> QED
      BY <3>1
  <2>2. entry' = [i \in Ids |-> IF i \in Shrunk(id) THEN [ended[i] EXCEPT !.log = Newest(@, 1)]
                                                    ELSE ended[i]]
    BY <1>2
  <2> HIDE DEF ended, one
  <2> QED
    BY <2>1, <2>2
<1> HIDE DEF one
<1>n. 1 \in Nat \ {0} /\ LogLimit \in Nat \ {0}
  BY WatchAssumption
<1>5. ASSUME NEW i \in Ids
      PROVE  LET b == IF i = id THEN one ELSE entry[i]
             IN /\ r[i] \in WatchRecord /\ Len(r[i].log) <= LogLimit
                /\ r[i].stage = b.stage /\ r[i].flooded = b.flooded
                /\ b.log # <<>> =>
                     /\ r[i].log # <<>> /\ Len(r[i].log) <= Len(b.log)
                     /\ r[i].log[Len(r[i].log)] = b.log[Len(b.log)]
                /\ i \in Shrunk(id) => Len(r[i].log) <= 1
  <2> DEFINE b == IF i = id THEN one ELSE entry[i]
             short == Newest(b.log, 1)
  <2>1. b \in WatchRecord /\ Len(b.log) <= LogLimit
    BY <1>0, <1>3, <1>l, EntryAt DEF EntriesOK
  <2>2. r[i] = IF i \in Shrunk(id) THEN [b EXCEPT !.log = short] ELSE b
    OBVIOUS
  <2> HIDE DEF b
  <2>3. b.log \in Seq(Events)
    BY <2>1 DEF WatchRecord
  <2>4. /\ short \in Seq(Events) /\ Len(short) <= 1 /\ Len(short) <= Len(b.log)
        /\ b.log # <<>> => short # <<>> /\ short[Len(short)] = b.log[Len(b.log)]
    BY <1>n, <2>3, NewestKeepsLast
  <2> HIDE DEF short, r
  <2>5. CASE i \in Shrunk(id)
    <3>1. r[i] \in WatchRecord /\ r[i].log = short /\ r[i].stage = b.stage /\ r[i].flooded = b.flooded
      BY <2>1, <2>2, <2>4, <2>5 DEF WatchRecord
    <3>2. Len(short) <= LogLimit
      BY <1>n, <2>4
    <3> QED
      BY <2>4, <3>1, <3>2 DEF b
  <2>6. CASE i \notin Shrunk(id)
    <3>1. r[i] = b
      BY <2>2, <2>6
    <3>2. Len(b.log) \in Nat
      BY <2>3
    <3> QED
      BY <2>1, <2>6, <3>1, <3>2 DEF b
  <2> QED
    BY <2>5, <2>6
<1>6. r = [i \in Ids |-> r[i]]
  OBVIOUS
<1> HIDE DEF r
<1>7. EntriesOK' /\ Ids' = Ids
  <2>1. \A i \in Ids : r[i] \in WatchRecord /\ Len(r[i].log) <= LogLimit
    BY <1>5
  <2> QED
    BY <1>0, <1>4, <1>6, <2>1, AllEntries
<1>8. \A i \in Ids : i # id => Live(i)' = Live(i) /\ entry'[i].flooded = entry[i].flooded
  BY <1>4, <1>5 DEF Live
<1>9. Live(id) /\ ~Live(id)' /\ entry'[id].flooded = entry[id].flooded
  BY <1>2, <1>3, <1>4, <1>5 DEF Live
<1>10. entry'[id].log # <<>> /\ entry'[id].log[Len(entry'[id].log)] = FinalEvent(id, why)
  BY <1>3, <1>4, <1>5, <1>l
<1>11. \A i \in Ids : i # id /\ entry[i].log # <<>> =>
              /\ entry'[i].log # <<>> /\ Len(entry'[i].log) <= Len(entry[i].log)
              /\ entry'[i].log[Len(entry'[i].log)] = entry[i].log[Len(entry[i].log)]
  BY <1>4, <1>5
<1>12. \A i \in Shrunk(id) : i \in Ids => Len(entry'[i].log) <= 1
  BY <1>4, <1>5
<1> QED
  BY <1>1, <1>2, <1>7, <1>8, <1>9, <1>10, <1>11, <1>12


\* The pruned window, element by element.
LEMMA Pruned ==
  ASSUME BudgetOK
  PROVE  \E g \in 0..Len(window) :
           /\ PruneWindow \in Seq(0..MaxTime) /\ Len(PruneWindow) = Len(window) - g
           /\ \A i \in 1..(Len(window) - g) : PruneWindow[i] = window[g + i]
           /\ \A i \in 1..g : now - window[i] >= FloodWindow
<1>0. window \in Seq(0..MaxTime) /\ Len(window) \in Nat
  BY DEF BudgetOK
<1>1. PICK k \in 1..(Len(window) + 1) :
        /\ PruneWindow = SubSeq(window, k, Len(window))
        /\ \A i \in 1..(k - 1) : now - window[i] >= FloodWindow
  BY PruneTakesOld
<1>2. k - 1 \in 0..Len(window) /\ (k - 1) + 1 = k
  BY <1>0
<1>3. /\ SubSeq(window, (k - 1) + 1, Len(window)) \in Seq(0..MaxTime)
      /\ Len(SubSeq(window, (k - 1) + 1, Len(window))) = Len(window) - (k - 1)
      /\ \A i \in 1..(Len(window) - (k - 1)) :
           SubSeq(window, (k - 1) + 1, Len(window))[i] = window[(k - 1) + i]
  BY <1>0, <1>2, CutFront
<1> QED
  BY <1>1, <1>2, <1>3

LEMMA BudgetTyped ==
  ASSUME Typed, [NextWatches]_watchVars
  PROVE  BudgetOK'
<1>1. BudgetOK /\ MaxTime \in Nat
  BY WatchAssumption DEF Typed
<1>2. ASSUME UNCHANGED <<now, window, shown>> PROVE BudgetOK'
  BY <1>1, <1>2 DEF BudgetOK
<1>3. PruneWindow \in Seq(0..MaxTime)
  BY <1>1, Pruned
<1>4. ASSUME NEW id \in Ids, Emit(id) PROVE BudgetOK'
  <2>1. window' = Append(PruneWindow, now) /\ shown' = Append(shown, now) /\ now' = now
    BY <1>4 DEF Emit
  <2>2. now \in 0..MaxTime /\ shown \in Seq(0..MaxTime)
    BY <1>1 DEF BudgetOK
  <2> QED
    BY <1>3, <2>1, <2>2, AppendProperties DEF BudgetOK
<1>5. ASSUME NEW id \in Ids, EmitFlooded(id) PROVE BudgetOK'
  BY <1>1, <1>3, <1>5 DEF BudgetOK, EmitFlooded
<1>6. CASE Tick
  <2>1. now \in 0..MaxTime /\ now < MaxTime /\ now' = now + 1 /\ window' = window /\ shown' = shown
    BY <1>1, <1>6 DEF BudgetOK, Tick
  <2>2. now' \in 0..MaxTime
    BY <1>1, <2>1
  <2> QED
    BY <1>1, <2>1, <2>2 DEF BudgetOK
<1>7. ASSUME NEW id \in Ids, WatchStep(id) PROVE BudgetOK'
  <2>1. ASSUME Launch(id) \/ CancelFlooded(id) \/ Stop(id) \/ \E failed \in BOOLEAN : Finish(id, failed)
        PROVE  UNCHANGED <<now, window, shown>>
    BY <2>1 DEF Launch, CancelFlooded, Stop, Finish
  <2> QED
    BY <1>2, <1>4, <1>5, <1>7, <2>1 DEF WatchStep
<1>8. ASSUME NEW s \in Subs, SubStep(s) PROVE UNCHANGED <<now, window, shown>>
  BY <1>8 DEF SubStep, Subscribe, Unsubscribe, Receive
<1>9. ASSUME StartWatch \/ Close \/ CloseSubs \/ UNCHANGED watchVars PROVE UNCHANGED <<now, window, shown>>
  BY <1>9 DEF StartWatch, Close, CloseSubs, watchVars
<1> QED
  BY <1>2, <1>6, <1>7, <1>8, <1>9 DEF NextWatches

\* The subscribers' side: Subscribe, its cancel function, a receive, Close's second part.
LEMMA SubSteps ==
  ASSUME Typed, (\E s \in Subs : SubStep(s)) \/ CloseSubs
  PROVE  /\ ChannelsOK' /\ FlagsOK'
         /\ \A s \in Subs : chan'[s].heard = chan[s].heard
         /\ UNCHANGED <<entry, finished>>
<1>0. /\ subs \subseteq Subs /\ chan \in [Subs -> Channel]
      /\ closed \in BOOLEAN /\ closing \in {"open", "waiting", "returned"} /\ panicked \in BOOLEAN
  BY DEF Typed, ChannelsOK, FlagsOK
<1>r. ASSUME NEW s \in Subs, NEW c \in Channel, c.heard = chan[s].heard, chan' = [chan EXCEPT ![s] = c],
             subs' \subseteq Subs, panicked' \in BOOLEAN,
             UNCHANGED <<closed, closing, entry, finished>>
      PROVE  /\ ChannelsOK' /\ FlagsOK'
             /\ \A t \in Subs : chan'[t].heard = chan[t].heard
             /\ UNCHANGED <<entry, finished>>
  BY <1>0, <1>r DEF ChannelsOK, FlagsOK
<1>1. ASSUME NEW s \in Subs, Subscribe(s)
      PROVE  /\ ChannelsOK' /\ FlagsOK'
             /\ \A t \in Subs : chan'[t].heard = chan[t].heard
             /\ UNCHANGED <<entry, finished>>
  <2>0. chan[s] \in Channel /\ UNCHANGED <<closed, closing, entry, finished, panicked>>
    BY <1>0, <1>1 DEF Subscribe
  <2>1. CASE closed
    <3>1. /\ chan' = [chan EXCEPT ![s] = [chan[s] EXCEPT !.phase = "closed", !.closed = TRUE]]
          /\ subs' = subs
      BY <1>1, <2>1 DEF Subscribe
    <3>2. LET c == [chan[s] EXCEPT !.phase = "closed", !.closed = TRUE]
          IN c \in Channel /\ c.heard = chan[s].heard
      BY <2>0 DEF Channel
    <3> QED
      BY <1>0, <1>r, <2>0, <3>1, <3>2
  <2>2. CASE ~closed
    <3>1. /\ chan' = [chan EXCEPT ![s] = [chan[s] EXCEPT !.phase = "open", !.callable = TRUE]]
          /\ subs' = subs \cup {s}
      BY <1>1, <2>2 DEF Subscribe
    <3>2. LET c == [chan[s] EXCEPT !.phase = "open", !.callable = TRUE]
          IN c \in Channel /\ c.heard = chan[s].heard
      BY <2>0 DEF Channel
    <3> QED
      BY <1>0, <1>r, <2>0, <3>1, <3>2
  <2> QED
    BY <2>1, <2>2
<1>2. ASSUME NEW s \in Subs, Unsubscribe(s)
      PROVE  /\ ChannelsOK' /\ FlagsOK'
             /\ \A t \in Subs : chan'[t].heard = chan[t].heard
             /\ UNCHANGED <<entry, finished>>
  <2>0. chan[s] \in Channel /\ UNCHANGED <<closed, closing, entry, finished>> /\ subs' \subseteq Subs
        /\ panicked' \in BOOLEAN
    BY <1>0, <1>2 DEF Unsubscribe
  <2>1. CASE chan[s].closed
    <3>1. chan' = [chan EXCEPT ![s] = [chan[s] EXCEPT !.callable = FALSE]]
      BY <1>2, <2>1 DEF Unsubscribe
    <3>2. LET c == [chan[s] EXCEPT !.callable = FALSE]
          IN c \in Channel /\ c.heard = chan[s].heard
      BY <2>0 DEF Channel
    <3> QED
      BY <1>r, <2>0, <3>1, <3>2
  <2>2. CASE ~chan[s].closed
    <3>1. chan' = [chan EXCEPT ![s] = [chan[s] EXCEPT !.callable = FALSE, !.closed = TRUE, !.phase = "closed"]]
      BY <1>2, <2>2 DEF Unsubscribe
    <3>2. LET c == [chan[s] EXCEPT !.callable = FALSE, !.closed = TRUE, !.phase = "closed"]
          IN c \in Channel /\ c.heard = chan[s].heard
      BY <2>0 DEF Channel
    <3> QED
      BY <1>r, <2>0, <3>1, <3>2
  <2> QED
    BY <2>1, <2>2
<1>3. ASSUME NEW s \in Subs, Receive(s)
      PROVE  /\ ChannelsOK' /\ FlagsOK'
             /\ \A t \in Subs : chan'[t].heard = chan[t].heard
             /\ UNCHANGED <<entry, finished>>
  <2>0. chan[s] \in Channel /\ UNCHANGED <<closed, closing, entry, finished, panicked, subs>>
        /\ chan' = [chan EXCEPT ![s] = [chan[s] EXCEPT !.taken = chan[s].taken + 1]]
    BY <1>0, <1>3 DEF Receive
  <2>1. LET c == [chan[s] EXCEPT !.taken = chan[s].taken + 1]
        IN c \in Channel /\ c.heard = chan[s].heard
    BY <2>0 DEF Channel
  <2> QED
    BY <1>0, <1>r, <2>0, <2>1
<1>4. ASSUME CloseSubs
      PROVE  /\ ChannelsOK' /\ FlagsOK'
             /\ \A t \in Subs : chan'[t].heard = chan[t].heard
             /\ UNCHANGED <<entry, finished>>
  <2> DEFINE open == {s \in subs : ~chan[s].closed}
  <2>1. /\ chan' = [s \in Subs |->
             IF s \in open THEN [chan[s] EXCEPT !.closed = TRUE, !.phase = "closed"] ELSE chan[s]]
        /\ panicked' \in BOOLEAN /\ subs' = {} /\ closing' = "returned"
        /\ UNCHANGED <<entry, finished, closed>>
    BY <1>0, <1>4 DEF CloseSubs
  <2>2. ASSUME NEW s \in Subs
        PROVE  chan'[s] \in Channel /\ chan'[s].heard = chan[s].heard
    <3>1. chan[s] \in Channel
      BY <1>0
    <3>2. chan'[s] = chan[s] \/ chan'[s] = [chan[s] EXCEPT !.closed = TRUE, !.phase = "closed"]
      BY <2>1
    <3> QED
      BY <3>1, <3>2 DEF Channel
  <2>3. chan' \in [Subs -> Channel]
    <3>1. chan' = [s \in Subs |-> chan'[s]]
      BY <2>1
    <3> QED
      BY <2>2, <3>1
  <2> QED
    BY <1>0, <2>1, <2>2, <2>3 DEF ChannelsOK, FlagsOK
<1> QED
  BY <1>1, <1>2, <1>3, <1>4 DEF SubStep


LEMMA WatchesTyped ==
  ASSUME Typed, Len(finished) <= FinishedLogKeep, [NextWatches]_watchVars
  PROVE  Typed'
<1>1. BudgetOK'
  BY BudgetTyped
<1> SUFFICES EntriesOK' /\ ChannelsOK' /\ FinishedOK' /\ FlagsOK'
  BY <1>1 DEF Typed
<1> USE DEF Typed
<1>2. ASSUME Ids \subseteq Ids', UNCHANGED finished PROVE FinishedOK'
  BY <1>2, SeqMonotonic DEF FinishedOK
<1>3. ASSUME UNCHANGED <<subs, chan>> PROVE ChannelsOK'
  BY <1>3 DEF ChannelsOK
<1>4. ASSUME UNCHANGED <<closed, closing, panicked>> PROVE FlagsOK'
  BY <1>4 DEF FlagsOK
<1>5. ASSUME UNCHANGED entry PROVE EntriesOK' /\ Ids' = Ids
  BY <1>5 DEF EntriesOK, Ids
<1>p. ASSUME NEW ev, PublishLocked(ev) PROVE panicked' \in BOOLEAN
  BY <1>p DEF PublishLocked, FlagsOK
<1>6. CASE StartWatch
  <2>1. UNCHANGED <<finished, subs, chan, closed, closing, panicked>>
    BY <1>6 DEF StartWatch
  <2> QED
    BY <1>2, <1>3, <1>4, <1>6, <2>1, StartEntries
<1>7. ASSUME NEW id \in Ids, Launch(id) \/ EmitFlooded(id) \/ CancelFlooded(id) \/ Stop(id)
      PROVE  EntriesOK' /\ ChannelsOK' /\ FinishedOK' /\ FlagsOK'
  <2>1. UNCHANGED <<finished, subs, chan, closed, closing, panicked>>
    BY <1>7 DEF Launch, EmitFlooded, CancelFlooded, Stop
  <2> QED
    BY <1>2, <1>3, <1>4, <1>7, <2>1, FlagSteps
<1>8. ASSUME NEW id \in Ids, Emit(id)
      PROVE  EntriesOK' /\ ChannelsOK' /\ FinishedOK' /\ FlagsOK'
  <2>1. PublishLocked(Event(id)) /\ UNCHANGED <<finished, subs, closed, closing>>
    BY <1>8 DEF Emit
  <2>2. Event(id) \in Events
    BY EventIsEvent
  <2>3. ChannelsOK'
    BY <2>1, <2>2, Published
  <2>4. FlagsOK'
    BY <1>p, <2>1 DEF FlagsOK
  <2> QED
    BY <1>2, <1>8, <2>1, <2>3, <2>4, EmitEntries
<1>9. ASSUME NEW id \in Ids, NEW failed \in BOOLEAN, Finish(id, failed)
      PROVE  EntriesOK' /\ ChannelsOK' /\ FinishedOK' /\ FlagsOK'
  <2>1. UNCHANGED <<subs, closed, closing>>
    BY <1>9 DEF Finish
  <2>2. /\ EntriesOK' /\ Ids' = Ids /\ finished' = Left(id)
        /\ \E why \in Reasons : PublishLocked(FinalEvent(id, why))
    BY <1>9, FinishEntries
  <2>3. ChannelsOK'
    BY <2>1, <2>2, EventIsEvent, Published
  <2>4. FlagsOK'
    BY <1>p, <2>1, <2>2 DEF FlagsOK
  <2>5. FinishedOK'
    BY <2>2, FinishedOneMore DEF FinishedOK
  <2> QED
    BY <2>2, <2>3, <2>4, <2>5
<1>10. CASE Close
  <2>1. UNCHANGED <<finished, subs, chan, panicked>> /\ closed' = TRUE /\ closing' = "waiting"
    BY <1>10 DEF Close
  <2>2. FlagsOK'
    BY <2>1 DEF FlagsOK
  <2> QED
    BY <1>2, <1>3, <1>10, <2>1, <2>2, CloseEntries
<1>11. ASSUME (\E s \in Subs : SubStep(s)) \/ CloseSubs
       PROVE  EntriesOK' /\ ChannelsOK' /\ FinishedOK' /\ FlagsOK'
  BY <1>2, <1>5, <1>11, SubSteps
<1>12. CASE Tick \/ UNCHANGED watchVars
  <2>1. UNCHANGED <<entry, finished, subs, chan, closed, closing, panicked>>
    BY <1>12 DEF Tick, watchVars
  <2> QED
    BY <1>2, <1>3, <1>4, <1>5, <2>1
<1> QED
  BY <1>6, <1>7, <1>8, <1>9, <1>10, <1>11, <1>12 DEF NextWatches, WatchStep

(***************************************************************************)
(* No channel is closed twice or sent to once closed.                      *)
(***************************************************************************)
LEMMA ChannelsAgree ==
  ASSUME Typed, FlagTellsClosed, ~panicked, [NextWatches]_watchVars
  PROVE  FlagTellsClosed' /\ ~panicked'
<1>0. subs \subseteq Subs /\ chan \in [Subs -> Channel]
  BY DEF Typed, ChannelsOK
<1> USE DEF FlagTellsClosed
<1>1. ASSUME NEW ev \in Events, PublishLocked(ev), subs' = subs
      PROVE  FlagTellsClosed' /\ ~panicked'
  <2>1. \A s \in Subs : chan'[s].phase = chan[s].phase /\ chan'[s].closed = chan[s].closed
    BY <1>1, Published DEF Typed
  <2>2. ~panicked'
    BY <1>0, <1>1 DEF PublishLocked
  <2> QED
    BY <2>1, <2>2
<1>2. ASSUME NEW id \in Ids, Emit(id) PROVE FlagTellsClosed' /\ ~panicked'
  <2>1. PublishLocked(Event(id)) /\ subs' = subs /\ Event(id) \in Events
    BY <1>2, EventIsEvent DEF Emit, Typed
  <2> QED
    BY <1>1, <2>1
<1>3. ASSUME NEW id \in Ids, NEW failed \in BOOLEAN, Finish(id, failed)
      PROVE  FlagTellsClosed' /\ ~panicked'
  <2>1. \E why \in Reasons : PublishLocked(FinalEvent(id, why)) /\ FinalEvent(id, why) \in Events
    BY <1>3, FinishEntries, EventIsEvent DEF Typed
  <2>2. subs' = subs
    BY <1>3 DEF Finish
  <2> QED
    BY <1>1, <2>1, <2>2
<1>c. ASSUME NEW s \in Subs
      PROVE  /\ [chan[s] EXCEPT !.phase = "closed", !.closed = TRUE].closed
             /\ [chan[s] EXCEPT !.phase = "closed", !.closed = TRUE].phase = "closed"
             /\ [chan[s] EXCEPT !.closed = TRUE, !.phase = "closed"].closed
             /\ [chan[s] EXCEPT !.closed = TRUE, !.phase = "closed"].phase = "closed"
             /\ LET c == [chan[s] EXCEPT !.callable = FALSE, !.closed = TRUE, !.phase = "closed"]
                IN c.closed /\ c.phase = "closed"
             /\ LET c == [chan[s] EXCEPT !.callable = FALSE]
                IN c.closed = chan[s].closed /\ c.phase = chan[s].phase
             /\ LET c == [chan[s] EXCEPT !.phase = "open", !.callable = TRUE]
                IN c.closed = chan[s].closed /\ c.phase = "open"
             /\ LET c == [chan[s] EXCEPT !.taken = chan[s].taken + 1]
                IN c.closed = chan[s].closed /\ c.phase = chan[s].phase
  BY <1>0 DEF Channel
<1>4. ASSUME NEW s \in Subs, NEW c, chan' = [chan EXCEPT ![s] = c], c.closed <=> c.phase = "closed",
             ~panicked'
      PROVE  FlagTellsClosed' /\ ~panicked'
  <2>1. \A t \in Subs : chan'[t] = IF t = s THEN c ELSE chan[t]
    BY <1>0, <1>4
  <2> QED
    BY <1>4, <2>1
<1>5. ASSUME NEW s \in Subs, Subscribe(s) PROVE FlagTellsClosed' /\ ~panicked'
  <2>1. chan[s].phase = "none" /\ ~panicked' /\ ~chan[s].closed
    BY <1>5 DEF Subscribe
  <2>2. CASE closed
    <3>1. chan' = [chan EXCEPT ![s] = [chan[s] EXCEPT !.phase = "closed", !.closed = TRUE]]
      BY <1>5, <2>2 DEF Subscribe
    <3> QED
      BY <1>4, <1>c, <2>1, <3>1
  <2>3. CASE ~closed
    <3>1. chan' = [chan EXCEPT ![s] = [chan[s] EXCEPT !.phase = "open", !.callable = TRUE]]
      BY <1>5, <2>3 DEF Subscribe
    <3>2. LET c == [chan[s] EXCEPT !.phase = "open", !.callable = TRUE]
          IN c.closed <=> c.phase = "closed"
      BY <1>c, <2>1
    <3> QED
      BY <1>4, <2>1, <3>1, <3>2
  <2> QED
    BY <2>2, <2>3
<1>6. ASSUME NEW s \in Subs, Unsubscribe(s) PROVE FlagTellsClosed' /\ ~panicked'
  <2>1. CASE chan[s].closed
    <3>1. chan' = [chan EXCEPT ![s] = [chan[s] EXCEPT !.callable = FALSE]] /\ ~panicked'
      BY <1>6, <2>1 DEF Unsubscribe
    <3>2. LET c == [chan[s] EXCEPT !.callable = FALSE]
          IN c.closed <=> c.phase = "closed"
      BY <1>c
    <3> QED
      BY <1>4, <3>1, <3>2
  <2>2. CASE ~chan[s].closed
    <3>1. /\ chan' = [chan EXCEPT ![s] = [chan[s] EXCEPT !.callable = FALSE, !.closed = TRUE, !.phase = "closed"]]
          /\ ~panicked'
      BY <1>6, <2>2 DEF Unsubscribe
    <3>2. LET c == [chan[s] EXCEPT !.callable = FALSE, !.closed = TRUE, !.phase = "closed"]
          IN c.closed <=> c.phase = "closed"
      BY <1>c
    <3> QED
      BY <1>4, <3>1, <3>2
  <2> QED
    BY <2>1, <2>2
<1>7. ASSUME NEW s \in Subs, Receive(s) PROVE FlagTellsClosed' /\ ~panicked'
  <2>1. chan' = [chan EXCEPT ![s] = [chan[s] EXCEPT !.taken = chan[s].taken + 1]] /\ ~panicked'
    BY <1>7 DEF Receive
  <2>2. LET c == [chan[s] EXCEPT !.taken = chan[s].taken + 1]
        IN c.closed <=> c.phase = "closed"
    BY <1>c
  <2> QED
    BY <1>4, <2>1, <2>2
<1>8. CASE CloseSubs
  <2> DEFINE open == {s \in subs : ~chan[s].closed}
  <2>1. /\ chan' = [s \in Subs |->
             IF s \in open THEN [chan[s] EXCEPT !.closed = TRUE, !.phase = "closed"] ELSE chan[s]]
        /\ panicked' = (panicked \/ \E s \in open : chan[s].phase = "closed")
    BY <1>8 DEF CloseSubs
  <2>2. ~panicked'
    BY <1>0, <2>1
  <2> HIDE DEF open
  <2>3. \A s \in Subs : \/ chan'[s] = [chan[s] EXCEPT !.closed = TRUE, !.phase = "closed"]
                        \/ chan'[s] = chan[s]
    BY <2>1
  <2>4. ASSUME NEW s \in Subs PROVE chan'[s].closed <=> chan'[s].phase = "closed"
    <3>1. CASE chan'[s] = chan[s]
      BY <3>1
    <3>2. CASE chan'[s] = [chan[s] EXCEPT !.closed = TRUE, !.phase = "closed"]
      BY <1>c, <3>2
    <3> QED
      BY <2>3, <3>1, <3>2
  <2> QED
    BY <2>2, <2>4
<1>9. ASSUME UNCHANGED <<chan, panicked>> PROVE FlagTellsClosed' /\ ~panicked'
  BY <1>9
<1>10. ASSUME NEW id \in Ids, Launch(id) \/ EmitFlooded(id) \/ CancelFlooded(id) \/ Stop(id)
       PROVE  UNCHANGED <<chan, panicked>>
  BY <1>10 DEF Launch, EmitFlooded, CancelFlooded, Stop
<1>11. ASSUME StartWatch \/ Close \/ Tick \/ UNCHANGED watchVars PROVE UNCHANGED <<chan, panicked>>
  BY <1>11 DEF StartWatch, Close, Tick, watchVars
<1> QED
  BY <1>2, <1>3, <1>5, <1>6, <1>7, <1>8, <1>9, <1>10, <1>11 DEF NextWatches, WatchStep, SubStep


(***************************************************************************)
(* The flood budget.                                                       *)
(***************************************************************************)
\* What the prune leaves is still the newest part of what was shown, and what it
\* takes is old.
LEMMA PruneExact ==
  ASSUME BudgetOK, BudgetExact
  PROVE  LET gone == Len(shown) - Len(PruneWindow)
         IN /\ gone \in Nat /\ PruneWindow \in Seq(0..MaxTime)
            /\ Len(PruneWindow) <= FloodLimit
            /\ \A i \in 1..Len(PruneWindow) : PruneWindow[i] = shown[gone + i]
            /\ \A i \in 1..gone : now - shown[i] >= FloodWindow
<1> DEFINE gone == Len(shown) - Len(window)
           n == Len(shown)
           w == Len(window)
<1>0. n \in Nat /\ w \in Nat /\ gone \in Nat /\ gone = n - w /\ w <= FloodLimit /\ FloodLimit \in Nat
  BY WatchAssumption DEF BudgetOK, BudgetExact
<1>1. /\ \A i \in 1..w : window[i] = shown[gone + i]
      /\ \A i \in 1..gone : now - shown[i] >= FloodWindow
  BY DEF BudgetExact
<1>2. PICK g \in 0..w :
        /\ PruneWindow \in Seq(0..MaxTime) /\ Len(PruneWindow) = w - g
        /\ \A i \in 1..(w - g) : PruneWindow[i] = window[g + i]
        /\ \A i \in 1..g : now - window[i] >= FloodWindow
  BY Pruned
<1> HIDE DEF gone, n, w
<1>3. n - Len(PruneWindow) = gone + g /\ gone + g \in Nat /\ Len(PruneWindow) <= FloodLimit
  BY <1>0, <1>2
<1>4. ASSUME NEW i \in 1..Len(PruneWindow)
      PROVE  PruneWindow[i] = shown[(gone + g) + i]
  <2>1. g + i \in 1..w /\ gone + (g + i) = (gone + g) + i /\ i \in 1..(w - g)
    BY <1>0, <1>2
  <2> QED
    BY <1>1, <1>2, <2>1
<1>5. ASSUME NEW i \in 1..(gone + g)
      PROVE  now - shown[i] >= FloodWindow
  <2>1. CASE i \in 1..gone
    BY <1>1, <2>1
  <2>2. CASE i \notin 1..gone
    <3>1. i - gone \in 1..g /\ i - gone \in 1..w /\ gone + (i - gone) = i
      BY <1>0, <1>2, <2>2
    <3> QED
      BY <1>1, <1>2, <3>1
  <2> QED
    BY <2>1, <2>2
<1> QED
  BY <1>2, <1>3, <1>4, <1>5 DEF n

LEMMA BudgetKept ==
  ASSUME Typed, BudgetExact, FloodBudget, [NextWatches]_watchVars
  PROVE  BudgetExact' /\ FloodBudget'
<1>0. /\ BudgetOK /\ Len(shown) \in Nat /\ Len(window) \in Nat /\ now \in Int
      /\ FloodWindow \in Nat /\ FloodLimit \in Nat \ {0}
      /\ \A i \in 1..Len(shown) : shown[i] \in Int
  <2>1. BudgetOK /\ MaxTime \in Nat /\ FloodWindow \in Nat /\ FloodLimit \in Nat \ {0}
    BY WatchAssumption DEF Typed
  <2>2. shown \in Seq(0..MaxTime) /\ window \in Seq(0..MaxTime) /\ now \in 0..MaxTime
    BY <2>1 DEF BudgetOK
  <2>3. \A i \in 1..Len(shown) : shown[i] \in 0..MaxTime
    BY <2>2, ElementOfSeq
  <2> QED
    BY <2>1, <2>2, <2>3
<1>1. ASSUME UNCHANGED <<now, window, shown>> PROVE BudgetExact' /\ FloodBudget'
  BY <1>1 DEF BudgetExact, FloodBudget
<1> DEFINE pw == PruneWindow
           gone == Len(shown) - Len(pw)
<1>2. /\ gone \in Nat /\ pw \in Seq(0..MaxTime) /\ Len(pw) \in Nat
      /\ Len(pw) <= FloodLimit
      /\ \A i \in 1..Len(pw) : pw[i] = shown[gone + i]
      /\ \A i \in 1..gone : now - shown[i] >= FloodWindow
  BY <1>0, PruneExact
<1>3. \A i \in 1..Len(shown) : shown[i] <= now
  BY DEF BudgetExact
<1> HIDE DEF pw
<1>a. Len(shown) \in Nat /\ Len(pw) \in Nat /\ gone = Len(shown) - Len(pw) /\ gone \in Nat
      /\ FloodLimit \in Nat
  BY <1>0, <1>2
<1> HIDE DEF gone
<1>4. ASSUME NEW id \in Ids, Emit(id) PROVE BudgetExact' /\ FloodBudget'
  <2>1. window' = Append(pw, now) /\ shown' = Append(shown, now) /\ now' = now
        /\ Len(pw) < FloodLimit
    BY <1>4 DEF Emit, pw
  <2>2. now \in 0..MaxTime /\ shown \in Seq(0..MaxTime)
    BY <1>0 DEF BudgetOK
  <2>3. /\ Len(window') = Len(pw) + 1 /\ \A i \in 1..Len(pw) : window'[i] = pw[i]
        /\ window'[Len(pw) + 1] = now
    BY <1>2, <2>1, <2>2, AppendProperties
  <2>4. /\ Len(shown') = Len(shown) + 1 /\ \A i \in 1..Len(shown) : shown'[i] = shown[i]
        /\ shown'[Len(shown) + 1] = now
    BY <2>1, <2>2, AppendProperties
  <2>5. Len(shown') - Len(window') = gone /\ gone + Len(pw) = Len(shown)
    BY <1>a, <2>3, <2>4
  <2>6. ASSUME NEW i \in 1..Len(window') PROVE window'[i] = shown'[gone + i]
    <3>1. CASE i \in 1..Len(pw)
      <4>1. gone + i \in 1..Len(shown)
        BY <1>a, <3>1
      <4> QED
        BY <1>2, <2>3, <2>4, <3>1, <4>1
    <3>2. CASE i \notin 1..Len(pw)
      <4>1. i = Len(pw) + 1 /\ gone + i = Len(shown) + 1
        BY <1>a, <2>3, <3>2
      <4> QED
        BY <2>3, <2>4, <4>1
    <3> QED
      BY <3>1, <3>2
  <2>7. ASSUME NEW i \in 1..Len(shown') PROVE shown'[i] <= now'
    <3>1. i \in 1..Len(shown) \/ i = Len(shown) + 1
      BY <1>0, <2>4
    <3> QED
      BY <1>0, <1>3, <2>1, <2>4, <3>1
  <2>8. ASSUME NEW i \in 1..gone PROVE now' - shown'[i] >= FloodWindow
    <3>1. i \in 1..Len(shown)
      BY <1>0, <1>2, <2>5
    <3> QED
      BY <1>2, <2>1, <2>4, <3>1
  <2>9. BudgetExact'
    <3>1. Len(window') <= FloodLimit
      BY <1>0, <1>2, <2>1, <2>3
    <3> QED
      BY <1>2, <2>5, <2>6, <2>7, <2>8, <3>1 DEF BudgetExact
  <2>10. ASSUME NEW i \in 1..Len(shown'), i + FloodLimit <= Len(shown')
         PROVE  shown'[i + FloodLimit] - shown'[i] >= FloodWindow
    <3>1. CASE i + FloodLimit <= Len(shown)
      <4>1. i \in 1..Len(shown) /\ i + FloodLimit \in 1..Len(shown)
        BY <1>0, <3>1
      <4> QED
        BY <2>4, <3>1, <4>1 DEF FloodBudget
    <3>2. CASE ~(i + FloodLimit <= Len(shown))
      <4>1. i \in Nat \ {0} /\ i + FloodLimit <= Len(shown) + 1
        BY <1>a, <2>4, <2>10
      <4>2. i + FloodLimit = Len(shown) + 1
        BY <1>a, <3>2, <4>1
      <4>3. i \in 1..gone
        BY <1>a, <2>1, <4>1, <4>2
      <4> QED
        BY <2>1, <2>4, <2>8, <4>2, <4>3
    <3> QED
      BY <3>1, <3>2
  <2> QED
    BY <2>9, <2>10 DEF FloodBudget
<1>5. ASSUME NEW id \in Ids, EmitFlooded(id) PROVE BudgetExact' /\ FloodBudget'
  <2>1. window' = pw /\ UNCHANGED <<now, shown>>
    BY <1>5 DEF EmitFlooded, pw
  <2> QED
    BY <1>2, <1>3, <2>1 DEF BudgetExact, FloodBudget, gone
<1>6. CASE Tick
  <2>1. now' = now + 1 /\ UNCHANGED <<window, shown>>
    BY <1>6 DEF Tick
  <2>2. \A i \in 1..Len(shown) : shown[i] <= now'
    BY <1>0, <1>3, <2>1
  <2>3. ASSUME NEW i \in 1..(Len(shown) - Len(window)) PROVE now' - shown[i] >= FloodWindow
    <3>1. i \in 1..Len(shown) /\ now - shown[i] >= FloodWindow
      BY <1>0 DEF BudgetExact
    <3> QED
      BY <1>0, <2>1, <3>1
  <2> QED
    BY <2>1, <2>2, <2>3 DEF BudgetExact, FloodBudget
<1>7. ASSUME NEW id \in Ids, Launch(id) \/ CancelFlooded(id) \/ Stop(id) \/ \E failed \in BOOLEAN : Finish(id, failed)
      PROVE  UNCHANGED <<now, window, shown>>
  BY <1>7 DEF Launch, CancelFlooded, Stop, Finish
<1>8. ASSUME NEW s \in Subs, SubStep(s) PROVE UNCHANGED <<now, window, shown>>
  BY <1>8 DEF SubStep, Subscribe, Unsubscribe, Receive
<1>9. ASSUME StartWatch \/ Close \/ CloseSubs \/ UNCHANGED watchVars PROVE UNCHANGED <<now, window, shown>>
  BY <1>9 DEF StartWatch, Close, CloseSubs, watchVars
<1> QED
  BY <1>1, <1>4, <1>5, <1>6, <1>7, <1>8, <1>9 DEF NextWatches, WatchStep

(***************************************************************************)
(* Ending once.                                                            *)
(***************************************************************************)
\* Finished watches stay finished, whatever else happens to their list.
LEMMA HeardSame ==
  ASSUME HeardIsTrue, FinalLast, Ids \subseteq Ids',
         \A i \in Ids : ~Live(i) => ~Live(i)',
         \A s \in Subs : chan'[s].heard = chan[s].heard
  PROVE  HeardIsTrue' /\ FinalLast'
BY DEF HeardIsTrue, FinalLast

\* A live watch publishes: nobody heard its last event before.
LEMMA HeardOneMore ==
  ASSUME Typed, HeardIsTrue, FinalLast, Ids' = Ids,
         NEW ev \in Events, ev.id \in Ids, Live(ev.id), ev.final => ~Live(ev.id)',
         \A i \in Ids : ~Live(i) => ~Live(i)',
         PublishLocked(ev), subs' = subs
  PROVE  HeardIsTrue' /\ FinalLast'
<1>0. \A s \in Subs : \/ chan'[s].heard = chan[s].heard
                      \/ chan'[s].heard = Append(chan[s].heard, ev)
  BY Published DEF Typed
<1>l. /\ \A i \in Ids : entry[i].stage = "finished" => entry'[i].stage = "finished"
      /\ entry[ev.id].stage # "finished" /\ (ev.final => entry'[ev.id].stage = "finished")
  BY DEF Live
<1>1. ASSUME NEW s \in Subs, NEW i \in DOMAIN chan'[s].heard
      PROVE  /\ chan'[s].heard[i].id \in Ids'
             /\ chan'[s].heard[i].final => entry'[chan'[s].heard[i].id].stage = "finished"
             /\ \A k \in 1..(i - 1) :
                  chan'[s].heard[k].final => chan'[s].heard[k].id # chan'[s].heard[i].id
  <2> DEFINE h == chan[s].heard
             g == chan'[s].heard
  <2>1. h \in Seq(Events) /\ Len(h) \in Nat /\ DOMAIN h = 1..Len(h)
    BY DEF Typed, ChannelsOK, Channel
  <2>2. \A k \in 1..Len(h) : h[k].id \in Ids /\ (h[k].final => entry[h[k].id].stage = "finished")
    BY <2>1 DEF HeardIsTrue, Live
  <2>3. \A j \in 1..Len(h) : \A k \in 1..(j - 1) : h[k].final => h[k].id # h[j].id
    BY <2>1 DEF FinalLast
  <2>4. g = h \/ g = Append(h, ev)
    BY <1>0
  <2>5. i \in DOMAIN g
    BY <1>1
  <2> HIDE DEF h
  <2>6. CASE g = h
    <3>1. i \in 1..Len(h)
      BY <2>1, <2>5, <2>6
    <3>2. h[i].id \in Ids' /\ (h[i].final => entry'[h[i].id].stage = "finished")
      BY <1>l, <2>2, <3>1
    <3> QED
      BY <2>3, <2>6, <3>1, <3>2
  <2>7. CASE g = Append(h, ev)
    <3>1. /\ g \in Seq(Events) /\ Len(g) = Len(h) + 1
          /\ \A k \in 1..Len(h) : g[k] = h[k]
          /\ g[Len(h) + 1] = ev
      BY <2>1, <2>7, AppendProperties
    <3> HIDE DEF g
    <3>2. i \in 1..(Len(h) + 1)
      BY <2>1, <2>5, <3>1
    <3>3. CASE i \in 1..Len(h)
      <4>1. g[i] = h[i] /\ h[i].id \in Ids' /\ (h[i].final => entry'[h[i].id].stage = "finished")
        BY <1>l, <2>2, <3>1, <3>3
      <4>2. \A k \in 1..(i - 1) : g[k] = h[k]
        BY <2>1, <3>1, <3>3
      <4>3. \A k \in 1..(i - 1) : g[k].final => g[k].id # g[i].id
        BY <2>3, <3>3, <4>1, <4>2
      <4> QED
        BY <4>1, <4>3 DEF g
    <3>4. CASE i \notin 1..Len(h)
      <4>1. i = Len(h) + 1 /\ g[i] = ev
        BY <2>1, <3>1, <3>2, <3>4
      <4>2. \A k \in 1..(i - 1) : g[k] = h[k] /\ (h[k].final => entry[h[k].id].stage = "finished")
        BY <2>1, <2>2, <3>1, <4>1
      <4>3. \A k \in 1..(i - 1) : g[k].final => g[k].id # g[i].id
        BY <1>l, <4>1, <4>2
      <4> QED
        BY <1>l, <4>1, <4>3 DEF g
    <3> QED
      BY <3>3, <3>4
  <2> QED
    BY <2>4, <2>6, <2>7
<1> QED
  BY <1>1 DEF HeardIsTrue, FinalLast, Live


\* What any step does to the watches, as far as their ends go: none ends, or one does.
EndsNone ==
  /\ Ids \subseteq Ids' /\ finished' = finished
  /\ \A i \in Ids : Live(i)' = Live(i)
  /\ \A i \in Ids' : i \notin Ids => Live(i)'
  /\ \A i \in Ids : ~Live(i) => entry'[i].log = entry[i].log /\ entry'[i].flooded = entry[i].flooded

LEMMA FinishedSame ==
  ASSUME Typed, FinishedKept, EndsNone
  PROVE  FinishedKept'
<1>1. \A i \in Ids' : ~Live(i)' => i \in Ids /\ ~Live(i)
  BY DEF EndsNone
<1>2. finished' = finished
  BY DEF EndsNone
<1>3. ASSUME NEW id \in Ids', ~Live(id)'
      PROVE  /\ entry'[id].log # <<>>
             /\ entry'[id].log[Len(entry'[id].log)].final
             /\ (entry'[id].log[Len(entry'[id].log)].why = "flooded") = entry'[id].flooded
             /\ Len(entry'[id].log) > 1 => \E i \in 1..Len(finished') : finished'[i] = id
  <2>1. id \in Ids /\ ~Live(id) /\ entry'[id].log = entry[id].log /\ entry'[id].flooded = entry[id].flooded
    BY <1>1, <1>3 DEF EndsNone
  <2> QED
    BY <1>2, <2>1 DEF FinishedKept
<1>4. ASSUME NEW i \in 1..Len(finished') PROVE entry'[finished'[i]].stage = "finished"
  <2>1. finished[i] \in Ids /\ ~Live(finished[i])
    BY <1>2, <1>4, ElementOfSeq DEF FinishedKept, Typed, FinishedOK
  <2>2. entry'[finished[i]].stage = "finished"
    BY <2>1 DEF EndsNone, Live
  <2> QED
    BY <1>2, <2>2 DEF Live
<1> QED
  BY <1>2, <1>3, <1>4 DEF FinishedKept, Live

LEMMA FinishedOne ==
  ASSUME Typed, FinishedKept, NEW id \in Ids, NEW failed \in BOOLEAN, Finish(id, failed)
  PROVE  FinishedKept'
<1>1. /\ EntriesOK' /\ Ids' = Ids /\ finished' = Left(id)
      /\ Live(id) /\ ~Live(id)' /\ \A i \in Ids : i # id => Live(i)' = Live(i)
      /\ \A i \in Ids : entry'[i].flooded = entry[i].flooded
      /\ \A i \in Ids : i # id /\ entry[i].log # <<>> =>
           /\ entry'[i].log # <<>> /\ Len(entry'[i].log) <= Len(entry[i].log)
           /\ entry'[i].log[Len(entry'[i].log)] = entry[i].log[Len(entry[i].log)]
      /\ entry'[id].log # <<>>
      /\ \A i \in Shrunk(id) : i \in Ids => Len(entry'[i].log) <= 1
  BY FinishEntries
<1>2. PICK why \in Reasons :
        /\ entry'[id].log[Len(entry'[id].log)] = FinalEvent(id, why)
        /\ (why = "flooded") = entry[id].flooded
  BY FinishEntries
<1>3. /\ Len(Left(id)) <= FinishedLogKeep
      /\ \A i \in 1..Len(Left(id)) :
           Left(id)[i] = id \/ \E j \in 1..Len(finished) : Left(id)[i] = finished[j]
      /\ \A i \in Ids : (i = id \/ \E j \in 1..Len(finished) : finished[j] = i) =>
           i \in Shrunk(id) \/ \E k \in 1..Len(Left(id)) : Left(id)[k] = i
  BY FinishedOneMore DEF FinishedKept
<1>4. ASSUME NEW i \in Ids, ~Live(i)', Len(entry'[i].log) > 1
      PROVE  \E k \in 1..Len(finished') : finished'[k] = i
  <2>1. i = id \/ \E j \in 1..Len(finished) : finished[j] = i
    <3>1. CASE i = id
      BY <3>1
    <3>2. CASE i # id
      <4>1. ~Live(i) /\ entry[i].log # <<>>
        BY <1>1, <1>4, <3>2 DEF FinishedKept
      <4>2. Len(entry'[i].log) <= Len(entry[i].log)
        BY <1>1, <3>2, <4>1
      <4>3. Len(entry'[i].log) \in Nat /\ Len(entry[i].log) \in Nat
        <5>1. entry[i].log \in Seq(Events)
          BY EntryAt DEF Typed, WatchRecord
        <5>2. entry'[i] \in WatchRecord
          <6>1. entry' \in Seq(WatchRecord) /\ i \in 1..Len(entry')
            BY <1>1 DEF EntriesOK, Ids
          <6> QED
            BY <6>1, ElementOfSeq
        <5> QED
          BY <5>1, <5>2 DEF WatchRecord
      <4>4. Len(entry[i].log) > 1
        BY <1>4, <4>2, <4>3
      <4> QED
        BY <4>1, <4>4 DEF FinishedKept
    <3> QED
      BY <3>1, <3>2
  <2>2. i \notin Shrunk(id)
    <3>1. Len(entry'[i].log) \in Nat
      <4>1. entry' \in Seq(WatchRecord) /\ i \in 1..Len(entry')
        BY <1>1 DEF EntriesOK, Ids
      <4>2. entry'[i] \in WatchRecord
        BY <4>1, ElementOfSeq
      <4> QED
        BY <4>2 DEF WatchRecord
    <3>2. i \in Shrunk(id) => Len(entry'[i].log) <= 1
      BY <1>1
    <3> QED
      BY <1>4, <3>1, <3>2
  <2> QED
    BY <1>1, <1>3, <2>1, <2>2
<1>5. ASSUME NEW i \in Ids, ~Live(i)'
      PROVE  /\ entry'[i].log # <<>>
             /\ entry'[i].log[Len(entry'[i].log)].final
             /\ (entry'[i].log[Len(entry'[i].log)].why = "flooded") = entry'[i].flooded
  <2>1. CASE i = id
    BY <1>1, <1>2, <2>1 DEF FinalEvent
  <2>2. CASE i # id
    <3>1. ~Live(i)
      BY <1>1, <1>5, <2>2
    <3> QED
      BY <1>1, <2>2, <3>1 DEF FinishedKept
  <2> QED
    BY <2>1, <2>2
<1>6. ASSUME NEW k \in 1..Len(finished') PROVE entry'[finished'[k]].stage = "finished"
  <2>1. finished'[k] = id \/ \E j \in 1..Len(finished) : finished'[k] = finished[j]
    BY <1>1, <1>3, <1>6
  <2>2. CASE finished'[k] = id
    BY <1>1, <2>2 DEF Live
  <2>3. ASSUME NEW j \in 1..Len(finished), finished'[k] = finished[j] PROVE entry'[finished'[k]].stage = "finished"
    <3>1. finished[j] \in Ids /\ entry[finished[j]].stage = "finished"
      BY <2>3, ElementOfSeq DEF FinishedKept, Typed, FinishedOK, Live
    <3>2. entry'[finished[j]].stage = "finished"
      BY <1>1, <3>1 DEF Live
    <3> QED
      BY <2>3, <3>2 DEF Live
  <2> QED
    BY <2>1, <2>2, <2>3
<1> QED
  <2>1. Len(finished') <= FinishedLogKeep
    BY <1>1, <1>3
  <2> QED
    BY <1>1, <1>4, <1>5, <1>6, <2>1 DEF FinishedKept, Live

LEMMA EndsKept ==
  ASSUME Typed, HeardIsTrue, FinalLast, FinishedKept, [NextWatches]_watchVars
  PROVE  HeardIsTrue' /\ FinalLast' /\ FinishedKept'
<1>1. ASSUME EndsNone, \A s \in Subs : chan'[s].heard = chan[s].heard
      PROVE  HeardIsTrue' /\ FinalLast' /\ FinishedKept'
  BY <1>1, HeardSame, FinishedSame DEF EndsNone
<1>2. CASE StartWatch
  <2>1. UNCHANGED <<finished, chan>>
    BY <1>2 DEF StartWatch
  <2>2. EndsNone
    BY <1>2, <2>1, StartEntries DEF EndsNone, Live
  <2> QED
    BY <1>1, <2>1, <2>2
<1>3. ASSUME NEW id \in Ids, Launch(id) \/ EmitFlooded(id) \/ CancelFlooded(id) \/ Stop(id)
      PROVE  HeardIsTrue' /\ FinalLast' /\ FinishedKept'
  <2>1. UNCHANGED <<finished, chan>>
    BY <1>3 DEF Launch, EmitFlooded, CancelFlooded, Stop
  <2>2. EndsNone
    BY <1>3, <2>1, FlagSteps DEF EndsNone
  <2> QED
    BY <1>1, <2>1, <2>2
<1>4. ASSUME NEW id \in Ids, Emit(id)
      PROVE  HeardIsTrue' /\ FinalLast' /\ FinishedKept'
  <2>1. PublishLocked(Event(id)) /\ UNCHANGED <<finished, subs>>
    BY <1>4 DEF Emit
  <2>2. /\ Ids' = Ids /\ Live(id) /\ \A i \in Ids : Live(i)' = Live(i)
        /\ \A i \in Ids : i # id => entry'[i] = entry[i]
    BY <1>4, EmitEntries
  <2>3. EndsNone
    BY <2>1, <2>2 DEF EndsNone
  <2>4. Event(id) \in Events /\ Event(id).id = id /\ ~Event(id).final
    BY EventIsEvent DEF Typed, Event
  <2> QED
    BY <2>1, <2>2, <2>3, <2>4, HeardOneMore, FinishedSame
<1>5. ASSUME NEW id \in Ids, NEW failed \in BOOLEAN, Finish(id, failed)
      PROVE  HeardIsTrue' /\ FinalLast' /\ FinishedKept'
  <2>1. PICK why \in Reasons : PublishLocked(FinalEvent(id, why))
    BY <1>5, FinishEntries
  <2>2. subs' = subs
    BY <1>5 DEF Finish
  <2>3. Ids' = Ids /\ Live(id) /\ ~Live(id)' /\ \A i \in Ids : ~Live(i) => ~Live(i)'
    BY <1>5, FinishEntries
  <2>4. FinalEvent(id, why) \in Events /\ FinalEvent(id, why).id = id
    BY EventIsEvent DEF Typed, FinalEvent
  <2>5. HeardIsTrue' /\ FinalLast'
    BY <2>1, <2>2, <2>3, <2>4, HeardOneMore
  <2> QED
    BY <1>5, <2>5, FinishedOne
<1>6. CASE Close
  <2>1. UNCHANGED <<finished, chan>>
    BY <1>6 DEF Close
  <2>2. EndsNone
    BY <1>6, <2>1, CloseEntries DEF EndsNone
  <2> QED
    BY <1>1, <2>1, <2>2
<1>7. ASSUME (\E s \in Subs : SubStep(s)) \/ CloseSubs
      PROVE  HeardIsTrue' /\ FinalLast' /\ FinishedKept'
  <2>1. UNCHANGED <<entry, finished>> /\ \A s \in Subs : chan'[s].heard = chan[s].heard
    BY <1>7, SubSteps
  <2>2. EndsNone
    BY <2>1 DEF EndsNone, Ids, Live
  <2> QED
    BY <1>1, <2>1, <2>2
<1>8. CASE Tick \/ UNCHANGED watchVars
  <2>1. UNCHANGED <<entry, finished, chan>>
    BY <1>8 DEF Tick, watchVars
  <2>2. EndsNone
    BY <2>1 DEF EndsNone, Ids, Live
  <2> QED
    BY <1>1, <2>1, <2>2
<1> QED
  BY <1>2, <1>3, <1>4, <1>5, <1>6, <1>7, <1>8 DEF NextWatches, WatchStep

(***************************************************************************)
(* The theorems.                                                           *)
(***************************************************************************)
LEMMA InitWatchesInv == InitWatches => WatchInv
<1> SUFFICES ASSUME InitWatches PROVE WatchInv
  OBVIOUS
<1>0. /\ <<>> \in Seq(Events) /\ <<>> \in Seq(WatchRecord) /\ <<>> \in Seq(0..MaxTime)
      /\ <<>> \in Seq(Ids) /\ Len(<<>>) = 0
  OBVIOUS
<1>1. entry = <<>> /\ Ids = {} /\ finished = <<>> /\ window = <<>> /\ shown = <<>> /\ now = 0
  BY DEF InitWatches, Ids
<1>2. EntriesOK /\ FinishedOK
  BY <1>0, <1>1, WatchAssumption DEF EntriesOK, FinishedOK
<1>3. BudgetOK /\ FlagsOK
  <2>1. 0 \in 0..MaxTime
    BY WatchAssumption
  <2> QED
    BY <1>0, <1>1, <2>1 DEF InitWatches, BudgetOK, FlagsOK
<1>4. ChannelsOK
  BY <1>0 DEF InitWatches, ChannelsOK, Channel
<1>5. FlagTellsClosed /\ ~panicked
  BY DEF InitWatches, FlagTellsClosed
<1>6. BudgetExact /\ FloodBudget
  BY <1>0, <1>1, WatchAssumption DEF BudgetExact, FloodBudget
<1>7. HeardIsTrue /\ FinalLast
  <2>1. \A s \in Subs : chan[s].heard = <<>> /\ DOMAIN chan[s].heard = {}
    BY DEF InitWatches
  <2> QED
    BY <2>1 DEF HeardIsTrue, FinalLast
<1>8. FinishedKept
  BY <1>0, <1>1, WatchAssumption DEF FinishedKept
<1> QED
  BY <1>2, <1>3, <1>4, <1>5, <1>6, <1>7, <1>8 DEF WatchInv, Typed

LEMMA WatchesInvariant == SpecWatches => []WatchInv
<1>1. WatchInv /\ [NextWatches]_watchVars => WatchInv'
  <2> SUFFICES ASSUME WatchInv, [NextWatches]_watchVars PROVE WatchInv'
    OBVIOUS
  <2>1. Typed /\ Len(finished) <= FinishedLogKeep
    BY DEF WatchInv, FinishedKept
  <2>2. Typed'
    BY <2>1, WatchesTyped
  <2>3. FlagTellsClosed' /\ ~panicked'
    BY ChannelsAgree DEF WatchInv
  <2>4. BudgetExact' /\ FloodBudget'
    BY BudgetKept DEF WatchInv
  <2>5. HeardIsTrue' /\ FinalLast' /\ FinishedKept'
    BY EndsKept DEF WatchInv
  <2> QED
    BY <2>2, <2>3, <2>4, <2>5 DEF WatchInv
<1> QED
  BY <1>1, InitWatchesInv, PTL DEF SpecWatches

\* The types of the watch manager's state, for any number of watches and subscribers.
THEOREM WatchTypesHold == SpecWatches => []WatchTypeOK
<1>1. WatchInv => WatchTypeOK
  BY TypedIsTypeOK DEF WatchInv
<1> QED
  BY <1>1, WatchesInvariant, PTL

\* No subscriber's channel is closed twice, or sent to once it is closed.
THEOREM NoWatchPanics == SpecWatches => []NoPanic
<1>1. WatchInv => NoPanic
  BY DEF WatchInv, NoPanic
<1> QED
  BY <1>1, WatchesInvariant, PTL

\* Any FloodLimit + 1 events in a row take at least the flood window, from
\* however many watches they come.
THEOREM BudgetHolds == SpecWatches => []FloodBudget
<1>1. WatchInv => FloodBudget
  BY DEF WatchInv
<1> QED
  BY <1>1, WatchesInvariant, PTL

\* The finished watches that keep more than their last event are among the
\* FinishedLogKeep newest.
LEMMA FewKeepMore ==
  ASSUME WatchInv
  PROVE  Cardinality({id \in Ids : ~Live(id) /\ Len(entry[id].log) > 1}) <= FinishedLogKeep
<1> DEFINE T == {id \in Ids : ~Live(id) /\ Len(entry[id].log) > 1}
           P == {i \in 1..Len(finished) : finished[i] \in T}
           f == [i \in P |-> finished[i]]
<1>1. Len(finished) \in Nat /\ Len(finished) <= FinishedLogKeep /\ FinishedLogKeep \in Nat
  BY WatchAssumption DEF WatchInv, Typed, FinishedOK, FinishedKept
<1>2. \A t \in T : \E i \in P : f[i] = t
  BY DEF WatchInv, FinishedKept
<1>3. f \in Surjection(P, T)
  BY <1>2, Fun_IsSurj
<1>4. IsFiniteSet(1..Len(finished)) /\ Cardinality(1..Len(finished)) = Len(finished)
  <2>1. 1 \in Int /\ Len(finished) \in Int
    BY <1>1
  <2> DEFINE n == Len(finished)
  <2>2. n \in Int /\ n \in Nat
    BY <1>1
  <2> HIDE DEF n
  <2>3. /\ IsFiniteSet(1..n)
        /\ Cardinality(1..n) = IF 1 > n THEN 0 ELSE n - 1 + 1
    BY <2>1, <2>2, FS_Interval
  <2>4. (IF 1 > n THEN 0 ELSE n - 1 + 1) = n
    BY <2>2
  <2> QED
    BY <2>3, <2>4 DEF n
<1>5. IsFiniteSet(P) /\ Cardinality(P) <= Len(finished)
  <2>1. P \subseteq 1..Len(finished)
    OBVIOUS
  <2> QED
    BY <1>4, <2>1, FS_Subset
<1>6. IsFiniteSet(T) /\ Cardinality(T) <= Cardinality(P)
  BY <1>3, <1>5, FS_Surjection
<1>7. Cardinality(T) \in Nat /\ Cardinality(P) \in Nat
  BY <1>5, <1>6, FS_CardinalityType
<1> HIDE DEF T, P
<1>8. Cardinality(T) <= FinishedLogKeep
  BY <1>1, <1>5, <1>6, <1>7
<1> QED
  BY <1>8 DEF T

\* A watch ends once: no subscriber hears from it after its last event, how it
\* ended stays queryable and true, and few finished watches keep more than that.
THEOREM WatchesEndOnce == SpecWatches => []EndsOnce
<1>1. WatchInv => EndsOnce
  <2> SUFFICES ASSUME WatchInv PROVE EndsOnce
    OBVIOUS
  <2>1. FinalLast
    BY DEF WatchInv
  <2>2. \A id \in Ids : Last(entry[id].log) = entry[id].log[Len(entry[id].log)]
    BY DEF Last
  <2>3. EndStaysQueryable
    BY <2>2, FewKeepMore DEF EndStaysQueryable, WatchInv, FinishedKept
  <2> QED
    BY <2>1, <2>3 DEF EndsOnce
<1> QED
  BY <1>1, WatchesInvariant, PTL

=============================================================================
