-------------------------- MODULE ShellTasksProofs --------------------------
(***************************************************************************)
(* For any conversations, limits and number of shell commands: the end of  *)
(* a turn never stops a process the user promoted, and Close returns only  *)
(* when every process was joined, leaving on disk only what it reports it  *)
(* could not remove; every call                                            *)
(* is answered once, a background result is kept until its conversation    *)
(* has recorded it, and nobody has to find it by chance: a hint is owed.   *)
(*                                                                         *)
(* Nearly every action changes one task.  Tame says what such a change may *)
(* do, so each action owes one small fact about one record, and OneTask    *)
(* turns it into the invariant.  Owned says where a result is by what the  *)
(* manager, the conversation and Close know of its task.                   *)
(***************************************************************************)
EXTENDS ShellTasks, SequenceTheorems, TLAPS

Over == {"done", "aborted"}

\* A task its turn stopped was stopped before anybody could promote it, and
\* Background asks for that.
StoppedFirst(t) == t.turnStopped => t.stopRequested /\ ~t.background

\* What a step may make of a task.
Tame(t, u) ==
  /\ u \in Task
  /\ StoppedFirst(t) => StoppedFirst(u)
  /\ t.stage \in Over => u.stage \in Over /\ (u.disk => t.disk)

\* Close waits for every task, and nothing is admitted once it began.
Closing ==
  /\ closing \in {"open", "joining", "cleaning", "returned"}
  /\ cleaner \in {"open", "failed", "closed"}
  /\ closing # "open" => closed
  /\ cleaner = "closed" => closed
  /\ closing \in {"cleaning", "returned"} => \A id \in Ids : task[id].stage \in Over
  /\ storeErr \in BOOLEAN
  /\ closing = "returned" => \A id \in Ids : task[id].disk => storeErr

IInv == /\ task \in Seq(Task)
        /\ \A id \in Ids : StoppedFirst(task[id])
        /\ Closing
        /\ ~panicked

LEMMA SequenceLemma ==
  ASSUME task \in Seq(Task)
  PROVE  /\ Len(task) \in Nat
         /\ \A id \in Ids : task[id] \in Task
         /\ \A f : f = [id \in Ids |-> f[id]] /\ (\A id \in Ids : f[id] \in Task)
              => f \in Seq(Task) /\ Len(f) = Len(task)
<1>1. Len(task) \in Nat /\ \A id \in Ids : task[id] \in Task
  BY DEF Ids
<1>2. ASSUME NEW f, f = [id \in Ids |-> f[id]], \A id \in Ids : f[id] \in Task
      PROVE  f \in Seq(Task) /\ Len(f) = Len(task)
  <2>1. f \in [1..Len(task) -> Task]
    BY <1>2 DEF Ids
  <2>2. f \in Seq(Task)
    BY <1>1, <2>1, SeqDef
  <2>3. DOMAIN f = 1..Len(f) /\ Len(f) \in Nat
    BY <2>2, LenProperties
  <2>. QED  BY <1>1, <2>1, <2>2, <2>3
<1>. QED  BY <1>1, <1>2

\* One task changes in a tame way.
LEMMA OneTask ==
  ASSUME IInv, NEW id \in Ids, NEW u, Tame(task[id], u), task' = [task EXCEPT ![id] = u],
         UNCHANGED manager, ~panicked'
  PROVE  IInv'
<1>1. /\ Len(task) \in Nat /\ \A k \in Ids : task[k] \in Task
      /\ DOMAIN task = Ids
  BY SequenceLemma DEF IInv, Ids
<1>2. \A k \in Ids : task'[k] = IF k = id THEN u ELSE task[k]
  BY <1>1
<1>3. task' \in Seq(Task) /\ Len(task') = Len(task)
  BY ExceptSeq DEF IInv, Tame, Ids
<1>4. Ids' = Ids
  BY <1>3 DEF Ids
<1>5. \A k \in Ids : StoppedFirst(task[k])'
  BY <1>2 DEF IInv, Tame, StoppedFirst
<1>6. Closing'
  BY <1>2, <1>4 DEF IInv, Tame, Closing, manager, Over
<1>. QED  BY <1>3, <1>4, <1>5, <1>6 DEF IInv

LEMMA NoTask ==
  ASSUME IInv, UNCHANGED <<task, manager>>, ~panicked'
  PROVE  IInv'
BY DEF IInv, Closing, StoppedFirst, Ids, manager

LEMMA NewTaskLemma ==
  ASSUME NEW p \in Parents, NEW background \in BOOLEAN
  PROVE  NewTask(p, background) \in Task /\ StoppedFirst(NewTask(p, background))
BY DEF NewTask, Task, Stages, States, Gone, StoppedFirst

\* Nothing is sent to the cleanup worker once its channel is closed: whoever
\* evicts has seen, under the same lock, that the manager is open.
LEMMA ReserveLemma ==
  ASSUME IInv, ~closed, NEW rest, Reserve(rest) \/ NoReserve(rest)
  PROVE  ~panicked'
BY DEF IInv, Closing, Reserve, NoReserve, Evict

LEMMA RunKeeps ==
  ASSUME IInv, NEW p \in Parents, NEW background \in BOOLEAN, Run(p, background)
  PROVE  IInv'
<1>. DEFINE new == NewTask(p, background)
<1>1. new \in Task /\ StoppedFirst(new)
  BY NewTaskLemma
<1>2. ~closed /\ UNCHANGED manager /\ task' = Append(task, new)
  BY DEF Run
<1>3. ~panicked'
  BY <1>2, ReserveLemma DEF Run
<1>. HIDE DEF new
<1>4. /\ task' \in Seq(Task) /\ Len(task') = Len(task) + 1 /\ Len(task) \in Nat
      /\ \A k \in 1..Len(task') : task'[k] = new \/ (k \in Ids /\ task'[k] = task[k])
  BY <1>1, <1>2 DEF IInv, Ids
<1>5. \A k \in Ids' : StoppedFirst(task'[k])
  BY <1>1, <1>4 DEF IInv, Ids
<1>6. Closing'
  BY <1>2 DEF IInv, Closing, manager
<1>. QED  BY <1>3, <1>4, <1>5, <1>6 DEF IInv, StoppedFirst

\* Cancelling and stopping are tame.
LEMMA CancelLemma ==
  ASSUME NEW t \in Task
  PROVE  /\ Cancelled(t) \in Task /\ StopRequested(t) \in Task
         /\ \A u \in {Cancelled(t), StopRequested(t)} :
              /\ u.turnStopped = t.turnStopped /\ u.background = t.background
              /\ u.stage = t.stage /\ u.disk = t.disk
              /\ t.stopRequested => u.stopRequested
         /\ Cancelled(t).state = t.state
         /\ StopRequested(t).stopRequested
BY DEF Cancelled, StopRequested, Task

LEMMA TaskLemma ==
  ASSUME IInv, NEW id \in Ids
  PROVE  task[id] \in Task
BY SequenceLemma DEF IInv

LEMMA CreateKeeps == ASSUME IInv, NEW id \in Ids, Create(id) PROVE IInv'
<1>. DEFINE u == [task[id] EXCEPT !.stage = "running", !.disk = TRUE]
<1>1. Tame(task[id], u)
  BY TaskLemma DEF Create, Tame, Task, Stages, StoppedFirst, Over
<1>2. task' = [task EXCEPT ![id] = u] /\ UNCHANGED manager /\ UNCHANGED panicked
  BY DEF Create
<1>. HIDE DEF u
<1>. QED  BY <1>1, <1>2, OneTask DEF IInv

LEMMA CreateFailsKeeps == ASSUME IInv, NEW id \in Ids, CreateFails(id) PROVE IInv'
<1>. DEFINE v == Cancelled(task[id])
            U(left) == [v EXCEPT !.stage = "aborted", !.call = "returned", !.got = "error",
                                 !.disk = left]
<1>1. /\ v \in Task /\ v.turnStopped = task[id].turnStopped
      /\ v.background = task[id].background /\ v.disk = task[id].disk
      /\ task[id].stopRequested => v.stopRequested
  BY TaskLemma, CancelLemma
<1>2. /\ \E left \in BOOLEAN : task' = [task EXCEPT ![id] = U(left)]
      /\ UNCHANGED manager /\ UNCHANGED panicked
      /\ task[id].stage = "creating"
  BY DEF CreateFails
<1>4. PICK left \in BOOLEAN : task' = [task EXCEPT ![id] = U(left)]
  BY <1>2
<1>. DEFINE u == U(left)
<1>5. task' = [task EXCEPT ![id] = u]
  BY <1>4
<1>. HIDE DEF v
<1>3. Tame(task[id], u)
  BY <1>1, <1>2 DEF Tame, Task, Stages, StoppedFirst, Over
<1>. HIDE DEF u, U
<1>. QED  BY <1>2, <1>3, <1>5, OneTask DEF IInv

LEMMA CaptureKeeps ==
  ASSUME IInv, NEW id \in Ids, NEW fails \in BOOLEAN, Capture(id, fails) PROVE IInv'
<1>. DEFINE v == Cancelled(task[id])
            u == [v EXCEPT !.failed = TRUE]
<1>1. /\ v \in Task /\ v.turnStopped = task[id].turnStopped /\ v.stage = task[id].stage
      /\ v.background = task[id].background /\ v.disk = task[id].disk
      /\ task[id].stopRequested => v.stopRequested
  BY TaskLemma, CancelLemma
<1>2. /\ task' = task \/ task' = [task EXCEPT ![id] = u]
      /\ UNCHANGED manager /\ UNCHANGED panicked
  BY DEF Capture
<1>. HIDE DEF v
<1>3. Tame(task[id], u)
  BY <1>1 DEF Tame, Task, StoppedFirst, Over
<1>. HIDE DEF u
<1>. QED  BY <1>2, <1>3, OneTask, NoTask DEF IInv

LEMMA ExpireKeeps == ASSUME IInv, NEW id \in Ids, Expire(id) PROVE IInv'
<1>. DEFINE u == [task[id] EXCEPT !.lifetime = "expired"]
<1>1. Tame(task[id], u)
  BY TaskLemma DEF Tame, Task, StoppedFirst, Over
<1>2. task' = [task EXCEPT ![id] = u] /\ UNCHANGED manager /\ UNCHANGED panicked
  BY DEF Expire
<1>. HIDE DEF u
<1>. QED  BY <1>1, <1>2, OneTask DEF IInv

LEMMA ExitKeeps ==
  ASSUME IInv, NEW id \in Ids, NEW how \in Gone, NEW failed \in BOOLEAN, Exit(id, how, failed)
  PROVE  IInv'
<1>. DEFINE f == task[id].failed \/ failed
            u == [task[id] EXCEPT !.stage = how, !.failed = f]
<1>1. task[id] \in Task /\ f \in BOOLEAN /\ task[id].stage = "running"
  BY TaskLemma DEF Task, Exit
<1>2. task' = [task EXCEPT ![id] = u] /\ UNCHANGED manager /\ UNCHANGED panicked
  BY DEF Exit
<1>. HIDE DEF f
<1>3. Tame(task[id], u)
  BY <1>1 DEF Tame, Task, Stages, Gone, StoppedFirst, Over
<1>. HIDE DEF u
<1>. QED  BY <1>2, <1>3, OneTask DEF IInv

LEMMA RecordKeeps == ASSUME IInv, NEW id \in Ids, Record(id) PROVE IInv'
<1>1. PICK state \in TerminalStates(task[id]) :
        task' = [task EXCEPT ![id].stage = "recorded", ![id].state = state]
  BY DEF Record
<1>. DEFINE u == [task[id] EXCEPT !.stage = "recorded", !.state = state]
<1>2. state \in States
  BY DEF TerminalStates, States
<1>3. Tame(task[id], u)
  <2>1. task[id] \in Task /\ task[id].stage \notin Over
    BY TaskLemma DEF Record, Gone, Over
  <2>. QED  BY <1>2, <2>1 DEF Tame, Task, Stages, StoppedFirst
<1>4. task' = [task EXCEPT ![id] = u] /\ UNCHANGED manager /\ UNCHANGED panicked
  BY <1>1 DEF Record
<1>. HIDE DEF u
<1>. QED  BY <1>3, <1>4, OneTask DEF IInv

LEMMA FinishKeeps ==
  ASSUME IInv, NEW id \in Ids, NEW ok \in BOOLEAN, Finish(id, ok) PROVE IInv'
<1>. DEFINE v == Cancelled(task[id])
            r == IF ok THEN "written" ELSE "failed"
            u == [v EXCEPT !.stage = "done", !.receipt = r]
<1>1. /\ v \in Task /\ v.turnStopped = task[id].turnStopped
      /\ v.background = task[id].background /\ v.disk = task[id].disk
      /\ task[id].stopRequested => v.stopRequested
  BY TaskLemma, CancelLemma
<1>2. task' = [task EXCEPT ![id] = u] /\ UNCHANGED manager /\ UNCHANGED panicked
  BY DEF Finish
<1>. HIDE DEF v
<1>3. Tame(task[id], u)
  BY <1>1 DEF Tame, Task, Stages, StoppedFirst, Over
<1>. HIDE DEF u
<1>. QED  BY <1>2, <1>3, OneTask DEF IInv

\* The promotion asks for a task nobody told to stop.
LEMMA BackgroundKeeps == ASSUME IInv, NEW id \in Ids, Background(id) PROVE IInv'
<1>. DEFINE u == [task[id] EXCEPT !.background = TRUE]
<1>1. StoppedFirst(task[id]) /\ ~task[id].stopRequested
  BY DEF IInv, Background
<1>2. Tame(task[id], u)
  BY <1>1, TaskLemma DEF Tame, Task, StoppedFirst, Over
<1>3. task' = [task EXCEPT ![id] = u] /\ UNCHANGED manager /\ ~closed /\ Reserve({})
  BY DEF Background
<1>4. ~panicked'
  BY <1>3, ReserveLemma
<1>. HIDE DEF u
<1>. QED  BY <1>2, <1>3, <1>4, OneTask

LEMMA StopKeeps == ASSUME IInv, NEW id \in Ids, Stop(id) PROVE IInv'
<1>. DEFINE u == StopRequested(task[id])
<1>1. Tame(task[id], u)
  BY TaskLemma, CancelLemma DEF Tame, StoppedFirst, Over
<1>2. task' = [task EXCEPT ![id] = u] /\ UNCHANGED manager /\ UNCHANGED panicked
  BY DEF Stop
<1>. HIDE DEF u
<1>. QED  BY <1>1, <1>2, OneTask DEF IInv

LEMMA TurnEndsKeeps == ASSUME IInv, NEW id \in Ids, TurnEnds(id) PROVE IInv'
<1>. DEFINE u == [task[id] EXCEPT !.turn = "ended"]
<1>1. Tame(task[id], u)
  BY TaskLemma DEF Tame, Task, StoppedFirst, Over
<1>2. task' = [task EXCEPT ![id] = u] /\ UNCHANGED manager /\ UNCHANGED panicked
  BY DEF TurnEnds
<1>. HIDE DEF u
<1>. QED  BY <1>1, <1>2, OneTask DEF IInv

LEMMA ReturnedLemma ==
  ASSUME NEW t \in Task, NEW got \in {"result", "accepted"}
  PROVE  /\ Tame(t, Returned(t, got))
         /\ \A left \in BOOLEAN : Tame(t, [Returned(t, got) EXCEPT !.disk = t.disk /\ left])
<1>. DEFINE v == Returned(t, got)
<1>1. /\ v \in Task /\ v.turnStopped = t.turnStopped /\ v.background = t.background
      /\ v.stopRequested = t.stopRequested /\ v.stage = t.stage /\ v.disk = t.disk
      /\ t.disk \in BOOLEAN
  BY DEF Returned, Task
<1>2. Tame(t, v)
  BY <1>1 DEF Tame, StoppedFirst
<1>. HIDE DEF v
<1>3. ASSUME NEW left \in BOOLEAN PROVE Tame(t, [v EXCEPT !.disk = t.disk /\ left])
  <2>. DEFINE d == t.disk /\ left
  <2>1. d \in BOOLEAN /\ (d => t.disk)
    BY <1>1
  <2>. HIDE DEF d
  <2>2. Tame(t, [v EXCEPT !.disk = d])
    BY <1>1, <2>1 DEF Tame, Task, StoppedFirst
  <2>. QED  BY <2>2 DEF d
<1>. QED  BY <1>2, <1>3 DEF v

LEMMA ReturnKeeps ==
  ASSUME IInv, NEW id \in Ids, ReturnDone(id) \/ ReturnPromoted(id) PROVE IInv'
<1>. DEFINE u == Returned(task[id], "accepted")
            V(left) == [Returned(task[id], "result") EXCEPT !.disk = task[id].disk /\ left]
<1>1. Tame(task[id], u) /\ \A left \in BOOLEAN : Tame(task[id], V(left))
  BY TaskLemma, ReturnedLemma
<1>2. /\ \/ task' = [task EXCEPT ![id] = u]
         \/ \E left \in BOOLEAN : task' = [task EXCEPT ![id] = V(left)]
      /\ UNCHANGED manager /\ UNCHANGED panicked
  <2>1. UNCHANGED manager /\ UNCHANGED panicked
    BY DEF ReturnDone, ReturnPromoted
  <2>2. CASE task[id].background
    BY <2>2 DEF ReturnDone, ReturnPromoted, TakeResult
  <2>3. CASE ~task[id].background
    <3>1. PICK left \in BOOLEAN :
            task' = [task EXCEPT ![id] =
                [Returned(@, "result") EXCEPT !.disk = task[id].disk /\ left]]
      BY <2>3 DEF ReturnDone, ReturnPromoted, TakeResult
    <3>. QED  BY <2>1, <3>1
  <2>. QED  BY <2>1, <2>2, <2>3
<1>. HIDE DEF u, V
<1>. QED  BY <1>1, <1>2, OneTask DEF IInv

\* The turn stops only what nobody promoted, and marks it before it lets go of
\* the lock.
LEMMA SeeTurnEndKeeps == ASSUME IInv, NEW id \in Ids, SeeTurnEnd(id) PROVE IInv'
<1>. DEFINE r == StopRequested(task[id])
            u == Returned(task[id], "accepted")
            v == [r EXCEPT !.turnStopped = TRUE, !.call = "joining"]
            w == [task[id] EXCEPT !.call = "joining"]
<1>1. Tame(task[id], u)
  BY TaskLemma, ReturnedLemma
<1>2. /\ r \in Task /\ r.background = task[id].background /\ r.stopRequested
      /\ r.stage = task[id].stage /\ r.disk = task[id].disk
  BY TaskLemma, CancelLemma
<1>3. Tame(task[id], w)
  BY TaskLemma DEF Tame, Task, StoppedFirst
<1>4. /\ \/ task' = [task EXCEPT ![id] = u]
         \/ ~task[id].background /\ task' = [task EXCEPT ![id] = v]
         \/ task' = [task EXCEPT ![id] = w]
      /\ UNCHANGED manager /\ UNCHANGED panicked
  BY DEF SeeTurnEnd
<1>. HIDE DEF r
<1>5. ~task[id].background => Tame(task[id], v)
  BY <1>2 DEF Tame, Task, StoppedFirst
<1>. HIDE DEF u, v, w
<1>. QED  BY <1>1, <1>3, <1>4, <1>5, OneTask DEF IInv

LEMMA CleanKeeps == ASSUME IInv, NEW ok \in BOOLEAN, Clean(ok) PROVE IInv'
<1>. DEFINE h == Head(cleanup)
            u == [task[h] EXCEPT !.disk = FALSE]
<1>1. task' = task \/ task' = [task EXCEPT ![h] = u]
  BY DEF Clean
<1>2. DOMAIN task = Ids
  BY LenProperties DEF IInv, Ids
<1>3. ASSUME h \in Ids
      PROVE  Tame(task[h], u)
  BY <1>3, TaskLemma DEF Tame, Task, StoppedFirst
<1>4. closed' = closed /\ closing' = closing /\ storeErr' = storeErr /\ ~panicked'
      /\ cleaner' \in {cleaner, "failed"} /\ (cleaner' # cleaner => cleaner # "closed")
  BY DEF Clean, IInv
<1>. HIDE DEF h, u
<1>5. \/ task' = task
      \/ h \in Ids /\ task' = [task EXCEPT ![h] = u]
  BY <1>1, <1>2 DEF IInv
<1>6. /\ task' \in Seq(Task) /\ Len(task') = Len(task)
      /\ \A k \in Ids : task'[k] = task[k] \/ Tame(task[k], task'[k])
  BY <1>2, <1>3, <1>5, ExceptSeq DEF IInv, Tame, Ids
<1>7. Ids' = Ids
  BY <1>6 DEF Ids
<1>8. \A k \in Ids : StoppedFirst(task'[k])
  BY <1>6 DEF IInv, Tame
<1>9. Closing'
  BY <1>4, <1>6, <1>7 DEF IInv, Closing, Tame
<1>. QED  BY <1>4, <1>6, <1>7, <1>8, <1>9 DEF IInv, StoppedFirst

\* Close stops what runs.
LEMMA CloseKeeps == ASSUME IInv, Close PROVE IInv'
<1>1. /\ task' = [id \in Ids |-> IF id \in Live THEN StopRequested(task[id]) ELSE task[id]]
      /\ closing' = "joining" /\ closed' = TRUE /\ UNCHANGED <<cleaner, storeErr, panicked>>
  BY DEF Close
<1>2. \A id \in Ids : /\ task'[id] \in Task
                      /\ StoppedFirst(task'[id])
  BY <1>1, TaskLemma, CancelLemma DEF IInv, StoppedFirst
<1>3. task' \in Seq(Task) /\ Len(task') = Len(task)
  BY <1>1, <1>2, SequenceLemma DEF IInv
<1>4. Ids' = Ids
  BY <1>3 DEF Ids
<1>. QED  BY <1>1, <1>2, <1>3, <1>4 DEF IInv, Closing, StoppedFirst

\* What Close leaves it reports.
LEMMA CloseRemovesKeeps == ASSUME IInv, NEW ok \in BOOLEAN, CloseRemoves(ok) PROVE IInv'
<1>1. PICK left \in IF ok THEN {{}} ELSE SUBSET Ids :
        task' = [id \in Ids |-> [task[id] EXCEPT !.disk = @ /\ id \in left]]
  BY DEF CloseRemoves
<1>2. /\ closing = "cleaning" /\ closing' = "returned" /\ storeErr' = ~ok
      /\ UNCHANGED <<closed, cleaner, panicked>>
  BY DEF CloseRemoves
<1>3. ASSUME NEW id \in Ids
      PROVE  /\ task'[id] \in Task /\ StoppedFirst(task'[id])
             /\ (task'[id].disk => ~ok) /\ task'[id].stage \in Over
  <2>. DEFINE d == task[id].disk /\ id \in left
  <2>1. task[id] \in Task /\ task[id].stage \in Over /\ StoppedFirst(task[id])
    BY <1>2, TaskLemma DEF IInv, Closing
  <2>2. task'[id] = [task[id] EXCEPT !.disk = d]
    BY <1>1
  <2>3. d \in BOOLEAN /\ (d => ~ok)
    BY <1>1, <2>1 DEF Task
  <2>. HIDE DEF d
  <2>4. task'[id] \in Task /\ StoppedFirst(task'[id])
    BY <2>1, <2>2, <2>3 DEF Task, StoppedFirst
  <2>. QED  BY <2>1, <2>2, <2>3, <2>4 DEF Task
<1>4. task' \in Seq(Task) /\ Len(task') = Len(task)
  BY <1>1, <1>3, SequenceLemma DEF IInv
<1>5. Ids' = Ids
  BY <1>4 DEF Ids
<1>6. \A id \in Ids : task'[id].stage \in Over /\ (task'[id].disk => storeErr')
  BY <1>2, <1>3
<1>. QED  BY <1>2, <1>3, <1>4, <1>5, <1>6 DEF IInv, Closing, StoppedFirst

LEMMA CloseJoinedKeeps == ASSUME IInv, CloseJoined PROVE IInv'
BY DEF IInv, Closing, CloseJoined, StoppedFirst, Ids, Over

-----------------------------------------------------------------------------
\* What each task owes Close and the turn that started it, under any limits.
THEOREM Invariance == Spec => []IInv
<1>1. Init => IInv
  <2>. SUFFICES ASSUME Init PROVE IInv
    OBVIOUS
  <2>1. task \in Seq(Task) /\ Ids = {}
    BY EmptySeq DEF Init, Ids
  <2>. QED  BY <2>1 DEF Init, IInv, Closing
<1>2. IInv /\ [Next]_vars => IInv'
  <2>. SUFFICES ASSUME IInv, [Next]_vars PROVE IInv'
    OBVIOUS
  <2>1. CASE UNCHANGED vars
    BY <2>1, NoTask DEF vars, manager, IInv
  <2>2. ASSUME NEW p \in Parents, ParentStep(p) PROVE IInv'
    <3>1. CASE \E background \in BOOLEAN : Run(p, background)
      BY <3>1, RunKeeps
    <3>2. CASE Deliver(p) \/ Accept(p) \/ DeliveryFails(p)
      BY <3>2, NoTask DEF Deliver, Accept, DeliveryFails, IInv
    <3>3. CASE Acknowledge(p)
      <4>0. PICK id \in Oldest(1, batch[p]) :
              /\ task' = [task EXCEPT ![id].acknowledged = TRUE]
              /\ UNCHANGED <<manager, panicked>>
        BY <3>3 DEF Acknowledge
      <4>. DEFINE u == [task[id] EXCEPT !.acknowledged = TRUE]
      <4>1. task' = [task EXCEPT ![id] = u] /\ UNCHANGED manager /\ ~panicked'
        BY <4>0 DEF IInv
      <4>2. DOMAIN task = Ids
        BY LenProperties DEF IInv, Ids
      <4>3. ASSUME id \in Ids
            PROVE  Tame(task[id], u)
        BY <4>3, TaskLemma DEF Tame, Task, StoppedFirst
      <4>. HIDE DEF u
      <4>4. CASE id \in Ids
        BY <4>1, <4>3, <4>4, OneTask
      <4>5. CASE id \notin Ids
        <5>1. task' = task
          BY <4>1, <4>2, <4>5 DEF IInv
        <5>. QED  BY <4>1, <5>1, NoTask
      <4>. QED  BY <4>4, <4>5
    <3>. QED  BY <2>2, <3>1, <3>2, <3>3 DEF ParentStep
  <2>3. ASSUME NEW id \in Ids, TaskStep(id) PROVE IInv'
    BY <2>3, CreateKeeps, CreateFailsKeeps, ExpireKeeps, RecordKeeps, BackgroundKeeps, StopKeeps,
       TurnEndsKeeps, ReturnKeeps, SeeTurnEndKeeps, CaptureKeeps, FinishKeeps, ExitKeeps
       DEF TaskStep
  <2>4. CASE TakeHint \/ Look
    BY <2>4, NoTask DEF TakeHint, Look, IInv
  <2>. QED  BY <2>1, <2>2, <2>3, <2>4, CleanKeeps, CloseKeeps, CloseJoinedKeeps,
            CloseRemovesKeeps DEF Next
<1>. QED  BY <1>1, <1>2, PTL DEF Spec

\* PromotionWins: whenever the end of a turn and the user's promotion race for a
\* process, a promotion that won keeps it running (Run, Background).
THEOREM PromotionStands == Spec => []PromotionWins
<1>1. IInv => PromotionWins
  BY DEF IInv, StoppedFirst, PromotionWins
<1>. QED  BY <1>1, Invariance, PTL

\* CloseLeavesNothing: whatever runs, is being promoted or evicted when Close is
\* called, it returns with every process joined and without a send to the cleanup
\* worker it has already dismissed; nothing is written behind the removal of the
\* store, so what is left is what could not be removed, and Close reports that.
THEOREM CloseIsComplete == Spec => []CloseLeavesNothing
<1>1. IInv => CloseLeavesNothing
  BY DEF IInv, Closing, CloseLeavesNothing, Over
<1>. QED  BY <1>1, Invariance, PTL

-----------------------------------------------------------------------------
(* Where a result is until the conversation has recorded it.               *)

\* What is known of a task by whether it is listed, recorded in its conversation
\* and whether Close has returned: only background results are recorded, only
\* recorded ones are acknowledged, a call still open has its task listed (or its
\* result recorded), a closed one was answered with the result or an acceptance.
Owned(t, here, recorded, over) ==
  /\ recorded => t.background
  /\ t.acknowledged => recorded
  /\ t.stage # "aborted" =>
       \/ t.call # "returned" /\ (here \/ (recorded /\ t.background))
       \/ t.call = "returned" /\ t.got = "result" /\ ~t.background /\ ~recorded /\ ~here
       \/ t.call = "returned" /\ t.got = "accepted" /\ t.background /\ (recorded \/ here)
  /\ ~over /\ here /\ ~recorded /\ t.stage \notin {"creating", "aborted"} => t.disk

\* A result on the way to its conversation owes the subscriber a hint.
Announced(id) ==
  Subscribed /\ id \in listed /\ task[id].background /\ task[id].stage = "done" =>
    hint \/ looking \/ id \in seen

OwnedTask(id) == Owned(task[id], id \in listed, id \in receipts, closing = "returned")

Kept ==
  /\ listed \subseteq Ids /\ receipts \subseteq Ids
  /\ cleanup \in Seq(Nat) /\ \A i \in 1..Len(cleanup) : cleanup[i] \in receipts
  /\ batch \in [Parents -> SUBSET Ids]
  /\ \A p \in Parents : \A id \in batch[p] : task[id].background
  /\ \A id \in Ids : OwnedTask(id) /\ Announced(id)

\* One task changes, and perhaps leaves the list.
LEMMA KeptOne ==
  ASSUME IInv, Kept, NEW id \in Ids, NEW u, task' = [task EXCEPT ![id] = u], u \in Task,
         listed' = listed \/ listed' = listed \ {id},
         UNCHANGED <<cleanup, closing, looking, seen, batch, receipts>>,
         task[id].background => u.background,
         Owned(u, id \in listed', id \in receipts, closing = "returned"),
         \/ hint' = Subscribed
         \/ /\ hint' = hint
            /\ u.background /\ u.stage = "done" =>
                 task[id].background /\ task[id].stage = "done"
  PROVE  Kept'
<1>1. Len(task) \in Nat /\ DOMAIN task = Ids /\ task' \in Seq(Task) /\ Len(task') = Len(task)
  BY ExceptSeq DEF IInv, Ids
<1>2. Ids' = Ids
  BY <1>1 DEF Ids
<1>3. \A k \in Ids : task'[k] = IF k = id THEN u ELSE task[k]
  BY <1>1
<1>4. \A k \in Ids : task[k].background => task'[k].background
  BY <1>3
<1>5. ASSUME NEW k \in Ids PROVE OwnedTask(k)'
  <2>1. CASE k = id
    BY <1>3, <2>1 DEF OwnedTask
  <2>2. CASE k # id
    <3>1. task'[k] = task[k] /\ (k \in listed' <=> k \in listed) /\ OwnedTask(k)
      BY <1>3, <2>2 DEF Kept
    <3>. QED  BY <3>1 DEF OwnedTask, Owned
  <2>. QED  BY <2>1, <2>2
<1>6. ASSUME NEW k \in Ids PROVE Announced(k)'
  <2>1. Announced(k) /\ (k \in listed' => k \in listed)
    BY DEF Kept
  <2>2. CASE k = id
    BY <1>3, <2>1, <2>2 DEF Announced
  <2>3. CASE k # id
    BY <1>3, <2>1, <2>3 DEF Announced
  <2>. QED  BY <2>2, <2>3
<1>7. listed' \subseteq Ids' /\ receipts' \subseteq Ids'
  BY <1>2 DEF Kept
<1>8. /\ batch' \in [Parents -> SUBSET Ids']
      /\ \A p \in Parents : \A k \in batch'[p] : task'[k].background
  BY <1>2, <1>4 DEF Kept
<1>9. cleanup' \in Seq(Nat) /\ \A i \in 1..Len(cleanup') : cleanup'[i] \in receipts'
  BY DEF Kept
<1>. QED  BY <1>2, <1>5, <1>6, <1>7, <1>8, <1>9 DEF Kept

\* No task changes; what is recorded, handed over and heard of may.
LEMMA KeptSame ==
  ASSUME IInv, Kept, UNCHANGED <<task, listed, cleanup, closing>>,
         receipts \subseteq receipts', receipts' \subseteq Ids,
         \A id \in receipts' : task[id].background,
         batch' \in [Parents -> SUBSET Ids],
         \A p \in Parents : \A id \in batch'[p] : task[id].background,
         \A id \in Ids : Announced(id)'
  PROVE  Kept'
<1>1. Ids' = Ids
  BY DEF Ids
<1>2. ASSUME NEW k \in Ids PROVE OwnedTask(k)'
  <2>1. OwnedTask(k) /\ (k \in receipts => k \in receipts')
        /\ (k \in receipts' => task[k].background)
    BY DEF Kept
  <2>. QED  BY <2>1 DEF OwnedTask, Owned
<1>. QED  BY <1>1, <1>2 DEF Kept


\* What the list and the cleanup queue lose to make a place is recorded.
LEMMA PlaceLemma ==
  ASSUME Kept, NEW added, Reserve(added) \/ NoReserve(added)
  PROVE  /\ \E gone \in SUBSET listed :
              /\ listed' = (listed \ gone) \cup added
              /\ \A id \in gone : task[id].background /\ id \in receipts
         /\ cleanup' \in Seq(Nat) /\ \A i \in 1..Len(cleanup') : cleanup'[i] \in receipts
<1>1. CASE NoReserve(added)
  <2>1. listed' = (listed \ {}) \cup added /\ cleanup' = cleanup
    BY <1>1 DEF NoReserve
  <2>. QED  BY <2>1 DEF Kept
<1>2. CASE Evict(added)
  <2>1. PICK id \in Oldest(1, Evictable) :
          listed' = (listed \ {id}) \cup added /\ cleanup' = Append(cleanup, id)
    BY <1>2 DEF Evict
  <2>2. id \in listed /\ task[id].background /\ task[id].acknowledged
    BY DEF Oldest, Evictable, History
  <2>3. id \in Ids /\ OwnedTask(id)
    BY <2>2 DEF Kept
  <2>4. id \in receipts /\ id \in Nat
    BY <2>2, <2>3 DEF OwnedTask, Owned, Ids
  <2>5. cleanup' \in Seq(Nat) /\ \A i \in 1..Len(cleanup') : cleanup'[i] \in receipts
    BY <2>1, <2>4 DEF Kept
  <2>6. {id} \in SUBSET listed /\ \A k \in {id} : task[k].background /\ k \in receipts
    BY <2>2, <2>4
  <2>. QED  BY <2>1, <2>5, <2>6
<1>. QED  BY <1>1, <1>2 DEF Reserve

LEMMA RunKept ==
  ASSUME IInv, Kept, NEW p \in Parents, NEW background \in BOOLEAN, Run(p, background)
  PROVE  Kept'
<1>. DEFINE new == NewTask(p, background)
<1>0. PICK id : id = Len(task) + 1
  OBVIOUS
<1>1. /\ new.stage = "creating" /\ new.call = "waiting" /\ ~new.acknowledged /\ new \in Task
  BY NewTaskLemma DEF NewTask
<1>2. /\ task' = Append(task, new) /\ UNCHANGED <<closing, hint, looking, seen, batch, receipts>>
      /\ Reserve({id}) \/ NoReserve({id})
  BY <1>0 DEF Run, manager, outbox
<1>3. /\ cleanup' \in Seq(Nat) /\ \A i \in 1..Len(cleanup') : cleanup'[i] \in receipts
  BY <1>2, PlaceLemma
<1>4. PICK gone \in SUBSET listed :
        /\ listed' = (listed \ gone) \cup {id}
        /\ \A k \in gone : task[k].background /\ k \in receipts
  BY <1>2, PlaceLemma
<1>. HIDE DEF new
<1>5. /\ Len(task) \in Nat /\ Len(task') = id
      /\ \A k \in 1..Len(task') : task'[k] = IF k = id THEN new ELSE task[k]
  BY <1>0, <1>1, <1>2 DEF IInv
<1>6. Ids' = Ids \cup {id} /\ id \notin Ids
  <2>1. Len(task) \in Nat /\ id = Len(task) + 1 /\ Len(task') = id
    BY <1>0, <1>5
  <2>2. Ids' = 1..(Len(task) + 1)
    BY <2>1 DEF Ids
  <2>. QED  BY <2>1, <2>2 DEF Ids
<1>7. \A k \in Ids : task'[k] = task[k]
  BY <1>0, <1>5 DEF Ids
<1>8. task'[id] = new
  BY <1>0, <1>5
<1>9. OwnedTask(id)' /\ Announced(id)'
  <2>1. id \notin receipts' /\ id \in listed'
    BY <1>2, <1>4, <1>6 DEF Kept
  <2>. QED  BY <1>1, <1>8, <2>1 DEF OwnedTask, Owned, Announced
<1>10. ASSUME NEW k \in Ids PROVE OwnedTask(k)' /\ Announced(k)'
  <2>1. OwnedTask(k) /\ Announced(k) /\ task'[k] = task[k]
    BY <1>7 DEF Kept
  <2>2. /\ k \in listed' => k \in listed
        /\ k \in listed /\ k \notin listed' => task[k].background /\ k \in receipts
    BY <1>4, <1>6
  <2>3. OwnedTask(k)'
    BY <1>2, <2>1, <2>2 DEF OwnedTask, Owned
  <2>4. Announced(k)'
    BY <1>2, <2>1, <2>2 DEF Announced
  <2>. QED  BY <2>3, <2>4
<1>11. listed' \subseteq Ids' /\ receipts' \subseteq Ids'
  BY <1>2, <1>4, <1>6 DEF Kept
<1>12. /\ batch' \in [Parents -> SUBSET Ids']
       /\ \A q \in Parents : \A k \in batch'[q] : task'[k].background
  BY <1>2, <1>6, <1>7 DEF Kept
<1>. QED  BY <1>2, <1>3, <1>6, <1>9, <1>10, <1>11, <1>12 DEF Kept

\* Steps of the process, of its turn and of whoever stops it leave a task listed or
\* not, and acknowledged or not, and take nothing from the disk.
LEMMA ProcessKept ==
  ASSUME IInv, Kept, NEW id \in Ids,
         NEW u, u \in Task, task' = [task EXCEPT ![id] = u],
         UNCHANGED <<listed, cleanup, closing, looking, seen, batch, receipts>>,
         u.background = task[id].background, u.acknowledged = task[id].acknowledged,
         u.call = task[id].call, u.got = task[id].got,
         u.stage # "aborted", task[id].stage # "aborted",
         u.stage # "creating" => u.disk \/ (task[id].stage # "creating" /\ u.disk = task[id].disk),
         hint' = Subscribed \/ (hint' = hint /\ (u.stage = "done" => task[id].stage = "done"))
  PROVE  Kept'
<1>1. OwnedTask(id)
  BY DEF Kept
<1>2. Owned(u, id \in listed', id \in receipts, closing = "returned")
  BY <1>1 DEF OwnedTask, Owned
<1>. QED  BY <1>2, KeptOne

LEMMA CreateKept == ASSUME IInv, Kept, NEW id \in Ids, Create(id) PROVE Kept'
<1>. DEFINE u == [task[id] EXCEPT !.stage = "running", !.disk = TRUE]
<1>1. /\ u \in Task /\ u.background = task[id].background
      /\ u.acknowledged = task[id].acknowledged /\ u.call = task[id].call
      /\ u.got = task[id].got /\ u.stage = "running" /\ u.disk
  BY TaskLemma DEF Task, Stages
<1>2. /\ task' = [task EXCEPT ![id] = u] /\ task[id].stage = "creating" /\ hint' = Subscribed
      /\ UNCHANGED <<listed, cleanup, closing, looking, seen, batch, receipts>>
  BY DEF Create, Signal, manager, outbox
<1>. HIDE DEF u
<1>. QED  BY <1>1, <1>2, ProcessKept

LEMMA CancelledLemma ==
  ASSUME NEW t \in Task, NEW u \in {Cancelled(t), StopRequested(t)}
  PROVE  /\ u \in Task /\ u.background = t.background /\ u.acknowledged = t.acknowledged
         /\ u.call = t.call /\ u.got = t.got /\ u.stage = t.stage /\ u.disk = t.disk
         /\ u.state = t.state
BY DEF Cancelled, StopRequested, Task

LEMMA CreateFailsKept == ASSUME IInv, Kept, NEW id \in Ids, CreateFails(id) PROVE Kept'
<1>1. PICK left \in BOOLEAN :
        task' = [task EXCEPT ![id] = [Cancelled(@) EXCEPT !.stage = "aborted",
                   !.call = "returned", !.got = "error", !.disk = left]]
  BY DEF CreateFails
<1>. DEFINE v == Cancelled(task[id])
            u == [v EXCEPT !.stage = "aborted", !.call = "returned", !.got = "error",
                           !.disk = left]
<1>2. /\ v \in Task /\ v.background = task[id].background
      /\ v.acknowledged = task[id].acknowledged
  BY TaskLemma, CancelledLemma
<1>3. /\ task' = [task EXCEPT ![id] = u] /\ listed' = listed \ {id} /\ hint' = Subscribed
      /\ UNCHANGED <<cleanup, closing, looking, seen, batch, receipts>>
  BY <1>1 DEF CreateFails, RemoveLocked, Signal, manager, outbox
<1>. HIDE DEF v
<1>4. /\ u \in Task /\ u.background = task[id].background
      /\ u.acknowledged = task[id].acknowledged /\ u.stage = "aborted"
  BY <1>2 DEF Task, Stages
<1>5. OwnedTask(id)
  BY DEF Kept
<1>. HIDE DEF u
<1>6. Owned(u, id \in listed', id \in receipts, closing = "returned")
  BY <1>3, <1>4, <1>5 DEF OwnedTask, Owned
<1>. QED  BY <1>3, <1>4, <1>6, KeptOne

LEMMA CaptureKept ==
  ASSUME IInv, Kept, NEW id \in Ids, NEW fails \in BOOLEAN, Capture(id, fails) PROVE Kept'
<1>. DEFINE v == Cancelled(task[id])
            w == [v EXCEPT !.failed = TRUE]
            u == IF fails THEN w ELSE task[id]
<1>1. /\ v \in Task /\ v.background = task[id].background
      /\ v.acknowledged = task[id].acknowledged /\ v.call = task[id].call
      /\ v.got = task[id].got /\ v.stage = task[id].stage /\ v.disk = task[id].disk
      /\ task[id] \in Task /\ DOMAIN task = Ids
  BY TaskLemma, CancelledLemma, LenProperties DEF IInv, Ids
<1>2. /\ task' = IF fails THEN [task EXCEPT ![id] = w] ELSE task
      /\ task[id].stage = "running" /\ hint' = Subscribed
      /\ UNCHANGED <<listed, cleanup, closing, looking, seen, batch, receipts>>
  BY DEF Capture, Signal, manager, outbox
<1>. HIDE DEF v
<1>3. /\ w \in Task /\ w.background = v.background
      /\ w.acknowledged = v.acknowledged /\ w.call = v.call
      /\ w.got = v.got /\ w.stage = v.stage /\ w.disk = v.disk
  BY <1>1 DEF Task
<1>. HIDE DEF w
<1>4. /\ u \in Task /\ u.background = task[id].background
      /\ u.acknowledged = task[id].acknowledged /\ u.call = task[id].call
      /\ u.got = task[id].got /\ u.stage = "running" /\ u.disk = task[id].disk
  BY <1>1, <1>2, <1>3
<1>5. task' = [task EXCEPT ![id] = u]
  <2>1. CASE fails
    BY <1>2, <2>1
  <2>2. CASE ~fails
    <3>1. task = [k \in Ids |-> task[k]]
      BY <1>1 DEF IInv
    <3>. QED  BY <1>1, <1>2, <2>2, <3>1
  <2>. QED  BY <2>1, <2>2
<1>. HIDE DEF u
<1>. QED  BY <1>2, <1>4, <1>5, ProcessKept

LEMMA ExpireKept == ASSUME IInv, Kept, NEW id \in Ids, Expire(id) PROVE Kept'
<1>. DEFINE u == [task[id] EXCEPT !.lifetime = "expired"]
<1>1. /\ u \in Task /\ u.background = task[id].background
      /\ u.acknowledged = task[id].acknowledged /\ u.call = task[id].call
      /\ u.got = task[id].got /\ u.stage = task[id].stage /\ u.disk = task[id].disk
  BY TaskLemma DEF Task
<1>2. /\ task' = [task EXCEPT ![id] = u] /\ task[id].stage # "aborted"
      /\ UNCHANGED <<hint, listed, cleanup, closing, looking, seen, batch, receipts>>
  BY DEF Expire, Gone, manager, outbox
<1>. HIDE DEF u
<1>. QED  BY <1>1, <1>2, ProcessKept

LEMMA ExitKept ==
  ASSUME IInv, Kept, NEW id \in Ids, NEW how \in Gone, NEW failed \in BOOLEAN,
         Exit(id, how, failed)
  PROVE  Kept'
<1>. DEFINE u == [task[id] EXCEPT !.stage = how, !.failed = @ \/ failed]
<1>1. task[id] \in Task /\ (task[id].failed \/ failed) \in BOOLEAN
  BY TaskLemma DEF Task
<1>2. /\ u \in Task /\ u.background = task[id].background
      /\ u.acknowledged = task[id].acknowledged /\ u.call = task[id].call
      /\ u.got = task[id].got /\ u.stage = how /\ u.disk = task[id].disk
  BY <1>1 DEF Task, Stages
<1>3. /\ task' = [task EXCEPT ![id] = u] /\ task[id].stage = "running"
      /\ UNCHANGED <<hint, listed, cleanup, closing, looking, seen, batch, receipts>>
  BY DEF Exit, manager, outbox
<1>4. how \notin {"creating", "aborted", "done"}
  BY DEF Gone
<1>. HIDE DEF u
<1>. QED  BY <1>2, <1>3, <1>4, ProcessKept

LEMMA RecordKept == ASSUME IInv, Kept, NEW id \in Ids, Record(id) PROVE Kept'
<1>1. PICK state \in TerminalStates(task[id]) :
        task' = [task EXCEPT ![id].stage = "recorded", ![id].state = state]
  BY DEF Record
<1>. DEFINE u == [task[id] EXCEPT !.stage = "recorded", !.state = state]
<1>2. state \in States
  BY DEF TerminalStates, States
<1>3. /\ u \in Task /\ u.background = task[id].background
      /\ u.acknowledged = task[id].acknowledged /\ u.call = task[id].call
      /\ u.got = task[id].got /\ u.stage = "recorded" /\ u.disk = task[id].disk
  BY <1>2, TaskLemma DEF Task, Stages
<1>4. /\ task' = [task EXCEPT ![id] = u] /\ task[id].stage \notin {"aborted", "creating"}
      /\ UNCHANGED <<hint, listed, cleanup, closing, looking, seen, batch, receipts>>
  BY <1>1 DEF Record, Gone, manager, outbox
<1>. HIDE DEF u
<1>. QED  BY <1>3, <1>4, ProcessKept

\* The result is on disk before it is announced.
LEMMA FinishKept ==
  ASSUME IInv, Kept, NEW id \in Ids, NEW ok \in BOOLEAN, Finish(id, ok) PROVE Kept'
<1>. DEFINE v == Cancelled(task[id])
            r == IF ok THEN "written" ELSE "failed"
            u == [v EXCEPT !.stage = "done", !.receipt = r]
<1>1. /\ v \in Task /\ v.background = task[id].background
      /\ v.acknowledged = task[id].acknowledged /\ v.call = task[id].call
      /\ v.got = task[id].got /\ v.disk = task[id].disk
  BY TaskLemma, CancelledLemma
<1>2. /\ task' = [task EXCEPT ![id] = u] /\ task[id].stage = "recorded" /\ hint' = Subscribed
      /\ UNCHANGED <<listed, cleanup, closing, looking, seen, batch, receipts>>
  BY DEF Finish, Signal, manager, outbox
<1>. HIDE DEF v
<1>3. /\ u \in Task /\ u.background = task[id].background
      /\ u.acknowledged = task[id].acknowledged /\ u.call = task[id].call
      /\ u.got = task[id].got /\ u.stage = "done" /\ u.disk = task[id].disk
  BY <1>1 DEF Task, Stages
<1>. HIDE DEF u
<1>. QED  BY <1>2, <1>3, ProcessKept


\* A promotion takes a place; who leaves for it is recorded already.
LEMMA BackgroundKept == ASSUME IInv, Kept, NEW id \in Ids, Background(id) PROVE Kept'
<1>. DEFINE u == [task[id] EXCEPT !.background = TRUE]
<1>1. /\ task' = [task EXCEPT ![id] = u] /\ id \in listed /\ ~task[id].background
      /\ Reserve({}) /\ hint' = Subscribed
      /\ UNCHANGED <<closing, looking, seen, batch, receipts>>
  BY DEF Background, Signal, manager, outbox
<1>2. /\ u \in Task /\ u.background /\ u.acknowledged = task[id].acknowledged
      /\ u.call = task[id].call /\ u.got = task[id].got /\ u.stage = task[id].stage
      /\ u.disk = task[id].disk
  BY TaskLemma DEF Task
<1>. HIDE DEF u
<1>3. /\ cleanup' \in Seq(Nat) /\ \A i \in 1..Len(cleanup') : cleanup'[i] \in receipts
  BY <1>1, PlaceLemma
<1>4. PICK gone \in SUBSET listed :
        /\ listed' = listed \ gone
        /\ \A k \in gone : task[k].background /\ k \in receipts
  <2>1. \E gone \in SUBSET listed :
          /\ listed' = (listed \ gone) \cup {}
          /\ \A k \in gone : task[k].background /\ k \in receipts
    BY <1>1, PlaceLemma
  <2>. QED  BY <2>1
<1>5. Len(task) \in Nat /\ DOMAIN task = Ids /\ Len(task') = Len(task)
  BY <1>1, <1>2, ExceptSeq DEF IInv, Ids
<1>6. Ids' = Ids
  BY <1>5 DEF Ids
<1>7. \A k \in Ids : task'[k] = IF k = id THEN u ELSE task[k]
  BY <1>1, <1>5
<1>8. ASSUME NEW k \in Ids PROVE OwnedTask(k)' /\ Announced(k)'
  <2>1. OwnedTask(k) /\ Announced(k)
    BY DEF Kept
  <2>2. CASE k = id
    <3>1. k \in listed' /\ task'[k] = u
      BY <1>1, <1>4, <1>7, <2>2
    <3>2. OwnedTask(k)'
      BY <1>1, <1>2, <2>1, <2>2, <3>1 DEF OwnedTask, Owned
    <3>3. Announced(k)'
      BY <1>1 DEF Announced
    <3>. QED  BY <3>2, <3>3
  <2>3. CASE k # id
    <3>1. task'[k] = task[k] /\ (k \in listed' => k \in listed)
          /\ (k \in listed /\ k \notin listed' => task[k].background /\ k \in receipts)
      BY <1>4, <1>7, <2>3
    <3>2. OwnedTask(k)'
      BY <1>1, <2>1, <3>1 DEF OwnedTask, Owned
    <3>3. Announced(k)'
      BY <1>1 DEF Announced
    <3>. QED  BY <3>2, <3>3
  <2>. QED  BY <2>2, <2>3
<1>9. listed' \subseteq Ids' /\ receipts' \subseteq Ids'
  BY <1>1, <1>4, <1>6 DEF Kept
<1>10. /\ batch' \in [Parents -> SUBSET Ids']
       /\ \A p \in Parents : \A k \in batch'[p] : task'[k].background
  BY <1>1, <1>2, <1>6, <1>7 DEF Kept
<1>. QED  BY <1>1, <1>3, <1>6, <1>8, <1>9, <1>10 DEF Kept

LEMMA StopKept == ASSUME IInv, Kept, NEW id \in Ids, Stop(id) PROVE Kept'
<1>. DEFINE u == StopRequested(task[id])
<1>1. /\ u \in Task /\ u.background = task[id].background
      /\ u.acknowledged = task[id].acknowledged /\ u.call = task[id].call
      /\ u.got = task[id].got /\ u.stage = task[id].stage /\ u.disk = task[id].disk
  BY TaskLemma, CancelledLemma
<1>2. /\ task' = [task EXCEPT ![id] = u]
      /\ UNCHANGED <<hint, listed, cleanup, closing, looking, seen, batch, receipts>>
  BY DEF Stop, manager, outbox
<1>. HIDE DEF u
<1>3. OwnedTask(id)
  BY DEF Kept
<1>4. Owned(u, id \in listed', id \in receipts, closing = "returned")
  BY <1>1, <1>2, <1>3 DEF OwnedTask, Owned
<1>. QED  BY <1>1, <1>2, <1>4, KeptOne

LEMMA TurnEndsKept == ASSUME IInv, Kept, NEW id \in Ids, TurnEnds(id) PROVE Kept'
<1>. DEFINE u == [task[id] EXCEPT !.turn = "ended"]
<1>1. /\ u \in Task /\ u.background = task[id].background
      /\ u.acknowledged = task[id].acknowledged /\ u.call = task[id].call
      /\ u.got = task[id].got /\ u.stage = task[id].stage /\ u.disk = task[id].disk
  BY TaskLemma DEF Task
<1>2. /\ task' = [task EXCEPT ![id] = u]
      /\ UNCHANGED <<hint, listed, cleanup, closing, looking, seen, batch, receipts>>
  BY DEF TurnEnds, manager, outbox
<1>. HIDE DEF u
<1>3. OwnedTask(id)
  BY DEF Kept
<1>4. Owned(u, id \in listed', id \in receipts, closing = "returned")
  BY <1>1, <1>2, <1>3 DEF OwnedTask, Owned
<1>. QED  BY <1>1, <1>2, <1>4, KeptOne

\* A promoted task's call is answered with an acceptance, and its result stays.
LEMMA AcceptedKept ==
  ASSUME IInv, Kept, NEW id \in Ids, task[id].background, task[id].call # "returned",
         task' = [task EXCEPT ![id] = Returned(task[id], "accepted")],
         UNCHANGED <<hint, listed, cleanup, closing, looking, seen, batch, receipts>>
  PROVE  Kept'
<1>. DEFINE u == Returned(task[id], "accepted")
<1>1. /\ u \in Task /\ u.background = task[id].background
      /\ u.acknowledged = task[id].acknowledged /\ u.call = "returned"
      /\ u.got = "accepted" /\ u.stage = task[id].stage /\ u.disk = task[id].disk
  BY TaskLemma DEF Task, Returned
<1>2. /\ task' = [task EXCEPT ![id] = u] /\ listed' = listed /\ hint' = hint
      /\ UNCHANGED <<cleanup, closing, looking, seen, batch, receipts>>
  OBVIOUS
<1>. HIDE DEF u
<1>3. OwnedTask(id)
  BY DEF Kept
<1>4. Owned(u, id \in listed', id \in receipts, closing = "returned")
  BY <1>1, <1>3 DEF OwnedTask, Owned
<1>. QED  BY <1>1, <1>2, <1>4, KeptOne

\* The result of a foreground task goes to its call and nowhere else.
LEMMA ResultKept ==
  ASSUME IInv, Kept, NEW id \in Ids, ~task[id].background, task[id].call # "returned",
         NEW left \in BOOLEAN,
         task' = [task EXCEPT ![id] =
             [Returned(@, "result") EXCEPT !.disk = task[id].disk /\ left]],
         listed' = listed \ {id}, hint' = Subscribed,
         UNCHANGED <<cleanup, closing, looking, seen, batch, receipts>>
  PROVE  Kept'
<1>. DEFINE v == Returned(task[id], "result")
            d == task[id].disk /\ left
            u == [v EXCEPT !.disk = d]
<1>1. /\ v \in Task /\ v.background = task[id].background
      /\ v.acknowledged = task[id].acknowledged /\ v.call = "returned"
      /\ v.got = "result" /\ v.stage = task[id].stage
      /\ d \in BOOLEAN
  BY TaskLemma DEF Task, Returned
<1>2. task' = [task EXCEPT ![id] = u]
  OBVIOUS
<1>. HIDE DEF v, d
<1>3. /\ u \in Task /\ u.background = task[id].background
      /\ u.acknowledged = task[id].acknowledged /\ u.call = "returned"
      /\ u.got = "result" /\ u.stage = task[id].stage
  BY <1>1 DEF Task
<1>. HIDE DEF u
<1>4. OwnedTask(id)
  BY DEF Kept
<1>5. Owned(u, id \in listed', id \in receipts, closing = "returned")
  BY <1>3, <1>4 DEF OwnedTask, Owned
<1>. QED  BY <1>2, <1>3, <1>5, KeptOne

LEMMA ReturnDoneKept == ASSUME IInv, Kept, NEW id \in Ids, ReturnDone(id) PROVE Kept'
<1>1. /\ task[id].call # "returned" /\ TakeResult(id)
      /\ UNCHANGED <<cleanup, closing, looking, seen, batch, receipts>>
  BY DEF ReturnDone, manager, outbox
<1>2. CASE task[id].background
  BY <1>1, <1>2, AcceptedKept DEF TakeResult
<1>3. CASE ~task[id].background
  <2>1. PICK left \in BOOLEAN :
          task' = [task EXCEPT ![id] =
              [Returned(@, "result") EXCEPT !.disk = task[id].disk /\ left]]
    BY <1>1, <1>3 DEF TakeResult
  <2>2. listed' = listed \ {id} /\ hint' = Subscribed
    BY <1>1, <1>3 DEF TakeResult, RemoveLocked, Signal
  <2>. QED  BY <1>1, <1>3, <2>1, <2>2, ResultKept
<1>. QED  BY <1>2, <1>3

LEMMA ReturnPromotedKept == ASSUME IInv, Kept, NEW id \in Ids, ReturnPromoted(id) PROVE Kept'
BY AcceptedKept DEF ReturnPromoted, manager, outbox

LEMMA SeeTurnEndKept == ASSUME IInv, Kept, NEW id \in Ids, SeeTurnEnd(id) PROVE Kept'
<1>. DEFINE r == StopRequested(task[id])
            v == [r EXCEPT !.turnStopped = TRUE, !.call = "joining"]
            w == [task[id] EXCEPT !.call = "joining"]
<1>1. /\ task[id].call = "waiting"
      /\ UNCHANGED <<hint, listed, cleanup, closing, looking, seen, batch, receipts>>
      /\ \/ task[id].background /\ task' = [task EXCEPT ![id] = Returned(task[id], "accepted")]
         \/ task' = [task EXCEPT ![id] = v]
         \/ task' = [task EXCEPT ![id] = w]
  BY DEF SeeTurnEnd, manager, outbox
<1>2. /\ r \in Task /\ r.background = task[id].background
      /\ r.acknowledged = task[id].acknowledged /\ r.call = task[id].call
      /\ r.got = task[id].got /\ r.stage = task[id].stage /\ r.disk = task[id].disk
  BY TaskLemma, CancelledLemma
<1>. HIDE DEF r
<1>3. /\ v \in Task /\ v.background = task[id].background
      /\ v.acknowledged = task[id].acknowledged /\ v.call = "joining"
      /\ v.stage = task[id].stage /\ v.disk = task[id].disk
  BY <1>2 DEF Task
<1>4. task[id] \in Task /\ OwnedTask(id)
  BY TaskLemma DEF Kept
<1>5. /\ w \in Task /\ w.background = task[id].background
      /\ w.acknowledged = task[id].acknowledged /\ w.call = "joining"
      /\ w.stage = task[id].stage /\ w.disk = task[id].disk
  BY <1>4 DEF Task
<1>. HIDE DEF v, w
<1>6. ASSUME NEW u \in {v, w}, task' = [task EXCEPT ![id] = u] PROVE Kept'
  <2>1. /\ u \in Task /\ u.background = task[id].background
        /\ u.acknowledged = task[id].acknowledged /\ u.call = "joining"
        /\ u.stage = task[id].stage /\ u.disk = task[id].disk
    BY <1>3, <1>5
  <2>2. Owned(u, id \in listed', id \in receipts, closing = "returned")
    BY <1>1, <1>4, <2>1 DEF OwnedTask, Owned
  <2>. QED  BY <1>1, <1>6, <2>1, <2>2, KeptOne
<1>7. ASSUME task[id].background, task' = [task EXCEPT ![id] = Returned(task[id], "accepted")]
      PROVE  Kept'
  BY <1>1, <1>7, AcceptedKept
<1>. QED  BY <1>1, <1>6, <1>7

\* The worker removes what an eviction left, and that is recorded.
LEMMA CleanKept == ASSUME IInv, Kept, NEW ok \in BOOLEAN, Clean(ok) PROVE Kept'
<1>. DEFINE h == Head(cleanup)
            u == [task[h] EXCEPT !.disk = FALSE]
<1>1. /\ cleanup # <<>> /\ cleanup' = Tail(cleanup)
      /\ task' = task \/ task' = [task EXCEPT ![h] = u]
      /\ UNCHANGED <<closing, listed, hint, looking, seen, batch, receipts>>
  BY DEF Clean, outbox
<1>2. cleanup \in Seq(Nat) /\ \A i \in 1..Len(cleanup) : cleanup[i] \in receipts
  BY DEF Kept
<1>3. h \in receipts /\ cleanup' \in Seq(Nat)
      /\ \A i \in 1..Len(cleanup') : cleanup'[i] \in receipts
  BY <1>1, <1>2
<1>4. h \in Ids /\ OwnedTask(h)
  BY <1>3 DEF Kept
<1>5. /\ u \in Task /\ u.background = task[h].background
      /\ u.acknowledged = task[h].acknowledged /\ u.call = task[h].call
      /\ u.got = task[h].got /\ u.stage = task[h].stage
  BY <1>4, TaskLemma DEF Task
<1>. HIDE DEF u, h
<1>6. Len(task) \in Nat /\ DOMAIN task = Ids /\ Len(task') = Len(task)
  BY <1>1, <1>4, <1>5, ExceptSeq DEF IInv, Ids
<1>7. Ids' = Ids
  BY <1>6 DEF Ids
<1>8. \A k \in Ids : task'[k] = task[k] \/ (k = h /\ task'[k] = u)
  BY <1>1, <1>4, <1>6
<1>9. ASSUME NEW k \in Ids PROVE OwnedTask(k)' /\ Announced(k)'
  <2>1. OwnedTask(k) /\ Announced(k)
    BY DEF Kept
  <2>2. CASE task'[k] = task[k]
    BY <1>1, <2>1, <2>2 DEF OwnedTask, Announced
  <2>3. CASE k = h /\ task'[k] = u
    <3>1. OwnedTask(k)'
      BY <1>1, <1>3, <1>5, <2>1, <2>3 DEF OwnedTask, Owned
    <3>2. Announced(k)'
      BY <1>1, <1>5, <2>1, <2>3 DEF Announced
    <3>. QED  BY <3>1, <3>2
  <2>. QED  BY <1>8, <2>2, <2>3
<1>10. /\ batch' \in [Parents -> SUBSET Ids']
       /\ \A p \in Parents : \A k \in batch'[p] : task'[k].background
  <2>1. \A k \in Ids : task[k].background => task'[k].background
    BY <1>5, <1>8
  <2>. QED  BY <1>1, <1>7, <2>1 DEF Kept
<1>11. listed' \subseteq Ids' /\ receipts' \subseteq Ids'
  BY <1>1, <1>7 DEF Kept
<1>. QED  BY <1>3, <1>1, <1>7, <1>9, <1>10, <1>11 DEF Kept


\* Only what the conversation has recorded is acknowledged.
LEMMA AcknowledgeKept == ASSUME IInv, Kept, NEW p \in Parents, Acknowledge(p) PROVE Kept'
<1>1. PICK id \in Oldest(1, batch[p]) :
        /\ id \in receipts \cap listed
        /\ task' = [task EXCEPT ![id].acknowledged = TRUE]
        /\ batch' = [batch EXCEPT ![p] = @ \ {id}]
        /\ UNCHANGED <<closing, listed, cleanup, hint, looking, seen, receipts>>
  BY DEF Acknowledge, manager
<1>. DEFINE u == [task[id] EXCEPT !.acknowledged = TRUE]
<1>2. id \in Ids /\ OwnedTask(id) /\ task[id].background
  BY <1>1 DEF Kept, OwnedTask, Owned
<1>3. /\ u \in Task /\ u.background = task[id].background /\ u.call = task[id].call
      /\ u.got = task[id].got /\ u.stage = task[id].stage /\ u.disk = task[id].disk
  BY <1>2, TaskLemma DEF Task
<1>4. task' = [task EXCEPT ![id] = u]
  BY <1>1
<1>. HIDE DEF u
<1>5. Len(task) \in Nat /\ DOMAIN task = Ids /\ Len(task') = Len(task)
  BY <1>2, <1>3, <1>4, ExceptSeq DEF IInv, Ids
<1>6. Ids' = Ids
  BY <1>5 DEF Ids
<1>7. \A k \in Ids : task'[k] = IF k = id THEN u ELSE task[k]
  BY <1>4, <1>5
<1>8. ASSUME NEW k \in Ids PROVE OwnedTask(k)' /\ Announced(k)'
  <2>1. OwnedTask(k) /\ Announced(k)
    BY DEF Kept
  <2>2. CASE k = id
    <3>1. k \in receipts /\ task'[k] = u
      BY <1>1, <1>7, <2>2
    <3>2. OwnedTask(k)'
      BY <1>1, <1>3, <2>1, <2>2, <3>1 DEF OwnedTask, Owned
    <3>3. Announced(k)'
      BY <1>1, <1>3, <2>1, <2>2, <3>1 DEF Announced
    <3>. QED  BY <3>2, <3>3
  <2>3. CASE k # id
    BY <1>1, <1>7, <2>1, <2>3 DEF OwnedTask, Announced
  <2>. QED  BY <2>2, <2>3
<1>9. /\ batch' \in [Parents -> SUBSET Ids']
      /\ \A q \in Parents : \A k \in batch'[q] : task'[k].background
  <2>1. \A k \in Ids : task[k].background => task'[k].background
    BY <1>3, <1>7
  <2>2. batch \in [Parents -> SUBSET Ids]
    BY DEF Kept
  <2>3. batch' \in [Parents -> SUBSET Ids] /\ \A q \in Parents : batch'[q] \subseteq batch[q]
    BY <1>1, <2>2
  <2>4. \A q \in Parents : \A k \in batch[q] : task[k].background
    BY DEF Kept
  <2>5. ASSUME NEW q \in Parents, NEW k \in batch'[q] PROVE task'[k].background
    BY <2>1, <2>2, <2>3, <2>4
  <2>. QED  BY <1>6, <2>3, <2>5
<1>10. listed' \subseteq Ids' /\ receipts' \subseteq Ids'
  BY <1>1, <1>6 DEF Kept
<1>11. cleanup' \in Seq(Nat) /\ \A i \in 1..Len(cleanup') : cleanup'[i] \in receipts'
  BY <1>1 DEF Kept
<1>. QED  BY <1>1, <1>6, <1>8, <1>9, <1>10, <1>11 DEF Kept

\* A batch holds background results only, and records what it holds.
LEMMA DeliveryKept ==
  ASSUME IInv, Kept, NEW p \in Parents, Deliver(p) \/ Accept(p) \/ DeliveryFails(p)
  PROVE  Kept'
<1>1. UNCHANGED <<task, listed, cleanup, closing, hint, looking, seen>>
  BY DEF Deliver, Accept, DeliveryFails, manager
<1>2. /\ batch \in [Parents -> SUBSET Ids] /\ receipts \subseteq Ids /\ listed \subseteq Ids
      /\ \A q \in Parents : \A id \in batch[q] : task[id].background
      /\ \A id \in receipts : task[id].background
  <2>1. \A id \in receipts : id \in Ids /\ OwnedTask(id)
    BY DEF Kept
  <2>. QED  BY <2>1 DEF Kept, OwnedTask, Owned
<1>3. \A id \in Ids : Announced(id)'
  BY <1>1 DEF Kept, Announced
<1>4. CASE Deliver(p)
  <2>1. /\ batch' = [batch EXCEPT ![p] = Pending(p, DeliveryLimit)] /\ receipts' = receipts
        /\ \A id \in Pending(p, DeliveryLimit) : id \in listed /\ task[id].background
    BY <1>4 DEF Deliver, Pending, Oldest, Unacknowledged
  <2>2. Pending(p, DeliveryLimit) \subseteq Ids
    BY <1>2, <2>1
  <2>. HIDE DEF Pending
  <2>3. /\ batch' \in [Parents -> SUBSET Ids]
        /\ \A q \in Parents : \A id \in batch'[q] : task[id].background
    BY <1>2, <2>1, <2>2
  <2>. QED  BY <1>1, <1>2, <1>3, <2>1, <2>3, KeptSame
<1>5. CASE Accept(p)
  <2>1. PICK id \in Oldest(1, batch[p]) : receipts' = receipts \cup {id} /\ batch' = batch
    BY <1>5 DEF Accept
  <2>2. id \in Ids /\ task[id].background
    BY <1>2 DEF Oldest
  <2>. QED  BY <1>1, <1>2, <1>3, <2>1, <2>2, KeptSame
<1>6. CASE DeliveryFails(p)
  <2>1. batch' = [batch EXCEPT ![p] = {}] /\ receipts' = receipts
    BY <1>6 DEF DeliveryFails
  <2>2. /\ batch' \in [Parents -> SUBSET Ids]
        /\ \A q \in Parents : \A id \in batch'[q] : task[id].background
    BY <1>2, <2>1
  <2>. QED  BY <1>1, <1>2, <1>3, <2>1, <2>2, KeptSame
<1>. QED  BY <1>4, <1>5, <1>6

\* A hint is dropped only for a look, and a look sees everything announced so far.
LEMMA LookKept == ASSUME IInv, Kept, TakeHint \/ Look PROVE Kept'
<1>1. UNCHANGED <<task, listed, cleanup, closing, batch, receipts>>
  BY DEF TakeHint, Look, manager
<1>2. ASSUME NEW id \in Ids PROVE Announced(id)'
  <2>1. Announced(id)
    BY DEF Kept
  <2>2. CASE TakeHint
    BY <2>2 DEF TakeHint, Announced
  <2>3. CASE Look
    BY <1>1, <2>1, <2>3 DEF Look, Announced
  <2>. QED  BY <2>2, <2>3
<1>3. /\ batch \in [Parents -> SUBSET Ids] /\ receipts \subseteq Ids
      /\ \A q \in Parents : \A id \in batch[q] : task[id].background
      /\ \A id \in receipts : task[id].background
  <2>1. \A id \in receipts : id \in Ids /\ OwnedTask(id)
    BY DEF Kept
  <2>. QED  BY <2>1 DEF Kept, OwnedTask, Owned
<1>. QED  BY <1>1, <1>2, <1>3, KeptSame

\* Close stops, joins and removes; it answers no call and forgets no result.
LEMMA CloseKept ==
  ASSUME IInv, Kept, Close \/ CloseJoined \/ \E ok \in BOOLEAN : CloseRemoves(ok)
  PROVE  Kept'
<1>1. UNCHANGED <<listed, cleanup, hint, looking, seen, batch, receipts>>
  BY DEF Close, CloseJoined, CloseRemoves, outbox
<1>2. Ids' = Ids /\ closing # "returned" /\
      \A id \in Ids :
        /\ task'[id].background = task[id].background
        /\ task'[id].acknowledged = task[id].acknowledged
        /\ task'[id].call = task[id].call /\ task'[id].got = task[id].got
        /\ task'[id].stage = task[id].stage
        /\ closing' = "returned" \/ task'[id].disk = task[id].disk
  <2>1. CASE Close
    <3>1. /\ task' = [id \in Ids |-> IF id \in Live THEN StopRequested(task[id]) ELSE task[id]]
          /\ closing' = "joining" /\ ~closed
      BY <2>1 DEF Close
    <3>2. closing # "returned"
      BY <3>1 DEF IInv, Closing
    <3>3. \A id \in Ids : /\ task[id] \in Task
                          /\ task'[id] = task[id] \/ task'[id] = StopRequested(task[id])
      BY <3>1, TaskLemma
    <3>4. Ids' = Ids
      <4>1. \A id \in Ids : task'[id] \in Task
        BY <3>3, CancelledLemma
      <4>2. Len(task') = Len(task)
        BY <3>1, <4>1, SequenceLemma DEF IInv
      <4>. QED  BY <4>2 DEF Ids
    <3>. QED  BY <3>2, <3>3, <3>4, CancelledLemma
  <2>2. CASE CloseJoined
    BY <2>2 DEF CloseJoined, Ids
  <2>3. CASE \E ok \in BOOLEAN : CloseRemoves(ok)
    <3>0. PICK ok \in BOOLEAN : CloseRemoves(ok)
      BY <2>3
    <3>1. /\ closing = "cleaning" /\ closing' = "returned"
          /\ \E left : task' = [id \in Ids |-> [task[id] EXCEPT !.disk = @ /\ id \in left]]
      BY <3>0 DEF CloseRemoves
    <3>2. PICK left : task' = [id \in Ids |-> [task[id] EXCEPT !.disk = @ /\ id \in left]]
      BY <3>1
    <3>3. ASSUME NEW id \in Ids
          PROVE  /\ task'[id] \in Task
                 /\ task'[id].background = task[id].background
                 /\ task'[id].acknowledged = task[id].acknowledged
                 /\ task'[id].call = task[id].call /\ task'[id].got = task[id].got
                 /\ task'[id].stage = task[id].stage
      <4>. DEFINE d == task[id].disk /\ id \in left
      <4>1. task[id] \in Task /\ task'[id] = [task[id] EXCEPT !.disk = d]
        BY <3>2, TaskLemma
      <4>2. d \in BOOLEAN
        BY <4>1 DEF Task
      <4>. HIDE DEF d
      <4>. QED  BY <4>1, <4>2 DEF Task
    <3>4. Len(task') = Len(task)
      BY <3>2, <3>3, SequenceLemma DEF IInv
    <3>5. Ids' = Ids
      BY <3>4 DEF Ids
    <3>. QED  BY <3>1, <3>3, <3>5
  <2>. QED  BY <2>1, <2>2, <2>3
<1>3. ASSUME NEW id \in Ids PROVE OwnedTask(id)' /\ Announced(id)'
  <2>1. OwnedTask(id) /\ Announced(id)
    BY DEF Kept
  <2>2. /\ task'[id].background = task[id].background
        /\ task'[id].acknowledged = task[id].acknowledged
        /\ task'[id].call = task[id].call /\ task'[id].got = task[id].got
        /\ task'[id].stage = task[id].stage
        /\ closing' = "returned" \/ task'[id].disk = task[id].disk
    BY <1>2
  <2>3. OwnedTask(id)'
    BY <1>1, <1>2, <2>1, <2>2 DEF OwnedTask, Owned
  <2>4. Announced(id)'
    BY <1>1, <2>1, <2>2 DEF Announced
  <2>. QED  BY <2>3, <2>4
<1>4. /\ batch' \in [Parents -> SUBSET Ids']
      /\ \A q \in Parents : \A k \in batch'[q] : task'[k].background
  BY <1>1, <1>2 DEF Kept
<1>. QED  BY <1>1, <1>2, <1>3, <1>4 DEF Kept

-----------------------------------------------------------------------------
THEOREM KeptInvariance == Spec => []Kept
<1>1. Init => Kept
  <2>. SUFFICES ASSUME Init PROVE Kept
    OBVIOUS
  <2>1. Ids = {}
    BY DEF Init, Ids
  <2>2. cleanup \in Seq(Nat) /\ \A i \in 1..Len(cleanup) : cleanup[i] \in receipts
    BY EmptySeq DEF Init
  <2>3. batch = [p \in Parents |-> {}] /\ listed = {} /\ receipts = {}
    BY DEF Init
  <2>. QED  BY <2>1, <2>2, <2>3 DEF Kept
<1>2. IInv /\ Kept /\ [Next]_vars => Kept'
  <2>. SUFFICES ASSUME IInv, Kept, [Next]_vars PROVE Kept'
    OBVIOUS
  <2>1. CASE UNCHANGED vars
    BY <2>1 DEF vars, Kept, OwnedTask, Announced, Ids
  <2>2. ASSUME NEW p \in Parents, ParentStep(p) PROVE Kept'
    BY <2>2, RunKept, AcknowledgeKept, DeliveryKept DEF ParentStep
  <2>3. ASSUME NEW id \in Ids, TaskStep(id) PROVE Kept'
    BY <2>3, CreateKept, CreateFailsKept, ExpireKept, RecordKept, BackgroundKept, StopKept,
       TurnEndsKept, ReturnDoneKept, ReturnPromotedKept, SeeTurnEndKept, CaptureKept,
       FinishKept, ExitKept DEF TaskStep
  <2>. QED  BY <2>1, <2>2, <2>3, CleanKept, LookKept, CloseKept DEF Next
<1>. QED  BY <1>1, <1>2, Invariance, PTL DEF Spec

\* ResultsKept: for any number of commands, conversations and places, every call
\* is answered once, and a background result and its artifacts stay until the
\* conversation has recorded it, whoever is evicted meanwhile (takeResult, Pending,
\* reserveBackgroundLocked).
THEOREM ResultsAreKept == Spec => []ResultsKept
<1>1. Kept => ResultsKept
  <2>. SUFFICES ASSUME Kept PROVE ResultsKept
    OBVIOUS
  <2>1. \A id \in Ids : OwnedTask(id)
    BY DEF Kept
  <2>2. AnsweredOnce
    BY <2>1 DEF AnsweredOnce, OwnedTask, Owned
  <2>3. ArtifactsKept
    BY <2>1 DEF Kept, ArtifactsKept, OwnedTask, Owned, Gone
  <2>. QED  BY <2>2, <2>3 DEF ResultsKept
<1>. QED  BY <1>1, KeptInvariance, PTL

\* HintOwed: however hints are coalesced, a finished background result has one in
\* the channel or being looked into until the subscriber has reconciled with it
\* (signalLocked, startShellTaskEvents).
THEOREM HintsAreOwed == Spec => []HintOwed
<1>1. Kept => HintOwed
  BY DEF Kept, Announced, HintOwed
<1>. QED  BY <1>1, KeptInvariance, PTL
=============================================================================
