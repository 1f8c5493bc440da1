----------------------------- MODULE JobManager -----------------------------
(***************************************************************************)
(* The sub-agent job manager (src/internal/job/manager.go).                *)
(*                                                                         *)
(* A job is one call of SpawnWithRunner together with the goroutine it     *)
(* may start.  Every critical section of m.mu, every disk write and every  *)
(* channel wait is a step of its own, so that admissions, runners, Wait,   *)
(* Cancel and the three Close calls interleave as they do in the program.  *)
(*                                                                         *)
(* ParentID and OwnerID are abstracted to the sets of jobs a Close call    *)
(* covers: CloseParent(p), CloseOwner(o) and Close() are three scopes.     *)
(***************************************************************************)
EXTENDS Integers, FiniteSets

CONSTANTS
  Jobs,           \* spawn calls, each with the job id it mints
  Scopes,         \* the Close calls a caller may make
  Covers,         \* the jobs each scope cancels and bars
  Bounded,        \* the scopes whose caller passes a deadline
  Clients,        \* concurrent callers of Wait and Cancel
  MaxConcurrent,  \* capacity of the slots channel
  MaxFaults,      \* bound: accesses of the store that fail
  MaxCrashes,     \* bound: process deaths
  PeerOpens       \* another process may open a Manager on the same root

ASSUME JobsAssumption == IsFiniteSet(Jobs)
ASSUME ScopesAssumption == Covers \in [Scopes -> SUBSET Jobs] /\ Bounded \subseteq Scopes
ASSUME LimitAssumption == MaxConcurrent \in Nat \ {0}
ASSUME BoundAssumption ==
  MaxFaults \in Nat /\ MaxCrashes \in Nat /\ PeerOpens \in BOOLEAN

VARIABLES
  pc,          \* program counter of the Spawn call and then of its goroutine
  slots,       \* len(m.slots)
  pending,     \* m.pending: admissions not yet registered or unwound
  live,        \* m.jobs
  meta,        \* liveJob.meta.Status
  final,       \* the terminal status run() holds before it is written
  cancelled,   \* jobs whose context is cancelled
  persistErr,  \* jobs with liveJob.persistErr # nil
  exited,      \* jobs whose done channel is closed (and exited is set)
  barred,      \* closed, closedParents and closedOwners
  disk,        \* status in meta.json, "absent" before it exists
  outcome,     \* jobs whose meta.json carries an OutcomeID
  cpc,         \* program counter of each Close call
  reap,        \* done channels a Close call still waits for
  reapAdm,     \* admission channels a Close call still waits for
  qpc,         \* program counter of each client call
  target,      \* the job a client asked about
  answer,      \* the status Wait reported
  faults,      \* accesses of the store that failed so far
  crashes,     \* process deaths so far
  proc,        \* "up", or "recovering" inside New
  peer,        \* jobs another process's recoverStale read as non-terminal
  skipped      \* leftovers whose meta.json the last New could not read

jobVars    == <<pc, final, cancelled>>
memVars    == <<slots, pending, live, meta, persistErr, exited, barred>>
diskVars   == <<disk, outcome>>
closeVars  == <<cpc, reap, reapAdm>>
clientVars == <<qpc, target, answer>>
procVars   == <<crashes, proc, peer, skipped>>
vars == <<jobVars, memVars, diskVars, closeVars, clientVars, faults, procVars>>

Terminal == {"completed", "failed", "cancelled", "timed_out"}
Status   == {"absent", "starting", "running"} \cup Terminal

\* A registered job: its Spawn call returned its id and its goroutine exists.
Registered == {"spawned", "running", "finishing", "committed", "published", "done"}
\* A job whose runner may be executing or whose final writes are outstanding.
Working == Registered \ {"done"}
\* An admission that still owns the slot it took.
Admitted == {"admitted", "created", "aborted", "barred"}
PCs == {"new", "refused", "unwinding", "gone"} \cup Admitted \cup Registered

ClosePCs  == {"idle", "waiting", "reconciling", "closed", "undelivered", "timeout"}
ClientPCs == {"idle", "load", "read", "look", "reload", "reread", "block",
              "cancel", "stat", "statread", "cancelwait",
              "terminal", "undelivered", "notfound", "lost", "notrunning",
              "stopped", "timeout"}

TypeOK ==
  /\ pc \in [Jobs -> PCs]
  /\ slots \in 0..MaxConcurrent
  /\ pending \subseteq Jobs /\ live \subseteq Jobs
  /\ meta \in [Jobs -> Status]
  /\ final \in [Jobs -> Terminal \cup {"none"}]
  /\ cancelled \subseteq Jobs /\ persistErr \subseteq Jobs /\ exited \subseteq Jobs
  /\ barred \subseteq Scopes
  /\ disk \in [Jobs -> Status]
  /\ outcome \subseteq Jobs
  /\ cpc \in [Scopes -> ClosePCs]
  /\ reap \in [Scopes -> SUBSET Jobs] /\ reapAdm \in [Scopes -> SUBSET Jobs]
  /\ qpc \in [Clients -> ClientPCs]
  /\ target \in [Clients -> Jobs \cup {"none"}]
  /\ answer \in [Clients -> Terminal \cup {"none"}]
  /\ faults \in 0..MaxFaults
  /\ crashes \in 0..MaxCrashes
  /\ proc \in {"up", "recovering"}
  /\ peer \subseteq Jobs /\ skipped \subseteq Jobs

Init ==
  /\ pc = [j \in Jobs |-> "new"]
  /\ slots = 0
  /\ pending = {} /\ live = {}
  /\ meta = [j \in Jobs |-> "absent"]
  /\ final = [j \in Jobs |-> "none"]
  /\ cancelled = {} /\ persistErr = {} /\ exited = {}
  /\ barred = {}
  /\ disk = [j \in Jobs |-> "absent"]
  /\ outcome = {}
  /\ cpc = [s \in Scopes |-> "idle"]
  /\ reap = [s \in Scopes |-> {}] /\ reapAdm = [s \in Scopes |-> {}]
  /\ qpc = [q \in Clients |-> "idle"]
  /\ target = [q \in Clients |-> "none"]
  /\ answer = [q \in Clients |-> "none"]
  /\ faults = 0 /\ crashes = 0
  /\ proc = "up" /\ peer = {} /\ skipped = {}

Barred(j) == \E s \in barred : j \in Covers[s]

\* One access of the store that fails; the store may fail MaxFaults times.
StoreFails == faults < MaxFaults /\ faults' = faults + 1

Goto(j, label) == pc' = [pc EXCEPT ![j] = label]

(***************************************************************************)
(* SpawnWithRunner                                                         *)
(***************************************************************************)

\* Mutant of Admit: the bars are only checked at registration.
AdmitUnbarred(j) ==
  /\ proc = "up" /\ pc[j] = "new"
  /\ slots < MaxConcurrent
  /\ slots' = slots + 1
  /\ pending' = pending \cup {j}
  /\ Goto(j, "admitted")
  /\ UNCHANGED <<final, cancelled, live, meta, persistErr, exited, barred,
                 diskVars, closeVars, clientVars, faults, procVars>>

\* First critical section: the bars are checked, the slot is taken and the
\* admission is recorded under one hold of m.mu; a full channel is ErrBusy.
Admit(j) ==
  /\ proc = "up" /\ pc[j] = "new"
  /\ ~Barred(j)
  /\ slots < MaxConcurrent
  /\ slots' = slots + 1
  /\ pending' = pending \cup {j}
  /\ Goto(j, "admitted")
  /\ UNCHANGED <<final, cancelled, live, meta, persistErr, exited, barred,
                 diskVars, closeVars, clientVars, faults, procVars>>

\* ErrClosed or ErrBusy: nothing but the call's return changes.
Refuse(j) ==
  /\ proc = "up" /\ pc[j] = "new"
  /\ Barred(j) \/ slots = MaxConcurrent
  /\ Goto(j, "refused")
  /\ UNCHANGED <<final, cancelled, memVars, diskVars, closeVars, clientVars, faults, procVars>>

\* store.create succeeded.
Create(j) ==
  /\ proc = "up" /\ pc[j] = "admitted"
  /\ disk' = [disk EXCEPT ![j] = "starting"]
  /\ Goto(j, "created")
  /\ UNCHANGED <<final, cancelled, memVars, outcome, closeVars, clientVars, faults, procVars>>

\* Mutant of CreateFails: the error path keeps the slot.
CreateFailsKeepsSlot(j) ==
  /\ proc = "up" /\ pc[j] = "admitted"
  /\ StoreFails
  /\ disk' \in {disk, [disk EXCEPT ![j] = "starting"]}
  /\ Goto(j, "unwinding")
  /\ UNCHANGED <<final, cancelled, memVars, outcome, closeVars, clientVars, procVars>>

\* store.create failed, before meta.json was written or after it (events or
\* scope): the slot goes back, the admission is removed by the deferred call.
CreateFails(j) ==
  /\ proc = "up" /\ pc[j] = "admitted"
  /\ StoreFails
  /\ disk' \in {disk, [disk EXCEPT ![j] = "starting"]}
  /\ slots' = slots - 1
  /\ Goto(j, "unwinding")
  /\ UNCHANGED <<final, cancelled, pending, live, meta, persistErr, exited, barred,
                 outcome, closeVars, clientVars, procVars>>

\* The context of the Spawn call itself ended before the job was registered.
SpawnAborted(j) ==
  /\ proc = "up" /\ pc[j] = "created"
  /\ Goto(j, "aborted")
  /\ UNCHANGED <<final, cancelled, memVars, diskVars, closeVars, clientVars, faults, procVars>>

\* Mutant of Register: the bars are not checked a second time.
RegisterUnchecked(j) ==
  /\ proc = "up" /\ pc[j] = "created"
  /\ live' = live \cup {j}
  /\ pending' = pending \ {j}
  /\ meta' = [meta EXCEPT ![j] = "starting"]
  /\ Goto(j, "spawned")
  /\ UNCHANGED <<final, cancelled, slots, persistErr, exited, barred, diskVars, closeVars,
                 clientVars, faults, procVars>>

\* Second critical section: the bars are checked again; a job that may start
\* moves from pending to jobs atomically.
Register(j) ==
  /\ proc = "up" /\ pc[j] = "created"
  /\ IF Barred(j)
       THEN /\ Goto(j, "barred")
            /\ UNCHANGED <<pending, live, meta>>
       ELSE /\ live' = live \cup {j}
            /\ pending' = pending \ {j}
            /\ meta' = [meta EXCEPT ![j] = "starting"]
            /\ Goto(j, "spawned")
  /\ UNCHANGED <<final, cancelled, slots, persistErr, exited, barred, diskVars, closeVars,
                 clientVars, faults, procVars>>

\* The refused or aborted admission records StatusCancelled (persistMeta
\* ignores a failure) and then gives its slot back.
DropAdmission(j) ==
  /\ proc = "up" /\ pc[j] \in {"aborted", "barred"}
  /\ \/ disk' = [disk EXCEPT ![j] = "cancelled"] /\ UNCHANGED faults
     \/ StoreFails /\ UNCHANGED disk
  /\ slots' = slots - 1
  /\ Goto(j, "unwinding")
  /\ UNCHANGED <<final, cancelled, pending, live, meta, persistErr, exited, barred,
                 outcome, closeVars, clientVars, procVars>>

\* Mutant of Unwind: the deferred removal of the admission is missing.
UnwindForgets(j) ==
  /\ proc = "up" /\ pc[j] = "unwinding"
  /\ Goto(j, "refused")
  /\ UNCHANGED <<final, cancelled, memVars, diskVars, closeVars, clientVars, faults, procVars>>

\* The deferred removal of the admission; its channel is closed.
Unwind(j) ==
  /\ proc = "up" /\ pc[j] = "unwinding"
  /\ pending' = pending \ {j}
  /\ Goto(j, "refused")
  /\ UNCHANGED <<final, cancelled, slots, live, meta, persistErr, exited, barred,
                 diskVars, closeVars, clientVars, faults, procVars>>

(***************************************************************************)
(* run: the job's goroutine                                                *)
(***************************************************************************)

\* StatusRunning is written (a failure is only reported), then published.
Start(j) ==
  /\ proc = "up" /\ pc[j] = "spawned"
  /\ \/ disk' = [disk EXCEPT ![j] = "running"] /\ UNCHANGED faults
     \/ StoreFails /\ UNCHANGED disk
  /\ meta' = [meta EXCEPT ![j] = "running"]
  /\ Goto(j, "running")
  /\ UNCHANGED <<final, cancelled, slots, pending, live, persistErr, exited, barred,
                 outcome, closeVars, clientVars, procVars>>

\* Mutant of BindSession: a runner's callback still writes after Run returned.
BindSessionLate(j) ==
  /\ proc = "up" /\ pc[j] \in {"running", "published"}
  /\ disk' = [disk EXCEPT ![j] = "running"]
  /\ UNCHANGED <<jobVars, memVars, outcome, closeVars, clientVars, faults, procVars>>

\* RunEnv.BindSession: the runner rewrites the running meta with its child id.
BindSession(j) ==
  /\ proc = "up" /\ pc[j] = "running"
  /\ disk' = [disk EXCEPT ![j] = "running"]
  /\ UNCHANGED <<jobVars, memVars, outcome, closeVars, clientVars, faults, procVars>>

\* Mutant of RunnerReturns: the terminal status is published before it is written.
RunnerReturnsPublished(j) ==
  /\ proc = "up" /\ pc[j] = "running"
  /\ \E st \in Terminal :
       /\ st \in (IF j \in cancelled THEN {"cancelled", "timed_out"} ELSE Terminal)
       /\ final' = [final EXCEPT ![j] = st]
       /\ meta' = [meta EXCEPT ![j] = st]
  /\ Goto(j, "finishing")
  /\ UNCHANGED <<cancelled, slots, pending, live, persistErr, exited, barred,
                 diskVars, closeVars, clientVars, faults, procVars>>

\* The runner returned: a cancelled context decides the status, a deadline
\* can pass at any time, and otherwise the runner's own result does.
RunnerReturns(j) ==
  /\ proc = "up" /\ pc[j] = "running"
  /\ \E st \in Terminal :
       /\ st \in (IF j \in cancelled THEN {"cancelled", "timed_out"} ELSE Terminal)
       /\ final' = [final EXCEPT ![j] = st]
  /\ Goto(j, "finishing")
  /\ UNCHANGED <<cancelled, memVars, diskVars, closeVars, clientVars, faults, procVars>>

\* The terminal status and the OutcomeID are one meta.json write.  When it
\* fails, the job keeps the envelope in memory and its error.
CommitOutcome(j) ==
  /\ proc = "up" /\ pc[j] = "finishing"
  /\ \/ /\ disk' = [disk EXCEPT ![j] = final[j]]
        /\ outcome' = outcome \cup {j}
        /\ UNCHANGED <<meta, persistErr, faults>>
     \/ /\ StoreFails
        /\ meta' = [meta EXCEPT ![j] = final[j]]
        /\ persistErr' = persistErr \cup {j}
        /\ UNCHANGED diskVars
  /\ Goto(j, "committed")
  /\ UNCHANGED <<final, cancelled, slots, pending, live, exited, barred,
                 closeVars, clientVars, procVars>>

\* setLiveMeta, then the onOutcome hint.
Publish(j) ==
  /\ proc = "up" /\ pc[j] = "committed"
  /\ meta' = [meta EXCEPT ![j] = final[j]]
  /\ Goto(j, "published")
  /\ UNCHANGED <<final, cancelled, slots, pending, live, persistErr, exited, barred,
                 diskVars, closeVars, clientVars, faults, procVars>>

\* The deferred block of run: a job whose outcome is not durable keeps its
\* entry and its slot; done is closed either way.
Exit(j) ==
  /\ proc = "up" /\ pc[j] = "published"
  /\ exited' = exited \cup {j}
  /\ IF j \in persistErr
       THEN UNCHANGED <<live, slots>>
       ELSE live' = live \ {j} /\ slots' = slots - 1
  /\ cancelled' = cancelled \cup {j}
  /\ Goto(j, "done")
  /\ UNCHANGED <<final, pending, meta, persistErr, barred,
                 diskVars, closeVars, clientVars, faults, procVars>>

(***************************************************************************)
(* reconcileOutcomeLocked over the jobs in R, of which the writes of those *)
(* in F fail.  It runs under m.mu, whoever calls it.                       *)
(***************************************************************************)
Reconcile(R, F) ==
  LET wrote == (R \cap persistErr) \ F
      freed == wrote \cap exited
  IN  /\ F \subseteq R \cap persistErr
      /\ faults + Cardinality(F) <= MaxFaults
      /\ faults' = faults + Cardinality(F)
      /\ disk' = [j \in Jobs |-> IF j \in wrote THEN meta[j] ELSE disk[j]]
      /\ outcome' = outcome \cup wrote
      /\ persistErr' = persistErr \ wrote
      /\ live' = live \ freed
      /\ slots' = slots - Cardinality(freed)

(***************************************************************************)
(* Wait and Cancel                                                         *)
(***************************************************************************)

Step(q, from, to) == qpc[q] = from /\ qpc' = [qpc EXCEPT ![q] = to]

\* A client asks about a job whose Spawn call returned its id, in this
\* process or in one that died.
CallWait(q, j) ==
  /\ proc = "up" /\ pc[j] \in Registered \cup {"gone"}
  /\ Step(q, "idle", "load")
  /\ target' = [target EXCEPT ![q] = j]
  /\ UNCHANGED <<answer, jobVars, memVars, diskVars, closeVars, faults, procVars>>

CallCancel(q, j) ==
  /\ proc = "up" /\ pc[j] \in Registered \cup {"gone"}
  /\ Step(q, "idle", "cancel")
  /\ target' = [target EXCEPT ![q] = j]
  /\ UNCHANGED <<answer, jobVars, memVars, diskVars, closeVars, faults, procVars>>

\* loadInfo, its critical section: a live job is reconciled and its meta is
\* used; for a job that is not live the lock is dropped and the disk is read.
Load(q, from, otherwise, reading) ==
  LET j == target[q]
  IN  /\ proc = "up" /\ qpc[q] = from
      /\ IF j \in live
           THEN \E F \in SUBSET {j} :
                  /\ Reconcile({j}, F)
                  /\ qpc' = [qpc EXCEPT ![q] =
                       IF F # {} THEN "undelivered"
                       ELSE IF meta[j] \in Terminal THEN "terminal" ELSE otherwise]
                  /\ answer' = [answer EXCEPT ![q] =
                       IF F = {} /\ meta[j] \in Terminal THEN meta[j] ELSE "none"]
           ELSE /\ qpc' = [qpc EXCEPT ![q] = reading]
                /\ UNCHANGED <<answer, slots, live, persistErr, diskVars, faults>>
      /\ UNCHANGED <<target, jobVars, pending, meta, exited, barred, closeVars, procVars>>

\* loadInfo, the read of meta.json after the lock was dropped; when it fails,
\* the call returns the store's error.
Read(q, from, otherwise) ==
  LET st == disk[target[q]]
  IN  /\ proc = "up" /\ qpc[q] = from
      /\ \/ /\ qpc' = [qpc EXCEPT ![q] = CASE st = "absent"   -> "notfound"
                                            [] st \in Terminal -> "terminal"
                                            [] OTHER           -> otherwise]
            /\ answer' = [answer EXCEPT ![q] = IF st \in Terminal THEN st ELSE "none"]
            /\ UNCHANGED faults
         \/ /\ StoreFails
            /\ qpc' = [qpc EXCEPT ![q] = "notfound"]
            /\ answer' = [answer EXCEPT ![q] = "none"]
      /\ UNCHANGED <<target, jobVars, memVars, diskVars, closeVars, procVars>>

\* Mutant of Look: Wait does not look at the disk again for a job that left.
LookOnce(q) ==
  /\ proc = "up"
  /\ Step(q, "look", IF target[q] \in live THEN "block" ELSE "lost")
  /\ UNCHANGED <<target, answer, jobVars, memVars, diskVars, closeVars, faults, procVars>>

\* Wait takes the done channel of a job that is still live, and looks at the
\* disk once more for one that is not.
Look(q) ==
  /\ proc = "up"
  /\ Step(q, "look", IF target[q] \in live THEN "block" ELSE "reload")
  /\ UNCHANGED <<target, answer, jobVars, memVars, diskVars, closeVars, faults, procVars>>

\* done was closed: Wait loops.
Woken(q) ==
  /\ proc = "up" /\ target[q] \in exited
  /\ Step(q, "block", "load")
  /\ UNCHANGED <<target, answer, jobVars, memVars, diskVars, closeVars, faults, procVars>>

\* The caller's context ended first: the job goes on.
TimesOut(q) ==
  /\ proc = "up"
  /\ \/ Step(q, "block", "timeout")
     \/ Step(q, "cancelwait", "timeout")
  /\ UNCHANGED <<target, answer, jobVars, memVars, diskVars, closeVars, faults, procVars>>

\* Cancel cancels the context of a live job; the look-up and the call of
\* cancel are apart, but the job's cancel function outlives its entry.
CancelLive(q) ==
  /\ proc = "up" /\ target[q] \in live
  /\ Step(q, "cancel", "cancelwait")
  /\ cancelled' = cancelled \cup {target[q]}
  /\ UNCHANGED <<target, answer, pc, final, memVars, diskVars, closeVars, faults, procVars>>

CancelAbsent(q) ==
  /\ proc = "up" /\ target[q] \notin live
  /\ Step(q, "cancel", "stat")
  /\ UNCHANGED <<target, answer, jobVars, memVars, diskVars, closeVars, faults, procVars>>

CancelDone(q) ==
  /\ proc = "up" /\ target[q] \in exited
  /\ Step(q, "cancelwait", "stopped")
  /\ UNCHANGED <<target, answer, jobVars, memVars, diskVars, closeVars, faults, procVars>>

\* The call returned; the client may make another.
Return(q) ==
  /\ qpc[q] \in {"terminal", "undelivered", "notfound", "lost", "notrunning",
                 "stopped", "timeout"}
  /\ qpc' = [qpc EXCEPT ![q] = "idle"]
  /\ target' = [target EXCEPT ![q] = "none"]
  /\ answer' = [answer EXCEPT ![q] = "none"]
  /\ UNCHANGED <<jobVars, memVars, diskVars, closeVars, faults, procVars>>

\* List, Get, Log and PendingOutcomes retry the writes of the jobs they meet;
\* a query whose context ends has met any part of them.
Query(R) ==
  /\ proc = "up" /\ R \subseteq persistErr /\ R # {}
  /\ \E F \in SUBSET R : Reconcile(R, F)
  /\ UNCHANGED <<jobVars, pending, meta, exited, barred, closeVars, clientVars, procVars>>

(***************************************************************************)
(* CloseParent, CloseOwner and Close                                       *)
(***************************************************************************)

\* One critical section bars the scope, cancels its live jobs and collects
\* the channels to wait for.  A call may be repeated after it returned.
CallClose(s) ==
  /\ proc = "up" /\ cpc[s] \notin {"waiting", "reconciling"}
  /\ barred' = barred \cup {s}
  /\ cancelled' = cancelled \cup (live \cap Covers[s])
  /\ reap' = [reap EXCEPT ![s] = live \cap Covers[s]]
  /\ reapAdm' = [reapAdm EXCEPT ![s] = pending \cap Covers[s]]
  /\ cpc' = [cpc EXCEPT ![s] = "waiting"]
  /\ UNCHANGED <<pc, final, slots, pending, live, meta, persistErr, exited,
                 diskVars, clientVars, faults, procVars>>

\* Every collected channel is closed.
CloseDrained(s) ==
  /\ proc = "up" /\ cpc[s] = "waiting"
  /\ reap[s] \subseteq exited
  /\ reapAdm[s] \cap pending = {}
  /\ cpc' = [cpc EXCEPT ![s] = "reconciling"]
  /\ reap' = [reap EXCEPT ![s] = {}]
  /\ reapAdm' = [reapAdm EXCEPT ![s] = {}]
  /\ UNCHANGED <<jobVars, memVars, diskVars, clientVars, faults, procVars>>

\* The deadline of CloseParent or CloseOwner ends the wait, not the jobs.
CloseTimesOut(s) ==
  /\ proc = "up" /\ cpc[s] = "waiting" /\ s \in Bounded
  /\ cpc' = [cpc EXCEPT ![s] = "timeout"]
  /\ reap' = [reap EXCEPT ![s] = {}]
  /\ reapAdm' = [reapAdm EXCEPT ![s] = {}]
  /\ UNCHANGED <<jobVars, memVars, diskVars, clientVars, faults, procVars>>

\* The final writes of the scope are retried under one hold of m.mu.
CloseReconcile(s) ==
  /\ proc = "up" /\ cpc[s] = "reconciling"
  /\ \E R \in SUBSET (live \cap Covers[s]) : \E F \in SUBSET R :
       /\ Reconcile(R, F)
       /\ \/ /\ R = live \cap Covers[s]
             /\ cpc' = [cpc EXCEPT ![s] = IF F = {} THEN "closed" ELSE "undelivered"]
          \/ /\ s \in Bounded      \* its context ended between two jobs
             /\ cpc' = [cpc EXCEPT ![s] = "timeout"]
  /\ UNCHANGED <<reap, reapAdm, jobVars, pending, meta, exited, barred, clientVars, procVars>>

(***************************************************************************)
(* The process dies and a new one opens the store                          *)
(***************************************************************************)

Crash ==
  /\ crashes < MaxCrashes
  /\ crashes' = crashes + 1
  /\ proc' = "recovering"
  /\ pc' = [j \in Jobs |-> IF pc[j] = "new" THEN "new" ELSE "gone"]
  /\ slots' = 0
  /\ pending' = {} /\ live' = {}
  /\ meta' = [j \in Jobs |-> "absent"]
  /\ final' = [j \in Jobs |-> "none"]
  /\ cancelled' = {} /\ persistErr' = {} /\ exited' = {}
  /\ barred' = {}
  /\ cpc' = [s \in Scopes |-> "idle"]
  /\ reap' = [s \in Scopes |-> {}] /\ reapAdm' = [s \in Scopes |-> {}]
  /\ qpc' = [q \in Clients |-> "idle"]
  /\ target' = [q \in Clients |-> "none"]
  /\ answer' = [q \in Clients |-> "none"]
  /\ skipped' = {}
  /\ UNCHANGED <<diskVars, faults, peer>>

Stale(j) == disk[j] \in {"starting", "running"}

\* recoverStale marks a leftover job failed.  A record it cannot read is only
\* reported and passed over; a write that fails fails New, and the next
\* attempt starts over.
Recover(j) ==
  /\ proc = "recovering" /\ Stale(j) /\ j \notin skipped
  /\ \/ disk' = [disk EXCEPT ![j] = "failed"] /\ UNCHANGED <<skipped, faults>>
     \/ StoreFails /\ skipped' = skipped \cup {j} /\ UNCHANGED disk
     \/ StoreFails /\ skipped' = {} /\ UNCHANGED disk
  /\ UNCHANGED <<outcome, jobVars, memVars, closeVars, clientVars, crashes, proc, peer>>

\* New returns once it has met every record.
Recovered ==
  /\ proc = "recovering" /\ \A j \in Jobs : Stale(j) => j \in skipped
  /\ proc' = "up"
  /\ UNCHANGED <<crashes, peer, skipped, jobVars, memVars, diskVars, closeVars, clientVars, faults>>

\* Another process runs New on the same root: it reads a job's meta.json and,
\* when the status it read was not terminal, writes its own copy back failed.
PeerReads(j) ==
  /\ PeerOpens /\ Stale(j) /\ j \notin peer
  /\ peer' = peer \cup {j}
  /\ UNCHANGED <<jobVars, memVars, diskVars, closeVars, clientVars, faults, crashes, proc, skipped>>

PeerWrites(j) ==
  /\ j \in peer
  /\ peer' = peer \ {j}
  /\ disk' = [disk EXCEPT ![j] = "failed"]
  /\ outcome' = outcome \ {j}
  /\ UNCHANGED <<jobVars, memVars, closeVars, clientVars, faults, crashes, proc, skipped>>

SpawnStep(j) ==
  \/ Create(j) \/ CreateFails(j) \/ SpawnAborted(j) \/ Register(j)
  \/ DropAdmission(j) \/ Unwind(j)

RunStep(j) == Start(j) \/ CommitOutcome(j) \/ Publish(j) \/ Exit(j)

JobStep(j) ==
  \/ Admit(j) \/ Refuse(j) \/ SpawnStep(j)
  \/ RunStep(j) \/ BindSession(j) \/ RunnerReturns(j)
  \/ Recover(j) \/ PeerReads(j) \/ PeerWrites(j)

ClientStep(q) ==
  \/ \E j \in Jobs : CallWait(q, j) \/ CallCancel(q, j)
  \/ Load(q, "load", "look", "read")
  \/ Read(q, "read", "look")
  \/ Look(q)
  \/ Load(q, "reload", "lost", "reread")
  \/ Read(q, "reread", "lost")
  \/ Woken(q) \/ TimesOut(q)
  \/ CancelLive(q) \/ CancelAbsent(q)
  \/ Load(q, "stat", "notrunning", "statread")
  \/ Read(q, "statread", "notrunning")
  \/ CancelDone(q)
  \/ Return(q)

CloseStep(s) == CallClose(s) \/ CloseDrained(s) \/ CloseTimesOut(s) \/ CloseReconcile(s)

Next ==
  \/ \E j \in Jobs : JobStep(j)
  \/ \E q \in Clients : ClientStep(q)
  \/ \E s \in Scopes : CloseStep(s)
  \/ \E R \in SUBSET Jobs : Query(R)
  \/ Crash \/ Recovered

\* Goroutines are scheduled fairly, a runner honours cancellation, and New and
\* the Close and Wait calls run to their next blocking point.  No runner has
\* to return by itself, no caller has to call, and nobody has to retry a write.
Fairness ==
  /\ \A j \in Jobs : /\ WF_vars(SpawnStep(j))
                     /\ WF_vars(RunStep(j))
                     /\ WF_vars(j \in cancelled /\ RunnerReturns(j))
                     /\ WF_vars(Recover(j))
  /\ \A s \in Scopes : WF_vars(CloseDrained(s) \/ CloseReconcile(s))
  /\ \A q \in Clients : WF_vars(Woken(q) \/ CancelDone(q))
  /\ WF_vars(Recovered)

Spec == Init /\ [][Next]_vars
FairSpec == Spec /\ Fairness

(***************************************************************************)
(* Properties                                                              *)
(***************************************************************************)

\* The jobs that own one of the slots.
Holders == live \cup {j \in Jobs : pc[j] \in Admitted}

\* The slots channel holds one token for each admission that may still start
\* and each job that is still in m.jobs: no path of Spawn, run, a failed final
\* write or a later reconciliation leaks a slot or returns one twice, so at
\* most MaxConcurrent runners ever execute.
SlotsExact == slots = Cardinality(Holders)

\* Wait answers "disappeared while non-terminal", and Cancel ErrNotRunning,
\* for a job whose id Spawn returned only if it is a leftover of a dead process
\* whose record this one's recovery could not read: otherwise the job's move
\* from memory to disk is never caught half way, by any interleaving of the
\* reads these calls make without a common lock, crash and recovery included.
NeverLosesJob ==
  \A q \in Clients : qpc[q] \in {"lost", "notrunning"} => target[q] \in skipped

\* What New's comment promises (manager.go:92-93): a process restart does not leave
\* Wait/Cancel zombies.  The record recovery skips is one.
NoZombies == \A q \in Clients : qpc[q] \notin {"lost", "notrunning"}

\* The status Wait or Get reports is the durable one: a result whose final
\* write failed is reported as an error, never as the status in memory.
AnswersAreDurable ==
  \A q \in Clients : answer[q] # "none" =>
    answer[q] = disk[target[q]] /\ (pc[target[q]] \in Registered => target[q] \in outcome)

\* Once a Close call has drained its channels, no admission or runner it
\* covers is left and none starts later: a Spawn caught between its two
\* critical sections cannot slip a runner past the shutdown.
NothingRunsAfterClose ==
  \A s \in Scopes : cpc[s] \in {"reconciling", "closed", "undelivered"} =>
    \A j \in Covers[s] : /\ j \notin pending
                         /\ pc[j] \notin Admitted \cup {"unwinding"} \cup Working

\* A terminal status in meta.json of a job this process still tracks is the
\* one its run() decided, never one another process's recovery invented.
LiveJobNotMarkedFailed ==
  \A j \in live : disk[j] \in Terminal => disk[j] = final[j]

\* A durable outcome is immutable: retried writes, a restart's recovery and
\* late callbacks never change the status or drop the OutcomeID of a job that
\* has one.
OutcomeImmutable ==
  [][\A j \in outcome : j \in outcome' /\ disk'[j] = disk[j]]_vars

\* A Close call returns although admissions are in flight, runners need
\* cancelling and final writes fail; it waits for nothing that waits for it.
CloseReturns ==
  \A s \in Scopes : cpc[s] \in {"waiting", "reconciling"} ~>
                    cpc[s] \notin {"waiting", "reconciling"}

(***************************************************************************)
(* The inductive invariant behind SlotsExact and NothingRunsAfterClose     *)
(***************************************************************************)

\* How the sets the manager keeps follow from where each job is.
Shape ==
  /\ pending = {j \in Jobs : pc[j] \in Admitted \cup {"unwinding"}}
  /\ live = {j \in Jobs : pc[j] \in Working \/ (pc[j] = "done" /\ j \in persistErr)}
  /\ exited = {j \in Jobs : pc[j] = "done"}
  /\ persistErr \subseteq {j \in Jobs : pc[j] \in {"committed", "published", "done"}}
  /\ \A j \in Jobs : pc[j] \in {"finishing", "committed", "published", "done"} =>
       final[j] \in Terminal
  /\ proc = "recovering" => \A j \in Jobs : pc[j] \in {"new", "gone"}

\* What a Close call still has to wait for, and what it has achieved.
CloseShape ==
  \A s \in Scopes :
    /\ cpc[s] # "idle" => s \in barred
    /\ cpc[s] = "waiting" => \A j \in Covers[s] :
         /\ pc[j] \in Working => j \in reap[s]
         /\ j \in pending => j \in reapAdm[s]

IInv == TypeOK /\ Shape /\ SlotsExact /\ CloseShape /\ NothingRunsAfterClose

(***************************************************************************)
(* The inductive invariant behind NeverLosesJob, AnswersAreDurable,        *)
(* OutcomeImmutable and ImplementsPool, for a store of one process.        *)
(***************************************************************************)

\* A job whose final write was attempted.
Written == {"committed", "published", "done"}

\* What meta.json, the entry in memory and the recorded error say of one job,
\* at each place of its goroutine.
Recorded(j) ==
  /\ j \in outcome => /\ disk[j] \in Terminal /\ j \notin persistErr
                      /\ pc[j] \in Written \cup {"gone"}
                      /\ pc[j] \in Written => disk[j] = final[j]
  /\ pc[j] \in {"created"} \cup Registered /\ j \notin outcome => Stale(j)
  /\ pc[j] \in Written => j \in outcome \cup persistErr
  /\ j \in persistErr => meta[j] = final[j]
  /\ meta[j] \in Terminal => pc[j] \in Written /\ meta[j] = final[j]
  /\ proc = "up" /\ pc[j] = "gone" /\ Stale(j) => j \in skipped

\* What a caller of Wait or Cancel may rely on: the id it asks about was
\* returned, and a job it saw leave memory does not come back.
Asked(q) ==
  /\ qpc[q] # "idle" => target[q] \in Jobs /\ pc[target[q]] \in Registered \cup {"gone"}
  /\ qpc[q] \in {"reload", "reread", "stat", "statread"} => target[q] \notin live
  /\ answer[q] # "none" => qpc[q] = "terminal"
  /\ proc = "recovering" => qpc[q] = "idle"

StoreInv ==
  /\ peer = {}
  /\ \A j \in Jobs : Recorded(j)
  /\ \A q \in Clients : Asked(q)
  /\ NeverLosesJob /\ AnswersAreDurable

(***************************************************************************)
(* The manager implements the pool contract of JobPool.                    *)
(***************************************************************************)
Phase(j) ==
  CASE pc[j] = "new"                       -> "idle"
    [] pc[j] \in Admitted                  -> "held"
    [] pc[j] \in Registered /\ j \in live    -> "running"
    [] pc[j] \in Registered /\ j \notin live -> "settled"
    [] pc[j] = "gone" /\ j \in outcome     -> "settled"
    [] OTHER                               -> "dropped"

Pool == INSTANCE JobPool WITH
          phase <- [j \in Jobs |-> Phase(j)], closed <- barred, durable <- outcome

ImplementsPool == Pool!Spec
=============================================================================
