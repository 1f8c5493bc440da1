-------------------------- MODULE LanguageServers --------------------------
(***************************************************************************)
(* The language servers of a workspace: src/internal/lsp.  Queries of any  *)
(* number of agents share one gopls process per Go root.  The first query  *)
(* of a root starts it, the ones that arrive meanwhile wait for that       *)
(* start; a server that died is replaced by the next query; a breaker      *)
(* bounds the starts; Close shuts the servers down and ends the lifetime   *)
(* every process was started under.                                        *)
(*                                                                         *)
(* Roots share nothing but the closed flag and the lifetime, so one root   *)
(* is modelled.  A generation is one server process with its connection;   *)
(* generation 0 stands for none.  Documents and diagnostics are the        *)
(* subject of module Diagnostics.                                          *)
(***************************************************************************)
EXTENDS Naturals, FiniteSets

CONSTANTS
  Queries,          \* the callers of Query: each asks, returns and may ask again
  None,             \* no query
  MaxGenerations,   \* bound: processes spawned
  MayStall,         \* bound: the generations that may stop reading
  MaxStartAttempts  \* starts the breaker allows within its window

ASSUME QueriesAssumption == None \notin Queries
ASSUME BoundsAssumption == MaxGenerations \in Nat /\ MaxStartAttempts \in Nat

VARIABLES
  query,     \* query[q]: where q's query is, and its locals
  clients,   \* m.clients[root]
  starts,    \* m.starts[root]: the query that runs the start task
  attempts,  \* starts the breaker remembers
  process,   \* process[g]: "unborn", "running", "deaf" or "dead"
  done,      \* generations whose connection failed: c.done is closed
  swept,     \* failed generations whose pending calls were told
  pending,   \* pending[g]: queries with a call registered at g
  close,     \* Close's progress: "open", "closing", "dropped", "cancelled"
  leaving    \* the generation Close found registered

startVars == <<clients, starts, attempts>>
serverVars == <<process, done, swept, pending>>
closeVars == <<close, leaving>>
vars == <<query, startVars, serverVars, closeVars>>

Generations == 1..MaxGenerations

\* Between two queries.  gen is the server the query started, was given or talks
\* to, joined the query whose start it waits for, task the outcome of the start
\* it runs or waits for ("open" until task.done is closed), box the one-place
\* channel of its pending call.
Idle == [pc |-> "idle", gen |-> 0, joined |-> None, task |-> "open", box |-> "none"]

Init ==
  /\ query = [q \in Queries |-> Idle]
  /\ clients = 0
  /\ starts = None
  /\ attempts = 0
  /\ process = [g \in Generations |-> "unborn"]
  /\ done = {}
  /\ swept = {}
  /\ pending = [g \in Generations |-> {}]
  /\ close = "open"
  /\ leaving = 0

Lifetime == close # "cancelled"   \* the lifetime of the processes

\* A deaf server runs and has stopped reading its stdin, so that the pipe is full:
\* whoever writes to it blocks, and others behind it on writeMu, with no regard to
\* deadlines.  (One that only pauses makes a write late.)  The pipe of a dead one
\* takes the frame or refuses it at once.
Alive(g) == process[g] \in {"running", "deaf"}
CanWrite(g) == process[g] # "deaf"

At(q, where) == query[q].pc = where
Underway(q) == ~At(q, "idle")

Go(q, where) == query' = [query EXCEPT ![q].pc = where]
Return(q) == query' = [query EXCEPT ![q] = Idle]
Serve(q, g) == query' = [query EXCEPT ![q] = [Idle EXCEPT !.pc = "serving", !.gen = g]]

(***************************************************************************)
(* Finding or starting the server.                                         *)
(***************************************************************************)

\* A new query.  The closed flag is read once, and its lock is given back.
Enter(q) ==
  /\ ~Underway(q)
  /\ close = "open"
  /\ query' = [query EXCEPT ![q] = [Idle EXCEPT !.pc = "entered"]]
  /\ UNCHANGED <<startVars, serverVars, closeVars>>

\* A live server is shared.
Reuse(q) ==
  /\ At(q, "entered")
  /\ clients # 0 /\ clients \notin done
  /\ Serve(q, clients)
  /\ UNCHANGED <<startVars, serverVars, closeVars>>

\* A dead one is forgotten, and a start under way is waited for; its outcome
\* may be known already, though not yet registered.
Join(q) ==
  /\ At(q, "entered")
  /\ clients \in done \cup {0}
  /\ clients' = 0
  /\ starts # None
  /\ query' = [query EXCEPT ![q] =
       [Idle EXCEPT !.pc = "joining", !.joined = starts,
                    !.gen = query[starts].gen, !.task = query[starts].task]]
  /\ UNCHANGED <<starts, attempts, serverVars, closeVars>>

BeginStart(q) ==
  /\ At(q, "entered")
  /\ clients \in done \cup {0}
  /\ clients' = 0
  /\ starts = None
  /\ starts' = q
  /\ Go(q, "starting")
  /\ UNCHANGED <<attempts, serverVars, closeVars>>

\* Closing task.done: the outcome is that of q and of all who wait for q.
Waiting(q) == {p \in Queries : At(p, "joining") /\ query[p].joined = q /\ query[p].task = "open"}
Told(q, outcome) ==
  [p \in Queries |->
     IF p \in Waiting(q) THEN [query[p] EXCEPT !.task = outcome, !.gen = query[q].gen]
     ELSE query[p]]

\* No executable, or the breaker is open: the task leaves the table, then its
\* waiters are told.
RefuseStart(q) ==
  /\ At(q, "starting")
  /\ starts' = None
  /\ query' = [Told(q, "failed") EXCEPT ![q] = Idle]
  /\ UNCHANGED <<clients, attempts, serverVars, closeVars>>

\* Mutant: the breaker refuses one start too late.
AllowStartOneMore(q) ==
  /\ At(q, "starting")
  /\ attempts <= MaxStartAttempts
  /\ Go(q, "allowed")
  /\ UNCHANGED <<startVars, serverVars, closeVars>>

\* The breaker is asked and told in two separate calls.
AllowStart(q) ==
  /\ At(q, "starting")
  /\ attempts < MaxStartAttempts
  /\ Go(q, "allowed")
  /\ UNCHANGED <<startVars, serverVars, closeVars>>

\* The oldest start leaves the breaker's window.
WindowPasses ==
  /\ attempts > 0
  /\ attempts' = attempts - 1
  /\ UNCHANGED <<query, clients, starts, serverVars, closeVars>>

TaskDone(q, outcome) ==
  query' = [Told(q, outcome) EXCEPT ![q].pc = "registering", ![q].task = outcome]

\* The start is recorded, then the process is spawned; nothing is once the
\* lifetime has ended.
Spawn(q) ==
  /\ At(q, "allowed")
  /\ Lifetime
  /\ attempts' = attempts + 1
  /\ \E g \in Generations :
       /\ process[g] = "unborn"
       /\ \A h \in 1..(g - 1) : process[h] # "unborn"
       /\ process' = [process EXCEPT ![g] = "running"]
       /\ query' = [query EXCEPT ![q].pc = "handshaking", ![q].gen = g]
  /\ UNCHANGED <<clients, starts, done, swept, pending, closeVars>>

SpawnFails(q) ==
  /\ At(q, "allowed")
  /\ attempts' = attempts + 1
  /\ TaskDone(q, "failed")
  /\ UNCHANGED <<clients, starts, serverVars, closeVars>>

\* Mutant: the task leaves the table before its server is registered.
HandshakeDoneForgets(q) ==
  /\ At(q, "handshaking")
  /\ query[q].gen \notin done /\ CanWrite(query[q].gen)
  /\ TaskDone(q, "done")
  /\ starts' = None
  /\ UNCHANGED <<clients, attempts, serverVars, closeVars>>

\* The server answered initialize and is written the notifications that follow; the
\* waiters of the task are told.
HandshakeDone(q) ==
  /\ At(q, "handshaking")
  /\ query[q].gen \notin done /\ CanWrite(query[q].gen)
  /\ TaskDone(q, "done")
  /\ UNCHANGED <<startVars, serverVars, closeVars>>

\* A failed or late handshake, or the end of the lifetime: the process is
\* closed, killed if it must be, and reaped before the waiters are told.  A late
\* one is cancelled first, which may block; an error the server sent is not.
HandshakeFails(q) ==
  /\ At(q, "handshaking")
  /\ process' = [process EXCEPT ![query[q].gen] = "dead"]
  /\ TaskDone(q, "failed")
  /\ UNCHANGED <<startVars, done, swept, pending, closeVars>>

\* Only now does the manager learn of the outcome: whatever task the table
\* holds is removed, and Close is not asked after.
Register(q) ==
  /\ At(q, "registering")
  /\ starts' = None
  /\ IF query[q].task = "done"
       THEN clients' = query[q].gen /\ Serve(q, query[q].gen)
       ELSE UNCHANGED clients /\ Return(q)
  /\ UNCHANGED <<attempts, serverVars, closeVars>>

\* A waiter is told by the task, or by the end of the lifetime.
JoinTold(q) ==
  /\ At(q, "joining")
  /\ \/ query[q].task = "done" /\ Serve(q, query[q].gen)
     \/ query[q].task = "failed" /\ Return(q)
     \/ ~Lifetime /\ Return(q)
  /\ UNCHANGED <<startVars, serverVars, closeVars>>

(***************************************************************************)
(* Talking to it.                                                          *)
(***************************************************************************)

\* Mutant: the callers are told through their slots alone.
FailTellsSlots(g, failing) ==
  LET woken == failing \cup {q \in pending[g] : At(q, "waiting")} IN
  /\ done' = done \cup {g}
  /\ query' = [q \in Queries |-> IF q \in woken THEN Idle ELSE query[q]]
  /\ pending' = [pending EXCEPT ![g] = @ \ woken]

\* Closing c.done wakes the callers that listen, and those return an error.
Fail(g, failing) ==
  LET woken == failing \cup {q \in Queries : At(q, "waiting") /\ query[q].gen = g} IN
  /\ done' = done \cup {g}
  /\ query' = [q \in Queries |-> IF q \in woken THEN Idle ELSE query[q]]
  /\ pending' = [pending EXCEPT ![g] = @ \ woken]

\* A call is refused once the connection is known to have failed.  Otherwise it
\* registers its slot.
BeginCall(q) ==
  LET g == query[q].gen IN
  /\ At(q, "serving")
  /\ \/ g \in done /\ Return(q) /\ UNCHANGED pending
     \/ /\ g \notin done
        /\ Go(q, "writing")
        /\ pending' = [pending EXCEPT ![g] = @ \cup {q}]
  /\ UNCHANGED <<startVars, process, done, swept, closeVars>>

\* A write that fails takes the connection with it, and its caller returns.
WriteFails(q) ==
  LET g == query[q].gen IN
  /\ process[g] = "dead"
  /\ IF g \in done
       THEN Return(q) /\ pending' = [pending EXCEPT ![g] = @ \ {q}] /\ UNCHANGED done
       ELSE Fail(g, {q})

\* The frame is written, whatever has become of the connection: it ends up in the
\* pipe of a running or a dead process.  Nobody listens to a deadline meanwhile.
Write(q) ==
  /\ At(q, "writing")
  /\ CanWrite(query[q].gen)
  /\ (Go(q, "written") /\ UNCHANGED <<done, pending>>) \/ WriteFails(q)
  /\ UNCHANGED <<startVars, process, swept, closeVars>>

\* The caller finds nothing to return yet and blocks.
Listen(q) ==
  /\ At(q, "written")
  /\ query[q].box = "none"
  /\ query[q].gen \notin done
  /\ Go(q, "waiting")
  /\ UNCHANGED <<startVars, serverVars, closeVars>>

\* What a caller that reaches the select finds: a message, the failed
\* connection, or both, and then either may be taken.
Receive(q) ==
  LET g == query[q].gen IN
  /\ At(q, "written")
  /\ \/ query[q].box # "none" /\ Return(q) /\ UNCHANGED pending
     \/ g \in done /\ Return(q) /\ pending' = [pending EXCEPT ![g] = @ \ {q}]
  /\ UNCHANGED <<startVars, process, done, swept, closeVars>>

\* The deadline or the cancellation of a query.  A start under way does not
\* listen to it.
Expire(q) ==
  LET g == query[q].gen IN
  /\ \/ At(q, "joining") /\ Return(q) /\ UNCHANGED pending
     \/ /\ query[q].pc \in {"written", "waiting"}
        /\ query' = [query EXCEPT ![q] = [Idle EXCEPT !.pc = "cancelling", !.gen = g]]
        /\ pending' = [pending EXCEPT ![g] = @ \ {q}]
  /\ UNCHANGED <<startVars, process, done, swept, closeVars>>

\* The server is written that the call is cancelled before its caller returns.
Cancel(q) ==
  /\ At(q, "cancelling")
  /\ CanWrite(query[q].gen)
  /\ (Return(q) /\ UNCHANGED <<done, pending>>) \/ WriteFails(q)
  /\ UNCHANGED <<startVars, process, swept, closeVars>>

(***************************************************************************)
(* The server and the read loop of its connection.                         *)
(***************************************************************************)

\* A response is routed by its id; that of a dropped slot is thrown away.
Reply(q) ==
  LET g == query[q].gen IN
  /\ query[q].pc \in {"written", "waiting"}
  /\ Alive(g) /\ g \notin done
  /\ q \in pending[g]
  /\ pending' = [pending EXCEPT ![g] = @ \ {q}]
  /\ IF At(q, "waiting") THEN Return(q) ELSE query' = [query EXCEPT ![q].box = "reply"]
  /\ UNCHANGED <<startVars, process, done, swept, closeVars>>

Crash(g) ==
  /\ Alive(g)
  /\ process' = [process EXCEPT ![g] = "dead"]
  /\ UNCHANGED <<query, startVars, done, swept, pending, closeVars>>

\* The server stops reading its stdin.
Stall(g) ==
  /\ g \in MayStall /\ process[g] = "running"
  /\ process' = [process EXCEPT ![g] = "deaf"]
  /\ UNCHANGED <<query, startVars, done, swept, pending, closeVars>>

\* The read loop meets the end of the stream, or a frame it cannot read.
ReadFails(g) ==
  /\ process[g] # "unborn" /\ g \notin done
  /\ Fail(g, {})
  /\ UNCHANGED <<startVars, process, swept, closeVars>>

\* What fail does after closing done: an empty message for every slot.
Sweep(g) ==
  /\ g \in done \ swept
  /\ swept' = swept \cup {g}
  /\ query' = [q \in Queries |->
                IF q \in pending[g] /\ query[q].box = "none"
                  THEN [query[q] EXCEPT !.box = "empty"] ELSE query[q]]
  /\ pending' = [pending EXCEPT ![g] = {}]
  /\ UNCHANGED <<startVars, process, done, closeVars>>

\* The lifetime is over: what still runs is killed.
Killed(g) ==
  /\ ~Lifetime
  /\ Alive(g)
  /\ process' = [process EXCEPT ![g] = "dead"]
  /\ UNCHANGED <<query, startVars, done, swept, pending, closeVars>>

(***************************************************************************)
(* Close.                                                                  *)
(***************************************************************************)

\* New queries are refused and the table of servers is emptied.
CloseBegin ==
  /\ close = "open"
  /\ close' = "closing"
  /\ leaving' = clients
  /\ clients' = 0
  /\ starts' = None
  /\ UNCHANGED <<query, attempts, serverVars>>

\* Whether Close can write what it has to the server it found.
CanClose(writes) == leaving # 0 /\ writes => CanWrite(leaving)

\* The calls of the server found there are cancelled and their slots dropped,
\* their callers not told.
DropSlots ==
  /\ close = "closing"
  /\ CanClose(leaving # 0 => pending[leaving] # {})
  /\ close' = "dropped"
  /\ pending' = [g \in Generations |-> IF g = leaving THEN {} ELSE pending[g]]
  /\ UNCHANGED <<query, startVars, process, done, swept, leaving>>

\* didClose, shutdown and exit are written, unbounded; then the bounded wait that
\* ends in a kill, and the end of the lifetime of every other process.
ShutDown ==
  /\ close = "dropped"
  /\ CanClose(TRUE)
  /\ close' = "cancelled"
  /\ process' = [g \in Generations |-> IF g = leaving THEN "dead" ELSE process[g]]
  /\ leaving' = 0
  /\ UNCHANGED <<query, startVars, done, swept, pending>>

(***************************************************************************)
(* The specification.                                                      *)
(***************************************************************************)

Step(q) ==
  \/ Reuse(q) \/ Join(q) \/ BeginStart(q) \/ JoinTold(q)
  \/ RefuseStart(q) \/ AllowStart(q)
  \/ Spawn(q) \/ SpawnFails(q) \/ HandshakeDone(q) \/ Register(q)
  \/ HandshakeFails(q)
  \/ BeginCall(q) \/ Write(q) \/ Listen(q) \/ Receive(q) \/ Cancel(q)
Server(g) == Crash(g) \/ Stall(g) \/ ReadFails(g) \/ Sweep(g) \/ Killed(g)
Closing == DropSlots \/ ShutDown

Next ==
  \/ \E q \in Queries : Enter(q) \/ Step(q) \/ Expire(q) \/ Reply(q)
  \/ \E g \in Generations : Server(g)
  \/ WindowPasses
  \/ CloseBegin
  \/ Closing

Spec == Init /\ [][Next]_vars

\* Goroutines that can run do: not one that writes to a deaf server, which a
\* handshake may do too.  Nothing is assumed of the server's answers and of its
\* reading, of the deadlines of queries, or of anyone calling Query or Close; a
\* process that ended has its stream read to the end, one that is killed ends.
FairSpec ==
  /\ Spec
  /\ \A q \in Queries : WF_vars((At(q, "handshaking") => CanWrite(query[q].gen)) /\ Step(q))
  /\ \A g \in Generations :
       WF_vars((process[g] = "dead" /\ ReadFails(g)) \/ Sweep(g) \/ Killed(g))
  /\ WF_vars(Closing)

(***************************************************************************)
(* Properties.                                                             *)
(***************************************************************************)

TypeOK ==
  /\ query \in [Queries ->
       [pc : {"idle", "entered", "joining", "starting", "allowed",
              "handshaking", "registering", "serving", "writing",
              "written", "waiting", "cancelling"},
        gen : 0..MaxGenerations,
        joined : Queries \cup {None},
        task : {"open", "done", "failed"},
        box : {"none", "reply", "empty"}]]
  /\ clients \in 0..MaxGenerations
  /\ starts \in Queries \cup {None}
  /\ attempts \in Nat
  /\ process \in [Generations -> {"unborn", "running", "deaf", "dead"}]
  /\ done \subseteq Generations
  /\ swept \subseteq done
  /\ pending \in [Generations -> SUBSET Queries]
  /\ close \in {"open", "closing", "dropped", "cancelled"}
  /\ leaving \in 0..MaxGenerations

\* Until Close, however queries, failing starts and crashes interleave, at
\* most one server of the root runs with a working connection.
Usable == {g \in Generations : Alive(g) /\ g \notin done}
OneServer == close = "open" => \A g, h \in Usable : g = h

\* The breaker is asked and told in two steps, and still never remembers more
\* starts in its window than it allows.  This too ends with Close, which
\* empties the table of starts while one may be under way.
BreakerHolds == close = "open" => attempts <= MaxStartAttempts

\* A query whose server is gone returns although neither its deadline nor its caller
\* ends it, whatever other servers do; and so does one that meets Close, unless a
\* server that still runs is deaf.  Slots
\* Close dropped are no exception: their callers are told by the end of the stream.
\* No query stays stranded, that is:
Orphaned(q) == query[q].gen # 0 /\ process[query[q].gen] = "dead"
Listening == \A g \in Generations : CanWrite(g)
Stranded(q) == Underway(q) /\ (Orphaned(q) \/ (close # "open" /\ Listening))
NoQueryHangs == \A q \in Queries : []<>~Stranded(q)

\* "Graceful shutdown gets 2 seconds, then the whole process tree is killed and
\* reaped" (doc/lsp.md:68): false of a server that does not read.  Close writes to
\* it before it counts (client.go:434), and never comes to the kill.
CloseEnds == close # "open" ~> ~Lifetime

\* "Best effort: never block or kill the shared process on query cancel"
\* (client.go:203): false of a server that does not read.  A query past its deadline
\* writes that it gives up, and holds writeMu until the server reads or dies.
CancelReturns == \A q \in Queries : At(q, "cancelling") ~> ~Underway(q)

\* A query on a dead server fails (doc/lsp.md: "fails every pending request"):
\* no caller finds a message in its channel that the server did not send, which
\* it would return as an empty result.
DeadGenerationFails == \A q \in Queries : query[q].box # "empty"
=============================================================================
