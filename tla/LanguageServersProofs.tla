----------------------- MODULE LanguageServersProofs -----------------------
(***************************************************************************)
(* For any callers, any number of generations and any limit of the         *)
(* breaker: until Close there is one server with a working connection, and *)
(* the breaker remembers no more starts than it allows.                    *)
(*                                                                         *)
(* Both rest on the table of starts: whoever is anywhere between beginning *)
(* a start and registering its outcome is the query the table names, so    *)
(* there is one such query, and while there is one the registered server   *)
(* is a dead one or none.                                                  *)
(***************************************************************************)
EXTENDS LanguageServers, TLAPS

Starters == {"starting", "allowed", "handshaking", "registering"}
Callers == {"serving", "writing", "written", "waiting", "cancelling"}
Places == {"idle", "entered", "joining"} \cup Callers \cup Starters
Locals ==
  [pc : Places, gen : 0..MaxGenerations, joined : Queries \cup {None},
   task : {"open", "done", "failed"}, box : {"none", "reply", "empty"}]

Shape ==
  /\ query \in [Queries -> Locals]
  /\ clients \in 0..MaxGenerations
  /\ starts \in Queries \cup {None}
  /\ attempts \in Nat
  /\ process \in [Generations -> {"unborn", "running", "deaf", "dead"}]

\* A query that starts a server is the one in the table, and what is registered
\* meanwhile has failed.
Alone ==
  close = "open" =>
    \A q \in Queries : query[q].pc \in Starters => starts = q /\ clients \in done \cup {0}

\* A working server is registered, or about to be.
Known ==
  close = "open" =>
    \A g \in Usable :
      \/ g = clients
      \/ \E q \in Queries :
           /\ query[q].gen = g
           /\ query[q].pc = "handshaking" \/ (query[q].pc = "registering" /\ query[q].task = "done")

\* A start that the breaker has allowed has its place in the window.
Counted ==
  close = "open" =>
    /\ attempts <= MaxStartAttempts
    /\ \A q \in Queries : query[q].pc = "allowed" => attempts < MaxStartAttempts

IInv == Shape /\ Alone /\ Known /\ Counted

(***************************************************************************)
(* What the helpers do to the queries.                                     *)
(***************************************************************************)

LEMMA IdleLemma == Idle \in Locals /\ Idle.pc = "idle"
BY BoundsAssumption DEF Idle, Locals, Places, Callers

LEMMA GoLemma ==
  ASSUME query \in [Queries -> Locals], NEW q \in Queries, NEW where \in Places, Go(q, where)
  PROVE  /\ query' \in [Queries -> Locals]
         /\ \A p \in Queries \ {q} : query'[p] = query[p]
         /\ query'[q].pc = where
         /\ query'[q].gen = query[q].gen /\ query'[q].task = query[q].task
BY DEF Go, Locals

LEMMA ReturnLemma ==
  ASSUME query \in [Queries -> Locals], NEW q \in Queries, Return(q)
  PROVE  /\ query' \in [Queries -> Locals]
         /\ \A p \in Queries \ {q} : query'[p] = query[p]
         /\ query'[q].pc = "idle"
BY IdleLemma DEF Return

LEMMA ServeLemma ==
  ASSUME query \in [Queries -> Locals], NEW q \in Queries, NEW g \in 0..MaxGenerations, Serve(q, g)
  PROVE  /\ query' \in [Queries -> Locals]
         /\ \A p \in Queries \ {q} : query'[p] = query[p]
         /\ query'[q].pc = "serving"
<1>1. [Idle EXCEPT !.pc = "serving", !.gen = g] \in Locals
  BY DEF Idle, Locals, Places, Callers, Starters
<1>2. [Idle EXCEPT !.pc = "serving", !.gen = g].pc = "serving"
  BY DEF Idle
<1>. QED  BY <1>1, <1>2 DEF Serve

LEMMA ToldLemma ==
  ASSUME query \in [Queries -> Locals], NEW q \in Queries, NEW outcome \in {"done", "failed"}
  PROVE  /\ Told(q, outcome) \in [Queries -> Locals]
         /\ \A p \in Queries :
              /\ Told(q, outcome)[p].pc = query[p].pc
              /\ query[p].pc # "joining" => Told(q, outcome)[p] = query[p]
<1>1. ASSUME NEW p \in Queries
      PROVE  /\ [query[p] EXCEPT !.task = outcome, !.gen = query[q].gen] \in Locals
             /\ [query[p] EXCEPT !.task = outcome, !.gen = query[q].gen].pc = query[p].pc
  BY DEF Locals
<1>. QED  BY <1>1 DEF Told, Waiting, At

LEMMA TaskDoneLemma ==
  ASSUME query \in [Queries -> Locals], NEW q \in Queries, NEW outcome \in {"done", "failed"},
         query[q].pc \in Starters, TaskDone(q, outcome)
  PROVE  /\ query' \in [Queries -> Locals]
         /\ \A p \in Queries \ {q} :
              /\ query'[p].pc = query[p].pc
              /\ query[p].pc # "joining" => query'[p] = query[p]
         /\ query'[q].pc = "registering" /\ query'[q].task = outcome
         /\ query'[q].gen = query[q].gen
<1>1. Told(q, outcome)[q] = query[q]
  BY ToldLemma DEF Starters
<1>2. /\ [query[q] EXCEPT !.pc = "registering", !.task = outcome] \in Locals
      /\ [query[q] EXCEPT !.pc = "registering", !.task = outcome].pc = "registering"
      /\ [query[q] EXCEPT !.pc = "registering", !.task = outcome].task = outcome
      /\ [query[q] EXCEPT !.pc = "registering", !.task = outcome].gen = query[q].gen
  BY DEF Locals, Places, Callers, Starters
<1>3. query' = [Told(q, outcome) EXCEPT ![q] = [query[q] EXCEPT !.pc = "registering", !.task = outcome]]
  BY <1>1, ToldLemma DEF TaskDone, Locals
<1>. QED  BY <1>2, <1>3, ToldLemma

(***************************************************************************)
(* The steps.                                                              *)
(***************************************************************************)

\* A step that is no start's leaves the table of starts alone, makes no server
\* usable and forgets no server but a failed one.
Calm ==
  /\ \A q \in Queries :
       query[q].pc \in Starters \/ query'[q].pc \in Starters =>
         query'[q].pc = query[q].pc /\ query'[q].gen = query[q].gen /\ query'[q].task = query[q].task
  /\ UNCHANGED starts
  /\ attempts' <= attempts
  /\ done \subseteq done'
  /\ \A g \in Generations : Alive(g)' => Alive(g)
  /\ clients' = clients \/ (clients \in done \cup {0} /\ clients' = 0)
  /\ close' = "open" => close = "open"

LEMMA CalmInv == ASSUME IInv, Shape', Calm PROVE IInv'
<1>1. Alone'
  BY DEF IInv, Alone, Calm, Alive
<1>2. Usable' \subseteq Usable
  BY DEF Usable, Calm, Alive
<1>3. Known'
  <2>. SUFFICES ASSUME close' = "open", NEW g \in Usable'
                PROVE  \/ g = clients'
                       \/ \E q \in Queries :
                            /\ query'[q].gen = g
                            /\ \/ query'[q].pc = "handshaking"
                               \/ query'[q].pc = "registering" /\ query'[q].task = "done"
    BY DEF Known
  <2>1. CASE g = clients
    BY <1>2, <2>1 DEF Calm, Usable, Generations, Alive
  <2>2. ASSUME NEW q \in Queries,
               query[q].gen = g,
               query[q].pc = "handshaking" \/ (query[q].pc = "registering" /\ query[q].task = "done")
        PROVE  \E p \in Queries :
                 /\ query'[p].gen = g
                 /\ \/ query'[p].pc = "handshaking"
                    \/ query'[p].pc = "registering" /\ query'[p].task = "done"
    BY <2>2 DEF Calm, Starters, Alive
  <2>. QED  BY <1>2, <2>1, <2>2 DEF IInv, Known, Calm, Alive
<1>4. Counted'
  <2>1. close' = "open" => close = "open"
    BY DEF Calm, Alive
  <2>2. attempts' <= attempts /\ attempts \in Nat /\ attempts' \in Nat
    BY DEF IInv, Shape, Calm, Alive
  <2>3. \A q \in Queries : query'[q].pc = "allowed" => query[q].pc = "allowed"
    BY DEF Calm, Starters, Alive
  <2>. QED  BY <2>1, <2>2, <2>3, BoundsAssumption DEF IInv, Counted
<1>. QED  BY <1>1, <1>3, <1>4 DEF IInv

\* The same for the starter q: it alone may stand between the table and the
\* registered server, so nothing is usable but its own server.
LEMMA OnlyStarter ==
  ASSUME IInv, close = "open", NEW q \in Queries, query[q].pc \in Starters
  PROVE  /\ starts = q /\ clients \in done \cup {0}
         /\ \A p \in Queries \ {q} : query[p].pc \notin Starters
         /\ \A g \in Usable :
              /\ query[q].gen = g
              /\ query[q].pc = "handshaking" \/ (query[q].pc = "registering" /\ query[q].task = "done")
<1>1. starts = q /\ clients \in done \cup {0}
  BY DEF IInv, Alone
<1>2. \A p \in Queries \ {q} : query[p].pc \notin Starters
  BY <1>1 DEF IInv, Alone
<1>3. \A g \in Usable : g # clients
  BY <1>1 DEF Usable, Generations, Alive
<1>4. \A p \in Queries : query[p].pc \in {"handshaking", "registering"} => p = q
  BY <1>2 DEF Starters
<1>. QED  BY <1>1, <1>2, <1>3, <1>4 DEF IInv, Known

\* The steps of queries that start nothing.
LEMMA EnterInv == ASSUME IInv, NEW q \in Queries, Enter(q) PROVE IInv'
<1>1. [Idle EXCEPT !.pc = "entered"] \in Locals /\ [Idle EXCEPT !.pc = "entered"].pc = "entered"
  BY BoundsAssumption DEF Idle, Locals, Places, Callers
<1>2. Shape'
  BY <1>1 DEF Enter, IInv, Shape, startVars, serverVars
<1>3. Calm
  BY <1>1 DEF Enter, Underway, At, Calm, Starters, IInv, Shape, startVars, serverVars, closeVars, Alive
<1>. QED  BY <1>2, <1>3, CalmInv

LEMMA ReuseInv == ASSUME IInv, NEW q \in Queries, Reuse(q) PROVE IInv'
<1>1. Shape'
  BY ServeLemma DEF Reuse, IInv, Shape, startVars, serverVars
<1>2. Calm
  BY ServeLemma DEF Reuse, At, Calm, Starters, IInv, Shape, startVars, serverVars, closeVars, Alive
<1>. QED  BY <1>1, <1>2, CalmInv

LEMMA JoinInv == ASSUME IInv, NEW q \in Queries, Join(q) PROVE IInv'
<1>1. /\ query' \in [Queries -> Locals]
      /\ \A p \in Queries \ {q} : query'[p] = query[p]
      /\ query'[q].pc = "joining"
  <2>1. query[starts] \in Locals /\ starts \in Queries
    BY DEF Join, IInv, Shape
  <2>. DEFINE l == [Idle EXCEPT !.pc = "joining", !.joined = starts,
                    !.gen = query[starts].gen, !.task = query[starts].task]
  <2>2. l \in Locals /\ l.pc = "joining"
    BY <2>1, BoundsAssumption DEF Idle, Locals, Places, Callers
  <2>3. query' = [query EXCEPT ![q] = l]
    BY DEF Join
  <2>. QED  BY <2>2, <2>3 DEF IInv, Shape
<1>2. Shape'
  BY <1>1, BoundsAssumption DEF Join, IInv, Shape, serverVars
<1>3. Calm
  BY <1>1 DEF Join, At, Calm, Starters, IInv, Shape, serverVars, closeVars, Alive
<1>. QED  BY <1>2, <1>3, CalmInv

LEMMA JoinToldInv == ASSUME IInv, NEW q \in Queries, JoinTold(q) PROVE IInv'
<1>1. /\ query' \in [Queries -> Locals]
      /\ \A p \in Queries \ {q} : query'[p] = query[p]
      /\ query'[q].pc \in {"serving", "idle"}
  <2>1. query[q].gen \in 0..MaxGenerations
    BY DEF IInv, Shape, Locals
  <2>. QED  BY <2>1, ServeLemma, ReturnLemma DEF JoinTold, IInv, Shape
<1>2. Shape'
  BY <1>1 DEF JoinTold, IInv, Shape, startVars, serverVars
<1>3. Calm
  BY <1>1 DEF JoinTold, At, Calm, Starters, IInv, Shape, startVars, serverVars, closeVars, Alive
<1>. QED  BY <1>2, <1>3, CalmInv

\* Fail and the wake-ups it makes touch callers only.
LEMMA FailLemma ==
  ASSUME query \in [Queries -> Locals], NEW g, NEW failing \in SUBSET Queries, Fail(g, failing),
         \A q \in failing : query[q].pc \notin Starters
  PROVE  /\ query' \in [Queries -> Locals]
         /\ \A q \in Queries : query'[q] = query[q] \/ (query'[q].pc = "idle" /\ query[q].pc \notin Starters)
         /\ done' = done \cup {g}
BY IdleLemma DEF Fail, At, Starters

\* A step of a caller, which no start is.
LEMMA CallerInv ==
  ASSUME IInv, query' \in [Queries -> Locals],
         \A p \in Queries :
           query'[p] = query[p] \/ (query'[p].pc \notin Starters /\ query[p].pc \notin Starters),
         done \subseteq done', UNCHANGED <<startVars, process, closeVars>>
  PROVE  IInv'
<1>1. Shape'
  BY DEF IInv, Shape, startVars
<1>2. Calm
  BY DEF Calm, Alive, IInv, Shape, startVars, closeVars
<1>. QED  BY <1>1, <1>2, CalmInv

LEMMA BeginCallInv == ASSUME IInv, NEW q \in Queries, BeginCall(q) PROVE IInv'
<1>1. query[q].pc \notin Starters /\ query \in [Queries -> Locals]
  BY DEF BeginCall, At, Starters, IInv, Shape
<1>2. /\ query' \in [Queries -> Locals]
      /\ \A p \in Queries : query'[p] = query[p] \/ (query'[p].pc \notin Starters /\ query[p].pc \notin Starters)
  <2>1. CASE Return(q)
    BY <1>1, <2>1, ReturnLemma DEF Starters
  <2>2. CASE Go(q, "writing")
    BY <1>1, <2>2, GoLemma DEF Starters, Places, Callers
  <2>. QED  BY <2>1, <2>2 DEF BeginCall
<1>. QED  BY <1>2, CallerInv DEF BeginCall

\* A caller whose write fails returns, with the connection or without it.
LEMMA WriteFailsLemma ==
  ASSUME IInv, NEW q \in Queries, WriteFails(q), query[q].pc \notin Starters
  PROVE  /\ query' \in [Queries -> Locals]
         /\ \A p \in Queries : query'[p] = query[p] \/ (query'[p].pc \notin Starters /\ query[p].pc \notin Starters)
         /\ done \subseteq done'
<1>0. query \in [Queries -> Locals]
  BY DEF IInv, Shape
<1>1. CASE Return(q) /\ UNCHANGED done
  BY <1>0, <1>1, ReturnLemma DEF Starters
<1>2. CASE Fail(query[q].gen, {q})
  BY <1>0, <1>2, FailLemma DEF Starters
<1>. QED  BY <1>1, <1>2 DEF WriteFails

LEMMA WriteInv == ASSUME IInv, NEW q \in Queries, Write(q) PROVE IInv'
<1>1. query[q].pc \notin Starters /\ query \in [Queries -> Locals]
  BY DEF Write, At, Starters, IInv, Shape
<1>2. CASE Go(q, "written") /\ UNCHANGED done
  <2>1. /\ query' \in [Queries -> Locals]
        /\ \A p \in Queries : query'[p] = query[p] \/ (query'[p].pc \notin Starters /\ query[p].pc \notin Starters)
    BY <1>1, <1>2, GoLemma DEF Starters, Places, Callers
  <2>. QED  BY <1>2, <2>1, CallerInv DEF Write
<1>3. CASE WriteFails(q)
  BY <1>1, <1>3, WriteFailsLemma, CallerInv DEF Write
<1>. QED  BY <1>2, <1>3 DEF Write

LEMMA CancelInv == ASSUME IInv, NEW q \in Queries, Cancel(q) PROVE IInv'
<1>1. query[q].pc \notin Starters /\ query \in [Queries -> Locals]
  BY DEF Cancel, At, Starters, IInv, Shape
<1>2. CASE Return(q) /\ UNCHANGED done
  <2>1. /\ query' \in [Queries -> Locals]
        /\ \A p \in Queries : query'[p] = query[p] \/ (query'[p].pc \notin Starters /\ query[p].pc \notin Starters)
    BY <1>1, <1>2, ReturnLemma DEF Starters
  <2>. QED  BY <1>2, <2>1, CallerInv DEF Cancel
<1>3. CASE WriteFails(q)
  BY <1>1, <1>3, WriteFailsLemma, CallerInv DEF Cancel
<1>. QED  BY <1>2, <1>3 DEF Cancel

LEMMA ListenInv == ASSUME IInv, NEW q \in Queries, Listen(q) PROVE IInv'
<1>1. /\ query' \in [Queries -> Locals]
      /\ \A p \in Queries \ {q} : query'[p] = query[p]
      /\ query'[q].pc = "waiting"
  BY GoLemma DEF Listen, IInv, Shape, Places, Callers
<1>2. Shape'
  BY <1>1 DEF Listen, IInv, Shape, startVars, serverVars
<1>3. Calm
  BY <1>1 DEF Listen, At, Calm, Starters, IInv, Shape, startVars, serverVars, closeVars, Alive
<1>. QED  BY <1>2, <1>3, CalmInv

LEMMA ReceiveInv == ASSUME IInv, NEW q \in Queries, Receive(q) PROVE IInv'
<1>1. Return(q) /\ query[q].pc \notin Starters
  BY DEF Receive, At, Starters
<1>2. /\ query' \in [Queries -> Locals]
      /\ \A p \in Queries \ {q} : query'[p] = query[p]
      /\ query'[q].pc = "idle"
  BY <1>1, ReturnLemma DEF IInv, Shape
<1>3. Shape'
  BY <1>2 DEF Receive, IInv, Shape, startVars
<1>4. Calm
  BY <1>1, <1>2 DEF Receive, Calm, Starters, IInv, Shape, startVars, closeVars, Alive
<1>. QED  BY <1>3, <1>4, CalmInv

LEMMA ExpireInv == ASSUME IInv, NEW q \in Queries, Expire(q) PROVE IInv'
<1>1. query[q].pc \notin Starters /\ query \in [Queries -> Locals]
  BY DEF Expire, At, Starters, IInv, Shape
<1>2. /\ query' \in [Queries -> Locals]
      /\ \A p \in Queries \ {q} : query'[p] = query[p]
      /\ query'[q].pc \notin Starters
  <2>1. CASE Return(q)
    BY <1>1, <2>1, ReturnLemma DEF Starters
  <2> DEFINE l == [Idle EXCEPT !.pc = "cancelling", !.gen = query[q].gen]
  <2>2. CASE query' = [query EXCEPT ![q] = l]
    <3>1. l \in Locals /\ l.pc = "cancelling"
      BY <1>1, BoundsAssumption DEF Idle, Locals, Places, Callers
    <3>. QED  BY <1>1, <2>2, <3>1 DEF Starters
  <2>. QED  BY <2>1, <2>2 DEF Expire
<1>. QED  BY <1>1, <1>2, CallerInv DEF Expire

LEMMA ReplyInv == ASSUME IInv, NEW q \in Queries, Reply(q) PROVE IInv'
<1>1. query[q].pc \notin Starters
  BY DEF Reply, Starters
<1>2. /\ query' \in [Queries -> Locals]
      /\ \A p \in Queries \ {q} : query'[p] = query[p]
      /\ query'[q].pc \notin Starters
  <2>1. CASE Return(q)
    BY <2>1, ReturnLemma DEF Starters, IInv, Shape
  <2>2. CASE query' = [query EXCEPT ![q].box = "reply"]
    BY <1>1, <2>2 DEF IInv, Shape, Locals
  <2>. QED  BY <2>1, <2>2 DEF Reply
<1>3. Shape'
  BY <1>2 DEF Reply, IInv, Shape, startVars
<1>4. Calm
  BY <1>1, <1>2 DEF Reply, Calm, IInv, Shape, startVars, closeVars, Alive
<1>. QED  BY <1>3, <1>4, CalmInv

LEMMA ReadFailsInv == ASSUME IInv, NEW g \in Generations, ReadFails(g) PROVE IInv'
<1>1. /\ query' \in [Queries -> Locals]
      /\ \A q \in Queries : query'[q] = query[q] \/ (query'[q].pc = "idle" /\ query[q].pc \notin Starters)
      /\ done' = done \cup {g}
  BY FailLemma DEF ReadFails, IInv, Shape
<1>2. Shape'
  BY <1>1 DEF ReadFails, IInv, Shape, startVars
<1>3. Calm
  BY <1>1 DEF ReadFails, Calm, Starters, IInv, Shape, startVars, closeVars, Alive
<1>. QED  BY <1>2, <1>3, CalmInv

LEMMA SweepInv == ASSUME IInv, NEW g \in Generations, Sweep(g) PROVE IInv'
<1>1. /\ query' \in [Queries -> Locals]
      /\ \A q \in Queries : /\ query'[q].pc = query[q].pc
                           /\ query'[q].gen = query[q].gen /\ query'[q].task = query[q].task
  <2>1. ASSUME NEW q \in Queries
        PROVE  LET l == [query[q] EXCEPT !.box = "empty"] IN
               l \in Locals /\ l.pc = query[q].pc /\ l.gen = query[q].gen /\ l.task = query[q].task
    BY DEF IInv, Shape, Locals
  <2>. QED  BY <2>1 DEF Sweep, IInv, Shape
<1>2. Shape'
  BY <1>1 DEF Sweep, IInv, Shape, startVars
<1>3. Calm
  BY <1>1 DEF Sweep, Calm, IInv, Shape, startVars, closeVars, Alive
<1>. QED  BY <1>2, <1>3, CalmInv

\* A server that runs on, deaf, or ends.
LEMMA CrashInv ==
  ASSUME IInv, NEW g \in Generations, Crash(g) \/ Stall(g) \/ Killed(g)
  PROVE  IInv'
<1>1. /\ process' \in [Generations -> {"unborn", "running", "deaf", "dead"}]
      /\ \A h \in Generations : Alive(h)' => Alive(h)
  BY DEF Crash, Stall, Killed, Alive, IInv, Shape
<1>2. Shape'
  BY <1>1 DEF Crash, Stall, Killed, IInv, Shape, startVars
<1>3. Calm
  BY <1>1 DEF Crash, Stall, Killed, Calm, IInv, Shape, startVars, closeVars, Alive
<1>. QED  BY <1>2, <1>3, CalmInv

LEMMA WindowPassesInv == ASSUME IInv, WindowPasses PROVE IInv'
<1>1. attempts' \in Nat /\ attempts' <= attempts
  BY DEF WindowPasses, IInv, Shape
<1>2. Shape'
  BY <1>1 DEF WindowPasses, IInv, Shape, serverVars
<1>3. Calm
  BY <1>1 DEF WindowPasses, Calm, serverVars, closeVars, Alive
<1>. QED  BY <1>2, <1>3, CalmInv

\* The starts.
LEMMA BeginStartInv == ASSUME IInv, NEW q \in Queries, BeginStart(q) PROVE IInv'
<1>1. /\ query' \in [Queries -> Locals]
      /\ \A p \in Queries \ {q} : query'[p] = query[p]
      /\ query'[q].pc = "starting"
  BY GoLemma DEF BeginStart, IInv, Shape, Places, Callers, Starters
<1>2. /\ clients \in done \cup {0} /\ clients' = 0 /\ starts = None /\ starts' = q
      /\ UNCHANGED <<attempts, process, done, close>>
  BY DEF BeginStart, serverVars, closeVars
<1>3. Shape'
  BY <1>1, <1>2, BoundsAssumption DEF IInv, Shape
<1>. SUFFICES ASSUME close = "open"
              PROVE  Alone' /\ Known' /\ Counted'
  BY <1>2, <1>3 DEF IInv, Alone, Known, Counted
<1>4. \A p \in Queries : query[p].pc \notin Starters
  BY <1>2, QueriesAssumption DEF IInv, Alone
<1>5. Usable' = {}
  BY <1>2, <1>4 DEF IInv, Known, Usable, Generations, Starters, Alive
<1>6. Alone' /\ Known'
  BY <1>1, <1>2, <1>4, <1>5 DEF Alone, Known
<1>7. Counted'
  BY <1>1, <1>2 DEF IInv, Counted
<1>. QED  BY <1>6, <1>7

LEMMA RefuseStartInv == ASSUME IInv, NEW q \in Queries, RefuseStart(q) PROVE IInv'
<1>1. /\ query' \in [Queries -> Locals]
      /\ \A p \in Queries \ {q} : query'[p].pc = query[p].pc
      /\ query'[q].pc = "idle"
  BY IdleLemma, ToldLemma DEF RefuseStart, IInv, Shape
<1>2. starts' = None /\ UNCHANGED <<clients, attempts, process, done, close>>
  BY DEF RefuseStart, serverVars, closeVars
<1>3. Shape'
  BY <1>1, <1>2 DEF IInv, Shape
<1>. SUFFICES ASSUME close = "open"
              PROVE  Alone' /\ Known' /\ Counted'
  BY <1>2, <1>3 DEF IInv, Alone, Known, Counted
<1>4. /\ \A p \in Queries \ {q} : query[p].pc \notin Starters
      /\ Usable = {}
  BY OnlyStarter DEF RefuseStart, At, Starters
<1>5. \A p \in Queries : query'[p].pc \notin Starters
  BY <1>1, <1>4 DEF Starters
<1>6. Usable' = {}
  BY <1>2, <1>4 DEF Usable, Alive
<1>7. Alone' /\ Known'
  BY <1>5, <1>6 DEF Alone, Known
<1>8. Counted'
  BY <1>2, <1>5 DEF IInv, Counted, Starters
<1>. QED  BY <1>7, <1>8

LEMMA AllowStartInv == ASSUME IInv, NEW q \in Queries, AllowStart(q) PROVE IInv'
<1>1. /\ query' \in [Queries -> Locals]
      /\ \A p \in Queries \ {q} : query'[p] = query[p]
      /\ query'[q].pc = "allowed"
  BY GoLemma DEF AllowStart, IInv, Shape, Places, Callers, Starters
<1>2. /\ UNCHANGED <<clients, starts, attempts, process, done, close>>
      /\ attempts < MaxStartAttempts
  BY DEF AllowStart, startVars, serverVars, closeVars
<1>3. Shape'
  BY <1>1, <1>2 DEF IInv, Shape
<1>. SUFFICES ASSUME close = "open"
              PROVE  Alone' /\ Known' /\ Counted'
  BY <1>2, <1>3 DEF IInv, Alone, Known, Counted
<1>4. /\ starts = q /\ clients \in done \cup {0}
      /\ \A p \in Queries \ {q} : query[p].pc \notin Starters
      /\ Usable = {}
  BY OnlyStarter DEF AllowStart, At, Starters
<1>5. Alone'
  BY <1>1, <1>2, <1>4 DEF Alone
<1>6. Known'
  BY <1>2, <1>4 DEF Known, Usable, Alive
<1>7. Counted'
  BY <1>1, <1>2 DEF IInv, Counted
<1>. QED  BY <1>5, <1>6, <1>7

\* The start is recorded: only an allowed query does so, and there was room.
LEMMA RecordLemma ==
  ASSUME IInv, close = "open", NEW q \in Queries, At(q, "allowed")
  PROVE  /\ starts = q /\ clients \in done \cup {0}
         /\ \A p \in Queries \ {q} : query[p].pc \notin Starters
         /\ Usable = {}
         /\ attempts + 1 <= MaxStartAttempts
<1>1. attempts < MaxStartAttempts
  BY DEF At, IInv, Counted
<1>2. attempts + 1 <= MaxStartAttempts
  BY <1>1, BoundsAssumption DEF IInv, Shape
<1>. QED  BY <1>2, OnlyStarter DEF At, Starters

LEMMA SpawnInv == ASSUME IInv, NEW q \in Queries, Spawn(q) PROVE IInv'
<1>1. PICK g \in Generations :
        /\ process' = [process EXCEPT ![g] = "running"]
        /\ query' = [query EXCEPT ![q].pc = "handshaking", ![q].gen = g]
  BY DEF Spawn
<1>2. /\ query' \in [Queries -> Locals]
      /\ \A p \in Queries \ {q} : query'[p] = query[p]
      /\ query'[q].pc = "handshaking" /\ query'[q].gen = g
  <2>. DEFINE l == [query[q] EXCEPT !.pc = "handshaking", !.gen = g]
  <2>1. g \in 0..MaxGenerations
    BY BoundsAssumption DEF Generations
  <2>2. l \in Locals /\ l.pc = "handshaking" /\ l.gen = g
    BY <2>1 DEF IInv, Shape, Locals, Places, Callers, Starters
  <2>3. query' = [query EXCEPT ![q] = l]
    BY <1>1 DEF IInv, Shape, Locals
  <2>. QED  BY <2>2, <2>3 DEF IInv, Shape
<1>3. UNCHANGED <<clients, starts, done, close>> /\ attempts' = attempts + 1 /\ At(q, "allowed")
  BY DEF Spawn, closeVars
<1>4. Shape'
  BY <1>1, <1>2, <1>3 DEF IInv, Shape
<1>. SUFFICES ASSUME close = "open"
              PROVE  Alone' /\ Known' /\ Counted'
  BY <1>3, <1>4 DEF IInv, Alone, Known, Counted
<1>5. Alone'
  BY <1>2, <1>3, RecordLemma DEF Alone
<1>6. Usable' \subseteq {g}
  BY <1>1, <1>3, RecordLemma DEF Usable, IInv, Shape, Alive
<1>7. Known'
  BY <1>2, <1>6 DEF Known
<1>8. Counted'
  BY <1>2, <1>3, RecordLemma DEF Counted, Starters
<1>. QED  BY <1>5, <1>7, <1>8

LEMMA SpawnFailsInv == ASSUME IInv, NEW q \in Queries, SpawnFails(q) PROVE IInv'
<1>1. /\ query' \in [Queries -> Locals]
      /\ \A p \in Queries \ {q} : query'[p].pc = query[p].pc
      /\ query'[q].pc = "registering" /\ query'[q].task = "failed" /\ query'[q].gen = query[q].gen
  BY TaskDoneLemma DEF SpawnFails, At, Starters, IInv, Shape
<1>2. UNCHANGED <<clients, starts, done, close>>
  BY DEF SpawnFails, startVars, serverVars, closeVars
<1>3. Shape'
  BY <1>1, <1>2 DEF SpawnFails, IInv, Shape, startVars, serverVars
<1>. SUFFICES ASSUME close = "open"
              PROVE  Alone' /\ Known' /\ Counted'
  BY <1>2, <1>3 DEF IInv, Alone, Known, Counted
<1>4. /\ starts = q /\ clients \in done \cup {0}
      /\ \A p \in Queries \ {q} : query[p].pc \notin Starters
  BY OnlyStarter DEF SpawnFails, At, Starters
<1>5. Alone'
  BY <1>1, <1>2, <1>4 DEF Alone, Starters
<1>6. Usable' = {}
  BY <1>2, RecordLemma DEF SpawnFails, Usable, serverVars, Alive
<1>7. Known'
  BY <1>6 DEF Known
<1>8. Counted'
  <2>1. \A p \in Queries : query'[p].pc # "allowed"
    BY <1>1, <1>4 DEF Starters
  <2>. QED  BY <2>1, RecordLemma DEF SpawnFails, Counted
<1>. QED  BY <1>5, <1>7, <1>8

LEMMA HandshakeDoneInv == ASSUME IInv, NEW q \in Queries, HandshakeDone(q) PROVE IInv'
<1>1. /\ query' \in [Queries -> Locals]
      /\ \A p \in Queries \ {q} : query'[p].pc = query[p].pc
      /\ query'[q].pc = "registering" /\ query'[q].task = "done" /\ query'[q].gen = query[q].gen
  BY TaskDoneLemma DEF HandshakeDone, At, Starters, IInv, Shape
<1>2. UNCHANGED <<clients, starts, done, close>>
  BY DEF HandshakeDone, startVars, serverVars, closeVars
<1>3. Shape'
  BY <1>1, <1>2 DEF HandshakeDone, IInv, Shape, startVars, serverVars
<1>. SUFFICES ASSUME close = "open"
              PROVE  Alone' /\ Known' /\ Counted'
  BY <1>2, <1>3 DEF IInv, Alone, Known, Counted
<1>4. /\ starts = q /\ clients \in done \cup {0}
      /\ \A p \in Queries \ {q} : query[p].pc \notin Starters
  BY OnlyStarter DEF HandshakeDone, At, Starters
<1>5. Alone'
  BY <1>1, <1>2, <1>4 DEF Alone, Starters
<1>6. \A g \in Usable' : query'[q].gen = g
  BY <1>1, <1>2, OnlyStarter DEF HandshakeDone, At, Starters, Usable, serverVars, Alive
<1>7. Known'
  BY <1>1, <1>6 DEF Known
<1>8. Counted'
  <2>1. \A p \in Queries : query'[p].pc # "allowed"
    BY <1>1, <1>4 DEF Starters
  <2>. QED  BY <1>2, <2>1 DEF HandshakeDone, IInv, Counted, startVars
<1>. QED  BY <1>5, <1>7, <1>8

LEMMA HandshakeFailsInv == ASSUME IInv, NEW q \in Queries, HandshakeFails(q) PROVE IInv'
<1>1. /\ query' \in [Queries -> Locals]
      /\ \A p \in Queries \ {q} : query'[p].pc = query[p].pc
      /\ query'[q].pc = "registering" /\ query'[q].task = "failed" /\ query'[q].gen = query[q].gen
  BY TaskDoneLemma DEF HandshakeFails, At, Starters, IInv, Shape
<1>2. UNCHANGED <<clients, starts, done, close>>
  BY DEF HandshakeFails, startVars, serverVars, closeVars
<1>3. Shape'
  BY <1>1, <1>2 DEF HandshakeFails, IInv, Shape, startVars, serverVars
<1>. SUFFICES ASSUME close = "open"
              PROVE  Alone' /\ Known' /\ Counted'
  BY <1>2, <1>3 DEF IInv, Alone, Known, Counted
<1>4. /\ starts = q /\ clients \in done \cup {0}
      /\ \A p \in Queries \ {q} : query[p].pc \notin Starters
  BY OnlyStarter DEF HandshakeFails, At, Starters
<1>5. Alone'
  BY <1>1, <1>2, <1>4 DEF Alone, Starters
<1>6. Usable' = {}
  BY <1>2, OnlyStarter DEF HandshakeFails, At, Starters, Usable, IInv, Shape, Alive
<1>7. Known'
  BY <1>6 DEF Known
<1>8. Counted'
  <2>1. \A p \in Queries : query'[p].pc # "allowed"
    BY <1>1, <1>4 DEF Starters
  <2>. QED  BY <1>2, <2>1 DEF HandshakeFails, IInv, Counted, startVars
<1>. QED  BY <1>5, <1>7, <1>8

LEMMA RegisterInv == ASSUME IInv, NEW q \in Queries, Register(q) PROVE IInv'
<1>1. /\ query' \in [Queries -> Locals]
      /\ \A p \in Queries \ {q} : query'[p] = query[p]
      /\ query'[q].pc \in {"serving", "idle"}
      /\ IF query[q].task = "done" THEN clients' = query[q].gen ELSE UNCHANGED clients
  <2>1. query[q].gen \in 0..MaxGenerations
    BY DEF IInv, Shape, Locals
  <2>. QED  BY <2>1, ServeLemma, ReturnLemma DEF Register, IInv, Shape
<1>2. starts' = None /\ UNCHANGED <<attempts, process, done, close>>
  BY DEF Register, serverVars, closeVars
<1>3. Shape'
  BY <1>1, <1>2 DEF IInv, Shape, Locals
<1>. SUFFICES ASSUME close = "open"
              PROVE  Alone' /\ Known' /\ Counted'
  BY <1>2, <1>3 DEF IInv, Alone, Known, Counted
<1>4. /\ \A p \in Queries \ {q} : query[p].pc \notin Starters
      /\ \A g \in Usable : query[q].gen = g /\ query[q].task = "done"
  BY OnlyStarter DEF Register, At, Starters
<1>5. \A p \in Queries : query'[p].pc \notin Starters
  BY <1>1, <1>4 DEF Starters
<1>6. Usable' = Usable
  BY <1>2 DEF Usable, Alive
<1>7. Alone' /\ Known'
  BY <1>1, <1>4, <1>5, <1>6 DEF Alone, Known
<1>8. Counted'
  BY <1>2, <1>5 DEF IInv, Counted, Starters
<1>. QED  BY <1>7, <1>8

\* Close: what is said of an open manager says nothing any more.
LEMMA CloseBeginInv == ASSUME IInv, CloseBegin PROVE IInv'
<1>1. Shape'
  BY BoundsAssumption DEF CloseBegin, IInv, Shape, startVars, serverVars
<1>2. close' # "open"
  BY DEF CloseBegin
<1>. QED  BY <1>1, <1>2 DEF IInv, Alone, Known, Counted

LEMMA DropSlotsInv == ASSUME IInv, DropSlots PROVE IInv'
<1>1. Shape'
  BY BoundsAssumption DEF DropSlots, IInv, Shape, startVars, serverVars
<1>2. close' # "open"
  BY DEF DropSlots
<1>. QED  BY <1>1, <1>2 DEF IInv, Alone, Known, Counted

LEMMA ShutDownInv == ASSUME IInv, ShutDown PROVE IInv'
<1>1. Shape'
  BY BoundsAssumption DEF ShutDown, IInv, Shape, startVars, serverVars
<1>2. close' # "open"
  BY DEF ShutDown
<1>. QED  BY <1>1, <1>2 DEF IInv, Alone, Known, Counted

LEMMA InitInv == Init => IInv
<1>. SUFFICES ASSUME Init
              PROVE  IInv
  OBVIOUS
<1>1. Shape
  BY IdleLemma, BoundsAssumption DEF Init, Shape
<1>2. \A q \in Queries : query[q].pc \notin Starters
  BY IdleLemma DEF Init, Starters
<1>3. Usable = {}
  BY DEF Init, Usable, Alive
<1>. QED  BY <1>1, <1>2, <1>3, BoundsAssumption DEF Init, IInv, Alone, Known, Counted, Starters

LEMMA NextInv == IInv /\ [Next]_vars => IInv'
<1>. SUFFICES ASSUME IInv, [Next]_vars
              PROVE  IInv'
  OBVIOUS
<1>1. CASE UNCHANGED vars
  BY <1>1 DEF vars, startVars, serverVars, closeVars, IInv, Shape, Alone, Known, Counted, Usable, Alive
<1>2. ASSUME NEW q \in Queries, Step(q)
      PROVE  IInv'
  BY <1>2, ReuseInv, JoinInv, BeginStartInv, JoinToldInv, RefuseStartInv, AllowStartInv, SpawnInv, SpawnFailsInv,
     HandshakeDoneInv, HandshakeFailsInv, RegisterInv, BeginCallInv, WriteInv, ListenInv, ReceiveInv, CancelInv DEF Step
<1>3. ASSUME NEW q \in Queries, Enter(q) \/ Expire(q) \/ Reply(q)
      PROVE  IInv'
  BY <1>3, EnterInv, ExpireInv, ReplyInv
<1>4. ASSUME NEW g \in Generations, Server(g)
      PROVE  IInv'
  BY <1>4, CrashInv, ReadFailsInv, SweepInv DEF Server
<1>5. CASE WindowPasses \/ CloseBegin \/ Closing
  BY <1>5, WindowPassesInv, CloseBeginInv, DropSlotsInv, ShutDownInv DEF Closing
<1>. QED  BY <1>1, <1>2, <1>3, <1>4, <1>5 DEF Next

THEOREM Invariance == Spec => []IInv
BY InitInv, NextInv, PTL DEF Spec

\* However queries, failing starts and crashes interleave, no two servers of a
\* root run with a working connection until Close (Manager.client, which starts
\* outside its lock).
THEOREM OneServerRuns == Spec => []OneServer
<1>1. IInv => OneServer
  <2>. SUFFICES ASSUME IInv, close = "open", NEW g \in Usable, NEW h \in Usable
                PROVE  g = h
    BY DEF OneServer
  <2>1. CASE \E q \in Queries : query[q].pc \in Starters
    BY <2>1, OnlyStarter
  <2>2. CASE \A q \in Queries : query[q].pc \notin Starters
    BY <2>2 DEF IInv, Known, Starters
  <2>. QED  BY <2>1, <2>2
<1>. QED  BY <1>1, Invariance, PTL

\* The breaker is asked in one call and told in another, and its limit holds all
\* the same, because one start of a root is under way (startBreaker).
THEOREM BreakerNeverOverruns == Spec => []BreakerHolds
<1>1. IInv => BreakerHolds
  BY DEF IInv, Counted, BreakerHolds
<1>. QED  BY <1>1, Invariance, PTL
=============================================================================
