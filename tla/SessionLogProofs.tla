-------------------------- MODULE SessionLogProofs --------------------------
(***************************************************************************)
(* Proofs about SessionLog for any set of Managers and deliveries, and for *)
(* a log of any length.  That memory and file agree needs of a log only    *)
(* that it is a sequence; that a file can be reopened, also that every     *)
(* entry points back and that the cursor is where a replay would leave it. *)
(***************************************************************************)
EXTENDS SessionLog, SequenceTheorems, NaturalsInduction, WellFoundedInduction, TLAPS

IsSeq(s) == s \in Seq({s[i] : i \in DOMAIN s})

\* The entries of s are still there, in their places, in t.
Extends(s, t) == Len(s) <= Len(t) /\ \A i \in 1..Len(s) : t[i] = s[i]

Unread(s) == \A i \in DOMAIN s : s[i].event = NoEvent

Once(s) ==
  \A i, j \in DOMAIN s : s[i].event = s[j].event /\ s[i].event # NoEvent => i = j

Shape ==
  /\ owner \in Managers \cup {Nobody}
  /\ DOMAIN log = Managers /\ DOMAIN flushed = Managers
  /\ \A m \in Managers : IsSeq(log[m]) /\ flushed[m] \in BOOLEAN
  /\ IsSeq(file)
  /\ receipts \subseteq Events

\* A session nobody created has left nothing anywhere.
Unborn ==
  ~born => /\ owner = Nobody /\ file = <<>> /\ tail = "clean"
           /\ \A m \in Managers : log[m] = <<>> /\ flushed[m] = FALSE

\* What the owner has only buffered holds no delivery, and nothing else exists.
Buffered ==
  \A m \in Managers : Live(m) /\ ~flushed[m] => file = <<>> /\ tail = "clean" /\ Unread(log[m])

IInv == Shape /\ Unborn /\ Buffered /\ InStep /\ ReceiptsDurable /\ DeliveredOnce

-----------------------------------------------------------------------------

\* Appending keeps what is there and adds one entry at the end.
LEMMA AppendFacts ==
  ASSUME NEW s, IsSeq(s), NEW e
  PROVE  /\ IsSeq(Append(s, e))
         /\ Len(s) \in Nat /\ DOMAIN s = 1..Len(s)
         /\ Len(Append(s, e)) = Len(s) + 1
         /\ DOMAIN Append(s, e) = 1..(Len(s) + 1)
         /\ \A i \in 1..Len(s) : Append(s, e)[i] = s[i]
         /\ Append(s, e)[Len(s) + 1] = e
<1> DEFINE S == {s[i] : i \in DOMAIN s} \cup {e}
           t == Append(s, e)
<1>1. s \in Seq(S)
  BY SeqMonotonic DEF IsSeq
<1>2. /\ t \in Seq(S) /\ Len(s) \in Nat /\ DOMAIN s = 1..Len(s)
      /\ Len(t) = Len(s) + 1
      /\ \A i \in 1..Len(s) : t[i] = s[i]
      /\ t[Len(s) + 1] = e
  BY <1>1, AppendProperties
<1>3. DOMAIN t = 1..(Len(s) + 1)
  BY <1>2
<1>4. IsSeq(t)
  <2> HIDE DEF S, t
  <2>1. t \in [1..Len(t) -> S] /\ Len(t) \in Nat /\ DOMAIN t = 1..Len(t)
    BY <1>2, LenProperties
  <2>2. t \in [1..Len(t) -> {t[i] : i \in DOMAIN t}]
    BY <2>1
  <2>3. t \in Seq({t[i] : i \in DOMAIN t})
    BY <2>1, <2>2, SeqDef
  <2>4. IsSeq(t)
    BY <2>3 DEF IsSeq
  <2> QED
    BY <2>4 DEF t
<1> QED
  BY <1>2, <1>3, <1>4

\* An extension of a sequence is read back by cutting it to the old length.
LEMMA CutExtension ==
  ASSUME NEW s, IsSeq(s), NEW t, IsSeq(t), Extends(s, t)
  PROVE  SubSeq(t, 1, Len(s)) = s
<1> DEFINE S == {s[i] : i \in DOMAIN s} \cup {t[i] : i \in DOMAIN t}
<1>1. s \in Seq(S) /\ t \in Seq(S)
  BY DEF IsSeq
<1>2. Len(s) \in Nat /\ Len(t) \in Nat /\ Len(s) <= Len(t)
  BY <1>1, LenProperties DEF Extends
<1>3. \A i \in 1..Len(s) : t[i] \in S
  BY <1>1, <1>2 DEF Extends
<1>4. /\ SubSeq(t, 1, Len(s)) \in Seq(S)
      /\ Len(SubSeq(t, 1, Len(s))) = IF 1 <= Len(s) THEN Len(s) - 1 + 1 ELSE 0
      /\ \A i \in 1..(Len(s) - 1 + 1) : SubSeq(t, 1, Len(s))[i] = t[1 + i - 1]
  BY <1>2, <1>3, SubSeqProperties
<1>5. Len(SubSeq(t, 1, Len(s))) = Len(s)
  BY <1>2, <1>4
<1>6. \A i \in 1..Len(s) : SubSeq(t, 1, Len(s))[i] = s[i]
  BY <1>2, <1>4 DEF Extends
<1> QED
  BY <1>1, <1>4, <1>5, <1>6, SeqEqual

\* The empty log is a sequence in which nothing is recorded.
LEMMA EmptyLog == IsSeq(<<>>) /\ DOMAIN <<>> = {}
BY EmptySeq DEF IsSeq

LEMMA InitInv == Init => IInv
<1> SUFFICES ASSUME Init PROVE IInv
  OBVIOUS
<1>1. Shape
  BY EmptyLog DEF Init, Shape
<1>2. Unborn /\ Buffered /\ InStep
  BY SentinelAssumption DEF Init, Unborn, Buffered, InStep, Live
<1>3. ReceiptsDurable /\ DeliveredOnce
  BY EmptyLog DEF Init, ReceiptsDurable, DeliveredOnce
<1> QED
  BY <1>1, <1>2, <1>3 DEF IInv

-----------------------------------------------------------------------------

\* One write: an entry without an identity, or a delivery that must survive
\* and whose identity the log does not know.  A log that is in the file is
\* never only buffered again.
WriteOf(m, e, lf, must) ==
  /\ Write(m, e, lf, must)
  /\ must \in BOOLEAN /\ (flushed[m] => must)
  /\ \/ receipts' = receipts
     \/ log' # log /\ e.event \in Events /\ must /\ receipts' = receipts \cup {e.event}
  /\ \/ e.event = NoEvent
     \/ must /\ e.event \in Events /\ ~Recorded(log[m], e.event)

\* What a write leaves in the file: nothing changed, or the owner's log with
\* the entry at its end.
LEMMA WrittenFile ==
  ASSUME IInv, NEW m \in Managers, NEW e, NEW lf, NEW must, WriteOf(m, e, lf, must)
  PROVE  \/ file' = file
         \/ must /\ file' = Append(log[m], e)
<1>1. CASE flushed[m]
  <2>1. file = log[m]
    BY <1>1 DEF IInv, InStep, WriteOf, Write
  <2> QED
    BY <1>1, <2>1 DEF WriteOf, Write, Applied, RolledBack, Dies
<1>2. CASE ~flushed[m]
  BY <1>2 DEF WriteOf, Write, Applied, RolledBack, Dies
<1> QED
  BY <1>1, <1>2

\* The owner's log holds the file as its beginning: it is the file, or the
\* file is empty.
LEMMA FileInLog ==
  ASSUME IInv, NEW m \in Managers, Live(m)
  PROVE  Extends(file, log[m]) /\ Once(log[m])
<1>1. IsSeq(log[m]) /\ IsSeq(file)
  BY DEF IInv, Shape
<1>2. Len(log[m]) \in Nat
  BY <1>1, AppendFacts
<1>3. CASE flushed[m]
  BY <1>2, <1>3 DEF IInv, InStep, DeliveredOnce, Extends, Once
<1>4. CASE ~flushed[m]
  BY <1>2, <1>4, EmptySeq DEF IInv, Buffered, Unread, Extends, Once
<1> QED
  BY <1>3, <1>4

LEMMA WriteExtends ==
  ASSUME IInv, NEW m \in Managers, NEW e, NEW lf, NEW must, WriteOf(m, e, lf, must)
  PROVE  /\ IsSeq(file') /\ Extends(file, file') /\ Once(file')
<1>1. IsSeq(log[m]) /\ IsSeq(file) /\ Live(m)
  BY DEF IInv, Shape, WriteOf, Write
<1>2. Extends(file, log[m]) /\ Once(log[m])
  BY <1>1, FileInLog
<1>3. CASE file' = file
  BY <1>1, <1>3, AppendFacts DEF IInv, DeliveredOnce, Extends, Once
<1>4. CASE must /\ file' = Append(log[m], e)
  <2> DEFINE l == log[m]
             t == Append(l, e)
  <2>1. /\ IsSeq(t) /\ Len(l) \in Nat /\ DOMAIN l = 1..Len(l)
        /\ Len(t) = Len(l) + 1 /\ DOMAIN t = 1..(Len(l) + 1)
        /\ \A i \in 1..Len(l) : t[i] = l[i]
        /\ t[Len(l) + 1] = e
    BY <1>1, AppendFacts
  <2>2. Len(file) \in Nat
    BY <1>1, AppendFacts
  <2>3. Extends(file, t)
    BY <1>2, <2>1, <2>2 DEF Extends
  <2>4. \A i \in DOMAIN l : e.event # NoEvent => l[i].event # e.event
    BY DEF WriteOf, Recorded
  <2>5. Once(t)
    <3> SUFFICES ASSUME NEW i \in DOMAIN t, NEW j \in DOMAIN t,
                        t[i].event = t[j].event, t[i].event # NoEvent
                 PROVE  i = j
      BY DEF Once
    <3>1. CASE i \in DOMAIN l /\ j \in DOMAIN l
      BY <1>2, <2>1, <3>1 DEF Once
    <3>2. CASE i \notin DOMAIN l /\ j \notin DOMAIN l
      BY <2>1, <3>2
    <3>3. CASE i \in DOMAIN l /\ j \notin DOMAIN l
      BY <2>1, <2>4, <3>3
    <3>4. CASE i \notin DOMAIN l /\ j \in DOMAIN l
      BY <2>1, <2>4, <3>4
    <3> QED
      BY <3>1, <3>2, <3>3, <3>4
  <2> QED
    BY <1>4, <2>1, <2>3, <2>5
<1> QED
  BY <1>3, <1>4, WrittenFile

\* A write of either kind keeps the invariant, applied, rolled back or cut
\* short by the end of the process.
LEMMA WriteInv ==
  ASSUME IInv, NEW m \in Managers, NEW e, NEW lf, NEW must, WriteOf(m, e, lf, must)
  PROVE  IInv'
<1> DEFINE t == Append(log[m], e)
<1>1. /\ IsSeq(log[m]) /\ DOMAIN log = Managers /\ DOMAIN flushed = Managers
      /\ \A k \in Managers : IsSeq(log[k]) /\ flushed[k] \in BOOLEAN
      /\ owner = m /\ m # Nobody /\ born /\ born' = born
  BY SentinelAssumption DEF IInv, Shape, Unborn, WriteOf, Write, Live
<1>2. /\ IsSeq(t) /\ Len(log[m]) \in Nat /\ DOMAIN log[m] = 1..Len(log[m])
      /\ Len(t) = Len(log[m]) + 1 /\ DOMAIN t = 1..(Len(log[m]) + 1)
      /\ \A i \in 1..Len(log[m]) : t[i] = log[m][i]
      /\ t[Len(log[m]) + 1] = e
  BY <1>1, AppendFacts
<1>3. IsSeq(file') /\ Extends(file, file') /\ Once(file')
  BY WriteExtends
<1>4. Len(file) \in Nat /\ DOMAIN file = 1..Len(file) /\ DOMAIN file' = 1..Len(file')
      /\ Len(file') \in Nat
  BY <1>3, AppendFacts DEF IInv, Shape
<1> HIDE DEF t
<1>5. \/ Applied(m, e, lf, must) \/ RolledBack(m, e, lf, must) \/ Dies(m, e, must)
  BY DEF WriteOf, Write
<1>6. receipts' \subseteq Events
  BY DEF IInv, Shape, WriteOf
<1>7. ReceiptsDurable'
  <2> SUFFICES ASSUME NEW ev \in receipts' PROVE Recorded(file', ev)
    BY DEF ReceiptsDurable
  <2>1. CASE ev \in receipts
    BY <1>3, <1>4, <2>1 DEF IInv, ReceiptsDurable, Recorded, Extends
  <2>2. CASE ev \notin receipts
    <3>1. must /\ e.event = ev /\ log' # log
      BY <2>2 DEF WriteOf
    <3>2. Applied(m, e, lf, must)
      BY <1>5, <3>1 DEF RolledBack, Dies, memVars
    <3>3. file' = t
      BY <1>1, <3>1, <3>2 DEF Applied, IInv, InStep, Live, t
    <3> QED
      BY <1>2, <3>1, <3>3 DEF Recorded
  <2> QED
    BY <2>1, <2>2
<1>8. DeliveredOnce'
  BY <1>3 DEF Once, DeliveredOnce
<1>9. Unborn'
  BY <1>1 DEF Unborn
<1>10. CASE Applied(m, e, lf, must)
  <2>1. Shape'
    BY <1>1, <1>2, <1>3, <1>6, <1>10 DEF Shape, IInv, Applied, WriteOf, t
  <2>2. Buffered'
    <3> SUFFICES ASSUME NEW k \in Managers, Live(k)', ~flushed'[k]
                 PROVE  file' = <<>> /\ tail' = "clean" /\ Unread(log'[k])
      BY DEF Buffered
    <3>1. k = m /\ ~flushed[m] /\ ~must
      BY <1>1, <1>10 DEF Applied, Live
    <3>2. file = <<>> /\ tail = "clean" /\ Unread(log[m]) /\ e.event = NoEvent
      BY <1>1, <3>1 DEF IInv, Buffered, Live, WriteOf
    <3>3. log'[m] = t /\ file' = file /\ tail' = tail
      BY <1>1, <1>10, <3>1 DEF Applied, t
    <3>4. Unread(t)
      BY <1>2, <3>2 DEF Unread
    <3> QED
      BY <3>1, <3>2, <3>3, <3>4
  <2>3. InStep'
    <3> SUFFICES ASSUME NEW k \in Managers, Live(k)', flushed'[k]
                 PROVE  file' = log'[k] /\ tail' = "clean"
      BY DEF InStep
    <3>1. k = m /\ must
      BY <1>1, <1>10 DEF Applied, Live, WriteOf
    <3>2. tail' = "clean"
      BY <1>1, <1>10 DEF Applied, IInv, InStep, Buffered, Live
    <3>3. log'[m] = t /\ file' = t
      BY <1>1, <1>10, <3>1 DEF Applied, IInv, InStep, Live, t
    <3> QED
      BY <3>1, <3>2, <3>3
  <2> QED
    BY <1>7, <1>8, <1>9, <2>1, <2>2, <2>3 DEF IInv
<1>11. CASE RolledBack(m, e, lf, must)
  <2>1. Shape' /\ Buffered' /\ InStep'
    BY <1>6, <1>11 DEF RolledBack, IInv, Shape, Buffered, InStep, Live, memVars
  <2> QED
    BY <1>7, <1>8, <1>9, <2>1 DEF IInv
<1>12. CASE Dies(m, e, must)
  <2>1. owner' = Nobody /\ UNCHANGED <<log, flushed>>
    BY <1>12 DEF Dies, memVars
  <2>2. Shape'
    BY <1>1, <1>3, <1>6, <2>1 DEF Shape
  <2>3. Buffered' /\ InStep'
    BY <2>1, SentinelAssumption DEF Buffered, InStep, Live
  <2> QED
    BY <1>7, <1>8, <1>9, <2>2, <2>3 DEF IInv
<1> QED
  BY <1>5, <1>10, <1>11, <1>12

\* Every call that writes an entry makes one of the two kinds of write.
LEMMA PlainWrite ==
  ASSUME IInv, NEW m \in Managers, NEW e, NEW lf, NEW must,
         Write(m, e, lf, must), must \in BOOLEAN, flushed[m] => must,
         e.event = NoEvent, receipts' = receipts
  PROVE  IInv' /\ Extends(file, file')
<1>1. WriteOf(m, e, lf, must)
  BY DEF WriteOf
<1> QED
  BY <1>1, WriteInv, WriteExtends

LEMMA MessageInv ==
  ASSUME IInv, NEW m \in Managers, NEW k, AppendMessage(m, k)
  PROVE  IInv' /\ Extends(file, file')
<1> DEFINE e == [Blank EXCEPT !.kind = k, !.parent = leaf[m]]
<1>1. e.event = NoEvent
  BY DEF Blank
<1>2. /\ Write(m, e, Next1(m), MustFlush(m, k)) /\ receipts' = receipts
      /\ MustFlush(m, k) \in BOOLEAN /\ (flushed[m] => MustFlush(m, k))
  BY DEF AppendMessage, MustFlush
<1> HIDE DEF e
<1> QED
  BY <1>1, <1>2, PlainWrite

LEMMA DeliveryInv ==
  ASSUME IInv, NEW m \in Managers, NEW ev \in Events, AppendDelivery(m, ev)
  PROVE  IInv' /\ Extends(file, file')
<1> DEFINE e == [Blank EXCEPT !.kind = "delivery", !.parent = leaf[m], !.event = ev]
<1>1. e.event = ev
  BY DEF Blank
<1>2. /\ Write(m, e, Next1(m), TRUE) /\ ~Recorded(log[m], ev)
      /\ receipts' = IF log' # log THEN receipts \cup {ev} ELSE receipts
  BY DEF AppendDelivery, MustFlush
<1> HIDE DEF e
<1>3. WriteOf(m, e, Next1(m), TRUE)
  BY <1>1, <1>2 DEF WriteOf
<1> QED
  BY <1>3, WriteInv, WriteExtends

LEMMA NoteInv ==
  ASSUME IInv, NEW m \in Managers, AppendNote(m)
  PROVE  IInv' /\ Extends(file, file')
<1>1. Blank.event = NoEvent
  BY DEF Blank
<1> QED
  BY <1>1, PlainWrite DEF AppendNote

LEMMA CompactionInv ==
  ASSUME IInv, NEW m \in Managers, NEW kept, NEW drops, AppendCompaction(m, kept, drops)
  PROVE  IInv' /\ Extends(file, file')
<1> DEFINE e == [Blank EXCEPT !.kind = "compaction", !.parent = leaf[m], !.kept = kept,
                              !.dropped = DroppedSet(m) \cup drops]
           must == MustFlush(m, "compaction")
<1>1. e.event = NoEvent
  BY DEF Blank
<1>2. /\ Write(m, e, Next1(m), must) /\ receipts' = receipts
      /\ must \in BOOLEAN /\ (flushed[m] => must)
  BY DEF AppendCompaction, MustFlush
<1> HIDE DEF e, must
<1> QED
  BY <1>1, <1>2, PlainWrite

LEMMA MoveInv ==
  ASSUME IInv, NEW m \in Managers, NEW to, Move(m, to)
  PROVE  IInv' /\ Extends(file, file')
<1> DEFINE e == [Blank EXCEPT !.kind = "move", !.target = to, !.from = leaf[m]]
<1>1. e.event = NoEvent
  BY DEF Blank
<1>2. Write(m, e, to, TRUE) /\ receipts' = receipts
  BY DEF Move
<1> HIDE DEF e
<1> QED
  BY <1>1, <1>2, PlainWrite

\* Calls that write no entry leave the file as it is; a Manager that opens the
\* session takes its memory from it.
LEMMA QuietInv ==
  ASSUME IInv, NEW m \in Managers,
         Create(m) \/ Open(m) \/ Close(m) \/ Fork(m)
           \/ \E ev \in Events : RepeatDelivery(m, ev)
  PROVE  IInv' /\ file' = file
<1> USE DEF IInv
<1>1. CASE Create(m)
  <2>1. Shape' /\ Unborn' /\ ReceiptsDurable' /\ DeliveredOnce'
    BY <1>1 DEF Create, Shape, Unborn, ReceiptsDurable, DeliveredOnce, memVars
  <2>2. Buffered' /\ InStep'
    <3>1. /\ file' = <<>> /\ tail' = "clean" /\ owner' = m
          /\ log'[m] = <<>> /\ flushed'[m] = FALSE
      BY <1>1 DEF Create, Unborn, memVars
    <3> QED
      BY <3>1, EmptyLog DEF Buffered, InStep, Live, Unread
  <2> QED
    BY <1>1, <2>1, <2>2 DEF Create
<1>2. CASE Open(m)
  <2>1. /\ owner' = m /\ tail' = "clean" /\ log' = [log EXCEPT ![m] = file]
        /\ flushed' = [flushed EXCEPT ![m] = TRUE]
        /\ UNCHANGED <<born, file, receipts>>
    BY <1>2 DEF Open
  <2>2. born
    BY <1>2 DEF Open, Unborn
  <2>3. Shape'
    BY <2>1 DEF Shape
  <2>4. Buffered' /\ InStep'
    BY <2>1 DEF Shape, Buffered, InStep, Live
  <2>5. Unborn' /\ ReceiptsDurable' /\ DeliveredOnce'
    BY <2>1, <2>2 DEF Unborn, ReceiptsDurable, DeliveredOnce
  <2> QED
    BY <2>1, <2>3, <2>4, <2>5
<1>3. CASE Close(m)
  <2>1. owner' = Nobody /\ UNCHANGED <<born, log, flushed, file, tail, receipts>>
    BY <1>3 DEF Close, memVars
  <2>2. Shape' /\ Unborn' /\ ReceiptsDurable' /\ DeliveredOnce'
    BY <2>1 DEF Shape, Unborn, ReceiptsDurable, DeliveredOnce
  <2>3. Buffered' /\ InStep'
    BY <2>1, SentinelAssumption DEF Buffered, InStep, Live
  <2> QED
    BY <2>1, <2>2, <2>3
<1>4. CASE Fork(m)
  <2>1. UNCHANGED <<owner, born, log, flushed, file, tail, receipts>>
    BY <1>4 DEF Fork, memVars
  <2> QED
    BY <2>1 DEF Shape, Unborn, ReceiptsDurable, DeliveredOnce, Buffered, InStep, Live
<1>5. ASSUME NEW ev \in Events, RepeatDelivery(m, ev) PROVE IInv' /\ file' = file
  <2>1. /\ receipts' = receipts \cup {ev} /\ Recorded(log[m], ev) /\ Live(m)
        /\ UNCHANGED <<owner, born, log, flushed, file, tail>>
    BY <1>5 DEF RepeatDelivery, memVars
  <2>2. Recorded(file, ev)
    <3>1. ~Unread(log[m])
      BY <2>1, SentinelAssumption DEF Unread, Recorded
    <3>2. file = log[m]
      BY <2>1, <3>1 DEF Buffered, InStep, Shape
    <3> QED
      BY <2>1, <3>2
  <2>3. ReceiptsDurable'
    BY <2>1, <2>2 DEF ReceiptsDurable, Recorded
  <2>4. Shape' /\ Unborn' /\ DeliveredOnce' /\ Buffered' /\ InStep'
    BY <2>1 DEF Shape, Unborn, DeliveredOnce, Buffered, InStep, Live
  <2> QED
    BY <2>1, <2>3, <2>4
<1> QED
  BY <1>1, <1>2, <1>3, <1>4, <1>5

LEMMA SameFile ==
  ASSUME IInv, file' = file
  PROVE  Extends(file, file')
BY AppendFacts DEF IInv, Shape, Extends

LEMMA StepInv ==
  ASSUME IInv, [Next]_vars
  PROVE  IInv' /\ Extends(file, file')
<1>1. CASE UNCHANGED vars
  <2>1. UNCHANGED <<owner, born, log, flushed, file, tail, receipts>>
    BY <1>1 DEF vars, memVars
  <2>2. IInv'
    BY <2>1 DEF IInv, Shape, Unborn, ReceiptsDurable, DeliveredOnce, Buffered, InStep, Live
  <2> QED
    BY <2>1, <2>2, SameFile
<1>2. CASE Next
  <2>1. PICK m \in Managers :
          \/ Create(m) \/ Open(m) \/ Close(m) \/ Fork(m)
          \/ \E k \in Kinds : AppendMessage(m, k)
          \/ \E ev \in Events : AppendDelivery(m, ev) \/ RepeatDelivery(m, ev)
          \/ AppendNote(m)
          \/ \E kept \in Context(m) \cup {0} : AppendCompaction(m, kept, {})
          \/ \E i \in Of(log[m], Context(m), Messages) : Drop(m, i)
          \/ \E i \in Boundaries(m) : Rewind(m, i)
          \/ UndoRewind(m)
    BY <1>2 DEF Next
  <2>2. CASE Create(m) \/ Open(m) \/ Close(m) \/ Fork(m)
               \/ \E ev \in Events : RepeatDelivery(m, ev)
    BY <2>2, QuietInv, SameFile
  <2>3. CASE \E k \in Kinds : AppendMessage(m, k)
    BY <2>3, MessageInv
  <2>4. CASE \E ev \in Events : AppendDelivery(m, ev)
    BY <2>4, DeliveryInv
  <2>5. CASE AppendNote(m)
    BY <2>5, NoteInv
  <2>6. CASE \E kept \in Context(m) \cup {0} : AppendCompaction(m, kept, {})
    BY <2>6, CompactionInv
  <2>7. CASE \E i \in Of(log[m], Context(m), Messages) : Drop(m, i)
    BY <2>7, CompactionInv DEF Drop
  <2>8. CASE \E i \in Boundaries(m) : Rewind(m, i)
    BY <2>8, MoveInv DEF Rewind
  <2>9. CASE UndoRewind(m)
    BY <2>9, MoveInv DEF UndoRewind
  <2> QED
    BY <2>1, <2>2, <2>3, <2>4, <2>5, <2>6, <2>7, <2>8, <2>9
<1> QED
  BY <1>1, <1>2

LEMMA Invariant == Spec => []IInv
BY InitInv, StepInv, PTL DEF Spec

(***************************************************************************)
(* Reopening: the replay of a log and the walk to its root are recursions  *)
(* over the log; what they compute is shown from a least counterexample.   *)
(***************************************************************************)

\* A set of numbers that is not empty has a least one.
LEMMA LeastOf ==
  ASSUME NEW S, S \subseteq Nat, S # {}
  PROVE  \E n \in S : \A k \in S : n <= k
<1>1. PICK n \in S : \A k \in S : ~(<<k, n>> \in OpToRel(<, Nat))
  BY NatLessThanWellFounded, WFMin
<1>2. \A k \in S : ~(k < n)
  BY <1>1 DEF OpToRel
<1> QED
  BY <1>2

\* Where the cursor is after each of the first n entries.
Replay(l, n, g) ==
  g = [i \in 0..n |->
        IF i = 0 THEN 0
        ELSE CASE l[i].kind = "note" -> g[i - 1]
               [] l[i].kind = "move" -> l[i].target
               [] OTHER              -> i]

\* The cursor after entry e in place i.
Lands(e, i, before) ==
  CASE e.kind = "note" -> before
    [] e.kind = "move" -> e.target
    [] OTHER           -> i

LEMMA ReplayStep ==
  ASSUME NEW l, NEW n \in Nat, NEW g, Replay(l, n, g)
  PROVE  /\ g[0] = 0
         /\ \A i \in 1..n : g[i] = Lands(l[i], i, g[i - 1])
<1>1. g[0] = 0
  BY DEF Replay
<1>2. ASSUME NEW i \in 1..n PROVE g[i] = Lands(l[i], i, g[i - 1])
  <2>1. i \in 0..n /\ i # 0
    OBVIOUS
  <2> QED
    BY <2>1 DEF Replay, Lands
<1> QED
  BY <1>1, <1>2

LEMMA ReplayExists ==
  ASSUME NEW l, NEW n \in Nat
  PROVE  \E g : Replay(l, n, g)
<1> DEFINE Has(k) == \E g : Replay(l, k, g)
           bad == {k \in Nat : ~Has(k)}
<1>1. Has(0)
  <2>1. Replay(l, 0, [i \in 0..0 |-> 0])
    BY DEF Replay
  <2> QED
    BY <2>1
<1>2. ASSUME NEW k \in Nat, Has(k) PROVE Has(k + 1)
  <2>1. PICK g : Replay(l, k, g)
    BY <1>2
  <2> DEFINE last == Lands(l[k + 1], k + 1, g[k])
             h == [i \in 0..(k + 1) |-> IF i = k + 1 THEN last ELSE g[i]]
  <2>2. ASSUME NEW i \in 0..(k + 1)
        PROVE  h[i] = IF i = 0 THEN 0 ELSE Lands(l[i], i, h[i - 1])
    <3>1. CASE i = 0
      <4>1. g[0] = 0
        BY <2>1, ReplayStep
      <4> QED
        BY <3>1, <4>1
    <3>2. CASE i # 0 /\ i # k + 1
      <4>1. i \in 1..k /\ i - 1 \in 0..(k + 1) /\ i - 1 # k + 1
        BY <3>2
      <4>2. h[i] = g[i] /\ h[i - 1] = g[i - 1]
        BY <3>2, <4>1
      <4>3. g[i] = Lands(l[i], i, g[i - 1])
        BY <2>1, <4>1, ReplayStep
      <4> HIDE DEF h
      <4> QED
        BY <3>2, <4>2, <4>3
    <3>3. CASE i = k + 1
      <4>1. i # 0 /\ i - 1 = k /\ k \in 0..(k + 1) /\ k # k + 1
        BY <3>3
      <4>2. h[k] = g[k] /\ h[i] = last
        BY <3>3, <4>1
      <4> HIDE DEF h
      <4> QED
        BY <3>3, <4>1, <4>2
    <3> QED
      BY <3>1, <3>2, <3>3
  <2>3. h = [i \in 0..(k + 1) |-> h[i]]
    OBVIOUS
  <2> HIDE DEF h
  <2>4. Replay(l, k + 1, h)
    BY <2>2, <2>3 DEF Replay, Lands
  <2> QED
    BY <2>4
<1> HIDE DEF Has
<1>3. bad = {}
  <2> SUFFICES ASSUME bad # {} PROVE FALSE
    OBVIOUS
  <2>1. PICK k \in bad : \A j \in bad : k <= j
    BY LeastOf
  <2>2. k \in Nat /\ ~Has(k) /\ k # 0
    BY <1>1, <2>1
  <2>3. k - 1 \in Nat /\ Has(k - 1)
    BY <2>1, <2>2
  <2> QED
    BY <1>2, <2>2, <2>3
<1> QED
  BY <1>3 DEF Has

\* The cursor depends on the entries read so far only.
LEMMA ReplayAgrees ==
  ASSUME NEW l, NEW n \in Nat, NEW g, Replay(l, n, g),
         NEW t, NEW k \in Nat, NEW h, Replay(t, k, h), n <= k,
         \A i \in 1..n : l[i] = t[i]
  PROVE  g[n] = h[n]
<1> DEFINE bad == {i \in 0..n : g[i] # h[i]}
<1>1. bad = {}
  <2> SUFFICES ASSUME bad # {} PROVE FALSE
    OBVIOUS
  <2>1. PICK i \in bad : \A j \in bad : i <= j
    <3>1. bad \subseteq Nat
      OBVIOUS
    <3> HIDE DEF bad
    <3> QED
      BY <3>1, LeastOf
  <2>2. g[0] = h[0]
    BY ReplayStep
  <2>3. i \in 1..n /\ i \in 1..k /\ i - 1 \in 0..n /\ g[i - 1] = h[i - 1]
    BY <2>1, <2>2
  <2>4. g[i] = Lands(l[i], i, g[i - 1]) /\ h[i] = Lands(t[i], i, h[i - 1])
    BY <2>3, ReplayStep
  <2>5. g[i] = h[i]
    BY <2>3, <2>4
  <2> QED
    BY <2>1, <2>5
<1> QED
  BY <1>1

LEMMA ReplayedLeafIs ==
  ASSUME NEW l, Len(l) \in Nat
  PROVE  \E g : Replay(l, Len(l), g) /\ ReplayedLeaf(l) = g[Len(l)]
<1> DEFINE f == CHOOSE g : Replay(l, Len(l), g)
<1>1. Replay(l, Len(l), f)
  BY ReplayExists
<1>2. ReplayedLeaf(l) = f[Len(l)]
  BY DEF ReplayedLeaf, Replay
<1> QED
  BY <1>1, <1>2

\* The replay of a longer log goes on where that of the shorter one ended.
LEMMA ReplayAppend ==
  ASSUME NEW l, IsSeq(l), NEW e
  PROVE  ReplayedLeaf(Append(l, e)) = Lands(e, Len(l) + 1, ReplayedLeaf(l))
<1> DEFINE t == Append(l, e)
           n == Len(l)
<1>1. /\ n \in Nat /\ Len(t) = n + 1 /\ t[n + 1] = e
      /\ \A i \in 1..n : t[i] = l[i]
  BY AppendFacts
<1> HIDE DEF t
<1>2. PICK g : Replay(l, n, g) /\ ReplayedLeaf(l) = g[n]
  BY <1>1, ReplayedLeafIs
<1>3. PICK h : Replay(t, n + 1, h) /\ ReplayedLeaf(t) = h[n + 1]
  BY <1>1, ReplayedLeafIs
<1> HIDE DEF n
<1>4. g[n] = h[n]
  BY <1>1, <1>2, <1>3, ReplayAgrees
<1>5. h[n + 1] = Lands(t[n + 1], n + 1, h[n])
  <2>1. n + 1 \in 1..(n + 1) /\ n + 1 \in Nat /\ (n + 1) - 1 = n
    BY <1>1
  <2>2. h[n + 1] = Lands(t[n + 1], n + 1, h[(n + 1) - 1])
    BY <1>3, <2>1, ReplayStep
  <2> QED
    BY <2>1, <2>2
<1> QED
  BY <1>1, <1>2, <1>3, <1>4, <1>5 DEF t, n

LEMMA ReplayEmpty == ReplayedLeaf(<<>>) = 0
<1>1. Len(<<>>) = 0
  BY EmptySeq
<1>2. PICK g : Replay(<<>>, 0, g) /\ ReplayedLeaf(<<>>) = g[0]
  BY <1>1, ReplayedLeafIs
<1> QED
  BY <1>2, ReplayStep

\* What an entry points at is older than itself; n is how many are older.
Points(e, n) ==
  /\ e.parent \in 0..n
  /\ e.kind = "move" => e.target \in 0..n /\ e.from \in 0..n

Rooted(l) == \A i \in DOMAIN l : Points(l[i], i - 1)

\* The entries on the way from each of the first n back to the root.
Walk(l, n, g) ==
  g = [i \in 0..n |-> IF i = 0 THEN {} ELSE {i} \cup g[l[i].parent]]

LEMMA WalkExists ==
  ASSUME NEW l, NEW n \in Nat, \A i \in 1..n : l[i].parent \in 0..(i - 1)
  PROVE  \E g : Walk(l, n, g)
<1> DEFINE Has(k) == \E g : Walk(l, k, g)
           bad == {k \in 0..n : ~Has(k)}
<1>1. Has(0)
  <2>1. Walk(l, 0, [i \in 0..0 |-> {}])
    BY DEF Walk
  <2> QED
    BY <2>1
<1>2. ASSUME NEW k \in Nat, k + 1 \in 1..n, Has(k) PROVE Has(k + 1)
  <2>1. PICK g : Walk(l, k, g)
    BY <1>2
  <2> DEFINE h == [i \in 0..(k + 1) |->
                     IF i = k + 1 THEN {k + 1} \cup g[l[k + 1].parent] ELSE g[i]]
  <2>2. ASSUME NEW i \in 0..(k + 1)
        PROVE  h[i] = IF i = 0 THEN {} ELSE {i} \cup h[l[i].parent]
    <3>1. CASE i = 0
      <4>1. g[0] = {}
        BY <2>1 DEF Walk
      <4> QED
        BY <3>1, <4>1
    <3>2. CASE i # 0 /\ i # k + 1
      <4>1. /\ i \in 0..k /\ l[i].parent \in 0..(i - 1)
            /\ l[i].parent \in 0..(k + 1) /\ l[i].parent # k + 1
        BY <1>2, <3>2
      <4>2. h[i] = g[i] /\ h[l[i].parent] = g[l[i].parent]
        BY <3>2, <4>1
      <4>3. g[i] = {i} \cup g[l[i].parent]
        BY <2>1, <3>2, <4>1 DEF Walk
      <4> HIDE DEF h
      <4> QED
        BY <3>2, <4>2, <4>3
    <3>3. CASE i = k + 1
      <4>1. /\ l[k + 1].parent \in 0..((k + 1) - 1)
            /\ l[k + 1].parent \in 0..(k + 1) /\ l[k + 1].parent # k + 1
        BY <1>2
      <4>2. h[l[k + 1].parent] = g[l[k + 1].parent]
        BY <4>1
      <4>3. h[k + 1] = {k + 1} \cup g[l[k + 1].parent] /\ k + 1 # 0
        BY <1>2
      <4> HIDE DEF h
      <4> QED
        BY <3>3, <4>2, <4>3
    <3> QED
      BY <3>1, <3>2, <3>3
  <2>3. h = [i \in 0..(k + 1) |-> h[i]]
    OBVIOUS
  <2> HIDE DEF h
  <2>4. Walk(l, k + 1, h)
    BY <2>2, <2>3 DEF Walk
  <2> QED
    BY <2>4
<1> HIDE DEF Has
<1>3. bad = {}
  <2> SUFFICES ASSUME bad # {} PROVE FALSE
    OBVIOUS
  <2>1. PICK k \in bad : \A j \in bad : k <= j
    <3>1. bad \subseteq Nat
      OBVIOUS
    <3> HIDE DEF bad
    <3> QED
      BY <3>1, LeastOf
  <2>2. k \in 1..n /\ ~Has(k)
    BY <1>1, <2>1
  <2>3. k - 1 \in Nat /\ (k - 1) + 1 = k /\ Has(k - 1)
    BY <2>1, <2>2
  <2> QED
    BY <1>2, <2>2, <2>3
<1> QED
  BY <1>3 DEF Has

\* A path holds entries of the log only.
LEMMA PathInLog ==
  ASSUME NEW l, IsSeq(l), Rooted(l), NEW lf \in 0..Len(l)
  PROVE  Path(l, lf) \subseteq DOMAIN l
<1>1. Len(l) \in Nat /\ DOMAIN l = 1..Len(l)
  BY AppendFacts
<1>2. \A i \in 1..Len(l) : l[i].parent \in 0..(i - 1)
  BY <1>1 DEF Rooted, Points
<1> DEFINE up == CHOOSE g : Walk(l, Len(l), g)
<1>3. Walk(l, Len(l), up)
  BY <1>1, <1>2, WalkExists
<1>4. Path(l, lf) = up[lf]
  BY DEF Path, Walk
<1> HIDE DEF up
<1>5. \A i \in 0..Len(l) : up[i] = IF i = 0 THEN {} ELSE {i} \cup up[l[i].parent]
  BY <1>3 DEF Walk
<1> DEFINE bad == {i \in 0..Len(l) : ~(up[i] \subseteq 1..Len(l))}
<1>6. bad = {}
  <2> SUFFICES ASSUME bad # {} PROVE FALSE
    OBVIOUS
  <2>1. PICK i \in bad : \A j \in bad : i <= j
    <3>1. bad \subseteq Nat
      BY <1>1
    <3> HIDE DEF bad
    <3> QED
      BY <3>1, LeastOf
  <2>2. i \in 0..Len(l) /\ ~(up[i] \subseteq 1..Len(l))
    BY <2>1
  <2>3. i # 0
    BY <1>1, <1>5, <2>2
  <2>4. i \in 1..Len(l) /\ l[i].parent \in 0..(i - 1) /\ l[i].parent \in 0..Len(l)
    BY <1>1, <1>2, <2>2, <2>3
  <2>5. up[l[i].parent] \subseteq 1..Len(l)
    BY <1>1, <2>1, <2>4
  <2>6. up[i] = {i} \cup up[l[i].parent]
    BY <1>5, <2>2, <2>3
  <2> QED
    BY <2>2, <2>4, <2>5, <2>6
<1> QED
  BY <1>1, <1>4, <1>6

\* A log whose entries point backwards is replayed to an entry of its own.
LEMMA ReplayInLog ==
  ASSUME NEW l, IsSeq(l), Rooted(l)
  PROVE  ReplayedLeaf(l) \in 0..Len(l)
<1>1. Len(l) \in Nat /\ DOMAIN l = 1..Len(l)
  BY AppendFacts
<1>2. PICK g : Replay(l, Len(l), g) /\ ReplayedLeaf(l) = g[Len(l)]
  BY <1>1, ReplayedLeafIs
<1>3. g[0] = 0 /\ \A i \in 1..Len(l) : g[i] = Lands(l[i], i, g[i - 1])
  BY <1>1, <1>2, ReplayStep
<1> DEFINE bad == {i \in 0..Len(l) : g[i] \notin 0..i}
<1>4. bad = {}
  <2> SUFFICES ASSUME bad # {} PROVE FALSE
    OBVIOUS
  <2>1. PICK i \in bad : \A j \in bad : i <= j
    <3>1. bad \subseteq Nat
      BY <1>1
    <3> HIDE DEF bad
    <3> QED
      BY <3>1, LeastOf
  <2>2. i \in 1..Len(l) /\ g[i] \notin 0..i
    BY <1>1, <1>3, <2>1
  <2>3. g[i - 1] \in 0..(i - 1)
    BY <1>1, <2>1, <2>2
  <2>4. l[i].kind = "move" => l[i].target \in 0..(i - 1)
    BY <1>1, <2>2 DEF Rooted, Points
  <2>5. g[i] = Lands(l[i], i, g[i - 1])
    BY <1>3, <2>2
  <2>6. CASE l[i].kind = "note"
    BY <1>1, <2>2, <2>3, <2>5, <2>6 DEF Lands
  <2>7. CASE l[i].kind = "move"
    <3>1. g[i] = l[i].target
      BY <2>5, <2>7 DEF Lands
    <3> QED
      BY <1>1, <2>2, <2>4, <2>7, <3>1
  <2>8. CASE l[i].kind # "note" /\ l[i].kind # "move"
    <3>1. g[i] = i
      BY <2>5, <2>8 DEF Lands
    <3> QED
      BY <1>1, <2>2, <3>1
  <2> QED
    BY <2>6, <2>7, <2>8
<1> QED
  BY <1>1, <1>2, <1>4

\* The newest of some entries of a log is one of them.
LEMMA NewestIsOne ==
  ASSUME NEW n \in Nat, NEW S \in SUBSET (1..n), S # {}
  PROVE  Max(S) \in S
<1> DEFINE below == {n - x : x \in S}
<1>1. below \subseteq Nat /\ below # {}
  <2>1. ASSUME NEW x \in S PROVE n - x \in Nat
    <3>1. x \in 1..n
      OBVIOUS
    <3> QED
      BY <3>1
  <2>2. PICK x : x \in S
    OBVIOUS
  <2>3. n - x \in below
    BY <2>2
  <2> QED
    BY <2>1, <2>3
<1>2. PICK d \in below : \A k \in below : d <= k
  <2> HIDE DEF below
  <2> QED
    BY <1>1, LeastOf
<1>3. PICK x \in S : d = n - x
  BY <1>2
<1>4. \A y \in S : n - y \in below
  OBVIOUS
<1>5. \A y \in S : d <= n - y
  BY <1>2, <1>4
<1>6. \A y \in S : x >= y
  BY <1>3, <1>5
<1> QED
  BY <1>6 DEF Max

Answered(l) == Of(l, DOMAIN l, {"answer", "call"}) # {}

\* The owner's cursor is where a replay of what it has in memory would end, and
\* all that is in memory or in the file can be replayed.
Reopens ==
  /\ DOMAIN leaf = Managers /\ DOMAIN answered = Managers
  /\ ~born => \A m \in Managers : leaf[m] = 0 /\ answered[m] = FALSE
  /\ Rooted(file)
  /\ \A m \in Managers : Live(m) =>
       /\ Rooted(log[m])
       /\ leaf[m] = ReplayedLeaf(log[m])
       /\ answered[m] <=> Answered(log[m])

\* An entry that points back and moves the cursor as its replay will.
Aimed(m, e, lf) ==
  Points(e, Len(log[m])) /\ lf = Lands(e, Len(log[m]) + 1, leaf[m])

LEMMA RootedAppend ==
  ASSUME NEW l, IsSeq(l), Rooted(l), NEW e, Points(e, Len(l))
  PROVE  Rooted(Append(l, e))
<1> DEFINE t == Append(l, e)
<1>1. /\ Len(l) \in Nat /\ DOMAIN l = 1..Len(l) /\ DOMAIN t = 1..(Len(l) + 1)
      /\ \A i \in 1..Len(l) : t[i] = l[i]
      /\ t[Len(l) + 1] = e
  BY AppendFacts
<1> HIDE DEF t
<1>2. ASSUME NEW i \in DOMAIN t PROVE Points(t[i], i - 1)
  <2>1. CASE i \in 1..Len(l)
    BY <1>1, <2>1 DEF Rooted
  <2>2. CASE i = Len(l) + 1
    <3>1. t[i] = e /\ i - 1 = Len(l)
      BY <1>1, <2>2
    <3> QED
      BY <3>1
  <2> QED
    BY <1>1, <1>2, <2>1, <2>2
<1> QED
  BY <1>2 DEF Rooted, t

LEMMA AnsweredAppend ==
  ASSUME NEW l, IsSeq(l), NEW e
  PROVE  Answered(Append(l, e)) <=> Answered(l) \/ e.kind \in {"answer", "call"}
<1> DEFINE t == Append(l, e)
<1>1. /\ Len(l) \in Nat /\ DOMAIN l = 1..Len(l) /\ DOMAIN t = 1..(Len(l) + 1)
      /\ \A i \in 1..Len(l) : t[i] = l[i]
      /\ t[Len(l) + 1] = e
  BY AppendFacts
<1> HIDE DEF t
<1>2. Answered(t) <=> \E i \in DOMAIN t : t[i].kind \in {"answer", "call"}
  BY DEF Answered, Of
<1>3. Answered(l) <=> \E i \in DOMAIN l : l[i].kind \in {"answer", "call"}
  BY DEF Answered, Of
<1>4. (\E i \in DOMAIN t : t[i].kind \in {"answer", "call"})
        <=> (\E i \in DOMAIN l : l[i].kind \in {"answer", "call"}) \/ e.kind \in {"answer", "call"}
  BY <1>1
<1> QED
  BY <1>2, <1>3, <1>4 DEF t

LEMMA OwnerCursor ==
  ASSUME IInv, Reopens, NEW m \in Managers, Live(m)
  PROVE  /\ IsSeq(log[m]) /\ Rooted(log[m]) /\ leaf[m] \in 0..Len(log[m])
         /\ Len(log[m]) \in Nat /\ DOMAIN log[m] = 1..Len(log[m])
<1>1. IsSeq(log[m]) /\ Rooted(log[m]) /\ leaf[m] = ReplayedLeaf(log[m])
  BY DEF IInv, Shape, Reopens
<1> QED
  BY <1>1, ReplayInLog, AppendFacts

LEMMA WriteReopens ==
  ASSUME IInv, Reopens, NEW m \in Managers, NEW e, NEW lf, NEW must,
         WriteOf(m, e, lf, must), Aimed(m, e, lf)
  PROVE  Reopens'
<1> DEFINE l == log[m]
           t == Append(log[m], e)
<1>1. /\ owner = m /\ Live(m) /\ born /\ born' = born
      /\ DOMAIN log = Managers /\ DOMAIN leaf = Managers /\ DOMAIN answered = Managers
  BY SentinelAssumption DEF IInv, Shape, Unborn, Reopens, WriteOf, Write, Live
<1>2. /\ IsSeq(l) /\ Rooted(l) /\ leaf[m] = ReplayedLeaf(l)
      /\ answered[m] <=> Answered(l)
  BY <1>1 DEF IInv, Shape, Reopens
<1>3. Rooted(t)
  BY <1>2, RootedAppend DEF Aimed
<1>4. Rooted(file')
  BY <1>3, WrittenFile DEF Reopens
<1>5. \/ Applied(m, e, lf, must) \/ RolledBack(m, e, lf, must) \/ Dies(m, e, must)
  BY DEF WriteOf, Write
<1>6. CASE Applied(m, e, lf, must)
  <2>1. /\ owner' = m /\ log' = [log EXCEPT ![m] = t] /\ leaf' = [leaf EXCEPT ![m] = lf]
        /\ answered' = [answered EXCEPT ![m] = @ \/ e.kind \in {"answer", "call"}]
    BY <1>1, <1>6 DEF Applied
  <2>2. lf = ReplayedLeaf(t)
    BY <1>2, ReplayAppend DEF Aimed
  <2>3. (answered[m] \/ e.kind \in {"answer", "call"}) <=> Answered(t)
    BY <1>2, AnsweredAppend
  <2> HIDE DEF t, l
  <2>4. log'[m] = t /\ leaf'[m] = lf /\ (answered'[m] <=> answered[m] \/ e.kind \in {"answer", "call"})
    BY <1>1, <2>1
  <2>5. \A k \in Managers : Live(k)' => k = m
    BY <2>1 DEF Live
  <2>6. DOMAIN leaf' = Managers /\ DOMAIN answered' = Managers
    BY <1>1, <2>1
  <2> QED
    BY <1>1, <1>3, <1>4, <2>2, <2>3, <2>4, <2>5, <2>6 DEF Reopens
<1>7. CASE RolledBack(m, e, lf, must)
  BY <1>1, <1>7 DEF RolledBack, Reopens, Live, memVars
<1>8. CASE Dies(m, e, must)
  <2>1. owner' = Nobody /\ UNCHANGED <<leaf, answered>>
    BY <1>8 DEF Dies, memVars
  <2> QED
    BY <1>1, <1>4, <2>1, SentinelAssumption DEF Reopens, Live
<1> QED
  BY <1>5, <1>6, <1>7, <1>8

LEMMA MessageReopens ==
  ASSUME IInv, Reopens, NEW m \in Managers, NEW k \in Kinds, AppendMessage(m, k)
  PROVE  Reopens'
<1> DEFINE e == [Blank EXCEPT !.kind = k, !.parent = leaf[m]]
<1>1. e.event = NoEvent /\ e.kind = k /\ e.parent = leaf[m] /\ k # "move" /\ k # "note"
  BY KindsAssumption DEF Blank
<1>2. /\ Write(m, e, Next1(m), MustFlush(m, k)) /\ receipts' = receipts
      /\ MustFlush(m, k) \in BOOLEAN /\ (flushed[m] => MustFlush(m, k))
  BY DEF AppendMessage, MustFlush
<1> HIDE DEF e
<1>3. leaf[m] \in 0..Len(log[m])
  BY <1>2, OwnerCursor DEF Write
<1>4. Aimed(m, e, Next1(m))
  BY <1>1, <1>3 DEF Aimed, Points, Lands, Next1
<1>5. WriteOf(m, e, Next1(m), MustFlush(m, k))
  BY <1>1, <1>2 DEF WriteOf
<1> QED
  BY <1>4, <1>5, WriteReopens

LEMMA DeliveryReopens ==
  ASSUME IInv, Reopens, NEW m \in Managers, NEW ev \in Events, AppendDelivery(m, ev)
  PROVE  Reopens'
<1> DEFINE e == [Blank EXCEPT !.kind = "delivery", !.parent = leaf[m], !.event = ev]
<1>1. e.event = ev /\ e.kind = "delivery" /\ e.parent = leaf[m]
  BY DEF Blank
<1>2. /\ Write(m, e, Next1(m), TRUE) /\ ~Recorded(log[m], ev)
      /\ receipts' = IF log' # log THEN receipts \cup {ev} ELSE receipts
  BY DEF AppendDelivery, MustFlush
<1> HIDE DEF e
<1>3. leaf[m] \in 0..Len(log[m])
  BY <1>2, OwnerCursor DEF Write
<1>4. Aimed(m, e, Next1(m))
  BY <1>1, <1>3 DEF Aimed, Points, Lands, Next1
<1>5. WriteOf(m, e, Next1(m), TRUE)
  BY <1>1, <1>2 DEF WriteOf
<1> QED
  BY <1>4, <1>5, WriteReopens

LEMMA NoteReopens ==
  ASSUME IInv, Reopens, NEW m \in Managers, AppendNote(m)
  PROVE  Reopens'
<1>1. Blank.event = NoEvent /\ Blank.kind = "note" /\ Blank.parent = 0
  BY DEF Blank
<1>2. Write(m, Blank, leaf[m], TRUE) /\ receipts' = receipts
  BY DEF AppendNote
<1>3. Len(log[m]) \in Nat
  BY <1>2, OwnerCursor DEF Write
<1>4. Aimed(m, Blank, leaf[m])
  BY <1>1, <1>3 DEF Aimed, Points, Lands
<1>5. WriteOf(m, Blank, leaf[m], TRUE)
  BY <1>1, <1>2 DEF WriteOf
<1> QED
  BY <1>4, <1>5, WriteReopens

LEMMA CompactionReopens ==
  ASSUME IInv, Reopens, NEW m \in Managers, NEW kept, NEW drops, AppendCompaction(m, kept, drops)
  PROVE  Reopens'
<1> DEFINE e == [Blank EXCEPT !.kind = "compaction", !.parent = leaf[m], !.kept = kept,
                              !.dropped = DroppedSet(m) \cup drops]
           must == MustFlush(m, "compaction")
<1>1. e.event = NoEvent /\ e.kind = "compaction" /\ e.parent = leaf[m]
  BY DEF Blank
<1>2. /\ Write(m, e, Next1(m), must) /\ receipts' = receipts
      /\ must \in BOOLEAN /\ (flushed[m] => must)
  BY DEF AppendCompaction, MustFlush
<1> HIDE DEF e, must
<1>3. leaf[m] \in 0..Len(log[m])
  BY <1>2, OwnerCursor DEF Write
<1>4. Aimed(m, e, Next1(m))
  BY <1>1, <1>3 DEF Aimed, Points, Lands, Next1
<1>5. WriteOf(m, e, Next1(m), must)
  BY <1>1, <1>2 DEF WriteOf
<1> QED
  BY <1>4, <1>5, WriteReopens

\* A move to an entry of the log, or to none.
LEMMA MoveReopens ==
  ASSUME IInv, Reopens, NEW m \in Managers, NEW to \in 0..Len(log[m]), Move(m, to)
  PROVE  Reopens'
<1> DEFINE e == [Blank EXCEPT !.kind = "move", !.target = to, !.from = leaf[m]]
<1>1. e.event = NoEvent /\ e.kind = "move" /\ e.target = to /\ e.from = leaf[m] /\ e.parent = 0
  BY DEF Blank
<1>2. Write(m, e, to, TRUE) /\ receipts' = receipts
  BY DEF Move
<1> HIDE DEF e
<1>3. leaf[m] \in 0..Len(log[m]) /\ Len(log[m]) \in Nat
  BY <1>2, OwnerCursor DEF Write
<1>4. Aimed(m, e, to)
  BY <1>1, <1>3 DEF Aimed, Points, Lands
<1>5. WriteOf(m, e, to, TRUE)
  BY <1>1, <1>2 DEF WriteOf
<1> QED
  BY <1>4, <1>5, WriteReopens

\* What the context shows, and so every boundary in it, is an entry of the log.
LEMMA BoundaryInLog ==
  ASSUME IInv, Reopens, NEW m \in Managers, Live(m), NEW i \in Boundaries(m)
  PROVE  i \in DOMAIN log[m] /\ Target(m, i) \in 0..Len(log[m])
<1> DEFINE l == log[m]
           path == Path(l, leaf[m])
           compactions == Of(l, path, {"compaction"})
<1>1. /\ IsSeq(l) /\ Rooted(l) /\ leaf[m] \in 0..Len(l)
      /\ Len(l) \in Nat /\ DOMAIN l = 1..Len(l)
  BY OwnerCursor
<1>2. path \subseteq 1..Len(l)
  BY <1>1, PathInLog
<1>3. i \in Context(m)
  BY DEF Boundaries, Of
<1>4. leaf[m] # 0 /\ i \in Shown(l, path)
  BY <1>3 DEF Context
<1>5. \A kinds : Of(l, path, kinds) \subseteq path
  BY DEF Of
<1> HIDE DEF path, l
<1>6. compactions # {} => Max(compactions) \in compactions
  <2>1. compactions \in SUBSET (1..Len(l))
    BY <1>2, <1>5
  <2> HIDE DEF compactions
  <2> QED
    BY <1>1, <2>1, NewestIsOne
<1>7. i \in path
  <2>1. CASE compactions = {}
    BY <1>4, <1>5, <2>1 DEF Shown
  <2>2. CASE compactions # {}
    <3>1. Max(compactions) \in path
      BY <1>5, <1>6, <2>2
    <3>2. i = Max(compactions) \/ i \in Of(l, path, Messages)
      BY <1>4, <2>2 DEF Shown
    <3> QED
      BY <1>5, <3>1, <3>2
  <2> QED
    BY <2>1, <2>2
<1>8. i \in 1..Len(l)
  BY <1>2, <1>7
<1>9. l[i].parent \in 0..(i - 1)
  BY <1>1, <1>8 DEF Rooted, Points
<1>10. Target(m, i) \in {i, l[i].parent}
  BY DEF Target, l
<1> QED
  BY <1>1, <1>8, <1>9, <1>10 DEF l

LEMMA UndoInLog ==
  ASSUME IInv, Reopens, NEW m \in Managers, Live(m), Moves(log[m]) # {}
  PROVE  log[m][Max(Moves(log[m]))].from \in 0..Len(log[m])
<1> DEFINE l == log[m]
           S == Moves(l)
<1>1. Rooted(l) /\ Len(l) \in Nat /\ DOMAIN l = 1..Len(l)
  BY OwnerCursor
<1>2. S \in SUBSET (1..Len(l)) /\ \A i \in S : l[i].kind = "move"
  BY <1>1 DEF Moves, Of
<1> HIDE DEF S, l
<1>3. Max(S) \in S
  <2>1. S # {}
    BY DEF S, l
  <2> QED
    BY <1>1, <1>2, <2>1, NewestIsOne
<1>4. Max(S) \in 1..Len(l) /\ l[Max(S)].from \in 0..(Max(S) - 1)
  BY <1>1, <1>2, <1>3 DEF Rooted, Points
<1>5. l[Max(S)].from \in 0..Len(l)
  BY <1>1, <1>4
<1> QED
  BY <1>5 DEF S, l

LEMMA QuietReopens ==
  ASSUME IInv, Reopens, NEW m \in Managers,
         Create(m) \/ Open(m) \/ Close(m) \/ Fork(m)
           \/ \E ev \in Events : RepeatDelivery(m, ev)
  PROVE  Reopens'
<1>1. CASE Create(m)
  <2>1. /\ ~born /\ owner' = m /\ born'
        /\ UNCHANGED <<log, leaf, answered, file>>
    BY <1>1 DEF Create, memVars
  <2>2. log[m] = <<>> /\ leaf[m] = 0 /\ answered[m] = FALSE
    BY <2>1 DEF IInv, Unborn, Reopens
  <2>3. Rooted(<<>>) /\ ~Answered(<<>>)
    BY EmptyLog DEF Rooted, Answered, Of
  <2>4. \A k \in Managers : Live(k)' => k = m
    BY <2>1 DEF Live
  <2> QED
    BY <2>1, <2>2, <2>3, <2>4, ReplayEmpty DEF Reopens
<1>2. CASE Open(m)
  <2>1. /\ owner' = m /\ log' = [log EXCEPT ![m] = file]
        /\ leaf' = [leaf EXCEPT ![m] = ReplayedLeaf(file)]
        /\ answered' = [answered EXCEPT ![m] = Of(file, DOMAIN file, {"answer", "call"}) # {}]
        /\ UNCHANGED <<born, file>>
    BY <1>2 DEF Open
  <2>2. born /\ DOMAIN log = Managers
    BY <1>2 DEF Open, IInv, Shape, Unborn
  <2>3. /\ DOMAIN leaf' = Managers /\ DOMAIN answered' = Managers
        /\ log'[m] = file /\ leaf'[m] = ReplayedLeaf(file) /\ (answered'[m] <=> Answered(file))
    BY <2>1, <2>2 DEF Reopens, Answered
  <2>4. \A k \in Managers : Live(k)' => k = m
    BY <2>1 DEF Live
  <2> QED
    BY <2>1, <2>2, <2>3, <2>4 DEF Reopens
<1>3. CASE Close(m)
  BY <1>3, SentinelAssumption DEF Close, Reopens, Live, memVars
<1>4. CASE Fork(m)
  BY <1>4 DEF Fork, Reopens, Live, memVars
<1>5. CASE \E ev \in Events : RepeatDelivery(m, ev)
  BY <1>5 DEF RepeatDelivery, Reopens, Live, memVars
<1> QED
  BY <1>1, <1>2, <1>3, <1>4, <1>5

LEMMA ReopensInvariant == Spec => []Reopens
<1>1. Init => Reopens
  BY EmptyLog, SentinelAssumption DEF Init, Reopens, Rooted, Live
<1>2. IInv /\ Reopens /\ [Next]_vars => Reopens'
  <2> SUFFICES ASSUME IInv, Reopens, [Next]_vars PROVE Reopens'
    OBVIOUS
  <2>1. CASE UNCHANGED vars
    BY <2>1 DEF vars, memVars, Reopens, Live
  <2>2. CASE Next
    <3>1. PICK m \in Managers :
            \/ Create(m) \/ Open(m) \/ Close(m) \/ Fork(m)
            \/ \E k \in Kinds : AppendMessage(m, k)
            \/ \E ev \in Events : AppendDelivery(m, ev) \/ RepeatDelivery(m, ev)
            \/ AppendNote(m)
            \/ \E kept \in Context(m) \cup {0} : AppendCompaction(m, kept, {})
            \/ \E i \in Of(log[m], Context(m), Messages) : Drop(m, i)
            \/ \E i \in Boundaries(m) : Rewind(m, i)
            \/ UndoRewind(m)
      BY <2>2 DEF Next
    <3>2. CASE Create(m) \/ Open(m) \/ Close(m) \/ Fork(m)
                 \/ \E ev \in Events : RepeatDelivery(m, ev)
      BY <3>2, QuietReopens
    <3>3. CASE \E k \in Kinds : AppendMessage(m, k)
      BY <3>3, MessageReopens
    <3>4. CASE \E ev \in Events : AppendDelivery(m, ev)
      BY <3>4, DeliveryReopens
    <3>5. CASE AppendNote(m)
      BY <3>5, NoteReopens
    <3>6. CASE \E kept \in Context(m) \cup {0} : AppendCompaction(m, kept, {})
      BY <3>6, CompactionReopens
    <3>7. CASE \E i \in Of(log[m], Context(m), Messages) : Drop(m, i)
      BY <3>7, CompactionReopens DEF Drop
    <3>8. ASSUME NEW i \in Boundaries(m), Rewind(m, i) PROVE Reopens'
      <4>1. Move(m, Target(m, i)) /\ Live(m)
        BY <3>8 DEF Rewind, Move, Write
      <4>2. Target(m, i) \in 0..Len(log[m])
        BY <4>1, BoundaryInLog
      <4> QED
        BY <4>1, <4>2, MoveReopens
    <3>9. CASE UndoRewind(m)
      <4>1. Move(m, log[m][Max(Moves(log[m]))].from) /\ Live(m) /\ Moves(log[m]) # {}
        BY <3>9 DEF UndoRewind, Move, Write
      <4>2. log[m][Max(Moves(log[m]))].from \in 0..Len(log[m])
        BY <4>1, UndoInLog
      <4> QED
        BY <4>1, <4>2, MoveReopens
    <3> QED
      BY <3>1, <3>2, <3>3, <3>4, <3>5, <3>6, <3>7, <3>8, <3>9
  <2> QED
    BY <2>1, <2>2
<1> QED
  BY <1>1, <1>2, Invariant, PTL DEF Spec

-----------------------------------------------------------------------------

\* Memory and file of the owner agree from the first flush on, whichever calls
\* succeed, fail or die (appendEntry, flush and appendFile in manager.go).
THEOREM MemoryIsFile == Spec => []InStep
<1>1. IInv => InStep
  BY DEF IInv
<1> QED
  BY <1>1, Invariant, PTL

\* A delivery AppendDelivery answered for is in the file, though the messages
\* around it may only be buffered (delivery.go, appendMessage).
THEOREM ReceiptsSurvive == Spec => []ReceiptsDurable
<1>1. IInv => ReceiptsDurable
  BY DEF IInv
<1> QED
  BY <1>1, Invariant, PTL

\* However often a delivery is retried, by however many owners in turn, the
\* file holds it once.
THEOREM OneReceipt == Spec => []DeliveredOnce
<1>1. IInv => DeliveredOnce
  BY DEF IInv
<1> QED
  BY <1>1, Invariant, PTL

\* Whoever opens the file finds the conversation where its owner had it: the
\* file always loads, and replaying it gives the owner's cursor (OpenSession and
\* moveLeafLocked in manager.go), through rewinds, failed writes and crashes.
THEOREM FileRestores == Spec => []ReopenRestores
<1>1. IInv /\ Reopens => ReopenRestores
  <2> SUFFICES ASSUME IInv, Reopens PROVE ReopenRestores
    OBVIOUS
  <2>1. Loadable(file)
    <3>1. Len(file) \in Nat /\ DOMAIN file = 1..Len(file) /\ Rooted(file)
      BY AppendFacts DEF IInv, Shape, Reopens
    <3>2. ASSUME NEW i \in Moves(file) PROVE file[i].target < i /\ file[i].from < i
      <4>1. i \in 1..Len(file) /\ file[i].kind = "move"
        BY <3>1 DEF Moves, Of
      <4>2. file[i].target \in 0..(i - 1) /\ file[i].from \in 0..(i - 1)
        BY <3>1, <4>1 DEF Rooted, Points
      <4> QED
        BY <3>1, <4>1, <4>2
    <3> QED
      BY <3>2 DEF Loadable
  <2>2. ASSUME NEW m \in Managers, Live(m), flushed[m]
        PROVE  /\ ReplayedLeaf(file) = leaf[m]
               /\ answered[m] <=> Of(file, DOMAIN file, {"answer", "call"}) # {}
    BY <2>2 DEF IInv, InStep, Reopens, Answered
  <2> QED
    BY <2>1, <2>2 DEF ReopenRestores
<1> QED
  BY <1>1, Invariant, ReopensInvariant, PTL

\* No call, failure or crash rewrites or removes an entry of the file.
THEOREM FileOnlyGrows == Spec => AppendOnly
<1>1. IInv /\ [Next]_vars => [Len(file) <= Len(file') /\ SubSeq(file', 1, Len(file)) = file]_vars
  <2> SUFFICES ASSUME IInv, [Next]_vars
               PROVE  Len(file) <= Len(file') /\ SubSeq(file', 1, Len(file)) = file
    OBVIOUS
  <2>1. IsSeq(file) /\ IsSeq(file') /\ Extends(file, file')
    BY StepInv DEF IInv, Shape
  <2> QED
    BY <2>1, CutExtension DEF Extends
<1> QED
  BY <1>1, Invariant, PTL DEF Spec, AppendOnly

=============================================================================
