----------------------- MODULE OrderStatusEventsProofs -----------------------
(***************************************************************************)
(* Proofs about module OrderStatusEvents, for any orders, any subset of    *)
(* the routing keys, any bodies and any combination of faults.             *)
(*                                                                         *)
(* The queues are first-in first-out and the consumers take from their     *)
(* heads, so a consumer's buffer is in the order of publication and behind *)
(* everything it has applied: LineInv.  An update the store is late with   *)
(* is ahead of its consumer's line: LateInv.  What a document holds is the *)
(* work of its last writer: WriterInv.                                     *)
(***************************************************************************)
EXTENDS OrderStatusEvents, SequenceTheorems, TLAPS

Increasing(s) == \A m, n \in 1..Len(s) : m < n => s[m] < s[n]

\* What waits is published, on the queue of its key, and not yet applied.
KeyInv ==
    /\ \A q \in Queues : \A i \in Nat : In(i, queue[q]) =>
          /\ i \in 1..Len(published) /\ i \notin applied
          /\ QueueOf(published[i].key) = q
    /\ \A h \in Subscribed : \A i \in Nat : In(i, buffer[h]) =>
          /\ i \in 1..Len(published) /\ i \notin applied
          /\ QueueOf(published[i].key) = QueueOf(h)

\* Messages stand in line: first what is applied, then buffers, then queues.
LineInv ==
    /\ \A q \in Queues : Increasing(queue[q])
    /\ \A h \in Subscribed : Increasing(buffer[h])
    /\ \A h \in Subscribed : \A i, j \in Nat :
          In(i, buffer[h]) /\ In(j, queue[QueueOf(h)]) => i < j
    /\ \A g, h \in Subscribed : \A i \in Nat :
          In(i, buffer[g]) /\ In(i, buffer[h]) => g = h

\* The last writer of a document, and what it has in line.
Wrote(o, h, i) ==
    /\ writer[o] = [by |-> h, event |-> i] /\ h # PaidKey
    /\ i \in 1..Len(published)
    /\ published[i].order = o /\ published[i].body = "id"
    /\ published[i].key \in StatusKeys /\ status[o] = NewStatus(published[i].key)
    /\ \A j \in Nat : In(j, buffer[h]) \/ In(j, queue[QueueOf(h)]) => i < j

WriterInv ==
    \A o \in Orders :
        \/ writer[o] = Nobody /\ status[o] \in {Absent, Pending}
        \/ \E h \in Subscribed, i \in Messages : Wrote(o, h, i)

\* An update UpdateOrderStatus makes: of a readable event, not yet applied,
\* about an order that is there.
Writable(w) ==
    /\ w.event \in 1..Len(published) /\ w.event \notin applied /\ w.by # PaidKey
    /\ published[w.event].order \in Orders /\ published[w.event].body = "id"
    /\ published[w.event].key \in StatusKeys
    /\ status[published[w.event].order] # Absent

\* The event of w is in no line, and its consumer's line is behind it.
Ahead(w) ==
    /\ \A h \in Subscribed : ~In(w.event, buffer[h])
    /\ \A q \in Queues : ~In(w.event, queue[q])
    /\ \A j \in Nat : In(j, buffer[w.by]) \/ In(j, queue[QueueOf(w.by)]) => w.event < j

LateInv ==
    /\ \A w \in late : Writable(w) /\ Ahead(w)
    /\ \A v, w \in late : v.event = w.event => v = w

AppliedInv == \A i \in applied : i <= Len(published)

IInv == TypeOK /\ KeyInv /\ LineInv /\ LateInv /\ WriterInv /\ AppliedInv

-----------------------------------------------------------------------------
\* Facts about sequences, in terms of what is in them.
LEMMA EmptyFacts == Increasing(<< >>) /\ \A i : ~In(i, << >>)
  BY DEF Increasing, In

LEMMA AppendFacts ==
  ASSUME NEW s \in Seq(Nat), NEW x \in Nat
  PROVE  /\ \A i : In(i, Append(s, x)) <=> In(i, s) \/ i = x
         /\ Increasing(s) /\ (\A i \in Nat : In(i, s) => i < x) => Increasing(Append(s, x))
<1>1. /\ Len(Append(s, x)) = Len(s) + 1
      /\ \A n \in 1..Len(s) : Append(s, x)[n] = s[n]
      /\ Append(s, x)[Len(s) + 1] = x
      /\ Len(s) \in Nat
  OBVIOUS
<1>2. \A i : In(i, Append(s, x)) <=> In(i, s) \/ i = x
  BY <1>1 DEF In
<1>3. ASSUME Increasing(s), \A i \in Nat : In(i, s) => i < x
      PROVE  Increasing(Append(s, x))
  <2>1. \A n \in 1..Len(s) : s[n] \in Nat /\ s[n] < x
    BY <1>3 DEF In
  <2> QED
    BY <1>1, <1>3, <2>1 DEF Increasing
<1> QED
  BY <1>2, <1>3

LEMMA TailFacts ==
  ASSUME NEW s \in Seq(Nat), s # << >>
  PROVE  /\ Head(s) \in Nat /\ Tail(s) \in Seq(Nat)
         /\ In(Head(s), s)
         /\ \A i : In(i, Tail(s)) => In(i, s)
         /\ Increasing(s) => Increasing(Tail(s)) /\ \A i \in Nat : In(i, Tail(s)) => Head(s) < i
<1>1. /\ Len(s) \in Nat \ {0}
      /\ Head(s) = s[1] /\ Head(s) \in Nat /\ Tail(s) \in Seq(Nat)
      /\ Len(Tail(s)) = Len(s) - 1
      /\ \A n \in 1..Len(s) - 1 : Tail(s)[n] = s[n + 1]
  BY EmptySeq, HeadTailProperties
<1>2. In(Head(s), s)
  BY <1>1 DEF In
<1>3. \A i : In(i, Tail(s)) => In(i, s)
  BY <1>1 DEF In
<1>4. ASSUME Increasing(s)
      PROVE  Increasing(Tail(s)) /\ \A i \in Nat : In(i, Tail(s)) => Head(s) < i
  <2>1. Increasing(Tail(s))
    BY <1>1, <1>4 DEF Increasing
  <2>2. \A i \in Nat : In(i, Tail(s)) => Head(s) < i
    BY <1>1, <1>4 DEF Increasing, In
  <2> QED
    BY <2>1, <2>2
<1> QED
  BY <1>1, <1>2, <1>3, <1>4

LEMMA QueueOfType == \A h : QueueOf(h) \in Queues
  BY DEF QueueOf, Queues

\* Queues and buffers are sequences of numbers.
LEMMA SeqTypes ==
  ASSUME TypeOK
  PROVE  /\ \A q \in Queues : queue[q] \in Seq(Nat)
         /\ \A h \in Subscribed : buffer[h] \in Seq(Nat)
<1>1. Messages \subseteq Nat
  BY MaxEventsAssumption DEF Messages
<1> QED
  BY <1>1, SeqMonotonic DEF TypeOK
-----------------------------------------------------------------------------
LEMMA InitIInv == Init => IInv
<1> SUFFICES ASSUME Init PROVE IInv
  OBVIOUS
<1>1. /\ \A q \in Queues : queue[q] = << >>
      /\ \A h \in Subscribed : buffer[h] = << >>
  BY DEF Init, Empty
<1>2. TypeOK
  BY DEF Init, TypeOK, Empty
<1>3. KeyInv /\ LineInv
  BY <1>1, EmptyFacts, QueueOfType DEF KeyInv, LineInv
<1>4. WriterInv /\ AppliedInv /\ LateInv
  BY DEF Init, WriterInv, AppliedInv, LateInv
<1> QED
  BY <1>2, <1>3, <1>4 DEF IInv

\* Lines only get shorter.
Shrink ==
    /\ \A q \in Queues : \A i : In(i, queue'[q]) => In(i, queue[q])
    /\ \A h \in Subscribed : \A i : In(i, buffer'[h]) => In(i, buffer[h])
    /\ \A q \in Queues : Increasing(queue'[q])
    /\ \A h \in Subscribed : Increasing(buffer'[h])

LEMMA Shrinking ==
  ASSUME IInv,
         \A q \in Queues : queue'[q] = queue[q] \/ queue'[q] = << >>,
         \A h \in Subscribed : \/ buffer'[h] = buffer[h] \/ buffer'[h] = << >>
                               \/ buffer[h] # << >> /\ buffer'[h] = Tail(buffer[h])
  PROVE  Shrink
<1>1. /\ \A q \in Queues : queue[q] \in Seq(Nat)
      /\ \A h \in Subscribed : buffer[h] \in Seq(Nat)
  BY SeqTypes DEF IInv
<1>2. /\ \A q \in Queues : \A i : In(i, queue'[q]) => In(i, queue[q])
      /\ \A h \in Subscribed : \A i : In(i, buffer'[h]) => In(i, buffer[h])
  <2>1. ASSUME NEW q \in Queues PROVE \A i : In(i, queue'[q]) => In(i, queue[q])
    BY EmptyFacts
  <2>2. ASSUME NEW h \in Subscribed PROVE \A i : In(i, buffer'[h]) => In(i, buffer[h])
    <3>1. CASE buffer'[h] = buffer[h] \/ buffer'[h] = << >>
      BY <3>1, EmptyFacts
    <3>2. CASE buffer[h] # << >> /\ buffer'[h] = Tail(buffer[h])
      BY <1>1, <3>2, TailFacts
    <3> QED
      BY <3>1, <3>2
  <2> QED
    BY <2>1, <2>2
<1>3. /\ \A q \in Queues : Increasing(queue'[q])
      /\ \A h \in Subscribed : Increasing(buffer'[h])
  BY <1>1, TailFacts, EmptyFacts DEF IInv, LineInv
<1> QED
  BY <1>2, <1>3 DEF Shrink

\* ... and no document changes.
LEMMA LinesShrink ==
  ASSUME IInv, Shrink, UNCHANGED <<published, status, applied, writer>>
  PROVE  /\ KeyInv' /\ LineInv' /\ WriterInv' /\ AppliedInv'
         /\ \A w \in late : (Writable(w) /\ Ahead(w))'
         /\ late' = late => LateInv'
<1>1. KeyInv'
  BY DEF IInv, KeyInv, Shrink
<1>2. LineInv'
  BY QueueOfType DEF IInv, LineInv, Shrink
<1>3. WriterInv'
  <2>1. \A o \in Orders, h \in Subscribed, i \in Messages : Wrote(o, h, i) => Wrote(o, h, i)'
    BY QueueOfType DEF Wrote, Shrink
  <2> QED
    BY <2>1 DEF IInv, WriterInv
<1>4. AppliedInv'
  BY DEF IInv, AppliedInv
<1>5. \A w \in late : (Writable(w) /\ Ahead(w))'
  <2> SUFFICES ASSUME NEW w \in late PROVE (Writable(w) /\ Ahead(w))'
    OBVIOUS
  <2>1. Writable(w) /\ Ahead(w) /\ w.by \in Subscribed
    BY DEF IInv, LateInv, TypeOK
  <2>2. Writable(w)'
    BY <2>1 DEF Writable
  <2>3. Ahead(w)'
    BY <2>1, QueueOfType DEF Ahead, Shrink
  <2> QED
    BY <2>2, <2>3
<1>6. late' = late => LateInv'
  BY <1>5 DEF IInv, LateInv
<1> QED
  BY <1>1, <1>2, <1>3, <1>4, <1>5, <1>6

\* A new message is the last in its line.
LEMMA PublishInLine ==
  ASSUME IInv, NEW o, NEW key, NEW body, [order |-> o, key |-> key, body |-> body] \in Events,
         Publish(o, key, body)
  PROVE  IInv'
<1> DEFINE n == Len(published) + 1
           e == [order |-> o, key |-> key, body |-> body]
<1>1. /\ \A q \in Queues : queue[q] \in Seq(Nat)
      /\ \A h \in Subscribed : buffer[h] \in Seq(Nat)
  BY SeqTypes DEF IInv
<1>2. /\ published \in Seq(Events)
      /\ e \in Events
      /\ published' = Append(published, e)
      /\ UNCHANGED <<buffer, status, late, applied, writer, bound, sub>>
  BY DEF IInv, TypeOK, Publish, docVars
<1>3. /\ n \in Messages /\ Len(published) \in Nat /\ Len(published') = n
      /\ \A i \in 1..Len(published) : published'[i] = published[i]
      /\ published'[n] = e
  BY <1>2, MaxEventsAssumption DEF Publish, Messages
<1>4. QueueOf(key) \in Queues
  BY QueueOfType
<1>5. \A q \in Queues : \/ queue'[q] = queue[q]
                        \/ q = QueueOf(key) /\ queue'[q] = Append(queue[q], n)
  <2>1. CASE key \in bound
    <3>1. queue' = [queue EXCEPT ![QueueOf(key)] = Append(@, n)]
      BY <2>1 DEF Publish
    <3> QED
      BY <1>4, <3>1 DEF IInv, TypeOK
  <2>2. CASE key \notin bound
    BY <2>2 DEF Publish
  <2> QED
    BY <2>1, <2>2
<1>6. \A q \in Queues : \A i \in Nat : In(i, queue[q]) => i < n
  BY <1>3 DEF IInv, KeyInv
<1>7. /\ \A q \in Queues : \A i : In(i, queue'[q]) => In(i, queue[q]) \/ (i = n /\ q = QueueOf(key))
      /\ \A q \in Queues : Increasing(queue'[q])
  <2> SUFFICES ASSUME NEW q \in Queues
               PROVE  /\ \A i : In(i, queue'[q]) => In(i, queue[q]) \/ (i = n /\ q = QueueOf(key))
                      /\ Increasing(queue'[q])
    OBVIOUS
  <2>1. Increasing(queue[q]) /\ n \in Nat
    BY <1>3 DEF IInv, LineInv
  <2>2. CASE q = QueueOf(key) /\ queue'[q] = Append(queue[q], n)
    <3>1. /\ \A i : In(i, Append(queue[q], n)) <=> In(i, queue[q]) \/ i = n
          /\ Increasing(Append(queue[q], n))
      BY <1>1, <1>6, <2>1, AppendFacts
    <3> QED
      BY <2>2, <3>1
  <2> QED
    BY <1>5, <2>1, <2>2
<1>8. TypeOK'
  <2>1. queue' \in [Queues -> Seq(Messages)]
    BY <1>3, <1>4 DEF Publish, IInv, TypeOK
  <2>2. published' \in Seq(Events)
    BY <1>2
  <2> QED
    BY <1>2, <2>1, <2>2 DEF IInv, TypeOK
<1>9. KeyInv'
  <2>1. n \notin applied
    BY <1>3 DEF IInv, AppliedInv
  <2> QED
    <3>1. \A q \in Queues : \A i \in Nat : In(i, queue'[q]) =>
             /\ i \in 1..Len(published') /\ i \notin applied
             /\ QueueOf(published'[i].key) = q
      <4> SUFFICES ASSUME NEW q \in Queues, NEW i \in Nat, In(i, queue'[q])
                   PROVE  /\ i \in 1..Len(published') /\ i \notin applied
                          /\ QueueOf(published'[i].key) = q
        OBVIOUS
      <4>1. CASE In(i, queue[q])
        BY <1>3, <4>1 DEF IInv, KeyInv
      <4>2. CASE i = n /\ q = QueueOf(key)
        BY <1>3, <2>1, <4>2
      <4> QED
        BY <1>7, <4>1, <4>2
    <3>2. \A h \in Subscribed : \A i \in Nat : In(i, buffer[h]) =>
             /\ i \in 1..Len(published') /\ i \notin applied
             /\ QueueOf(published'[i].key) = QueueOf(h)
      BY <1>3 DEF IInv, KeyInv
    <3> QED
      BY <1>2, <3>1, <3>2 DEF KeyInv
<1>10. LineInv'
  <2>1. \A h \in Subscribed : \A i \in Nat : In(i, buffer[h]) => i < n
    BY <1>3 DEF IInv, KeyInv
  <2> QED
    BY <1>2, <1>7, <2>1, QueueOfType DEF IInv, LineInv
<1>11. WriterInv'
  <2>1. ASSUME NEW p \in Orders, NEW h \in Subscribed, NEW i \in Messages, Wrote(p, h, i)
        PROVE  Wrote(p, h, i)'
    <3>1. i \in 1..Len(published') /\ published'[i] = published[i] /\ i < n
      BY <1>3, <2>1 DEF Wrote
    <3>2. \A j \in Nat : In(j, buffer[h]) \/ In(j, queue'[QueueOf(h)]) => i < j
      BY <1>7, <2>1, <3>1, QueueOfType DEF Wrote
    <3> QED
      BY <1>2, <2>1, <3>1, <3>2 DEF Wrote
  <2> QED
    BY <1>2, <2>1 DEF IInv, WriterInv
<1>12. LateInv'
  <2> SUFFICES ASSUME NEW w \in late PROVE (Writable(w) /\ Ahead(w))'
    BY <1>2 DEF IInv, LateInv
  <2>1. Writable(w) /\ Ahead(w) /\ w.by \in Subscribed /\ w.event < n
    BY <1>3 DEF IInv, LateInv, TypeOK, Writable
  <2>2. Writable(w)'
    BY <1>2, <1>3, <2>1 DEF Writable
  <2>3. w.event \in Nat /\ QueueOf(w.by) \in Queues
    BY <2>1, QueueOfType DEF Writable
  <2>4. w.event # n /\ w.event < n
    BY <1>3, <2>1, <2>3
  <2>5. /\ \A q \in Queues : ~In(w.event, queue[q])
        /\ \A j \in Nat : In(j, buffer[w.by]) \/ In(j, queue[QueueOf(w.by)]) => w.event < j
    BY <2>1 DEF Ahead
  <2> HIDE DEF n, e
  <2>6. \A q \in Queues : ~In(w.event, queue'[q])
    BY <1>7, <2>4, <2>5
  <2>7. \A j \in Nat : In(j, buffer[w.by]) \/ In(j, queue'[QueueOf(w.by)]) => w.event < j
    BY <1>7, <2>3, <2>4, <2>5
  <2>8. Ahead(w)'
    BY <1>2, <2>1, <2>6, <2>7 DEF Ahead
  <2> QED
    BY <2>2, <2>8
<1>13. AppliedInv'
  BY <1>2, <1>3, MaxEventsAssumption DEF IInv, TypeOK, AppliedInv, Messages
<1> QED
  BY <1>8, <1>9, <1>10, <1>11, <1>12, <1>13 DEF IInv

\* The head of a queue becomes the end of one of its buffers.
LEMMA DeliverInLine ==
  ASSUME IInv, NEW h \in Subscribed, Deliver(h)
  PROVE  IInv'
<1> DEFINE q == QueueOf(h)
           x == Head(queue[q])
<1>1. /\ \A r \in Queues : queue[r] \in Seq(Nat)
      /\ \A g \in Subscribed : buffer[g] \in Seq(Nat)
  BY SeqTypes DEF IInv
<1>2. q \in Queues /\ queue[q] # << >>
  BY QueueOfType DEF Deliver
<1>3. /\ buffer' = [buffer EXCEPT ![h] = Append(@, x)]
      /\ queue' = [queue EXCEPT ![q] = Tail(@)]
      /\ UNCHANGED <<published, bound, sub, status, late, applied, writer>>
  BY DEF Deliver, docVars
<1>4. /\ x \in Nat /\ In(x, queue[q])
      /\ \A i : In(i, Tail(queue[q])) => In(i, queue[q])
      /\ Increasing(Tail(queue[q]))
      /\ \A i \in Nat : In(i, Tail(queue[q])) => x < i
  BY <1>1, <1>2, TailFacts DEF IInv, LineInv
<1>5. /\ \A r \in Queues : queue'[r] = IF r = q THEN Tail(queue[r]) ELSE queue[r]
      /\ \A g \in Subscribed : buffer'[g] = IF g = h THEN Append(buffer[g], x) ELSE buffer[g]
  BY <1>3 DEF IInv, TypeOK
<1>6. /\ \A i : In(i, buffer'[h]) <=> In(i, buffer[h]) \/ i = x
      /\ Increasing(buffer'[h])
  <2>1. \A i \in Nat : In(i, buffer[h]) => i < x
    BY <1>4 DEF IInv, LineInv
  <2> QED
    BY <1>1, <1>4, <1>5, <2>1, AppendFacts DEF IInv, LineInv
<1>7. \A r \in Queues : \A i : In(i, queue'[r]) => In(i, queue[r])
  BY <1>4, <1>5
<1>8. TypeOK'
  <2>1. queue[q] \in Seq(Messages) /\ buffer[h] \in Seq(Messages)
    BY <1>2 DEF IInv, TypeOK
  <2>2. Head(queue[q]) \in Messages /\ Tail(queue[q]) \in Seq(Messages)
    BY <1>2, <2>1, HeadTailProperties
  <2>3. Append(buffer[h], x) \in Seq(Messages)
    BY <2>1, <2>2
  <2> QED
    BY <1>2, <1>3, <2>2, <2>3 DEF IInv, TypeOK
<1>9. x \in 1..Len(published) /\ x \notin applied /\ QueueOf(published[x].key) = q
  BY <1>2, <1>4 DEF IInv, KeyInv
<1>10. KeyInv'
  <2>1. ASSUME NEW g \in Subscribed, NEW i \in Nat, In(i, buffer'[g])
        PROVE  /\ i \in 1..Len(published) /\ i \notin applied
               /\ QueueOf(published[i].key) = QueueOf(g)
    BY <1>5, <1>6, <1>9, <2>1 DEF IInv, KeyInv
  <2>2. ASSUME NEW r \in Queues, NEW i \in Nat, In(i, queue'[r])
        PROVE  /\ i \in 1..Len(published) /\ i \notin applied
               /\ QueueOf(published[i].key) = r
    BY <1>7, <2>2 DEF IInv, KeyInv
  <2> QED
    BY <1>3, <2>1, <2>2 DEF KeyInv
<1>11. LineInv'
  <2>1. \A r \in Queues : Increasing(queue'[r])
    BY <1>4, <1>5 DEF IInv, LineInv
  <2>2. \A g \in Subscribed : Increasing(buffer'[g])
    BY <1>5, <1>6 DEF IInv, LineInv
  <2>3. \A g \in Subscribed : ~In(x, buffer[g])
    <3> SUFFICES ASSUME NEW g \in Subscribed, In(x, buffer[g]) PROVE FALSE
      OBVIOUS
    <3>1. QueueOf(g) = q
      BY <1>4, <1>9 DEF IInv, KeyInv
    <3> QED
      BY <1>4, <3>1 DEF IInv, LineInv
  <2>4. \A g \in Subscribed : \A i, j \in Nat :
           In(i, buffer'[g]) /\ In(j, queue'[QueueOf(g)]) => i < j
    BY <1>4, <1>5, <1>6, <1>7, QueueOfType DEF IInv, LineInv
  <2>5. \A f, g \in Subscribed : \A i \in Nat :
           In(i, buffer'[f]) /\ In(i, buffer'[g]) => f = g
    BY <1>5, <1>6, <2>3 DEF IInv, LineInv
  <2> QED
    BY <2>1, <2>2, <2>4, <2>5 DEF LineInv
<1>12. WriterInv'
  <2>1. \A o \in Orders, g \in Subscribed, i \in Messages : Wrote(o, g, i) => Wrote(o, g, i)'
    BY <1>3, <1>4, <1>5, <1>6, <1>7, QueueOfType DEF Wrote
  <2> QED
    BY <1>3, <2>1 DEF IInv, WriterInv
<1>13. AppliedInv'
  BY <1>3 DEF IInv, AppliedInv
<1>14. LateInv'
  <2> SUFFICES ASSUME NEW w \in late PROVE (Writable(w) /\ Ahead(w))'
    BY <1>3 DEF IInv, LateInv
  <2>1. Writable(w) /\ Ahead(w) /\ w.by \in Subscribed
    BY DEF IInv, LateInv, TypeOK
  <2>2. Writable(w)'
    BY <1>3, <2>1 DEF Writable
  <2>3. Ahead(w)'
    BY <1>2, <1>3, <1>4, <1>5, <1>6, <1>7, <2>1, QueueOfType DEF Ahead
  <2> QED
    BY <2>2, <2>3
<1> QED
  BY <1>8, <1>10, <1>11, <1>12, <1>13, <1>14 DEF IInv

\* What a handler has in hand when it comes to update.
LEMMA InHandFacts ==
  ASSUME IInv, NEW h \in Subscribed, buffer[h] # << >>, Accepts(h)
  PROVE  /\ Update(h) \in [by : Subscribed, event : Messages] /\ Writable(Update(h))
         /\ In(Head(buffer[h]), buffer[h])
<1> DEFINE x == Head(buffer[h])
<1>1. In(x, buffer[h]) /\ x \in Nat
  BY SeqTypes, TailFacts DEF IInv
<1>2. x \in Messages
  BY HeadTailProperties DEF IInv, TypeOK
<1>3. /\ x \in 1..Len(published) /\ x \notin applied
      /\ QueueOf(published[x].key) = QueueOf(h)
  BY <1>1 DEF IInv, KeyInv
<1>4. published[x] \in Events
  BY <1>3, ElementOfSeq DEF IInv, TypeOK
<1>5. published[x].key # PaidKey /\ h # PaidKey
  BY <1>3 DEF Accepts, QueueOf
<1> QED
  BY <1>1, <1>2, <1>3, <1>4, <1>5 DEF Accepts, InHand, Update, Writable, Events, AllKeys

\* An update of an event that is ahead of its line keeps the documents and
\* the lines in step.
LEMMA WriteInLine ==
  ASSUME IInv, NEW w \in [by : Subscribed, event : Messages], Writable(w),
         UpdateOrderStatus(w), Shrink, Ahead(w)', UNCHANGED published,
         \A v \in late' : v \in late /\ v.event # w.event
  PROVE  /\ KeyInv' /\ LineInv' /\ LateInv' /\ WriterInv' /\ AppliedInv'
         /\ status' \in [Orders -> {Absent, Pending, 2, 3, 5, 6}]
         /\ applied' \subseteq Messages
         /\ writer' \in [Orders -> {Nobody} \cup [by : Subscribed, event : Messages]]
<1> DEFINE x == w.event
           p == published[x].order
           s == NewStatus(published[x].key)
<1>1. /\ status' = [status EXCEPT ![p] = s]
      /\ applied' = applied \cup {x}
      /\ writer' = [writer EXCEPT ![p] = w]
  BY DEF UpdateOrderStatus
<1>2. s \in {2, 3, 5, 6} /\ p \in Orders /\ x \in Messages
  BY DEF NewStatus, Writable
<1>3. /\ status'[p] = s /\ writer'[p] = w
      /\ \A o \in Orders \ {p} : status'[o] = status[o] /\ writer'[o] = writer[o]
  BY <1>1, <1>2 DEF IInv, TypeOK
<1>4. /\ status' \in [Orders -> {Absent, Pending, 2, 3, 5, 6}]
      /\ applied' \subseteq Messages
      /\ writer' \in [Orders -> {Nobody} \cup [by : Subscribed, event : Messages]]
  BY <1>1, <1>2 DEF IInv, TypeOK
<1>5. KeyInv'
  <2>1. ASSUME NEW q \in Queues, NEW i \in Nat, In(i, queue'[q])
        PROVE  i \in 1..Len(published) /\ i \notin applied' /\ QueueOf(published[i].key) = q
    <3>1. In(i, queue[q]) /\ i # x
      BY <2>1 DEF Shrink, Ahead
    <3> QED
      BY <1>1, <3>1 DEF IInv, KeyInv
  <2>2. ASSUME NEW h \in Subscribed, NEW i \in Nat, In(i, buffer'[h])
        PROVE  /\ i \in 1..Len(published) /\ i \notin applied'
               /\ QueueOf(published[i].key) = QueueOf(h)
    <3>1. In(i, buffer[h]) /\ i # x
      BY <2>2 DEF Shrink, Ahead
    <3> QED
      BY <1>1, <3>1 DEF IInv, KeyInv
  <2> QED
    BY <2>1, <2>2 DEF KeyInv
<1>6. LineInv'
  BY QueueOfType DEF IInv, LineInv, Shrink
<1>7. LateInv'
  <2>1. ASSUME NEW v \in late'
        PROVE  Writable(v)' /\ Ahead(v)'
    <3>1. v \in late /\ v.event # x /\ Writable(v) /\ Ahead(v) /\ v.by \in Subscribed
      BY <2>1 DEF IInv, LateInv, TypeOK
    <3>2. \A o \in Orders : status[o] # Absent => status'[o] # Absent
      BY <1>2, <1>3 DEF Absent
    <3>3. Writable(v)'
      BY <1>1, <3>1, <3>2 DEF Writable
    <3>4. Ahead(v)'
      BY <3>1, QueueOfType DEF Ahead, Shrink
    <3> QED
      BY <3>3, <3>4
  <2> QED
    BY <2>1 DEF IInv, LateInv
<1>8. WriterInv'
  <2>1. ASSUME NEW o \in Orders \ {p}, NEW g \in Subscribed, NEW i \in Messages, Wrote(o, g, i)
        PROVE  Wrote(o, g, i)'
    BY <1>3, <2>1, QueueOfType DEF Wrote, Shrink
  <2>2. ASSUME NEW o \in Orders \ {p}
        PROVE  \/ writer'[o] = Nobody /\ status'[o] \in {Absent, Pending}
               \/ \E g \in Subscribed, i \in Messages : Wrote(o, g, i)'
    BY <1>3, <2>1, <2>2 DEF IInv, WriterInv
  <2>3. Wrote(p, w.by, x)'
    BY <1>3 DEF Wrote, Writable, Ahead
  <2> QED
    BY <1>2, <2>2, <2>3 DEF WriterInv
<1>9. AppliedInv'
  BY <1>1 DEF IInv, AppliedInv, Writable
<1> QED
  BY <1>4, <1>5, <1>6, <1>7, <1>8, <1>9

LEMMA OverwritesAre ==
  ASSUME TypeOK, NEW w, UpdateOrderStatus(w), NEW o \in Orders,
         writer'[o].event < writer[o].event
  PROVE  writer'[o] = w
<1>1. writer[o].event \in Int
  BY MaxEventsAssumption DEF TypeOK, Nobody, Messages
<1>2. writer'[o] # writer[o]
  BY <1>1
<1> QED
  BY <1>2 DEF UpdateOrderStatus, TypeOK

\* What taking the message in hand leaves: its own line is behind it.
LEMMA TakeInLine ==
  ASSUME IInv, NEW h \in Subscribed, buffer[h] # << >>, Next1(h), UNCHANGED queue,
         NEW w, w = Update(h)
  PROVE  Shrink /\ Ahead(w)'
<1> DEFINE x == Head(buffer[h])
           t == Tail(buffer[h])
<1>1. \A g \in Subscribed : buffer'[g] = IF g = h THEN t ELSE buffer[g]
  BY DEF Next1, IInv, TypeOK
<1>2. Shrink
  BY <1>1, Shrinking
<1>3. buffer[h] \in Seq(Nat) /\ In(x, buffer[h]) /\ x \in Nat
      /\ \A i \in Nat : In(i, t) => x < i
  BY SeqTypes, TailFacts DEF IInv, LineInv
<1>4. \A q \in Queues : ~In(x, queue[q])
  <2> SUFFICES ASSUME NEW q \in Queues, In(x, queue[q]) PROVE FALSE
    OBVIOUS
  <2>1. q = QueueOf(h)
    BY <1>3 DEF IInv, KeyInv
  <2> QED
    BY <1>3, <2>1 DEF IInv, LineInv
<1>5. \A g \in Subscribed : ~In(x, buffer'[g])
  BY <1>1, <1>3 DEF IInv, LineInv
<1>6. \A j \in Nat : In(j, buffer'[h]) \/ In(j, queue'[QueueOf(h)]) => x < j
  BY <1>1, <1>3, QueueOfType DEF IInv, LineInv
<1> QED
  BY <1>2, <1>4, <1>5, <1>6 DEF Ahead, Update

\* A handler applies the head of its buffer, which is then ahead of it.
LEMMA UpdateInLine ==
  ASSUME IInv, NEW h \in Subscribed, buffer[h] # << >>, Accepts(h),
         UpdateOrderStatus(Update(h)), Next1(h), UNCHANGED <<brokerVars, sub, late>>
  PROVE  IInv' /\ OneHandlerKeepsOrder
<1>0. PICK w : w = Update(h)
  OBVIOUS
<1>1. /\ w \in [by : Subscribed, event : Messages] /\ Writable(w)
      /\ In(w.event, buffer[h]) /\ w.by = h
  BY <1>0, InHandFacts DEF Update
<1>2. UNCHANGED <<published, bound, queue, sub, late>>
  BY DEF brokerVars
<1>3. Shrink /\ Ahead(w)'
  BY <1>0, <1>2, TakeInLine
<1>4. \A v \in late' : v \in late /\ v.event # w.event
  BY <1>1, <1>2 DEF IInv, LateInv, Ahead
<1>5. /\ KeyInv' /\ LineInv' /\ LateInv' /\ WriterInv' /\ AppliedInv'
      /\ status' \in [Orders -> {Absent, Pending, 2, 3, 5, 6}]
      /\ applied' \subseteq Messages
      /\ writer' \in [Orders -> {Nobody} \cup [by : Subscribed, event : Messages]]
  BY <1>0, <1>1, <1>2, <1>3, <1>4, WriteInLine
<1>6. TypeOK'
  <2>1. Tail(buffer[h]) \in Seq(Messages)
    BY HeadTailProperties DEF IInv, TypeOK
  <2> QED
    BY <1>2, <1>5, <2>1 DEF Next1, IInv, TypeOK
<1>7. OneHandlerKeepsOrder
  <2> SUFFICES ASSUME NEW o \in Orders, writer'[o].event < writer[o].event
               PROVE  writer'[o].by # writer[o].by
    BY DEF OneHandlerKeepsOrder
  <2>2. writer'[o] = w
    BY <1>0, OverwritesAre DEF IInv
  <2>3. CASE writer[o] = Nobody
    BY <1>1, <2>2, <2>3, MaxEventsAssumption DEF Nobody, Messages
  <2>4. ASSUME NEW g \in Subscribed, NEW i \in Messages, Wrote(o, g, i)
        PROVE  g # h
    <3> SUFFICES ASSUME g = h PROVE FALSE
      OBVIOUS
    <3>1. i < w.event /\ w.event \in Nat /\ i \in Nat
      BY <1>1, <2>4, MaxEventsAssumption DEF Wrote, Messages
    <3>2. writer[o].event = i
      BY <2>4 DEF Wrote
    <3> QED
      BY <2>2, <3>1, <3>2
  <2>5. \A g, i : Wrote(o, g, i) => writer[o].by = g
    BY DEF Wrote
  <2> QED
    BY <1>1, <2>2, <2>3, <2>4, <2>5 DEF IInv, WriterInv
<1> QED
  BY <1>5, <1>6, <1>7 DEF IInv

\* An update that comes late is ahead of its line as it was.
LEMMA LateInLine ==
  ASSUME IInv, NEW w \in late, ApplyLate(w)
  PROVE  IInv' /\ OneHandlerKeepsOrder
<1>1. w \in [by : Subscribed, event : Messages] /\ Writable(w) /\ Ahead(w)
  BY DEF IInv, LateInv, TypeOK
<1>2. UNCHANGED <<published, bound, queue, sub, buffer>> /\ UpdateOrderStatus(w)
      /\ late' = late \ {w}
  BY DEF ApplyLate, brokerVars
<1>3. Shrink
  BY <1>2 DEF Shrink, IInv, LineInv
<1>4. Ahead(w)'
  BY <1>1, <1>2 DEF Ahead
<1>5. \A v \in late' : v \in late /\ v.event # w.event
  BY <1>2 DEF IInv, LateInv
<1>6. /\ KeyInv' /\ LineInv' /\ LateInv' /\ WriterInv' /\ AppliedInv'
      /\ status' \in [Orders -> {Absent, Pending, 2, 3, 5, 6}]
      /\ applied' \subseteq Messages
      /\ writer' \in [Orders -> {Nobody} \cup [by : Subscribed, event : Messages]]
  BY <1>1, <1>2, <1>3, <1>4, <1>5, WriteInLine
<1>7. TypeOK'
  BY <1>2, <1>6 DEF IInv, TypeOK
<1> QED
  BY <1>2, <1>6, <1>7, OverwritesAre DEF IInv, OneHandlerKeepsOrder

-----------------------------------------------------------------------------
LEMMA WritersKept ==
  ASSUME TypeOK, UNCHANGED writer
  PROVE  OneHandlerKeepsOrder
<1> SUFFICES ASSUME NEW o \in Orders PROVE ~(writer'[o].event < writer[o].event)
  BY DEF OneHandlerKeepsOrder
<1>1. writer[o].event \in Int
  BY MaxEventsAssumption DEF TypeOK, Nobody, Messages
<1> QED
  BY <1>1

\* Steps of a subscription, and what the broker and the connection lose.
LEMMA ConnectionKeeps ==
  ASSUME IInv,
         \/ Disconnect \/ UNCHANGED vars
         \/ \E h \in Subscribed : SubscribeStep(h) \/ DropRest(h)
  PROVE  IInv' /\ OneHandlerKeepsOrder
<1>1. /\ UNCHANGED <<published, status, late, applied, writer>>
      /\ \A q \in Queues : queue'[q] = queue[q] \/ queue'[q] = << >>
  BY DEF Disconnect, SubscribeStep, Bind, Consume, SubscribeFails, DropRest,
         Empty, brokerVars, docVars, vars
<1>2. \A g \in Subscribed : buffer'[g] = buffer[g] \/ buffer'[g] = << >>
  BY DEF Disconnect, SubscribeStep, Bind, Consume, SubscribeFails, DropRest,
         vars, IInv, TypeOK
<1>3. TypeOK'
  <2>1. CASE Disconnect
    BY <1>1, <2>1 DEF Disconnect, Empty, IInv, TypeOK
  <2>2. CASE UNCHANGED vars
    BY <1>1, <2>2 DEF vars, brokerVars, IInv, TypeOK
  <2>3. ASSUME NEW h \in Subscribed, Bind(h) PROVE TypeOK'
    BY <1>1, <2>3 DEF Bind, IInv, TypeOK
  <2>4. ASSUME NEW h \in Subscribed, Consume(h) PROVE TypeOK'
    BY <1>1, <2>4 DEF Consume, IInv, TypeOK, brokerVars
  <2>5. ASSUME NEW h \in Subscribed, SubscribeFails(h) PROVE TypeOK'
    BY <1>1, <2>5 DEF SubscribeFails, IInv, TypeOK, brokerVars
  <2>6. ASSUME NEW h \in Subscribed, DropRest(h) PROVE TypeOK'
    BY <1>1, <2>6 DEF DropRest, IInv, TypeOK, brokerVars
  <2> QED
    BY <2>1, <2>2, <2>3, <2>4, <2>5, <2>6 DEF SubscribeStep
<1>4. Shrink
  BY <1>1, <1>2, Shrinking
<1> QED
  BY <1>1, <1>3, <1>4, LinesShrink, WritersKept DEF IInv

\* What a crash cuts off is ahead of the lines, which are gone.
LEMMA CrashKeeps ==
  ASSUME IInv, Crash
  PROVE  IInv' /\ OneHandlerKeepsOrder
<1>1. PICK cut \in SUBSET InFlight : late' = late \cup cut
  BY DEF Crash
<1>2. /\ UNCHANGED <<published, status, applied, writer>>
      /\ \A q \in Queues : queue'[q] = << >>
      /\ \A g \in Subscribed : buffer'[g] = << >>
  BY DEF Crash, Empty
<1>3. Shrink
  BY <1>2, Shrinking
<1>4. \A u \in cut : \E h \in Subscribed :
         /\ u \in [by : Subscribed, event : Messages] /\ Writable(u)
         /\ u = Update(h) /\ In(u.event, buffer[h])
  BY InHandFacts DEF InFlight, Update
<1>5. TypeOK'
  BY <1>1, <1>2, <1>4 DEF Crash, Empty, IInv, TypeOK
<1>6. KeyInv' /\ LineInv' /\ WriterInv' /\ AppliedInv' /\ \A w \in late : (Writable(w) /\ Ahead(w))'
  BY <1>2, <1>3, LinesShrink
<1>7. LateInv'
  <2>1. ASSUME NEW u \in cut PROVE (Writable(u) /\ Ahead(u))'
    <3>1. u.by \in Subscribed /\ Writable(u)
      BY <1>4
    <3>2. Writable(u)'
      BY <1>2, <3>1 DEF Writable
    <3>3. Ahead(u)'
      BY <1>2, <3>1, EmptyFacts, QueueOfType DEF Ahead
    <3> QED
      BY <3>2, <3>3
  <2>2. ASSUME NEW u \in cut, NEW v \in cut, u.event = v.event PROVE u = v
    <3>1. PICK g \in Subscribed : u = Update(g) /\ In(u.event, buffer[g]) /\ u.event \in Messages
      BY <1>4
    <3>2. PICK h \in Subscribed : v = Update(h) /\ In(v.event, buffer[h])
      BY <1>4
    <3>3. u.event \in Nat
      BY <3>1, MaxEventsAssumption DEF Messages
    <3> QED
      BY <2>2, <3>1, <3>2, <3>3 DEF IInv, LineInv
  <2>3. ASSUME NEW u \in cut, NEW v \in late PROVE u.event # v.event
    BY <1>4 DEF IInv, LateInv, Ahead
  <2> QED
    BY <1>1, <1>6, <2>1, <2>2, <2>3 DEF IInv, LateInv
<1> QED
  BY <1>2, <1>5, <1>6, <1>7, WritersKept DEF IInv

\* The message in hand is taken, and no document changes, or not yet.
LEMMA TakenUnused ==
  ASSUME IInv, NEW h \in Subscribed, buffer[h] # << >>, Next1(h),
         UNCHANGED <<brokerVars, sub, status, applied, writer>>,
         late' = late \/ (Accepts(h) /\ late' = late \cup {Update(h)})
  PROVE  IInv' /\ OneHandlerKeepsOrder
<1>1. /\ UNCHANGED <<published, bound, queue, sub, status, applied, writer>>
      /\ \A g \in Subscribed : \/ buffer'[g] = buffer[g]
                               \/ g = h /\ buffer'[g] = Tail(buffer[g])
  BY DEF Next1, brokerVars, IInv, TypeOK
<1>2. Shrink
  BY <1>1, Shrinking
<1>3. /\ KeyInv' /\ LineInv' /\ WriterInv' /\ AppliedInv'
      /\ \A w \in late : (Writable(w) /\ Ahead(w))'
      /\ late' = late => LateInv'
  BY <1>1, <1>2, LinesShrink
<1>4. buffer' \in [Subscribed -> Seq(Messages)]
  <2>1. Tail(buffer[h]) \in Seq(Messages)
    BY HeadTailProperties DEF IInv, TypeOK
  <2> QED
    BY <2>1 DEF Next1, IInv, TypeOK
<1>5. CASE late' = late
  <2>1. TypeOK'
    BY <1>1, <1>4, <1>5 DEF IInv, TypeOK
  <2> QED
    BY <1>1, <1>3, <1>5, <2>1, WritersKept DEF IInv
<1>6. CASE Accepts(h) /\ late' = late \cup {Update(h)}
  <2>0. PICK u : u = Update(h)
    OBVIOUS
  <2>1. /\ u \in [by : Subscribed, event : Messages] /\ Writable(u)
        /\ In(u.event, buffer[h])
    BY <1>6, <2>0, InHandFacts DEF Update
  <2>2. Ahead(u)'
    BY <1>1, <2>0, TakeInLine
  <2>3. Writable(u)'
    BY <1>1, <2>1 DEF Writable
  <2>4. TypeOK'
    BY <1>1, <1>4, <1>6, <2>0, <2>1 DEF IInv, TypeOK
  <2>5. \A v \in late : u.event # v.event
    BY <2>1 DEF IInv, LateInv, Ahead
  <2>6. LateInv'
    <3>1. late' = late \cup {u}
      BY <1>6, <2>0
    <3> QED
      BY <1>3, <2>2, <2>3, <2>5, <3>1 DEF IInv, LateInv
  <2> QED
    BY <1>1, <1>3, <2>4, <2>6, WritersKept DEF IInv
<1> QED
  BY <1>5, <1>6

\* The publishers send events.
LEMMA PublishersSend ==
  ASSUME \/ \E o \in Orders : MerchantAccepts(o) \/ RiderReports(o)
         \/ \E o \in Orders, key \in AllKeys, body \in Bodies : OthersPublish(o, key, body)
  PROVE  \E o \in Orders : \E key, body :
             /\ [order |-> o, key |-> key, body |-> body] \in Events
             /\ Publish(o, key, body)
<1>1. ASSUME NEW o \in Orders, MerchantAccepts(o) \/ RiderReports(o)
      PROVE  \E key, body : /\ [order |-> o, key |-> key, body |-> body] \in Events
                            /\ Publish(o, key, body)
  BY <1>1 DEF MerchantAccepts, RiderReports, Events, AllKeys, StatusKeys
<1>2. ASSUME NEW o \in Orders, NEW key \in AllKeys, NEW body \in Bodies,
             OthersPublish(o, key, body)
      PROVE  [order |-> o, key |-> key, body |-> body] \in Events /\ Publish(o, key, body)
  BY <1>2 DEF OthersPublish, Events
<1> QED
  BY <1>1, <1>2

LEMMA NextIInv ==
  ASSUME IInv, [Next]_vars
  PROVE  IInv' /\ OneHandlerKeepsOrder
<1>1. ASSUME NEW o \in Orders, NEW key, NEW body,
             [order |-> o, key |-> key, body |-> body] \in Events, Publish(o, key, body)
      PROVE  IInv' /\ OneHandlerKeepsOrder
  BY <1>1, PublishInLine, WritersKept DEF Publish, docVars, IInv
<1>2. ASSUME NEW h \in Subscribed, Deliver(h)
      PROVE  IInv' /\ OneHandlerKeepsOrder
  BY <1>2, DeliverInLine, WritersKept DEF Deliver, docVars, IInv
<1>3. ASSUME NEW h \in Subscribed, HandlerStep(h)
      PROVE  IInv' /\ OneHandlerKeepsOrder
  <2>1. buffer[h] # << >> /\ Next1(h) /\ UNCHANGED <<brokerVars, sub>>
    BY <1>3 DEF HandlerStep, Handle, Discard, UpdateFails
  <2>2. CASE /\ UNCHANGED <<status, applied, writer>>
             /\ late' = late \/ (Accepts(h) /\ late' = late \cup {Update(h)})
    BY <2>1, <2>2, TakenUnused
  <2>3. CASE Accepts(h) /\ UpdateOrderStatus(Update(h)) /\ UNCHANGED late
    BY <2>1, <2>3, UpdateInLine
  <2> QED
    BY <1>3, <2>2, <2>3 DEF HandlerStep, Handle, Discard, UpdateFails, docVars
<1>4. ASSUME NEW w \in late, ApplyLate(w)
      PROVE  IInv' /\ OneHandlerKeepsOrder
  BY <1>4, LateInLine
<1> QED
  BY <1>1, <1>2, <1>3, <1>4, PublishersSend, ConnectionKeeps, CrashKeeps DEF Next

LEMMA Invariance == Spec => []IInv
<1>1. IInv /\ [Next]_vars => IInv'
  BY NextIInv
<1> QED
  BY <1>1, InitIInv, PTL DEF Spec

\* Every variable keeps its type, whatever the broker and the store do.
THEOREM TypeCorrect == Spec => []TypeOK
<1>1. IInv => TypeOK
  BY DEF IInv
<1> QED
  BY <1>1, Invariance, PTL

\* What handleOrderStatus stores for an order was announced for that order.
THEOREM StatusesAreAnnounced == Spec => []StatusIsAnnounced
<1>1. IInv => StatusIsAnnounced
  <2> SUFFICES ASSUME IInv, NEW o \in Orders, status[o] \notin {Absent, Pending}
               PROVE  \E i \in DOMAIN published : Announces(i, o)
    BY DEF StatusIsAnnounced
  <2>1. PICK h \in Subscribed, i \in Messages : Wrote(o, h, i)
    BY DEF IInv, WriterInv
  <2>2. i \in DOMAIN published
    BY <2>1 DEF Wrote, IInv, TypeOK
  <2> QED
    BY <2>1, <2>2 DEF Wrote, Announces
<1> QED
  BY <1>1, Invariance, PTL

\* A message Subscribe was sent is with one handler at most, and never comes
\* back once it was applied.
THEOREM DeliveredOnce == Spec => []AtMostOnce
<1>1. IInv => AtMostOnce
  <2> SUFFICES ASSUME IInv, NEW i \in Messages PROVE
        /\ \A h \in Subscribed : In(i, buffer[h]) =>
              /\ i \notin applied
              /\ \A q \in Queues : ~In(i, queue[q])
              /\ \A g \in Subscribed : In(i, buffer[g]) => g = h
        /\ \A q \in Queues : In(i, queue[q]) =>
              /\ i \notin applied
              /\ \A r \in Queues : In(i, queue[r]) => r = q
        /\ \A w \in late : w.event = i =>
              /\ i \notin applied
              /\ \A h \in Subscribed : ~In(i, buffer[h])
              /\ \A q \in Queues : ~In(i, queue[q])
              /\ \A v \in late : v.event = i => v = w
    BY DEF AtMostOnce
  <2>1. i \in Nat
    BY MaxEventsAssumption DEF Messages
  <2>2. ASSUME NEW h \in Subscribed, In(i, buffer[h]), NEW q \in Queues, In(i, queue[q])
        PROVE  FALSE
    <3>1. q = QueueOf(h)
      BY <2>1, <2>2 DEF IInv, KeyInv
    <3>2. i < i
      BY <2>1, <2>2, <3>1 DEF IInv, LineInv
    <3> QED
      BY <2>1, <3>2
  <2>3. \A g, h \in Subscribed : In(i, buffer[g]) /\ In(i, buffer[h]) => g = h
    BY <2>1 DEF IInv, LineInv
  <2>4. /\ \A h \in Subscribed : In(i, buffer[h]) => i \notin applied
        /\ \A q \in Queues : In(i, queue[q]) => i \notin applied
        /\ \A q, r \in Queues : In(i, queue[q]) /\ In(i, queue[r]) => r = q
    BY <2>1 DEF IInv, KeyInv
  <2>5. \A w \in late : w.event = i =>
              /\ i \notin applied
              /\ \A h \in Subscribed : ~In(i, buffer[h])
              /\ \A q \in Queues : ~In(i, queue[q])
              /\ \A v \in late : v.event = i => v = w
    BY DEF IInv, LateInv, Writable, Ahead
  <2> QED
    BY <2>2, <2>3, <2>4, <2>5
<1> QED
  BY <1>1, Invariance, PTL

\* handleOrderStatus and UpdateOrderStatus: an older event overwrites a newer
\* one only in a race of two consumers, or when the store is late.
THEOREM RegressNeedsARace == Spec => StaleWriteNeedsARace
<1>1. IInv /\ [Next]_vars => [OneHandlerKeepsOrder]_vars
  BY NextIInv
<1> QED
  BY <1>1, Invariance, PTL DEF Spec, StaleWriteNeedsARace

\* Only an update of a readable event changes an order's status.
LEMMA ChangesAreWritten ==
  ASSUME IInv, [Next]_vars, NEW o \in Orders, status'[o] # status[o]
  PROVE  \E w \in [by : Subscribed, event : Messages] :
            /\ Writable(w) /\ published[w.event].order = o
            /\ writer'[o] = w /\ status'[o] = NewStatus(published[w.event].key)
<1>1. \E w \in [by : Subscribed, event : Messages] : Writable(w) /\ UpdateOrderStatus(w)
  <2>1. CASE \E h \in Subscribed : HandlerStep(h)
    <3>1. PICK h \in Subscribed : buffer[h] # << >> /\ Accepts(h) /\ UpdateOrderStatus(Update(h))
      BY <2>1 DEF HandlerStep, Handle, Discard, UpdateFails, docVars
    <3> QED
      BY <3>1, InHandFacts
  <2>2. CASE \E w \in late : ApplyLate(w)
    BY <2>2 DEF ApplyLate, IInv, LateInv, TypeOK
  <2>3. ~ UNCHANGED status
    OBVIOUS
  <2> QED
    BY <2>1, <2>2, <2>3 DEF Next, MerchantAccepts, RiderReports, OthersPublish, Publish, Deliver,
       SubscribeStep, Bind, Consume, SubscribeFails, DropRest, Disconnect, Crash, vars, docVars
<1>2. PICK w \in [by : Subscribed, event : Messages] : Writable(w) /\ UpdateOrderStatus(w)
  BY <1>1
<1>3. published[w.event].order = o
  BY <1>2 DEF UpdateOrderStatus, IInv, TypeOK
<1> QED
  BY <1>2, <1>3 DEF UpdateOrderStatus, IInv, TypeOK

(***************************************************************************)
(* What becomes of the happy path of events.proto:10.  If the events of an *)
(* order were published in that order, its status would go back only in a  *)
(* race of two consumers or by a late update; run status_regress shows the *)
(* race (order.go:165).  The publishers keep no such order: with a rider's *)
(* report before the merchant's event, one handler would be enough.        *)
(***************************************************************************)
THEOREM HappyPathRegressNeedsARace ==
  Spec => [][\A o \in Orders : HappyPath(o) /\ status'[o] < status[o] =>
                writer'[o].by # writer[o].by \/ writer'[o] \in late]_vars
<1>1. ASSUME IInv, [Next]_vars, NEW o \in Orders, HappyPath(o), status'[o] < status[o]
      PROVE  writer'[o].by # writer[o].by \/ writer'[o] \in late
  <2>1. IInv' /\ OneHandlerKeepsOrder
    BY <1>1, NextIInv
  <2>2. status[o] \in {-1, 0, 2, 3, 5, 6} /\ status'[o] \in {-1, 0, 2, 3, 5, 6}
    BY <1>1, <2>1 DEF IInv, TypeOK, Absent, Pending
  <2>3. PICK w \in [by : Subscribed, event : Messages] :
            /\ Writable(w) /\ published[w.event].order = o
            /\ writer'[o] = w /\ status'[o] = NewStatus(published[w.event].key)
    BY <1>1, <2>2, ChangesAreWritten
  <2>4. CASE writer[o] = Nobody /\ status[o] \in {Absent, Pending}
    BY <1>1, <2>3, <2>4 DEF NewStatus, Absent, Pending
  <2>5. ASSUME NEW g \in Subscribed, NEW i \in Messages, Wrote(o, g, i)
        PROVE  w.event < i
    <3> DEFINE x == w.event
    <3>1. /\ x \in 1..Len(published) /\ i \in 1..Len(published)
          /\ published[x].order = o /\ published[i].order = o
          /\ published[x].key \in StatusKeys /\ published[i].key \in StatusKeys
          /\ NewStatus(published[x].key) < NewStatus(published[i].key)
          /\ DOMAIN published = 1..Len(published) /\ Len(published) \in Nat
      BY <1>1, <2>3, <2>5 DEF Wrote, Writable, IInv, TypeOK
    <3>2. x # i
      BY <3>1 DEF NewStatus
    <3> HIDE DEF x
    <3>3. ~(i < x)
      <4> SUFFICES ASSUME i < x PROVE FALSE
        OBVIOUS
      <4>1. NewStatus(published[i].key) <= NewStatus(published[x].key)
        BY <1>1, <3>1 DEF HappyPath
      <4> QED
        BY <3>1, <4>1 DEF NewStatus
    <3> QED
      BY <3>1, <3>2, <3>3 DEF x
  <2>6. \A g, i : Wrote(o, g, i) => writer[o].event = i
    BY DEF Wrote
  <2> QED
    BY <1>1, <2>1, <2>3, <2>4, <2>5, <2>6 DEF IInv, WriterInv, OneHandlerKeepsOrder
<1>2. IInv /\ [Next]_vars
        => [\A o \in Orders : HappyPath(o) /\ status'[o] < status[o] =>
                writer'[o].by # writer[o].by \/ writer'[o] \in late]_vars
  BY <1>1
<1> QED
  BY <1>2, Invariance, PTL DEF Spec

(***************************************************************************)
(* What the repository's own publishers send changes nothing: HandlePlace- *)
(* Order's bare uuid (merchant.go:189) and the RiderAssignedEvent of the   *)
(* delivery service (delivery_impl.rs:274) are no JSON strings, so unless  *)
(* somebody else sends an id, no order ever leaves the status it has.      *)
(***************************************************************************)
THEOREM PublishersAreUnreadable ==
  ASSUME "id" \notin Bodies
  PROVE  Spec => [][UNCHANGED status]_vars
<1>1. ASSUME IInv, [Next]_vars
      PROVE  UNCHANGED status
  <2>1. IInv'
    BY <1>1, NextIInv
  <2>2. ASSUME NEW o \in Orders, status'[o] # status[o] PROVE FALSE
    <3>1. PICK w \in [by : Subscribed, event : Messages] : Writable(w)
      BY <1>1, <2>2, ChangesAreWritten
    <3>2. published[w.event] \in Events /\ published[w.event].body = "id"
      BY <1>1, <3>1, ElementOfSeq DEF Writable, IInv, TypeOK
    <3> QED
      BY <3>2 DEF Events
  <2> QED
    BY <1>1, <2>1, <2>2 DEF IInv, TypeOK
<1>2. IInv /\ [Next]_vars => [UNCHANGED status]_vars
  BY <1>1
<1> QED
  BY <1>2, Invariance, PTL DEF Spec

-----------------------------------------------------------------------------
(***************************************************************************)
(* The consumers keep the promises of StatusBoard: LineInv and KeyInv say  *)
(* that a message waits in one place only, so that taking it closes it.    *)
(***************************************************************************)
said == [i \in DOMAIN published |-> Says(published[i])]
BoardStep == [Board!Next]_(Board!vars)

LEMMA InTail ==
  ASSUME NEW s \in Seq(Nat), s # << >>
  PROVE  \A i : In(i, s) <=> i = Head(s) \/ In(i, Tail(s))
<1>1. /\ Len(s) \in Nat \ {0} /\ Head(s) = s[1]
      /\ Len(Tail(s)) = Len(s) - 1
      /\ \A n \in 1..Len(s) - 1 : Tail(s)[n] = s[n + 1]
  BY EmptySeq, HeadTailProperties
<1>2. ASSUME NEW i, In(i, s), i # Head(s) PROVE In(i, Tail(s))
  <2>1. PICK n \in 1..Len(s) : s[n] = i
    BY <1>2 DEF In
  <2>2. n - 1 \in 1..Len(Tail(s)) /\ (n - 1) + 1 = n
    BY <1>1, <1>2, <2>1
  <2>3. Tail(s)[n - 1] = i
    BY <1>1, <2>1, <2>2
  <2> QED
    BY <2>2, <2>3 DEF In
<1> QED
  BY <1>2, TailFacts

LEMMA FunctionsAreSequences ==
  ASSUME NEW S, NEW n \in Nat, NEW f \in [1..n -> S]
  PROVE  f \in Seq(S) /\ Len(f) = n
OBVIOUS

\* The board shows as many announcements as there are events.
Notices == [order : Orders, shows : {Absent, Pending, 2, 3, 5, 6}]

LEMMA SaysType == ASSUME NEW e \in Events PROVE Says(e) \in Notices
BY DEF Says, NewStatus, Events, Notices

LEMMA SaidFacts ==
  ASSUME NEW p \in Seq(Events), NEW s, s = [i \in DOMAIN p |-> Says(p[i])]
  PROVE  /\ s \in Seq(Notices) /\ Len(s) = Len(p)
         /\ \A i \in 1..Len(p) : s[i] = Says(p[i])
<1>1. Len(p) \in Nat /\ DOMAIN p = 1..Len(p)
  OBVIOUS
<1>2. \A i \in 1..Len(p) : Says(p[i]) \in Notices
  BY ElementOfSeq, SaysType
<1>3. s \in [1..Len(p) -> Notices]
  BY <1>1, <1>2
<1> QED
  BY <1>1, <1>3, FunctionsAreSequences

LEMMA SaidIs ==
  ASSUME TypeOK
  PROVE  /\ said \in Seq(Notices) /\ Len(said) = Len(published)
         /\ \A i \in 1..Len(published) : said[i] = Says(published[i])
BY SaidFacts DEF TypeOK, said

LEMMA SaidNext ==
  ASSUME TypeOK'
  PROVE  /\ said' \in Seq(Notices) /\ Len(said') = Len(published')
         /\ \A i \in 1..Len(published') : said'[i] = Says(published'[i])
BY SaidFacts DEF TypeOK, said

\* What waits after a step that takes messages away only.
LEMMA LosesSome ==
  ASSUME Waiting' \subseteq Waiting, UNCHANGED <<published, status>>
  PROVE  BoardStep
<1> DEFINE which == Waiting \ Waiting'
<1>1. which \in SUBSET (1..MaxEvents) /\ Waiting' = Waiting \ which
  BY DEF Waiting, Messages
<1>2. said' = said
  BY DEF said
<1>3. Board!Lose(which)
  BY <1>1, <1>2 DEF Board!Lose, said
<1> QED
  BY <1>1, <1>3 DEF BoardStep, Board!Next

LEMMA PublishAnnounces ==
  ASSUME IInv, IInv', NEW o \in Orders, NEW key, NEW body,
         [order |-> o, key |-> key, body |-> body] \in Events,
         Publish(o, key, body)
  PROVE  BoardStep
<1> DEFINE n == Len(published) + 1
           e == [order |-> o, key |-> key, body |-> body]
<1>1. /\ published \in Seq(Events)
      /\ published' \in Seq(Events)
      /\ published' = Append(published, e) /\ Len(published) < MaxEvents
      /\ UNCHANGED <<buffer, late, status>>
  BY DEF IInv, TypeOK, Publish, docVars
<1>2. /\ Len(published) \in Nat /\ Len(published') = n /\ n \in Messages
      /\ \A i \in 1..Len(published) : published'[i] = published[i]
      /\ published'[n] = e
  BY <1>1, MaxEventsAssumption DEF Messages
<1>3. /\ said \in Seq(Notices) /\ Len(said) = Len(published)
      /\ \A i \in 1..Len(published) : said[i] = Says(published[i])
  BY SaidIs DEF IInv
<1>4. /\ said' \in Seq(Notices) /\ Len(said') = n
      /\ \A i \in 1..n : said'[i] = Says(published'[i])
  BY <1>2, SaidNext DEF IInv
<1>5. said' = Append(said, Says(e))
  <2>1. Says(e) \in Notices
    BY SaysType
  <2>2. /\ Append(said, Says(e)) \in Seq(Notices) /\ Len(Append(said, Says(e))) = n
        /\ \A i \in 1..n : Append(said, Says(e))[i] = IF i = n THEN Says(e) ELSE said[i]
    BY <1>2, <1>3, <2>1
  <2>3. \A i \in 1..n : said'[i] = Append(said, Says(e))[i]
    BY <1>2, <1>3, <1>4, <2>2
  <2> QED
    BY <1>4, <2>2, <2>3, SeqEqual
<1>6. Waiting' \in {Waiting, Waiting \cup {n}}
  <2>1. CASE key \in bound
    <3>1. queue' = [queue EXCEPT ![QueueOf(key)] = Append(@, n)]
      BY <2>1 DEF Publish
    <3>2. /\ QueueOf(key) \in Queues /\ queue[QueueOf(key)] \in Seq(Nat)
          /\ \A q \in Queues : queue'[q] = IF q = QueueOf(key) THEN Append(queue[q], n)
                                           ELSE queue[q]
      BY <3>1, QueueOfType, SeqTypes DEF IInv, TypeOK
    <3>3. \A i : In(i, Append(queue[QueueOf(key)], n)) <=> In(i, queue[QueueOf(key)]) \/ i = n
      BY <1>2, <3>2, AppendFacts
    <3>4. \A i : (\E q \in Queues : In(i, queue'[q])) <=> (\E q \in Queues : In(i, queue[q])) \/ i = n
      BY <3>2, <3>3
    <3> QED
      BY <1>1, <1>2, <3>4 DEF Waiting
  <2>2. CASE key \notin bound
    BY <1>1, <2>2 DEF Publish, Waiting
  <2> QED
    BY <2>1, <2>2
<1>7. Says(e).shows \in {Absent, Pending, 2, 3, 5, 6} /\ Says(e) = [order |-> o, shows |-> Says(e).shows]
  BY DEF Says, NewStatus
<1>8. Board!Announce(o, Says(e).shows)
  BY <1>1, <1>3, <1>5, <1>6, <1>7 DEF Board!Announce, said
<1> QED
  BY <1>7, <1>8 DEF BoardStep, Board!Next

\* A message on its way to a consumer stays open.
LEMMA DeliverShowsNothing ==
  ASSUME IInv, NEW h \in Subscribed, Deliver(h)
  PROVE  BoardStep
<1> DEFINE q == QueueOf(h)
           x == Head(queue[q])
<1>1. q \in Queues /\ queue[q] # << >> /\ queue[q] \in Seq(Nat) /\ buffer[h] \in Seq(Nat)
  BY QueueOfType, SeqTypes DEF Deliver, IInv
<1>2. /\ \A r \in Queues : queue'[r] = IF r = q THEN Tail(queue[r]) ELSE queue[r]
      /\ \A g \in Subscribed : buffer'[g] = IF g = h THEN Append(buffer[g], x) ELSE buffer[g]
      /\ UNCHANGED <<published, status, late>>
  BY <1>1 DEF Deliver, docVars, IInv, TypeOK
<1>3. /\ x \in Nat /\ \A i : In(i, queue[q]) <=> i = x \/ In(i, Tail(queue[q]))
      /\ \A i : In(i, Append(buffer[h], x)) <=> In(i, buffer[h]) \/ i = x
  BY <1>1, InTail, TailFacts, AppendFacts
<1>4. ASSUME NEW i, \/ \E r \in Queues : In(i, queue'[r])
                    \/ \E g \in Subscribed : In(i, buffer'[g])
      PROVE  \/ \E r \in Queues : In(i, queue[r])
             \/ \E g \in Subscribed : In(i, buffer[g])
  BY <1>1, <1>2, <1>3, <1>4
<1> QED
  BY <1>2, <1>4, LosesSome DEF Waiting

\* An update shows the message it is about, and closes it.
LEMMA UpdateShows ==
  ASSUME IInv, IInv', NEW w \in [by : Subscribed, event : Messages], Writable(w),
         UpdateOrderStatus(w), UNCHANGED published, w.event \in Waiting,
         Waiting \ {w.event} \subseteq Waiting', Waiting' \subseteq Waiting
  PROVE  BoardStep
<1> DEFINE x == w.event
           e == published[x]
<1>1. said[x] = [order |-> e.order, shows |-> NewStatus(e.key)] /\ said' = said
  <2>1. said[x] = Says(e)
    BY SaidIs DEF IInv, Writable
  <2> QED
    BY <2>1 DEF Says, said, Writable
<1>2. Waiting' = Waiting \ {x}
  <2>1. x \in applied'
    BY DEF UpdateOrderStatus
  <2>2. x \in Nat
    BY MaxEventsAssumption DEF Messages
  <2>3. x \notin Waiting'
    BY <2>1, <2>2 DEF IInv, KeyInv, LateInv, Writable, Waiting
  <2> QED
    BY <2>3
<1>3. NewStatus(e.key) # Absent
  BY DEF NewStatus, Absent
<1>4. status' = [status EXCEPT ![e.order] = NewStatus(e.key)]
  BY DEF UpdateOrderStatus
<1>5. Board!Show(x)
  <2>1. said[x].order = e.order /\ said[x].shows = NewStatus(e.key)
    BY <1>1
  <2>2. /\ said[x].shows # Absent /\ status[said[x].order] # Absent
        /\ status' = [status EXCEPT ![said[x].order] = said[x].shows]
    BY <1>3, <1>4, <2>1 DEF Writable
  <2> HIDE DEF x, e
  <2> QED
    BY <1>1, <1>2, <2>2 DEF Board!Show, said, x
<1> QED
  BY <1>5 DEF BoardStep, Board!Next, Messages

\* What taking the message in hand does to the messages that wait.
InLine(i) == \/ \E q \in Queues : In(i, queue[q])
             \/ \E h \in Subscribed : In(i, buffer[h])
Given(i) == \E w \in late : w.event = i

LEMMA TakingTakes ==
  ASSUME IInv, NEW h \in Subscribed, buffer[h] # << >>, Next1(h), UNCHANGED brokerVars
  PROVE  /\ Head(buffer[h]) \in Waiting
         /\ \A i : InLine(i)' => InLine(i)
         /\ \A i : InLine(i) => i = Head(buffer[h]) \/ InLine(i)'
<1>1. /\ buffer[h] \in Seq(Nat) /\ Head(buffer[h]) \in Messages
      /\ In(Head(buffer[h]), buffer[h])
      /\ \A i : In(i, buffer[h]) <=> i = Head(buffer[h]) \/ In(i, Tail(buffer[h]))
  BY SeqTypes, InTail, TailFacts, HeadTailProperties DEF IInv, TypeOK
<1>2. /\ UNCHANGED queue
      /\ \A g \in Subscribed : buffer'[g] = IF g = h THEN Tail(buffer[g]) ELSE buffer[g]
  BY DEF Next1, brokerVars, IInv, TypeOK
<1>3. Head(buffer[h]) \in Waiting
  BY <1>1 DEF Waiting
<1>4. \A i : (\E g \in Subscribed : In(i, buffer'[g])) => \E g \in Subscribed : In(i, buffer[g])
  BY <1>1, <1>2
<1>5. \A i : (\E g \in Subscribed : In(i, buffer[g]))
              => i = Head(buffer[h]) \/ \E g \in Subscribed : In(i, buffer'[g])
  BY <1>1, <1>2
<1> QED
  BY <1>2, <1>3, <1>4, <1>5 DEF InLine

LEMMA WaitingIs ==
    /\ Waiting = {i \in Messages : InLine(i) \/ Given(i)}
    /\ Waiting' = {i \in Messages : InLine(i)' \/ Given(i)'}
  BY DEF Waiting, InLine, Given

LEMMA HandlerShowsOrLoses ==
  ASSUME IInv, IInv', NEW h \in Subscribed, HandlerStep(h)
  PROVE  BoardStep
<1>1. buffer[h] # << >> /\ Next1(h) /\ UNCHANGED <<brokerVars, sub>> /\ UNCHANGED published
  BY DEF HandlerStep, Handle, Discard, UpdateFails, brokerVars
<1>2. CASE /\ UNCHANGED <<status, applied, writer>>
           /\ late' = late \/ late' = late \cup {Update(h)}
  <2>1. Waiting' \subseteq Waiting
    <3>1. \A i : Given(i)' => Given(i) \/ i = Head(buffer[h])
      BY <1>2 DEF Update, Given
    <3> QED
      BY <1>1, <3>1, TakingTakes, WaitingIs
  <2> QED
    BY <1>1, <1>2, <2>1, LosesSome
<1>3. CASE Accepts(h) /\ UpdateOrderStatus(Update(h)) /\ UNCHANGED late
  <2> DEFINE w == Update(h)
  <2>1. w \in [by : Subscribed, event : Messages] /\ Writable(w) /\ w.event = Head(buffer[h])
    BY <1>1, <1>3, InHandFacts DEF Update
  <2>2. w.event \in Waiting
    BY <1>1, <2>1, TakingTakes
  <2>3. Waiting \ {w.event} \subseteq Waiting' /\ Waiting' \subseteq Waiting
    <3>1. \A i : Given(i)' <=> Given(i)
      BY <1>3 DEF Given
    <3> HIDE DEF w
    <3> QED
      BY <1>1, <2>1, <3>1, TakingTakes, WaitingIs
  <2> HIDE DEF w
  <2> QED
    BY <1>1, <1>3, <2>1, <2>2, <2>3, UpdateShows DEF w
<1> QED
  BY <1>2, <1>3 DEF HandlerStep, Handle, Discard, UpdateFails, docVars

LEMMA LateShows ==
  ASSUME IInv, IInv', NEW w \in late, ApplyLate(w)
  PROVE  BoardStep
<1>1. w \in [by : Subscribed, event : Messages] /\ Writable(w)
  BY DEF IInv, LateInv, TypeOK
<1>2. /\ UNCHANGED <<published, queue, buffer>> /\ late' = late \ {w}
      /\ UpdateOrderStatus(w)
  BY DEF ApplyLate, brokerVars
<1>3. w.event \in Waiting /\ Waiting' \subseteq Waiting /\ Waiting \ {w.event} \subseteq Waiting'
  BY <1>1, <1>2 DEF Waiting
<1> QED
  BY <1>1, <1>2, <1>3, UpdateShows

LEMMA ConnectionLoses ==
  ASSUME IInv,
         \/ Disconnect \/ UNCHANGED vars
         \/ \E h \in Subscribed : SubscribeStep(h) \/ DropRest(h)
  PROVE  BoardStep
<1>1. /\ UNCHANGED <<published, status, late>>
      /\ \A q \in Queues : queue'[q] = queue[q] \/ queue'[q] = << >>
  BY DEF Disconnect, SubscribeStep, Bind, Consume, SubscribeFails, DropRest,
         Empty, vars, brokerVars, docVars
<1>2. \A g \in Subscribed : buffer'[g] = buffer[g] \/ buffer'[g] = << >>
  BY DEF Disconnect, SubscribeStep, Bind, Consume, SubscribeFails, DropRest,
         vars, IInv, TypeOK
<1>3. /\ \A q \in Queues : \A i : In(i, queue'[q]) => In(i, queue[q])
      /\ \A g \in Subscribed : \A i : In(i, buffer'[g]) => In(i, buffer[g])
  BY <1>1, <1>2, EmptyFacts
<1> QED
  BY <1>1, <1>3, LosesSome DEF Waiting

LEMMA CrashLoses == ASSUME IInv, Crash PROVE BoardStep
<1>1. PICK cut \in SUBSET InFlight : late' = late \cup cut
  BY DEF Crash
<1>2. /\ UNCHANGED <<published, status>>
      /\ \A q \in Queues : queue'[q] = << >>
      /\ \A g \in Subscribed : buffer'[g] = << >>
  BY DEF Crash, Empty
<1>3. \A u \in cut : u.event \in Waiting
  BY InHandFacts DEF InFlight, Update, Waiting
<1>4. Waiting' \subseteq Waiting
  BY <1>1, <1>2, <1>3, EmptyFacts DEF Waiting
<1> QED
  BY <1>2, <1>4, LosesSome

LEMMA NextBoard ==
  ASSUME IInv, IInv', [Next]_vars
  PROVE  BoardStep
  BY PublishersSend, PublishAnnounces, DeliverShowsNothing, HandlerShowsOrLoses, LateShows,
     ConnectionLoses, CrashLoses DEF Next

(***************************************************************************)
(* StartConsume, the broker and the handlers keep every promise of         *)
(* StatusBoard: an event changes the status of its own order, once or not  *)
(* at all, and nothing else does, whatever breaks.                         *)
(***************************************************************************)
THEOREM KeepsTheBoard == Spec => ImplementsBoard
<1>1. Init => Board!Init
  <2> SUFFICES ASSUME Init PROVE Board!Init
    OBVIOUS
  <2>1. Waiting = {}
    BY EmptyFacts DEF Init, Empty, Waiting
  <2>2. published = << >> /\ status \in [Orders -> {Absent, Pending, 2, 3, 5, 6}]
    BY DEF Init
  <2>3. said = << >>
    <3>1. TypeOK /\ Len(published) = 0
      BY <2>2, InitIInv DEF IInv
    <3>2. Len(said) = 0 /\ said \in Seq(Notices)
      BY <3>1, SaidIs
    <3> QED
      BY <3>2, EmptySeq
  <2> QED
    BY <2>1, <2>2, <2>3 DEF Board!Init, said
<1>2. IInv /\ [Next]_vars => IInv'
  BY NextIInv
<1>3. IInv /\ IInv' /\ [Next]_vars => [Board!Next]_(Board!vars)
  BY NextBoard DEF BoardStep
<1> QED
  BY <1>1, <1>2, <1>3, InitIInv, PTL DEF Spec, ImplementsBoard, Board!Spec

(***************************************************************************)
(* A consequence of the promise, carried over by the refinement.  Update   *)
(* without an upsert: no event, late or repeated, makes an order appear    *)
(* that was deleted or never there (UpdateOrderStatus of storage.go).      *)
(***************************************************************************)
THEOREM NoOrderAppears ==
    Spec => [][\A o \in Orders : status[o] = Absent => status'[o] = Absent]_vars
<1>1. ASSUME TypeOK, [Board!Next]_(Board!vars), NEW o \in Orders, status[o] = Absent
      PROVE  status'[o] = Absent
  <2>1. CASE \E i \in 1..MaxEvents : Board!Show(i)
    <3>1. PICK i \in 1..MaxEvents : Board!Show(i)
      BY <2>1
    <3>2. \E p : status[p] # Absent /\ \E s : status' = [status EXCEPT ![p] = s]
      BY <3>1 DEF Board!Show
    <3> QED
      BY <1>1, <3>2 DEF TypeOK
  <2>2. CASE UNCHANGED status
    BY <1>1, <2>2
  <2> QED
    BY <1>1, <2>1, <2>2 DEF Board!Next, Board!Announce, Board!Lose, Board!vars
<1>2. TypeOK /\ [Board!Next]_(Board!vars)
        => [\A o \in Orders : status[o] = Absent => status'[o] = Absent]_vars
  BY <1>1
<1> QED
  BY <1>2, TypeCorrect, KeepsTheBoard, PTL DEF ImplementsBoard, Board!Spec
-----------------------------------------------------------------------------
(***************************************************************************)
(* Towards the taking of every message (ReceivedIsTaken).  Fairness needs  *)
(* ENABLED; that a message in a consumer's buffer is taken, lost, or still *)
(* not farther back, readable or not and whatever fails, does not.         *)
(***************************************************************************)
At(i, h, n) == n \in 1..Len(buffer[h]) /\ buffer[h][n] = i

MovesUp(i, h, n) ==
    At(i, h, n) =>
        \/ ~ In(i, buffer'[h])
        \/ At(i, h, n)' /\ ~ HandlerStep(h)
        \/ n > 1 /\ At(i, h, n - 1)'

LEMMA TailMovesUp ==
  ASSUME IInv, NEW h \in Subscribed, NEW i \in Messages, NEW n \in Nat, At(i, h, n),
         buffer'[h] = Tail(buffer[h])
  PROVE  ~ In(i, buffer'[h]) \/ (n > 1 /\ At(i, h, n - 1)')
<1> DEFINE s == buffer[h]
<1>1. /\ s \in Seq(Nat) /\ s # << >> /\ Increasing(s) /\ i \in Nat
      /\ n \in 1..Len(s) /\ s[n] = i
  BY SeqTypes, EmptySeq, MaxEventsAssumption DEF IInv, LineInv, At, Messages
<1>2. /\ Len(s) \in Nat \ {0} /\ Head(s) = s[1] /\ Len(Tail(s)) = Len(s) - 1
      /\ \A m \in 1..Len(s) - 1 : Tail(s)[m] = s[m + 1]
  BY <1>1, HeadTailProperties
<1>3. CASE n = 1
  <2>1. \A j \in Nat : In(j, Tail(s)) => Head(s) < j
    BY <1>1, TailFacts
  <2>2. ~ (Head(s) < i)
    BY <1>1, <1>2, <1>3
  <2> QED
    BY <1>1, <2>1, <2>2
<1>4. CASE n > 1
  <2>1. n - 1 \in 1..Len(s) - 1 /\ (n - 1) + 1 = n
    BY <1>1, <1>2, <1>4
  <2> QED
    BY <1>1, <1>2, <1>4, <2>1 DEF At
<1> QED
  BY <1>1, <1>3, <1>4

\* What the steps do to a buffer.
LEMMA BufferMoves ==
  ASSUME TypeOK, [Next]_vars, NEW h \in Subscribed
  PROVE  \/ HandlerStep(h) /\ buffer'[h] = Tail(buffer[h])
         \/ /\ ~ HandlerStep(h)
            /\ \/ buffer'[h] \in {buffer[h], << >>}
               \/ \E m \in Messages : buffer'[h] = Append(buffer[h], m)
<1>1. \A g \in Subscribed : HandlerStep(g) => buffer' = [buffer EXCEPT ![g] = Tail(@)]
  BY DEF HandlerStep, Handle, Discard, UpdateFails, Next1
<1>2. CASE HandlerStep(h)
  BY <1>1, <1>2 DEF TypeOK
<1>3. ASSUME ~ HandlerStep(h)
      PROVE  \/ buffer'[h] \in {buffer[h], << >>}
             \/ \E m \in Messages : buffer'[h] = Append(buffer[h], m)
  <2>1. ASSUME NEW g \in Subscribed, HandlerStep(g) PROVE buffer'[h] = buffer[h]
    BY <1>1, <1>3, <2>1 DEF TypeOK
  <2>2. ASSUME NEW g \in Subscribed, Deliver(g)
        PROVE  \/ buffer'[h] = buffer[h]
               \/ \E m \in Messages : buffer'[h] = Append(buffer[h], m)
    <3>1. Head(queue[QueueOf(g)]) \in Messages
      BY <2>2, QueueOfType, HeadTailProperties DEF Deliver, TypeOK
    <3> QED
      BY <2>2, <3>1 DEF Deliver, TypeOK
  <2>3. ASSUME NEW g \in Subscribed, SubscribeStep(g) \/ DropRest(g)
        PROVE  buffer'[h] \in {buffer[h], << >>}
    BY <2>3 DEF SubscribeStep, Bind, Consume, SubscribeFails, DropRest, TypeOK
  <2>4. Disconnect \/ Crash \/ UNCHANGED vars => buffer'[h] \in {buffer[h], << >>}
    BY DEF Disconnect, Crash, vars
  <2>5. \A o, key, body : Publish(o, key, body) => buffer'[h] = buffer[h]
    BY DEF Publish
  <2>6. \A w : ApplyLate(w) => buffer'[h] = buffer[h]
    BY DEF ApplyLate
  <2> QED
    BY <2>1, <2>2, <2>3, <2>4, <2>5, <2>6 DEF Next, MerchantAccepts, RiderReports, OthersPublish
<1> QED
  BY <1>2, <1>3

\* A consumer takes its messages one by one from the front, the unreadable
\* ones too; what arrives stands behind (StartConsume).
THEOREM BuffersMoveUp ==
    Spec => [][\A i \in Messages, h \in Subscribed, n \in Nat : MovesUp(i, h, n)]_vars
<1>1. ASSUME IInv, [Next]_vars, NEW i \in Messages, NEW h \in Subscribed, NEW n \in Nat,
             At(i, h, n)
      PROVE  \/ ~ In(i, buffer'[h])
             \/ At(i, h, n)' /\ ~ HandlerStep(h)
             \/ n > 1 /\ At(i, h, n - 1)'
  <2>1. CASE HandlerStep(h) /\ buffer'[h] = Tail(buffer[h])
    BY <1>1, <2>1, TailMovesUp
  <2>2. CASE ~ HandlerStep(h) /\ buffer'[h] = buffer[h]
    BY <1>1, <2>2 DEF At
  <2>3. CASE buffer'[h] = << >>
    BY <2>3, EmptyFacts
  <2>4. CASE ~ HandlerStep(h) /\ \E m \in Messages : buffer'[h] = Append(buffer[h], m)
    <3>1. buffer[h] \in Seq(Messages)
      BY <1>1 DEF IInv, TypeOK
    <3> QED
      BY <1>1, <2>4, <3>1 DEF At
  <2> QED
    BY <1>1, <2>1, <2>2, <2>3, <2>4, BufferMoves DEF IInv
<1>2. IInv /\ [Next]_vars
        => [\A i \in Messages, h \in Subscribed, n \in Nat : MovesUp(i, h, n)]_vars
  BY <1>1 DEF MovesUp
<1> QED
  BY <1>2, Invariance, PTL DEF Spec
=============================================================================
