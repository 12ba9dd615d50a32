--------------------------- MODULE DeliveryProofs ---------------------------
(***************************************************************************)
(* Proofs about module Delivery, for any sets of orders and reports, any   *)
(* bodies and any combination of faults.                                   *)
(*                                                                         *)
(* What a report may write follows from what it read, and it keeps that    *)
(* until it writes: WriteInv.  What the task may write follows from where  *)
(* the message came from: an order is announced once, so Redis knows       *)
(* nothing of an order that is still in the queue: QueueInv.               *)
(***************************************************************************)
EXTENDS Delivery, TLAPS

Known(o) == Rank[status[o]] >= 1
Claimed(o) == Rank[status[o]] >= 2

\* A report about to write was let through, and its order is in Redis.
WriteInv ==
    /\ \A r \in Reports : pc[r] = "write" =>
          /\ target[r] \in {"accepted", "picked_up", "delivered"}
          /\ Rank[seen[r]] < Rank[target[r]]
          /\ Known(order[r])
    /\ \A r \in Reports : pc[r] = "publish" => Claimed(order[r])

\* Orders in the queue are new to Redis, and each is there once.
QueueInv ==
    /\ \A o \in Orders \ placed : status[o] = "none"
    /\ \A i \in 1..Len(queue) : queue[i].order \in placed /\ status[queue[i].order] = "none"
    /\ \A i, j \in 1..Len(queue) : queue[i].order = queue[j].order => i = j
    /\ consumer = "hset" =>
          /\ current.order \in placed
          /\ status[current.order] = "none"
          /\ \A i \in 1..Len(queue) : queue[i].order # current.order
    /\ consumer \in {"prepare", "publish"} => Known(current.order)

IInv == TypeOK /\ WriteInv /\ QueueInv /\ EventsFollowStatus /\ SilenceHasAReason

LEMMA RankFacts ==
    /\ Rank["none"] = 0
    /\ Rank["pending"] = 1
    /\ Rank["accepted"] = 2
    /\ Rank["picked_up"] = 3
    /\ Rank["delivered"] = 4
    /\ \A s \in Stored \cup {"none"} : Rank[s] \in 0..4
  BY DEF Rank, Stored

\* The match lets a report through only to a later status.
LEMMA RefusesFacts ==
  ASSUME NEW t \in Targets, NEW s \in Stored, ~Refuses(t, s)
  PROVE  t \in {"accepted", "picked_up", "delivered"} /\ Rank[s] < Rank[t] /\ Rank[s] >= 1
  BY RankFacts DEF Targets, Stored, Refuses

LEMMA InitIInv == Init => IInv
<1> SUFFICES ASSUME Init PROVE IInv
  OBVIOUS
<1>1. TypeOK
  BY DEF Init, TypeOK, Stored, Running, Done, TaskStates
<1>2. WriteInv /\ QueueInv /\ EventsFollowStatus
  BY DEF Init, WriteInv, QueueInv, EventsFollowStatus
<1>3. SilenceHasAReason
  BY RankFacts DEF Init, SilenceHasAReason
<1> QED
  BY <1>1, <1>2, <1>3 DEF IInv

-----------------------------------------------------------------------------
\* What publish does to the exchange and the events, wherever it is called.
LEMMA PublishFacts ==
  ASSUME TypeOK, NEW e \in [key : Keys, order : Orders], Publish(e)
  PROVE  /\ exchange' \in {"none", "durable", "transient"}
         /\ sent' \subseteq sent \cup {e}
  BY DEF TypeOK, Publish

\* That only statuses are stored needs WriteInv: a report never writes
\* "unspecified".
LEMMA TypeStep == TypeOK /\ WriteInv /\ [Next]_vars => TypeOK'
<1> SUFFICES ASSUME TypeOK, WriteInv, [Next]_vars PROVE TypeOK'
  OBVIOUS
<1> USE DEF TypeOK, taskVars, inputVars, Goto
<1>1. CASE OthersDeclare
  BY <1>1 DEF OthersDeclare
<1>2. ASSUME NEW o \in Orders, NEW body \in {"PlaceOrder"} \cup Bodies, Enqueue(o, body)
      PROVE  TypeOK'
  <2>1. [order |-> o, body |-> body] \in Messages
    BY DEF Messages
  <2> QED
    BY <1>2, <2>1 DEF Enqueue
<1>3. CASE TaskStep
  <2>1. CASE Subscribe
    BY <2>1 DEF Subscribe, TaskStates
  <2>2. CASE Take
    <3>1. Head(queue) \in Messages /\ Tail(queue) \in Seq(Messages)
      BY <2>2 DEF Take
    <3> QED
      BY <2>2, <3>1 DEF Take, TaskStates
  <2>3. CASE SetPending \/ SetPendingFails
    BY <2>3 DEF SetPending, SetPendingFails, TaskStates, Stored
  <2>4. CASE Prepare \/ PrepareFails
    BY <2>4 DEF Prepare, PrepareFails, TaskStates
  <2>5. CASE Notify
    <3>1. Event("rider.notified.event", current.order) \in [key : Keys, order : Orders]
      BY DEF Event, Keys, Messages
    <3> HIDE DEF TypeOK
    <3>2. exchange' \in {"none", "durable", "transient"}
          /\ sent' \subseteq [key : Keys, order : Orders]
      BY <2>5, <3>1, PublishFacts DEF Notify, TypeOK
    <3> QED
      BY <2>5, <3>2 DEF Notify, TaskStates, TypeOK
  <2> QED
    BY <1>3, <2>1, <2>2, <2>3, <2>4, <2>5 DEF TaskStep
<1>4. ASSUME NEW r \in Reports, ReportStep(r) PROVE TypeOK'
  <2>1. CASE Read(r) \/ ReadFails(r) \/ DropReport(r)
    BY <2>1 DEF Read, ReadFails, DropReport, Running, Done
  <2>2. CASE Write(r) \/ WriteFails(r)
    <3>1. target[r] \in Stored
      BY <2>2 DEF Write, WriteFails, WriteInv, Stored
    <3> QED
      BY <2>2, <3>1 DEF Write, WriteFails, Running, Done
  <2>3. CASE Announce(r)
    <3>1. Event("rider.assigned.event", order[r]) \in [key : Keys, order : Orders]
      BY DEF Event, Keys
    <3> HIDE DEF TypeOK
    <3>2. exchange' \in {"none", "durable", "transient"}
          /\ sent' \subseteq [key : Keys, order : Orders]
      BY <2>3, <3>1, PublishFacts DEF Announce, TypeOK
    <3> QED
      BY <2>3, <3>2 DEF Announce, Done, TypeOK
  <2> QED
    BY <1>4, <2>1, <2>2, <2>3 DEF ReportStep
<1>5. CASE Restart
  BY <1>5 DEF Restart, TaskStates, Running, Done
<1>6. CASE UNCHANGED vars
  BY <1>6 DEF vars
<1>7. CASE StreamEnds
  BY <1>7 DEF StreamEnds, TaskStates
<1> QED
  BY <1>1, <1>2, <1>3, <1>4, <1>5, <1>6, <1>7 DEF Next, Place, OthersPlace
-----------------------------------------------------------------------------
(***************************************************************************)
(* Every step leaves a status alone, sets a new order to pending, or lets  *)
(* a report write what it was allowed to write.                            *)
(***************************************************************************)
ReportWrites(r, o) == pc[r] = "write" /\ order[r] = o /\ status'[o] = target[r]
StatusMove(o) ==
    \/ status'[o] = status[o]
    \/ /\ consumer = "hset" /\ consumer' # "hset"
       /\ current.order = o /\ status'[o] = "pending"
    \/ \E r \in Reports : ReportWrites(r, o)

LEMMA StatusMoves ==
  ASSUME TypeOK, [Next]_vars, NEW o \in Orders
  PROVE  StatusMove(o)
<1>1. CASE status' = status
  BY <1>1 DEF StatusMove
<1>2. CASE SetPending \/ SetPendingFails
  BY <1>2 DEF SetPending, SetPendingFails, TypeOK, StatusMove
<1>3. ASSUME NEW r \in Reports, Write(r) \/ WriteFails(r) PROVE StatusMove(o)
  BY <1>3 DEF Write, WriteFails, TypeOK, StatusMove, ReportWrites
<1>4. ASSUME status' # status
      PROVE  \/ SetPending \/ SetPendingFails
             \/ \E r \in Reports : Write(r) \/ WriteFails(r)
  BY <1>4 DEF Next, vars, OthersDeclare, Place, OthersPlace, Enqueue, StreamEnds, TaskStep, Subscribe, Take, Prepare,
              PrepareFails, Notify, ReportStep, Read, ReadFails, Announce, DropReport, Restart
<1> QED
  BY <1>1, <1>2, <1>3, <1>4

\* Hence a known order stays known, and a claimed one stays claimed.
LEMMA ProgressStays ==
  ASSUME IInv, [Next]_vars, NEW o \in Orders
  PROVE  (Known(o) => Known(o)') /\ (Claimed(o) => Claimed(o)')
<1>1. StatusMove(o)
  BY StatusMoves DEF IInv
<1>2. CASE consumer = "hset" /\ current.order = o
  <2>1. status[o] = "none"
    BY <1>2 DEF IInv, QueueInv
  <2> QED
    BY <2>1, RankFacts DEF Known, Claimed
<1>3. CASE \E r \in Reports : ReportWrites(r, o)
  <2>1. status'[o] \in {"accepted", "picked_up", "delivered"}
    BY <1>3 DEF IInv, WriteInv, ReportWrites
  <2> QED
    BY <2>1, RankFacts DEF Known, Claimed
<1>4. CASE status'[o] = status[o]
  BY <1>4 DEF Known, Claimed, Rank
<1> QED
  BY <1>1, <1>2, <1>3, <1>4 DEF StatusMove

\* An order Redis knows nothing of is written only by the task.
LEMMA NewStaysNew ==
  ASSUME IInv, [Next]_vars, NEW o \in Orders, status[o] = "none",
         consumer = "hset" /\ current.order = o => consumer' = "hset"
  PROVE  status'[o] = "none"
<1>1. StatusMove(o)
  BY StatusMoves DEF IInv
<1>2. \A r \in Reports : pc[r] = "write" => order[r] # o
  BY RankFacts DEF IInv, WriteInv, Known
<1> QED
  BY <1>1, <1>2 DEF StatusMove, ReportWrites

-----------------------------------------------------------------------------
LEMMA WriteStep == IInv /\ [Next]_vars => WriteInv'
<1> SUFFICES ASSUME IInv, [Next]_vars PROVE WriteInv'
  OBVIOUS
<1> USE DEF inputVars, taskVars, Goto
<1>1. \A o \in Orders : (Known(o) => Known(o)') /\ (Claimed(o) => Claimed(o)')
  BY ProgressStays
<1>2. TypeOK /\ WriteInv
  BY DEF IInv
<1>3. order' = order /\ target' = target /\ \A r \in Reports : order[r] \in Orders
  BY <1>2 DEF TypeOK, Next, vars, OthersDeclare, Place, OthersPlace, Enqueue, StreamEnds, TaskStep, Subscribe, Take, SetPending,
              SetPendingFails, Prepare, PrepareFails, Notify, ReportStep, Read, ReadFails, Write,
              WriteFails, DropReport,
              Announce, Restart
<1>4. ASSUME \A r \in Reports : pc'[r] \in {"write", "publish"} =>
                                   pc'[r] = pc[r] /\ seen'[r] = seen[r]
      PROVE  WriteInv'
  BY <1>1, <1>2, <1>3, <1>4 DEF WriteInv, Known, Claimed, Rank
<1>5. CASE pc' = pc /\ seen' = seen
  BY <1>4, <1>5
<1>6. CASE Restart
  BY <1>2, <1>4, <1>6 DEF Restart, TypeOK, Running
<1>7. ASSUME NEW r \in Reports, Read(r) PROVE WriteInv'
  <2>1. CASE pc'[r] = "write"
    <3>1. /\ pc' = [pc EXCEPT ![r] = "write"]
          /\ seen' = [seen EXCEPT ![r] = status[order[r]]]
          /\ status[order[r]] # "none"
          /\ ~Refuses(target[r], status[order[r]])
          /\ status' = status
      BY <1>2, <1>7, <2>1 DEF Read, TypeOK
    <3>2. status[order[r]] \in Stored /\ target[r] \in Targets
      BY <1>2, <3>1 DEF TypeOK
    <3>3. /\ target[r] \in {"accepted", "picked_up", "delivered"}
          /\ Rank[status[order[r]]] < Rank[target[r]]
          /\ Known(order[r])
      BY <3>1, <3>2, RefusesFacts DEF Known
    <3>4. ASSUME NEW q \in Reports, q # r PROVE pc'[q] = pc[q] /\ seen'[q] = seen[q]
      BY <1>2, <3>1, <3>4 DEF TypeOK
    <3>5. seen'[r] = status[order[r]] /\ pc'[r] = "write"
      BY <1>2, <3>1 DEF TypeOK
    <3>6. Known(order[r])' /\ Rank' = Rank
      BY <1>3, <3>1, <3>3 DEF Known, Rank
    <3> QED
      BY <1>1, <1>2, <1>3, <3>3, <3>4, <3>5, <3>6 DEF WriteInv
  <2>2. CASE pc'[r] # "write"
    BY <1>2, <1>4, <1>7, <2>2 DEF Read, TypeOK
  <2> QED
    BY <2>1, <2>2
<1>8. ASSUME NEW r \in Reports, Write(r) PROVE WriteInv'
  <2>1. /\ pc' = [pc EXCEPT ![r] = "publish"]
        /\ seen' = seen
        /\ status'[order[r]] = target[r]
        /\ target[r] \in {"accepted", "picked_up", "delivered"}
    BY <1>2, <1>3, <1>8 DEF Write, TypeOK, WriteInv
  <2>2. Claimed(order[r])'
    BY <1>3, <2>1, RankFacts DEF Claimed
  <2>3. \A q \in Reports : q # r => pc'[q] = pc[q]
    BY <1>2, <2>1 DEF TypeOK
  <2>4. pc'[r] = "publish"
    BY <1>2, <2>1 DEF TypeOK
  <2> QED
    BY <1>1, <1>2, <1>3, <2>1, <2>2, <2>3, <2>4 DEF WriteInv, Known, Claimed, Rank
<1>9. ASSUME NEW r \in Reports, ReadFails(r) \/ WriteFails(r) \/ Announce(r) \/ DropReport(r)
      PROVE WriteInv'
  BY <1>2, <1>4, <1>9 DEF ReadFails, WriteFails, Announce, DropReport, TypeOK
<1>10. \/ pc' = pc /\ seen' = seen
       \/ Restart
       \/ \E r \in Reports : Read(r) \/ Write(r) \/ ReadFails(r) \/ WriteFails(r) \/ Announce(r)
                            \/ DropReport(r)
  BY DEF Next, vars, OthersDeclare, Place, OthersPlace, Enqueue, StreamEnds, TaskStep, Subscribe, Take, SetPending,
         SetPendingFails, Prepare, PrepareFails, Notify, ReportStep
<1> QED
  BY <1>5, <1>6, <1>7, <1>8, <1>9, <1>10
-----------------------------------------------------------------------------
LEMMA QueueStep == IInv /\ [Next]_vars => QueueInv'
<1> SUFFICES ASSUME IInv, [Next]_vars PROVE QueueInv'
  OBVIOUS
<1> USE DEF inputVars, taskVars
<1>1. TypeOK /\ QueueInv
  BY DEF IInv
<1>2. \A o \in Orders : Known(o) => Known(o)'
  BY ProgressStays
<1>3. \A o \in Orders :
         status[o] = "none" /\ (consumer = "hset" /\ current.order = o => consumer' = "hset")
         => status'[o] = "none"
  <2> SUFFICES ASSUME NEW o \in Orders, status[o] = "none",
                      consumer = "hset" /\ current.order = o => consumer' = "hset"
               PROVE  status'[o] = "none"
    OBVIOUS
  <2> QED
    BY NewStaysNew
<1>4. current.order \in Orders /\ \A i \in 1..Len(queue) : queue[i].order \in Orders
  <2>1. current \in Messages /\ \A i \in 1..Len(queue) : queue[i] \in Messages
    BY <1>1 DEF TypeOK
  <2> QED
    BY <2>1 DEF Messages
<1>5. \A o \in Orders \ placed : status'[o] = "none"
  BY <1>1, <1>3 DEF QueueInv
<1>6. \A i \in 1..Len(queue) : status'[queue[i].order] = "none"
  BY <1>1, <1>3, <1>4 DEF QueueInv
<1>7. CASE UNCHANGED <<placed, queue, current, consumer>>
  <2>1. consumer = "hset" => status'[current.order] = "none"
    BY <1>1, <1>3, <1>4, <1>7 DEF QueueInv
  <2>2. consumer \in {"prepare", "publish"} => Known(current.order)'
    BY <1>1, <1>2, <1>4, <1>7 DEF QueueInv, Known, Rank
  <2> QED
    BY <1>1, <1>5, <1>6, <1>7, <2>1, <2>2 DEF QueueInv
<1>8. CASE /\ UNCHANGED <<placed, queue, current>>
           /\ consumer' # "hset"
           /\ consumer' \in {"prepare", "publish"} => Known(current.order)'
  BY <1>1, <1>5, <1>6, <1>8 DEF QueueInv
<1>9. ASSUME NEW o \in Orders, NEW body \in {"PlaceOrder"} \cup Bodies, Enqueue(o, body)
      PROVE  QueueInv'
  <2>1. CASE queue' = queue
    BY <1>1, <1>5, <1>9, <2>1 DEF Enqueue, QueueInv, Known, Rank
  <2>2. CASE queue' = Append(queue, [order |-> o, body |-> body])
    <3>1. /\ Len(queue') = Len(queue) + 1
          /\ \A i \in 1..Len(queue) : queue'[i] = queue[i]
          /\ queue'[Len(queue) + 1].order = o
          /\ Len(queue) \in Nat
      BY <1>1, <2>2 DEF TypeOK
    <3>2. /\ placed' = placed \cup {o} /\ o \notin placed
          /\ UNCHANGED <<status, consumer, current>>
      BY <1>9 DEF Enqueue
    <3>3. status[o] = "none"
      BY <1>1, <3>2 DEF QueueInv
    <3>4. \A i \in 1..Len(queue') : \/ i \in 1..Len(queue) /\ queue'[i] = queue[i]
                                    \/ i = Len(queue) + 1 /\ queue'[i].order = o
      BY <3>1
    <3>5. \A i \in 1..Len(queue) : queue[i].order # o
      BY <1>1, <3>2 DEF QueueInv
    <3>6. consumer = "hset" => current.order # o
      BY <1>1, <3>2 DEF QueueInv
    <3>7. Known(current.order)' = Known(current.order)
      BY <3>2 DEF Known, Rank
    <3> QED
      BY <1>1, <1>5, <3>2, <3>3, <3>4, <3>5, <3>6, <3>7 DEF QueueInv
  <2> QED
    BY <1>9, <2>1, <2>2 DEF Enqueue
<1>10. CASE Take
  <2>1. /\ Len(queue) \in Nat /\ Len(queue) > 0
        /\ current' = queue[1]
        /\ Len(queue') = Len(queue) - 1
        /\ \A i \in 1..Len(queue') : queue'[i] = queue[i + 1]
        /\ consumer' \in {"hset", "dead"}
        /\ UNCHANGED <<placed, status>>
    BY <1>1, <1>10 DEF Take, TypeOK
  <2>2. \A i \in 1..Len(queue') : i + 1 \in 1..Len(queue)
    BY <2>1
  <2>3. \A i \in 1..Len(queue') : queue'[i].order # current'.order
    <3> SUFFICES ASSUME NEW i \in 1..Len(queue') PROVE queue[i + 1].order # queue[1].order
      BY <2>1
    <3>1. 1 \in 1..Len(queue) /\ i + 1 # 1
      BY <2>1
    <3> QED
      BY <1>1, <2>2, <3>1 DEF QueueInv
  <2>4. \A i, j \in 1..Len(queue') : queue'[i].order = queue'[j].order => i = j
    <3> SUFFICES ASSUME NEW i \in 1..Len(queue'), NEW j \in 1..Len(queue'),
                        queue[i + 1].order = queue[j + 1].order
                 PROVE  i = j
      BY <2>1
    <3>1. i + 1 = j + 1
      BY <1>1, <2>2 DEF QueueInv
    <3> QED
      BY <3>1
  <2>5. current'.order \in placed' /\ status'[current'.order] = "none"
    BY <1>1, <2>1 DEF QueueInv
  <2>6. \A i \in 1..Len(queue') : queue'[i].order \in placed' /\ status'[queue'[i].order] = "none"
    BY <1>1, <2>1, <2>2 DEF QueueInv
  <2> QED
    BY <1>5, <2>1, <2>3, <2>4, <2>5, <2>6 DEF QueueInv
<1>11. CASE Restart
  BY <1>1, <1>5, <1>11 DEF Restart, QueueInv
<1>12. CASE OthersDeclare \/ UNCHANGED vars \/ \E r \in Reports : ReportStep(r)
  <2>1. UNCHANGED <<placed, queue, current, consumer>>
    BY <1>12 DEF OthersDeclare, vars, ReportStep, Read, ReadFails, Write, WriteFails, Announce, DropReport
  <2> QED
    BY <1>7, <2>1
<1>13. CASE \/ Subscribe \/ SetPending \/ SetPendingFails
            \/ Prepare \/ PrepareFails \/ Notify \/ StreamEnds
  <2>1. UNCHANGED <<placed, queue, current>> /\ consumer' # "hset"
    BY <1>13 DEF StreamEnds, Subscribe, SetPending, SetPendingFails, Prepare, PrepareFails, Notify
  <2>2. ASSUME consumer' \in {"prepare", "publish"} PROVE Known(current.order)'
    <3>1. CASE SetPending
      <4>1. current' = current /\ status'[current.order] = "pending"
        BY <1>1, <1>4, <3>1 DEF SetPending, TypeOK
      <4> QED
        BY <4>1, RankFacts DEF Known, Rank
    <3>2. CASE Prepare
      BY <1>1, <1>2, <1>4, <2>1, <3>2 DEF Prepare, QueueInv, Known, Rank
    <3> QED
      BY <1>13, <2>2, <3>1, <3>2 DEF Subscribe, SetPendingFails, PrepareFails, Notify, StreamEnds
  <2> QED
    BY <1>8, <2>1, <2>2
<1> QED
  BY <1>9, <1>10, <1>11, <1>12, <1>13 DEF Next, TaskStep, Place, OthersPlace
-----------------------------------------------------------------------------
LEMMA EventStep == IInv /\ [Next]_vars => EventsFollowStatus'
<1> SUFFICES ASSUME IInv, [Next]_vars PROVE EventsFollowStatus'
  OBVIOUS
<1>1. /\ TypeOK /\ WriteInv /\ QueueInv
      /\ \A e \in sent : e.order \in Orders
                        /\ (IF e.key = "rider.assigned.event" THEN Claimed(e.order)
                                                              ELSE Known(e.order))
  BY DEF IInv, TypeOK, EventsFollowStatus, Known, Claimed
<1>2. \A o \in Orders : (Known(o) => Known(o)') /\ (Claimed(o) => Claimed(o)')
  BY ProgressStays
<1>3. SUFFICES ASSUME NEW e \in sent', e \notin sent
               PROVE  /\ e.key = "rider.assigned.event" => Claimed(e.order)'
                      /\ e.key # "rider.assigned.event" => Known(e.order)'
  BY <1>1, <1>2 DEF EventsFollowStatus, Known, Claimed, Rank
<1>4. CASE Notify
  <2>1. e = Event("rider.notified.event", current.order)
    BY <1>3, <1>4 DEF Notify, Publish
  <2>2. Known(current.order) /\ current.order \in Orders
    BY <1>1, <1>4 DEF Notify, QueueInv, TypeOK, Messages
  <2>3. current' = current
    BY <1>4 DEF Notify
  <2> QED
    BY <1>2, <2>1, <2>2, <2>3 DEF Event, Known, Rank
<1>5. ASSUME NEW r \in Reports, Announce(r)
      PROVE  /\ e.key = "rider.assigned.event" => Claimed(e.order)'
             /\ e.key # "rider.assigned.event" => Known(e.order)'
  <2>1. e = Event("rider.assigned.event", order[r])
    BY <1>3, <1>5 DEF Announce, Publish
  <2>2. Claimed(order[r]) /\ order[r] \in Orders
    BY <1>1, <1>5 DEF Announce, WriteInv, TypeOK
  <2> QED
    BY <1>2, <2>1, <2>2 DEF Event, Claimed, Rank
<1>6. Notify \/ \E r \in Reports : Announce(r)
  BY <1>3 DEF Next, vars, OthersDeclare, Place, OthersPlace, Enqueue, StreamEnds, TaskStep, Subscribe, Take, SetPending,
              SetPendingFails, Prepare, PrepareFails, ReportStep, Read, ReadFails, Write,
              WriteFails, DropReport,
              Restart
<1> QED
  BY <1>4, <1>5, <1>6

\* What the steps do to the events and to those who wait to send one.
LEMMA SilenceGrows ==
  ASSUME [Next]_vars
  PROVE  sent \subseteq sent' /\ silenced \subseteq silenced'
<1>1. ASSUME NEW r \in Reports, Announce(r)
      PROVE  sent \subseteq sent' /\ silenced \subseteq silenced'
  BY <1>1 DEF Announce, Publish
<1>2. Notify => sent \subseteq sent' /\ UNCHANGED silenced
  BY DEF Notify, Publish
<1>3. ASSUME NEW r \in Reports, Read(r) \/ ReadFails(r) \/ Write(r) \/ WriteFails(r) \/ DropReport(r)
      PROVE  sent \subseteq sent' /\ silenced \subseteq silenced'
  BY <1>3 DEF Read, ReadFails, Write, WriteFails, DropReport
<1> QED
  BY <1>1, <1>2, <1>3 DEF Next, vars, OthersDeclare, Place, OthersPlace, Enqueue, StreamEnds,
     TaskStep, Subscribe, Take, SetPending, SetPendingFails, Prepare, PrepareFails, ReportStep,
     Restart

\* A report that is about to announce goes on, announces, or is cut off.
LEMMA AnnouncersEnd ==
  ASSUME TypeOK, [Next]_vars, NEW r \in Reports, pc[r] = "publish"
  PROVE  \/ pc'[r] = "publish"
         \/ Event("rider.assigned.event", order[r]) \in sent'
         \/ order[r] \in silenced'
<1>1. ASSUME NEW q \in Reports, ReportStep(q), q # r PROVE pc'[r] = "publish"
  BY <1>1 DEF ReportStep, Read, ReadFails, Write, WriteFails, Announce, DropReport, Goto, TypeOK
<1>2. CASE ReportStep(r)
  <2>1. Announce(r) \/ DropReport(r)
    BY <1>2 DEF ReportStep, Read, ReadFails, Write, WriteFails
  <2> QED
    BY <2>1 DEF Announce, DropReport
<1>3. CASE Restart
  BY <1>3 DEF Restart
<1>4. CASE pc' = pc
  BY <1>4
<1> QED
  BY <1>1, <1>2, <1>3, <1>4 DEF Next, vars, OthersDeclare, Place, OthersPlace, Enqueue,
     StreamEnds, TaskStep, Subscribe, Take, SetPending, SetPendingFails, Prepare, PrepareFails,
     Notify

\* Who gives an order a rider announces it, or is cut off there and then.
LEMMA ClaimersAnnounce ==
  ASSUME IInv, [Next]_vars, NEW o \in Orders, ~ Claimed(o), Claimed(o)'
  PROVE  o \in silenced' \/ Announcing(o)'
<1>1. TypeOK /\ status'[o] # status[o]
  BY DEF IInv, Claimed, Rank
<1>2. CASE SetPending \/ SetPendingFails
  <2>1. status'[o] = "pending"
    BY <1>1, <1>2 DEF SetPending, SetPendingFails, TypeOK
  <2> QED
    BY <2>1, RankFacts DEF Claimed, Rank
<1>3. ASSUME NEW r \in Reports, Write(r)
      PROVE  Announcing(o)'
  BY <1>1, <1>3 DEF Write, Goto, TypeOK, inputVars, Announcing
<1>4. ASSUME NEW r \in Reports, WriteFails(r)
      PROVE  o \in silenced'
  BY <1>1, <1>4 DEF WriteFails, TypeOK
<1> QED
  BY <1>1, <1>2, <1>3, <1>4 DEF Next, vars, OthersDeclare, Place, OthersPlace, Enqueue,
     StreamEnds, TaskStep, Subscribe, Take, Prepare, PrepareFails, Notify, ReportStep, Read,
     ReadFails, Announce, DropReport, Restart

LEMMA SilenceStep == IInv /\ [Next]_vars => SilenceHasAReason'
<1> SUFFICES ASSUME IInv, [Next]_vars, NEW o \in Orders, Claimed(o)',
                    Event("rider.assigned.event", o) \notin sent'
             PROVE  o \in silenced' \/ Announcing(o)'
  BY DEF SilenceHasAReason, Claimed, Rank, Event
<1>1. sent \subseteq sent' /\ silenced \subseteq silenced' /\ TypeOK
  BY SilenceGrows DEF IInv
<1>2. CASE Claimed(o)
  <2>1. CASE o \in silenced
    BY <1>1, <2>1
  <2>2. CASE Announcing(o)
    <3>1. PICK r \in Reports : order[r] = o /\ pc[r] = "publish"
      BY <2>2 DEF Announcing
    <3>2. order' = order
      BY DEF Next, vars, inputVars, OthersDeclare, Place, OthersPlace, Enqueue, StreamEnds,
             TaskStep, Subscribe, Take, SetPending, SetPendingFails, Prepare, PrepareFails,
             Notify, ReportStep, Read, ReadFails, Write, WriteFails, Announce, DropReport, Restart
    <3>3. pc'[r] = "publish" \/ o \in silenced'
      BY <1>1, <3>1, AnnouncersEnd
    <3> QED
      BY <3>1, <3>2, <3>3 DEF Announcing
  <2> QED
    BY <1>1, <1>2, <2>1, <2>2 DEF IInv, SilenceHasAReason, Claimed
<1>3. CASE ~ Claimed(o)
  BY <1>3, ClaimersAnnounce
<1> QED
  BY <1>2, <1>3

(***************************************************************************)
(* The inductive invariant holds in every reachable state.                 *)
(***************************************************************************)
THEOREM Invariance == Spec => []IInv
<1>1. IInv /\ [Next]_vars => IInv'
  BY TypeStep, WriteStep, QueueStep, EventStep, SilenceStep DEF IInv
<1> QED
  BY InitIInv, <1>1, PTL DEF Spec

(***************************************************************************)
(* Redis, the broker and the calls hold nothing outside their types, so a  *)
(* report never stores "unspecified" (Read, Write).                        *)
(***************************************************************************)
THEOREM TypeCorrect == Spec => []TypeOK
<1>1. IInv => TypeOK
  BY DEF IInv
<1> QED
  BY Invariance, <1>1, PTL

(***************************************************************************)
(* For any number of riders and orders: whoever is told of a rider can     *)
(* find one in Redis (report_delivery_status writes before it publishes).  *)
(***************************************************************************)
THEOREM EventsAreBacked == Spec => []EventsFollowStatus
<1>1. IInv => EventsFollowStatus
  BY DEF IInv
<1> QED
  BY Invariance, <1>1, PTL

(***************************************************************************)
(* For any number of riders: an assignment nobody hears of was cut off     *)
(* between the HSET and the event of report_delivery_status.               *)
(***************************************************************************)
THEOREM SilenceIsExplained == Spec => []SilenceHasAReason
<1>1. IInv => SilenceHasAReason
  BY DEF IInv
<1> QED
  BY Invariance, <1>1, PTL

(***************************************************************************)
(* Where nothing fails, nobody hangs up and nothing restarts, only one     *)
(* reason is left: somebody declared my_exchange as durable, so that the   *)
(* publish of report_delivery_status is refused (event_impl.rs:46).        *)
(***************************************************************************)
THEOREM OnlyTheExchangeSilences ==
  ASSUME Faults = {}
  PROVE  Spec => [](\A o \in Orders :
             Rank[status[o]] >= 2 /\ Event("rider.assigned.event", o) \notin sent
                 => exchange = "durable" \/ Announcing(o))
<1> DEFINE Refused == silenced # {} => exchange = "durable"
<1>1. Init => Refused
  BY DEF Init
<1>2. ASSUME Refused, [Next]_vars PROVE Refused'
  <2>1. exchange = "durable" => exchange' = "durable"
    <3>1. ASSUME NEW r \in Reports, Announce(r) PROVE exchange = "durable" => exchange' = "durable"
      BY <3>1 DEF Announce, Publish
    <3>2. Notify => (exchange = "durable" => exchange' = "durable")
      BY DEF Notify, Publish
    <3>3. Subscribe \/ OthersDeclare => (exchange = "durable" => exchange' = "durable")
      BY DEF Subscribe, OthersDeclare
    <3> QED
      BY <1>2, <3>1, <3>2, <3>3 DEF Next, vars, Place, OthersPlace, Enqueue, StreamEnds,
         TaskStep, Take, SetPending, SetPendingFails, Prepare, PrepareFails, ReportStep, Read,
         ReadFails, Write, WriteFails, DropReport, Restart
  <2>2. ASSUME NEW r \in Reports, Announce(r), silenced' # silenced PROVE exchange' = "durable"
    BY <2>2 DEF Announce, Publish
  <2>3. ASSUME silenced' # silenced PROVE \E r \in Reports : Announce(r)
    BY <1>2, <2>3 DEF Next, vars, OthersDeclare, Place, OthersPlace, Enqueue, StreamEnds,
       TaskStep, Subscribe, Take, SetPending, SetPendingFails, Prepare, PrepareFails, Notify,
       ReportStep, Read, ReadFails, Write, WriteFails, DropReport, Restart
  <2> QED
    BY <1>2, <2>1, <2>2, <2>3
<1>3. Refused /\ SilenceHasAReason => \A o \in Orders :
             Rank[status[o]] >= 2 /\ Event("rider.assigned.event", o) \notin sent
                 => exchange = "durable" \/ Announcing(o)
  BY DEF SilenceHasAReason
<1>4. Refused /\ [Next]_vars => Refused'
  BY <1>2
<1> HIDE DEF Refused
<1> QED
  BY <1>1, <1>3, <1>4, SilenceIsExplained, PTL DEF Spec

(***************************************************************************)
(* For any number of riders: a claimed order never looks for a rider again.*)
(***************************************************************************)
THEOREM ClaimedStaysClaimed == Spec => NeverPendingAgain
<1>1. IInv /\ [Next]_vars =>
         [\A o \in Orders : Rank[status[o]] >= 2 => Rank[status'[o]] >= 2]_vars
  BY ProgressStays DEF Claimed, Rank
<1> QED
  BY Invariance, <1>1, PTL DEF Spec, NeverPendingAgain

(***************************************************************************)
(* For any number of riders: only a report whose read was overtaken can    *)
(* take a delivery back (the HGET and the HSET of report_delivery_status). *)
(***************************************************************************)
THEOREM RegressNeedsARace == Spec => OnlyStaleReportsRegress
<1>1. ASSUME IInv, [Next]_vars, NEW o \in Orders, Rank[status'[o]] < Rank[status[o]]
      PROVE  \E r \in Reports : /\ pc[r] = "write" /\ order[r] = o
                                /\ Rank[seen[r]] < Rank[status[o]]
  <2>1. TypeOK /\ StatusMove(o)
    BY <1>1, StatusMoves DEF IInv
  <2>2. status[o] \in Stored \cup {"none"} /\ Rank[status[o]] \in 0..4
    BY <2>1, RankFacts DEF TypeOK
  <2>3. ~(consumer = "hset" /\ current.order = o)
    <3>1. SUFFICES ASSUME consumer = "hset", current.order = o PROVE FALSE
      OBVIOUS
    <3>2. status[o] = "none"
      BY <1>1, <3>1 DEF IInv, QueueInv
    <3>3. \A r \in Reports : ~ReportWrites(r, o)
      BY <1>1, <3>2, RankFacts DEF IInv, WriteInv, Known, ReportWrites
    <3> QED
      BY <1>1, <2>1, <3>2, <3>3, RankFacts DEF StatusMove
  <2>4. PICK r \in Reports : ReportWrites(r, o)
    BY <1>1, <2>1, <2>2, <2>3 DEF StatusMove
  <2>5. /\ Rank[seen[r]] < Rank[target[r]]
        /\ Rank[target[r]] < Rank[status[o]]
        /\ Rank[seen[r]] \in 0..4 /\ Rank[target[r]] \in 0..4
    BY <1>1, <2>1, <2>4, RankFacts DEF IInv, WriteInv, ReportWrites, TypeOK, Stored
  <2> QED
    BY <2>2, <2>4, <2>5 DEF ReportWrites
<1>2. IInv /\ [Next]_vars => [\A o \in Orders : RegressIsStale(o)]_vars
  BY <1>1 DEF RegressIsStale
<1> QED
  BY Invariance, <1>2, PTL DEF Spec, OnlyStaleReportsRegress

-----------------------------------------------------------------------------
(***************************************************************************)
(* What OrderService really sends is a PlaceOrder.  Its first field is a   *)
(* string and OrderPlacedEvent's is a message, under one tag.              *)
(***************************************************************************)
LEMMA OnlyTable ==
  ASSUME NEW t \in Tables
  PROVE  /\ "PlaceOrder" \in DOMAIN t => t = OrderMessages
         /\ "OrderPlacedEvent" \in DOMAIN t => t = EventMessages
<1>1. "PlaceOrder" \notin DOMAIN EventMessages /\ "OrderPlacedEvent" \notin DOMAIN OrderMessages
  BY DEF EventMessages, OrderMessages
<1>2. /\ "PlaceOrder" \notin DOMAIN DeliveryMessages
      /\ "OrderPlacedEvent" \notin DOMAIN DeliveryMessages
  BY DEF DeliveryMessages
<1>3. /\ "PlaceOrder" \notin DOMAIN ProfileMessages
      /\ "OrderPlacedEvent" \notin DOMAIN ProfileMessages
  BY DEF ProfileMessages
<1>4. /\ "PlaceOrder" \notin DOMAIN MerchantMessages
      /\ "OrderPlacedEvent" \notin DOMAIN MerchantMessages
  BY DEF MerchantMessages
<1>5. /\ "PlaceOrder" \notin DOMAIN CustomerMessages
      /\ "OrderPlacedEvent" \notin DOMAIN CustomerMessages
  BY DEF CustomerMessages
<1> QED
  BY <1>1, <1>2, <1>3, <1>4, <1>5 DEF Tables

LEMMA InSchema ==
  /\ Schema["PlaceOrder"] = OrderMessages["PlaceOrder"]
  /\ Schema["OrderPlacedEvent"] = EventMessages["OrderPlacedEvent"]
<1>1. "PlaceOrder" \in DOMAIN OrderMessages /\ OrderMessages \in Tables
  BY DEF OrderMessages, Tables
<1>2. "OrderPlacedEvent" \in DOMAIN EventMessages /\ EventMessages \in Tables
  BY DEF EventMessages, Tables
<1>3. (CHOOSE t \in Tables : "PlaceOrder" \in DOMAIN t) = OrderMessages
  BY <1>1, OnlyTable
<1>4. (CHOOSE t \in Tables : "OrderPlacedEvent" \in DOMAIN t) = EventMessages
  BY <1>2, OnlyTable
<1> QED
  BY <1>1, <1>2, <1>3, <1>4 DEF Schema

\* The task of run cannot read what OrderService publishes.
LEMMA OrdersAreUnreadable == ~ Decodes("PlaceOrder", "OrderPlacedEvent")
<1> DEFINE id == Str(1, "request_id")
           msg == Msg(1, "order", "PlaceOrder")
<1>1. id \in Schema["PlaceOrder"]
  BY InSchema DEF OrderMessages
<1>2. msg \in Schema["OrderPlacedEvent"]
  BY InSchema DEF EventMessages
<1>3. id.tag = msg.tag /\ id.type # msg.type
  BY DEF Str, Msg, Field
<1> QED
  BY <1>1, <1>2, <1>3 DEF Decodes

\* Where the task stands, and what is known, as long as nothing decodes.
Deaf ==
    /\ consumer \notin {"hset", "prepare", "publish"}
    /\ \A o \in Orders : Event("rider.notified.event", o) \notin sent

LEMMA StaysDeaf ==
  ASSUME "OrderPlacedEvent" \notin Bodies, IInv, Deaf, [Next]_vars
  PROVE  Deaf' /\ \A o \in Orders : status[o] = "none" => status'[o] = "none"
<1>1. consumer' \notin {"hset", "prepare", "publish"}
  <2>1. CASE Take
    <3>1. Head(queue) \in Messages
      BY <2>1 DEF Take, IInv, TypeOK
    <3>2. Head(queue).body = "PlaceOrder"
      BY <3>1, BodiesAssumption DEF Messages, BodyKinds
    <3> QED
      BY <2>1, <3>2, OrdersAreUnreadable DEF Take
  <2>2. CASE ~ Take
    BY <2>2 DEF Next, vars, taskVars, OthersDeclare, Place, OthersPlace, Enqueue, StreamEnds, TaskStep, Subscribe, SetPending,
       SetPendingFails, Prepare, PrepareFails, Notify, ReportStep, Read, ReadFails, Write,
       WriteFails, Announce, DropReport, Restart, Deaf
  <2> QED
    BY <2>1, <2>2
<1>2. \A o \in Orders : Event("rider.notified.event", o) \notin sent'
  <2>1. ASSUME NEW r \in Reports, Announce(r)
        PROVE  sent' \subseteq sent \cup {Event("rider.assigned.event", order[r])}
    BY <2>1 DEF Announce, Publish
  <2>2. \A o, p : Event("rider.notified.event", o) # Event("rider.assigned.event", p)
    BY DEF Event
  <2>3. CASE \A r \in Reports : ~ Announce(r)
    <3>1. sent' = sent
      BY <2>3 DEF Next, vars, OthersDeclare, Place, OthersPlace, Enqueue, StreamEnds, TaskStep, Subscribe, Take, SetPending,
         SetPendingFails, Prepare, PrepareFails, Notify, ReportStep, Read, ReadFails, Write,
         WriteFails, DropReport, Restart, Deaf
    <3> QED
      BY <3>1 DEF Deaf
  <2> QED
    BY <2>1, <2>2, <2>3 DEF Deaf
<1>3. \A o \in Orders : status[o] = "none" => status'[o] = "none"
  BY NewStaysNew DEF Deaf
<1> QED
  BY <1>1, <1>2, <1>3 DEF Deaf

(***************************************************************************)
(* With the bodies that OrderService sends and not those that events.proto *)
(* declares, no rider is ever looked for, and an order that Redis does not *)
(* know never gets there: it cannot be reported on either (event_impl.rs:  *)
(* handle_order_placed).  No interleaving and no restart helps.            *)
(***************************************************************************)
THEOREM NobodyIsNotified ==
  ASSUME "OrderPlacedEvent" \notin Bodies
  PROVE  Spec => /\ [](\A o \in Orders : Event("rider.notified.event", o) \notin sent)
                 /\ [][\A o \in Orders : status[o] = "none" => status'[o] = "none"]_vars
<1>1. Init => Deaf
  BY DEF Init, Deaf
<1>2. IInv /\ Deaf /\ [Next]_vars => Deaf'
  BY StaysDeaf
<1>3. IInv /\ Deaf /\ [Next]_vars =>
          [\A o \in Orders : status[o] = "none" => status'[o] = "none"]_vars
  BY StaysDeaf
<1>4. Deaf => \A o \in Orders : Event("rider.notified.event", o) \notin sent
  BY DEF Deaf
<1> QED
  BY Invariance, <1>1, <1>2, <1>3, <1>4, PTL DEF Spec
=============================================================================
