----------------------- MODULE PartitionRouter_proofs -----------------------
(***************************************************************************)
(* Proofs about PartitionRouter for every number of events, partitions and *)
(* buffer size and every hash: type correctness, the order in which the    *)
(* events of a message are handled, the bound of what piles up, and the    *)
(* drain of the test mode.                                                 *)
(***************************************************************************)
EXTENDS PartitionRouter, SequenceTheorems, FiniteSetTheorems, TLAPS

USE DEF EventIds, MessageIds, Alive

LEMMA ModRange ==
    ASSUME NEW a \in Nat, NEW b \in Nat \ {0}
    PROVE  a % b \in 0..(b - 1)
OBVIOUS

LEMMA PartitionsExist == PartitionCount \in Nat \ {0} /\ 0 \in Partitions
BY PartitionCountAssumption DEF Partitions

LEMMA NextPartition ==
    ASSUME NEW p \in Partitions
    PROVE  (p + 1) % PartitionCount \in Partitions
<1>1. p + 1 \in Nat
  BY PartitionsExist DEF Partitions
<1>. QED
  BY <1>1, ModRange, PartitionsExist DEF Partitions

(* The original id of an event, and its partition, are what they should be *)
(* and do not change when other events are received.                       *)
LEMMA PartitionOfType ==
    ASSUME TypeOK, NEW i \in 1..Len(received)
    PROVE  /\ OriginalMessageID(received, i) \in MessageIds
           /\ PartitionOf(i) \in Partitions
<1>1. received[i] \in Events
  BY DEF TypeOK
<1>2. OriginalMessageID(received, i) \in MessageIds
  BY <1>1, MaxEventsAssumption DEF TypeOK, Events, OriginalMessageID
<1>3. Hash[OriginalMessageID(received, i)] \in Nat
  BY <1>2, HashAssumption
<1>4. PartitionOf(i) \in Partitions
  BY <1>3, ModRange, PartitionsExist DEF PartitionOf, PartitionForMsgID, Partitions
<1>. QED
  BY <1>2, <1>4

LEMMA OriginalUnchanged ==
    ASSUME TypeOK, NEW e \in Events, received' = Append(received, e),
           NEW i \in 1..Len(received)
    PROVE  OriginalMessageID(received', i) = OriginalMessageID(received, i)
BY AppendProperties DEF TypeOK, OriginalMessageID

LEMMA TypeInit == Init => TypeOK
BY PartitionsExist, MaxEventsAssumption DEF Init, TypeOK, Dispatched

LEMMA TypeStep == TypeOK /\ [Next]_vars => TypeOK'
<1>. SUFFICES ASSUME TypeOK, [Next]_vars PROVE TypeOK'
  OBVIOUS
<1>. USE MaxEventsAssumption DEF TypeOK, Dispatched
<1>1. CASE \E e \in Events : Receive(e)
  BY <1>1, AppendProperties DEF Receive, lifeVars
<1>2. CASE Enqueue
  <2>. DEFINE n == Len(received)
              p == PartitionOf(n)
  <2>1. n \in EventIds /\ n \in 1..Len(received)
    BY <1>2 DEF Enqueue
  <2>2. p \in Partitions
    BY <2>1, PartitionOfType
  <2>3. Append(queue[p], n) \in Seq(EventIds)
    BY <2>1, <2>2, AppendProperties
  <2>4. queue' \in [Partitions -> Seq(EventIds)]
    BY <1>2, <2>2, <2>3 DEF Enqueue
  <2>. QED
    BY <1>2, <2>4 DEF Enqueue, lifeVars
<1>3. CASE Abort
  BY <1>3 DEF Abort, lifeVars
<1>4. CASE Goodbye
  BY <1>4 DEF Goodbye, lifeVars
<1>5. CASE CloseQueue
  <2>1. (next + 1) % PartitionCount \in Partitions
    BY NextPartition
  <2>2. /\ next' \in Partitions
        /\ mainLoop' \in {"joining", "closing"}
        /\ closed' \in [Partitions -> BOOLEAN]
    BY <1>5, <2>1 DEF CloseQueue
  <2>. QED
    BY <1>5, <2>2 DEF CloseQueue, lifeVars
<1>6. CASE Join
  <2>1. (next + 1) % PartitionCount \in Partitions
    BY NextPartition
  <2>2. /\ next' \in Partitions
        /\ mainLoop' \in {"joining", "terminating"}
        /\ worker' = [worker EXCEPT ![next] = "terminated"]
    BY <1>6, <2>1 DEF Join
  <2>3. worker[next] # "processing"
    BY <1>6 DEF Join
  <2>4. \A q \in Partitions : worker'[q] = "processing" <=> current[q] # 0
    BY <2>2, <2>3
  <2>. QED
    BY <1>6, <2>2, <2>4 DEF Join, lifeVars
<1>7. CASE Terminate
  BY <1>7 DEF Terminate
<1>8. ASSUME NEW p \in Partitions, Take(p) PROVE TypeOK'
  <2>1. /\ Head(queue[p]) \in EventIds
        /\ Tail(queue[p]) \in Seq(EventIds)
    BY <1>8, HeadTailProperties DEF Take
  <2>2. \A q \in Partitions : worker'[q] = "processing" <=> current'[q] # 0
    BY <1>8, <2>1 DEF Take
  <2>3. /\ queue' \in [Partitions -> Seq(EventIds)]
        /\ worker' \in [Partitions -> {"range", "processing", "signalling", "terminated"}]
        /\ current' \in [Partitions -> MessageIds]
    BY <1>8, <2>1 DEF Take
  <2>. QED
    BY <1>8, <2>2, <2>3 DEF Take, lifeVars
<1>9. ASSUME NEW p \in Partitions, FinishOne(p) PROVE TypeOK'
  <2>1. current[p] \in EventIds
    BY <1>9 DEF FinishOne
  <2>2. \A q \in Partitions : worker'[q] = "processing" <=> current'[q] # 0
    BY <1>9 DEF FinishOne
  <2>3. /\ worker' \in [Partitions -> {"range", "processing", "signalling", "terminated"}]
        /\ current' \in [Partitions -> MessageIds]
    BY <1>9 DEF FinishOne
  <2>4. done' \subseteq EventIds
    BY <1>9, <2>1 DEF FinishOne
  <2>. QED
    BY <1>9, <2>2, <2>3, <2>4 DEF FinishOne, lifeVars
<1>10. ASSUME NEW p \in Partitions, EndOfQueue(p) PROVE TypeOK'
  BY <1>10 DEF EndOfQueue, lifeVars
<1>11. CASE SignalArrives \/ SignalTerminates \/ Exit
  BY <1>11 DEF SignalArrives, SignalTerminates, Exit, routerVars
<1>12. CASE UNCHANGED vars
  BY <1>12 DEF vars
<1>. QED
  BY <1>1, <1>2, <1>3, <1>4, <1>5, <1>6, <1>7, <1>8, <1>9, <1>10, <1>11, <1>12
     DEF Next, Exited

(* Type correctness: the queues hold event ids, the loop indices stay      *)
(* within the partitions, and a worker processes an event exactly when it  *)
(* has one in hand.                                                        *)
THEOREM TypeCorrect == Spec => []TypeOK
BY TypeInit, TypeStep, PTL DEF Spec


-----------------------------------------------------------------------------
(* Where a dispatched event is, and what its place says of the others.     *)

(* A queue holds, in order, events dispatched to its partition.            *)
QueuesSorted ==
    \A p \in Partitions : \A k \in 1..Len(queue[p]) :
        /\ queue[p][k] \in 1..Dispatched
        /\ PartitionOf(queue[p][k]) = p
        /\ \A l \in 1..Len(queue[p]) : k < l => queue[p][k] < queue[p][l]

(* What a worker processes came before what is in its queue.               *)
CurrentFirst ==
    \A p \in Partitions : worker[p] = "processing" =>
        /\ current[p] \in 1..Dispatched
        /\ PartitionOf(current[p]) = p
        /\ \A k \in 1..Len(queue[p]) : current[p] < queue[p][k]

(* What is done came before what its worker processes and has queued.      *)
DoneFirst ==
    \A d \in done : \A p \in Partitions :
        /\ d \in 1..Dispatched
        /\ p = PartitionOf(d) => /\ worker[p] = "processing" => d < current[p]
                                 /\ \A k \in 1..Len(queue[p]) : d < queue[p][k]

(* A dispatched event is done, in its worker's hands or in its queue.      *)
NothingLost ==
    \A i \in 1..Dispatched : \A p \in Partitions : p = PartitionOf(i) =>
        \/ i \in done
        \/ worker[p] = "processing" /\ current[p] = i
        \/ \E k \in 1..Len(queue[p]) : queue[p][k] = i

(* A worker ends on a closed, empty queue, and queues are only closed once *)
(* the main loop dispatches no more.                                       *)
ClosedForGood ==
    \A p \in Partitions :
        /\ worker[p] \in {"signalling", "terminated"} => closed[p] /\ queue[p] = <<>>
        /\ closed[p] => mainLoop \notin {"range", "routing"}

Order == QueuesSorted /\ CurrentFirst /\ DoneFirst /\ NothingLost

RouterInv == TypeOK /\ Order /\ ClosedForGood

(* A step that moves no event keeps the order.                             *)
LEMMA OrderUnmoved ==
    ASSUME Order, UNCHANGED <<received, queue, current, done>>, Dispatched' = Dispatched,
           \A p \in Partitions : worker'[p] = "processing" <=> worker[p] = "processing"
    PROVE  Order'
<1>1. \A i : PartitionOf(i)' = PartitionOf(i)
  BY DEF PartitionOf
<1>2. QueuesSorted'
  BY <1>1 DEF Order, QueuesSorted
<1>3. CurrentFirst'
  BY <1>1 DEF Order, CurrentFirst
<1>4. DoneFirst'
  BY <1>1 DEF Order, DoneFirst
<1>5. NothingLost'
  BY <1>1 DEF Order, NothingLost
<1>. QED
  BY <1>2, <1>3, <1>4, <1>5 DEF Order

(* Receiving an event dispatches nothing and re-routes nothing.            *)
LEMMA OrderReceive ==
    ASSUME TypeOK, Order, NEW e \in Events, Receive(e)
    PROVE  Order'
<1>1. Dispatched = Len(received) /\ Dispatched' = Dispatched
  BY AppendProperties DEF Receive, Dispatched, TypeOK
<1>2. \A i \in 1..Dispatched : PartitionOf(i)' = PartitionOf(i)
  BY <1>1, OriginalUnchanged DEF Receive, PartitionOf
<1>3. UNCHANGED <<queue, worker, current, done>>
  BY DEF Receive
<1>4. QueuesSorted'
  BY <1>1, <1>2, <1>3 DEF Order, QueuesSorted
<1>5. CurrentFirst'
  BY <1>1, <1>2, <1>3 DEF Order, CurrentFirst
<1>6. DoneFirst'
  BY <1>1, <1>2, <1>3 DEF Order, DoneFirst
<1>7. NothingLost'
  BY <1>1, <1>2, <1>3 DEF Order, NothingLost
<1>. QED
  BY <1>4, <1>5, <1>6, <1>7 DEF Order

(* The event in the main loop's hand is later than all that was            *)
(* dispatched: it goes to the end of its queue.                            *)
LEMMA OrderEnqueue ==
    ASSUME TypeOK, Order, Enqueue
    PROVE  Order'
<1>. DEFINE n == Len(received)
            p == PartitionOf(n)
<1>1. /\ n \in 1..Len(received) /\ n \in Nat
      /\ Dispatched = n - 1 /\ Dispatched' = n
  BY DEF Enqueue, Dispatched, TypeOK
<1>2. p \in Partitions
  BY <1>1, PartitionOfType
<1>3. \A i : PartitionOf(i)' = PartitionOf(i)
  BY DEF PartitionOf, Enqueue
<1>4. UNCHANGED <<worker, current, done>>
  BY DEF Enqueue
<1>5. \A q \in Partitions : q # p => queue'[q] = queue[q]
  BY DEF Enqueue, TypeOK
<1>6. /\ queue[p] \in Seq(EventIds)
      /\ queue'[p] = Append(queue[p], n)
  BY <1>2 DEF Enqueue, TypeOK
<1>7. /\ Len(queue[p]) \in Nat
      /\ Len(queue'[p]) = Len(queue[p]) + 1
      /\ queue'[p][Len(queue[p]) + 1] = n
      /\ \A k \in 1..Len(queue[p]) : queue'[p][k] = queue[p][k]
  BY <1>1, <1>6, AppendProperties DEF TypeOK
<1>8. \A k \in 1..Len(queue'[p]) : \/ k \in 1..Len(queue[p])
                                   \/ k = Len(queue[p]) + 1 /\ queue'[p][k] = n
  BY <1>7
<1>9. QueuesSorted'
  <2>. SUFFICES ASSUME NEW q \in Partitions, NEW k \in 1..Len(queue'[q])
                PROVE  /\ queue'[q][k] \in 1..n
                       /\ PartitionOf(queue'[q][k]) = q
                       /\ \A l \in 1..Len(queue'[q]) : k < l => queue'[q][k] < queue'[q][l]
    BY <1>1, <1>3 DEF QueuesSorted
  <2>1. CASE q # p
    BY <2>1, <1>1, <1>5 DEF Order, QueuesSorted
  <2>2. CASE q = p
    <3>1. PartitionOf(n) = p
      OBVIOUS
    <3>2. \A l \in 1..Len(queue[p]) :
            /\ queue'[p][l] \in 1..(n - 1)
            /\ PartitionOf(queue'[p][l]) = p
            /\ \A m \in 1..Len(queue[p]) : l < m => queue'[p][l] < queue'[p][m]
      BY <1>1, <1>2, <1>7 DEF Order, QueuesSorted
    <3>. HIDE DEF n, p
    <3>3. CASE k \in 1..Len(queue[p])
      <4>1. \A l \in 1..Len(queue'[p]) : k < l => queue'[p][k] < queue'[p][l]
        BY <3>2, <3>3, <1>1, <1>8
      <4>. QED
        BY <4>1, <2>2, <3>2, <3>3, <1>1
    <3>4. CASE k = Len(queue[p]) + 1
      BY <3>1, <3>4, <2>2, <1>1, <1>7
    <3>. QED
      BY <3>3, <3>4, <2>2, <1>7
  <2>. QED
    BY <2>1, <2>2
<1>10. CurrentFirst'
  <2>. SUFFICES ASSUME NEW q \in Partitions, worker[q] = "processing"
                PROVE  /\ current[q] \in 1..n
                       /\ PartitionOf(current[q]) = q
                       /\ \A k \in 1..Len(queue'[q]) : current[q] < queue'[q][k]
    BY <1>1, <1>3, <1>4 DEF CurrentFirst
  <2>1. CASE q # p
    BY <2>1, <1>1, <1>5 DEF Order, CurrentFirst
  <2>2. CASE q = p
    <3>1. /\ current[p] \in 1..(n - 1)
          /\ PartitionOf(current[p]) = p
          /\ \A k \in 1..Len(queue[p]) : current[p] < queue[p][k]
      BY <2>2, <1>1 DEF Order, CurrentFirst
    <3>. HIDE DEF n, p
    <3>2. \A k \in 1..Len(queue'[p]) : current[p] < queue'[p][k]
      BY <3>1, <1>1, <1>7, <1>8
    <3>. QED
      BY <3>1, <3>2, <2>2, <1>1
  <2>. QED
    BY <2>1, <2>2
<1>11. DoneFirst'
  <2>. SUFFICES ASSUME NEW d \in done, NEW q \in Partitions
                PROVE  /\ d \in 1..n
                       /\ q = PartitionOf(d) =>
                            /\ worker[q] = "processing" => d < current[q]
                            /\ \A k \in 1..Len(queue'[q]) : d < queue'[q][k]
    BY <1>1, <1>3, <1>4 DEF DoneFirst
  <2>1. CASE q # p
    BY <2>1, <1>1, <1>5 DEF Order, DoneFirst
  <2>2. CASE q = p
    <3>1. /\ d \in 1..(n - 1)
          /\ p = PartitionOf(d) =>
               /\ worker[p] = "processing" => d < current[p]
               /\ \A k \in 1..Len(queue[p]) : d < queue[p][k]
      BY <2>2, <1>1 DEF Order, DoneFirst
    <3>. HIDE DEF n, p
    <3>2. \A k \in 1..Len(queue'[p]) : p = PartitionOf(d) => d < queue'[p][k]
      BY <3>1, <1>1, <1>7, <1>8
    <3>. QED
      BY <3>1, <3>2, <2>2, <1>1
  <2>. QED
    BY <2>1, <2>2
<1>12. NothingLost'
  <2>. SUFFICES ASSUME NEW i \in 1..n, NEW q \in Partitions, q = PartitionOf(i)
                PROVE  \/ i \in done
                       \/ worker[q] = "processing" /\ current[q] = i
                       \/ \E k \in 1..Len(queue'[q]) : queue'[q][k] = i
    BY <1>1, <1>3, <1>4 DEF NothingLost
  <2>1. CASE i = n
    BY <2>1, <1>7
  <2>2. CASE i # n /\ q # p
    BY <2>2, <1>1, <1>5 DEF Order, NothingLost
  <2>3. CASE i # n /\ q = p
    <3>1. i \in 1..Dispatched
      BY <2>3, <1>1
    <3>2. CASE \E k \in 1..Len(queue[p]) : queue[p][k] = i
      BY <3>2, <2>3, <1>7
    <3>. QED
      BY <3>1, <3>2, <2>3 DEF Order, NothingLost
  <2>. QED
    BY <2>1, <2>2, <2>3
<1>. QED
  BY <1>9, <1>10, <1>11, <1>12 DEF Order

(* A worker takes the earliest event of its queue.                         *)
LEMMA OrderTake ==
    ASSUME TypeOK, Order, NEW p \in Partitions, Take(p)
    PROVE  Order'
<1>1. Dispatched' = Dispatched
  BY DEF Take, Dispatched
<1>2. \A i : PartitionOf(i)' = PartitionOf(i)
  BY DEF PartitionOf, Take
<1>3. done' = done
  BY DEF Take
<1>4. \A q \in Partitions : q # p => /\ queue'[q] = queue[q]
                                    /\ worker'[q] = worker[q]
                                    /\ current'[q] = current[q]
  BY DEF Take, TypeOK
<1>5. /\ queue[p] \in Seq(EventIds) /\ queue[p] # <<>>
      /\ worker[p] = "range"
      /\ worker'[p] = "processing"
      /\ current'[p] = Head(queue[p])
      /\ queue'[p] = Tail(queue[p])
  BY DEF Take, TypeOK
<1>6. /\ Len(queue[p]) \in Nat \ {0}
      /\ Head(queue[p]) = queue[p][1]
      /\ Len(queue'[p]) = Len(queue[p]) - 1
      /\ \A k \in 1..Len(queue'[p]) : queue'[p][k] = queue[p][k + 1]
  BY <1>5, HeadTailProperties, EmptySeq
<1>7. QueuesSorted'
  <2>. SUFFICES ASSUME NEW q \in Partitions, NEW k \in 1..Len(queue'[q])
                PROVE  /\ queue'[q][k] \in 1..Dispatched
                       /\ PartitionOf(queue'[q][k]) = q
                       /\ \A l \in 1..Len(queue'[q]) : k < l => queue'[q][k] < queue'[q][l]
    BY <1>1, <1>2 DEF QueuesSorted
  <2>1. CASE q # p
    BY <2>1, <1>4 DEF Order, QueuesSorted
  <2>2. CASE q = p
    <3>1. \A l \in 1..Len(queue'[p]) : l + 1 \in 1..Len(queue[p])
      BY <1>6
    <3>2. /\ queue[p][k + 1] \in 1..Dispatched
          /\ PartitionOf(queue[p][k + 1]) = p
          /\ \A l \in 1..Len(queue[p]) : k + 1 < l => queue[p][k + 1] < queue[p][l]
      BY <2>2, <3>1 DEF Order, QueuesSorted
    <3>3. \A l \in 1..Len(queue'[p]) : k < l => queue[p][k + 1] < queue[p][l + 1]
      BY <2>2, <3>1, <3>2
    <3>. QED
      BY <2>2, <3>2, <3>3, <1>6
  <2>. QED
    BY <2>1, <2>2
<1>8. CurrentFirst'
  <2>. SUFFICES ASSUME NEW q \in Partitions, worker'[q] = "processing"
                PROVE  /\ current'[q] \in 1..Dispatched
                       /\ PartitionOf(current'[q]) = q
                       /\ \A k \in 1..Len(queue'[q]) : current'[q] < queue'[q][k]
    BY <1>1, <1>2 DEF CurrentFirst
  <2>1. CASE q # p
    BY <2>1, <1>4 DEF Order, CurrentFirst
  <2>2. CASE q = p
    BY <2>2, <1>5, <1>6 DEF Order, QueuesSorted
  <2>. QED
    BY <2>1, <2>2
<1>9. DoneFirst'
  <2>. SUFFICES ASSUME NEW d \in done, NEW q \in Partitions
                PROVE  /\ d \in 1..Dispatched
                       /\ q = PartitionOf(d) =>
                            /\ worker'[q] = "processing" => d < current'[q]
                            /\ \A k \in 1..Len(queue'[q]) : d < queue'[q][k]
    BY <1>1, <1>2, <1>3 DEF DoneFirst
  <2>1. CASE q # p
    BY <2>1, <1>4 DEF Order, DoneFirst
  <2>2. CASE q = p
    BY <2>2, <1>5, <1>6 DEF Order, DoneFirst
  <2>. QED
    BY <2>1, <2>2
<1>10. NothingLost'
  <2>. SUFFICES ASSUME NEW i \in 1..Dispatched, NEW q \in Partitions, q = PartitionOf(i)
                PROVE  \/ i \in done
                       \/ worker'[q] = "processing" /\ current'[q] = i
                       \/ \E k \in 1..Len(queue'[q]) : queue'[q][k] = i
    BY <1>1, <1>2, <1>3 DEF NothingLost
  <2>1. CASE q # p
    BY <2>1, <1>4 DEF Order, NothingLost
  <2>2. CASE q = p
    <3>1. CASE i \in done
      BY <3>1
    <3>2. ASSUME NEW k \in 1..Len(queue[p]), queue[p][k] = i
          PROVE  \/ current'[p] = i
                 \/ \E l \in 1..Len(queue'[p]) : queue'[p][l] = i
      <4>1. CASE k = 1
        BY <4>1, <3>2, <1>5, <1>6
      <4>2. CASE k # 1
        <5>1. k - 1 \in 1..Len(queue'[p]) /\ queue'[p][k - 1] = i
          BY <4>2, <3>2, <1>6
        <5>. QED
          BY <5>1
      <4>. QED
        BY <4>1, <4>2
    <3>3. i \in done \/ \E k \in 1..Len(queue[p]) : queue[p][k] = i
      BY <2>2, <1>5 DEF Order, NothingLost
    <3>. QED
      BY <3>1, <3>2, <3>3, <2>2, <1>5
  <2>. QED
    BY <2>1, <2>2
<1>. QED
  BY <1>7, <1>8, <1>9, <1>10 DEF Order

(* A worker that finishes an event frees its hands; the event was the      *)
(* earliest of those not done in its partition.                            *)
LEMMA OrderFinish ==
    ASSUME TypeOK, Order, NEW p \in Partitions, FinishOne(p)
    PROVE  Order'
<1>1. Dispatched' = Dispatched
  BY DEF FinishOne, Dispatched
<1>2. \A i : PartitionOf(i)' = PartitionOf(i)
  BY DEF PartitionOf, FinishOne
<1>3. queue' = queue /\ done' = done \cup {current[p]}
  BY DEF FinishOne
<1>4. \A q \in Partitions : q # p => worker'[q] = worker[q] /\ current'[q] = current[q]
  BY DEF FinishOne, TypeOK
<1>5. worker[p] = "processing" /\ worker'[p] = "range"
  BY DEF FinishOne, TypeOK
<1>6. /\ current[p] \in 1..Dispatched
      /\ PartitionOf(current[p]) = p
      /\ \A k \in 1..Len(queue[p]) : current[p] < queue[p][k]
  BY <1>5 DEF Order, CurrentFirst
<1>7. QueuesSorted'
  BY <1>1, <1>2, <1>3 DEF Order, QueuesSorted
<1>8. CurrentFirst'
  BY <1>1, <1>2, <1>3, <1>4, <1>5 DEF Order, CurrentFirst
<1>9. DoneFirst'
  <2>. SUFFICES ASSUME NEW d \in done', NEW q \in Partitions
                PROVE  /\ d \in 1..Dispatched
                       /\ q = PartitionOf(d) =>
                            /\ worker'[q] = "processing" => d < current'[q]
                            /\ \A k \in 1..Len(queue[q]) : d < queue[q][k]
    BY <1>1, <1>2, <1>3 DEF DoneFirst
  <2>1. CASE d = current[p]
    BY <2>1, <1>5, <1>6
  <2>2. CASE d # current[p] /\ q # p
    BY <2>2, <1>3, <1>4 DEF Order, DoneFirst
  <2>3. CASE d # current[p] /\ q = p
    BY <2>3, <1>3, <1>5 DEF Order, DoneFirst
  <2>. QED
    BY <2>1, <2>2, <2>3
<1>10. NothingLost'
  <2>. SUFFICES ASSUME NEW i \in 1..Dispatched, NEW q \in Partitions, q = PartitionOf(i)
                PROVE  \/ i \in done'
                       \/ worker'[q] = "processing" /\ current'[q] = i
                       \/ \E k \in 1..Len(queue[q]) : queue[q][k] = i
    BY <1>1, <1>2, <1>3 DEF NothingLost
  <2>1. CASE q # p
    BY <2>1, <1>3, <1>4 DEF Order, NothingLost
  <2>2. CASE q = p
    BY <2>2, <1>3, <1>5 DEF Order, NothingLost
  <2>. QED
    BY <2>1, <2>2
<1>. QED
  BY <1>7, <1>8, <1>9, <1>10 DEF Order

(* Queues are closed, and workers end, only when they should.              *)
LEMMA ClosedForGoodStep ==
    ASSUME TypeOK, ClosedForGood, [Next]_vars
    PROVE  ClosedForGood'
<1>. USE DEF ClosedForGood, TypeOK
<1>1. CASE \E e \in Events : Receive(e)
  BY <1>1 DEF Receive
<1>2. CASE Enqueue
  <2>1. ASSUME NEW q \in Partitions PROVE ~closed[q] /\ worker[q] \notin {"signalling", "terminated"}
    BY <1>2 DEF Enqueue
  <2>. QED
    BY <1>2, <2>1 DEF Enqueue
<1>3. CASE Abort \/ Goodbye
  BY <1>3 DEF Abort, Goodbye
<1>4. CASE CloseQueue
  BY <1>4 DEF CloseQueue
<1>5. CASE Join
  BY <1>5 DEF Join
<1>6. CASE Terminate
  BY <1>6 DEF Terminate
<1>7. ASSUME NEW p \in Partitions, Take(p) PROVE ClosedForGood'
  BY <1>7 DEF Take
<1>8. ASSUME NEW p \in Partitions, FinishOne(p) PROVE ClosedForGood'
  BY <1>8 DEF FinishOne
<1>9. ASSUME NEW p \in Partitions, EndOfQueue(p) PROVE ClosedForGood'
  BY <1>9 DEF EndOfQueue
<1>10. CASE SignalArrives \/ SignalTerminates \/ Exit
  BY <1>10 DEF SignalArrives, SignalTerminates, Exit, routerVars
<1>11. CASE UNCHANGED vars
  BY <1>11 DEF vars
<1>. QED
  BY <1>1, <1>2, <1>3, <1>4, <1>5, <1>6, <1>7, <1>8, <1>9, <1>10, <1>11
     DEF Next, Exited

LEMMA RouterInit == Init => RouterInv
<1>. SUFFICES ASSUME Init PROVE RouterInv
  OBVIOUS
<1>1. TypeOK
  BY TypeInit
<1>2. Dispatched = 0
  BY DEF Init, Dispatched
<1>3. Order
  BY <1>2 DEF Init, Order, QueuesSorted, CurrentFirst, DoneFirst, NothingLost
<1>4. ClosedForGood
  BY DEF Init, ClosedForGood
<1>. QED
  BY <1>1, <1>3, <1>4 DEF RouterInv

LEMMA RouterInvStep == RouterInv /\ [Next]_vars => RouterInv'
<1>. SUFFICES ASSUME TypeOK, Order, ClosedForGood, [Next]_vars
              PROVE  Order'
  BY TypeStep, ClosedForGoodStep DEF RouterInv
<1>1. CASE \E e \in Events : Receive(e)
  BY <1>1, OrderReceive
<1>2. CASE Enqueue
  BY <1>2, OrderEnqueue
<1>3. CASE Abort \/ Goodbye \/ CloseQueue
  BY <1>3, OrderUnmoved DEF Abort, Goodbye, CloseQueue, Dispatched
<1>4. CASE Join
  <2>1. Dispatched' = Dispatched /\ UNCHANGED <<received, queue, current, done>>
    BY <1>4 DEF Join, Dispatched
  <2>2. \A p \in Partitions : worker'[p] = "processing" <=> worker[p] = "processing"
    BY <1>4 DEF Join, TypeOK
  <2>. QED
    BY <2>1, <2>2, OrderUnmoved
<1>5. CASE Terminate
  BY <1>5, OrderUnmoved DEF Terminate, Dispatched
<1>6. ASSUME NEW p \in Partitions, Take(p) PROVE Order'
  BY <1>6, OrderTake
<1>7. ASSUME NEW p \in Partitions, FinishOne(p) PROVE Order'
  BY <1>7, OrderFinish
<1>8. ASSUME NEW p \in Partitions, EndOfQueue(p) PROVE Order'
  <2>1. Dispatched' = Dispatched /\ UNCHANGED <<received, queue, current, done>>
    BY <1>8 DEF EndOfQueue, Dispatched
  <2>2. \A q \in Partitions : worker'[q] = "processing" <=> worker[q] = "processing"
    BY <1>8 DEF EndOfQueue, TypeOK
  <2>. QED
    BY <2>1, <2>2, OrderUnmoved
<1>9. CASE SignalArrives \/ SignalTerminates \/ Exit
  BY <1>9, OrderUnmoved DEF SignalArrives, SignalTerminates, Exit, routerVars, Dispatched
<1>10. CASE UNCHANGED vars
  BY <1>10, OrderUnmoved DEF vars, Dispatched
<1>. QED
  BY <1>1, <1>2, <1>3, <1>4, <1>5, <1>6, <1>7, <1>8, <1>9, <1>10 DEF Next, Exited

(* Whatever the goroutines of routing.go and slackscot.go do, no event is  *)
(* out of its place in the order of reception.                             *)
THEOREM RouterInvariant == Spec => []RouterInv
BY RouterInit, RouterInvStep, PTL DEF Spec

-----------------------------------------------------------------------------
(* The order of a message's events, and the drain.                         *)

(* What is started was dispatched, and what came before it in its          *)
(* partition is done.                                                      *)
LEMMA StartedInOrder ==
    ASSUME RouterInv, NEW j \in Started
    PROVE  /\ j \in 1..Dispatched
           /\ \A i \in 1..(j - 1) : PartitionOf(i) = PartitionOf(j) => i \in done
<1>. USE DEF RouterInv, Order
<1>1. Dispatched \in Nat /\ Dispatched <= Len(received)
  BY DEF TypeOK, Dispatched
<1>2. CASE j \in done
  <2>1. j \in 1..Dispatched
    BY <1>2, PartitionsExist DEF DoneFirst
  <2>2. ASSUME NEW i \in 1..(j - 1), PartitionOf(i) = PartitionOf(j)
        PROVE  i \in done
    <3>1. i \in 1..Dispatched /\ PartitionOf(i) \in Partitions
      BY <1>1, <2>1, PartitionOfType
    <3>. QED
      BY <3>1, <2>1, <2>2, <1>2 DEF NothingLost, DoneFirst, QueuesSorted
  <2>. QED
    BY <2>1, <2>2
<1>3. ASSUME NEW p \in Partitions, worker[p] = "processing", j = current[p]
      PROVE  /\ j \in 1..Dispatched
             /\ \A i \in 1..(j - 1) : PartitionOf(i) = PartitionOf(j) => i \in done
  <2>1. j \in 1..Dispatched /\ PartitionOf(j) = p
    BY <1>3 DEF CurrentFirst
  <2>2. ASSUME NEW i \in 1..(j - 1), PartitionOf(i) = p
        PROVE  i \in done
    <3>1. i \in 1..Dispatched
      BY <1>1, <2>1
    <3>. QED
      BY <3>1, <2>1, <2>2, <1>3 DEF NothingLost, CurrentFirst, QueuesSorted
  <2>. QED
    BY <2>1, <2>2
<1>. QED
  BY <1>2, <1>3 DEF Started, Active

(* The events of one message, a new message and its edits, are handled one *)
(* after the other in the order they were received, with any number of     *)
(* partitions, any buffer size and any hash.                               *)
THEOREM MessageOrder == Spec => []InOrderPerMessage
<1>1. RouterInv => InOrderPerMessage
  BY StartedInOrder DEF InOrderPerMessage, PartitionOf
<1>. QED
  BY <1>1, RouterInvariant, PTL

(* When every worker was joined, every event received was processed.       *)
THEOREM DrainComplete == Spec => []DrainLosesNothing
<1>1. ASSUME RouterInv, Drained PROVE done = 1..Len(received)
  <2>. USE <1>1 DEF RouterInv, Order
  <2>1. \A p \in Partitions : /\ worker[p] = "terminated"
                              /\ closed[p] /\ queue[p] = <<>>
    BY DEF Drained, ClosedForGood
  <2>2. Dispatched = Len(received)
    BY <2>1, PartitionsExist DEF ClosedForGood, Dispatched
  <2>3. \A i \in 1..Dispatched : i \in done
    <3>. TAKE i \in 1..Dispatched
    <3>1. PartitionOf(i) \in Partitions
      BY <2>2, PartitionOfType
    <3>2. Len(queue[PartitionOf(i)]) = 0
      BY <2>1, <3>1
    <3>. QED
      BY <2>1, <3>1, <3>2 DEF NothingLost
  <2>4. \A d \in done : d \in 1..Dispatched
    BY PartitionsExist DEF DoneFirst
  <2>. QED
    BY <2>2, <2>3, <2>4
<1>. QED
  BY <1>1, RouterInvariant, PTL DEF DrainLosesNothing

-----------------------------------------------------------------------------
(* How much piles up                                                       *)

(* A queue is within its buffer; without one, it has what a worker that is *)
(* waiting has been handed.                                                *)
QueuesFit ==
    \A p \in Partitions :
        \/ Len(queue[p]) <= BufferSize
        \/ BufferSize = 0 /\ Len(queue[p]) = 1 /\ worker[p] = "range"

LEMMA QueuesFitStep == TypeOK /\ QueuesFit /\ [Next]_vars => QueuesFit'
<1>. SUFFICES ASSUME TypeOK, QueuesFit, [Next]_vars PROVE QueuesFit'
  OBVIOUS
<1>. USE BufferSizeAssumption DEF QueuesFit
<1>0. queue \in [Partitions -> Seq(EventIds)]
  BY DEF TypeOK
<1>1. CASE UNCHANGED <<queue, worker>>
  BY <1>1
<1>2. CASE Enqueue
  <2>. DEFINE n == Len(received)  p == PartitionOf(n)
  <2>1. /\ queue' = [queue EXCEPT ![p] = Append(@, n)] /\ Room(p) /\ UNCHANGED worker
    BY <1>2 DEF Enqueue
  <2>2. n \in 1..Len(received)
    BY <1>2 DEF Enqueue, TypeOK, Dispatched
  <2>3. p \in Partitions /\ n \in EventIds
    BY <2>2, PartitionOfType, MaxEventsAssumption DEF TypeOK
  <2>. HIDE DEF n, p
  <2>4. Len(queue'[p]) = Len(queue[p]) + 1 /\ \A q \in Partitions : q # p => queue'[q] = queue[q]
    BY <1>0, <2>1, <2>3, AppendProperties
  <2>5. CASE BufferSize = 0
    <3>1. Len(queue[p]) = 0 /\ worker[p] = "range"
      BY <2>1, <2>5 DEF Room
    <3>. QED
      BY <2>1, <2>4, <2>5, <3>1
  <2>6. CASE BufferSize # 0
    <3>1. Len(queue[p]) < BufferSize /\ Len(queue[p]) \in Nat
      BY <1>0, <2>1, <2>3, <2>6 DEF Room
    <3>. QED
      BY <2>1, <2>4, <2>6, <3>1
  <2>. QED
    BY <2>5, <2>6
<1>3. ASSUME NEW p \in Partitions, Take(p) PROVE QueuesFit'
  <2>1. /\ queue' = [queue EXCEPT ![p] = Tail(@)] /\ queue[p] # <<>>
        /\ worker' = [worker EXCEPT ![p] = "processing"]
    BY <1>3 DEF Take
  <2>2. Len(queue[p]) \in Nat \ {0} /\ Len(queue'[p]) = Len(queue[p]) - 1
    BY <1>0, <2>1, HeadTailProperties, EmptySeq
  <2>3. \A q \in Partitions : q # p => queue'[q] = queue[q] /\ worker'[q] = worker[q]
    BY <1>0, <2>1 DEF TypeOK
  <2>4. Len(queue[p]) <= BufferSize \/ (BufferSize = 0 /\ Len(queue[p]) = 1)
    OBVIOUS
  <2>5. Len(queue'[p]) <= BufferSize
    <3>1. BufferSize \in Nat
      BY BufferSizeAssumption
    <3>2. CASE Len(queue[p]) <= BufferSize
      BY <2>2, <3>1, <3>2, SMT
    <3>3. CASE BufferSize = 0 /\ Len(queue[p]) = 1
      BY <2>2, <3>3, SMT
    <3>. QED
      BY <2>4, <3>2, <3>3
  <2>. QED
    BY <2>3, <2>5
<1>4. CASE Join
  BY <1>4 DEF Join, TypeOK
<1>5. ASSUME NEW p \in Partitions, FinishOne(p) PROVE QueuesFit'
  BY <1>5 DEF FinishOne, TypeOK
<1>6. ASSUME NEW p \in Partitions, EndOfQueue(p) PROVE QueuesFit'
  <2>1. Len(queue[p]) = 0 /\ UNCHANGED queue
    BY <1>6 DEF EndOfQueue
  <2>2. \A q \in Partitions : q # p => worker'[q] = worker[q]
    BY <1>6 DEF EndOfQueue, TypeOK
  <2>. QED
    BY <2>1, <2>2
<1>. QED
  BY <1>1, <1>2, <1>3, <1>4, <1>5, <1>6
     DEF Next, Receive, Abort, Goodbye, CloseQueue, Terminate, SignalArrives, SignalTerminates,
         Exit, Exited, vars, routerVars

(* Whatever the partitions do, no more than a buffer and the message in    *)
(* its worker's hands waits in one: routeMessageEvent blocks instead.      *)
THEOREM BacklogBounded == Spec => []BoundedBacklog
<1>1. Init => QueuesFit
  BY BufferSizeAssumption DEF Init, QueuesFit
<1>2. Spec => []QueuesFit
  BY <1>1, QueuesFitStep, TypeCorrect, PTL DEF Spec
<1>3. RouterInv /\ QueuesFit => BoundedBacklog
  <2>. SUFFICES ASSUME RouterInv, QueuesFit, NEW p \in Partitions
                PROVE  Cardinality({i \in 1..Dispatched \ done : PartitionOf(i) = p})
                         <= BufferSize + 1
    BY DEF BoundedBacklog
  <2>. DEFINE S == {i \in 1..Dispatched \ done : PartitionOf(i) = p}
              n == Len(queue[p])
              Q == {queue[p][k] : k \in 1..n}
  <2>1. n \in Nat /\ BufferSize \in Nat
    BY BufferSizeAssumption DEF RouterInv, TypeOK
  <2>2. IsFiniteSet(1..n) /\ Cardinality(1..n) = n
    BY <2>1, FS_Interval
  <2>3. IsFiniteSet(Q) /\ Cardinality(Q) <= n /\ Cardinality(Q) \in Nat
    <3>. DEFINE f == [k \in 1..n |-> queue[p][k]]
    <3>1. f \in Surjection(1..n, Q)
      BY DEF Surjection
    <3>. QED
      BY <2>2, <3>1, FS_Surjection, FS_CardinalityType
  <2>4. S \subseteq IF worker[p] = "processing" THEN Q \cup {current[p]} ELSE Q
    BY DEF RouterInv, Order, NothingLost
  <2>5. n <= BufferSize + 1 /\ (worker[p] = "processing" => n <= BufferSize)
    <3>1. n <= BufferSize \/ (BufferSize = 0 /\ n = 1 /\ worker[p] = "range")
      BY DEF QueuesFit
    <3>. HIDE DEF n
    <3>. QED
      BY <2>1, <3>1
  <2>. HIDE DEF S, Q, n
  <2>6. Cardinality(S) <= BufferSize + 1
    <3>1. CASE worker[p] = "processing"
      <4>. DEFINE c == Cardinality(Q \cup {current[p]})
      <4>1. /\ IsFiniteSet(Q \cup {current[p]})
            /\ c = IF current[p] \in Q THEN Cardinality(Q) ELSE Cardinality(Q) + 1
        BY <2>3, FS_AddElement, Zenon
      <4>2. S \in SUBSET (Q \cup {current[p]})
        BY <2>4, <3>1
      <4>3. IsFiniteSet(S) /\ Cardinality(S) <= c
        BY <4>1, <4>2, FS_Subset, Zenon
      <4>4. Cardinality(S) \in Nat
        BY <4>3, FS_CardinalityType, Zenon
      <4>. HIDE DEF c
      <4>. QED
        BY <2>1, <2>3, <2>5, <3>1, <4>1, <4>3, <4>4
    <3>2. CASE worker[p] # "processing"
      <4>1. S \in SUBSET Q
        BY <2>4, <3>2
      <4>2. IsFiniteSet(S) /\ Cardinality(S) <= Cardinality(Q)
        BY <2>3, <4>1, FS_Subset, Zenon
      <4>3. Cardinality(S) \in Nat
        BY <4>2, FS_CardinalityType, Zenon
      <4>. QED
        BY <2>1, <2>3, <2>5, <4>2, <4>3
    <3>. QED
      BY <3>1, <3>2
  <2>. QED
    BY <2>6 DEF S
<1>. QED
  BY <1>2, <1>3, RouterInvariant, PTL

-----------------------------------------------------------------------------
(* PartitionRouter implements OrderedProcessing, with one lane per         *)
(* partition and with one lane per original message: a step of the router  *)
(* receives an event, begins one, finishes one, or leaves the abstract     *)
(* state alone.                                                            *)

(* The two instances of the abstract specification read the stream of      *)
(* events like the router does.                                            *)
LEMMA SameStream ==
    /\ PerMessage!Events = Events /\ PerPartition!Events = Events
    /\ PerMessage!EventIds = EventIds /\ PerPartition!EventIds = EventIds
    /\ PerMessage!Deliverable(received) = Deliverable(received)
    /\ PerPartition!Deliverable(received) = Deliverable(received)
<1>1. PerMessage!Events = Events /\ PerPartition!Events = Events
  BY DEF Events, Kinds, PerMessage!Events, PerMessage!Kinds, PerMessage!MessageIds,
         PerPartition!Events, PerPartition!Kinds, PerPartition!MessageIds
<1>2. PerMessage!EventIds = EventIds /\ PerPartition!EventIds = EventIds
  BY DEF PerMessage!EventIds, PerPartition!EventIds
<1>3. ASSUME NEW e
      PROVE  /\ PerMessage!CanFollow(received, e) <=> CanFollow(received, e)
             /\ PerPartition!CanFollow(received, e) <=> CanFollow(received, e)
  BY DEF CanFollow, PerMessage!CanFollow, PerPartition!CanFollow
<1>4. PerMessage!NoContent = NoContent /\ PerPartition!NoContent = NoContent
  BY DEF NoContent, PerMessage!NoContent, PerPartition!NoContent
<1>. QED
  BY <1>1, <1>2, <1>3, <1>4 DEF Deliverable, PerMessage!Deliverable, PerPartition!Deliverable

(* The lane of an event.                                                   *)
LEMMA Lanes ==
    ASSUME TypeOK, NEW i \in 1..Len(received)
    PROVE  /\ PerMessage!LaneOf(i) = OriginalMessageID(received, i)
           /\ PerPartition!LaneOf(i) = PartitionOf(i)
<1>1. OriginalMessageID(received, i) \in MessageIds
  BY PartitionOfType
<1>2. /\ PerMessage!OriginalMessageID(received, i) = OriginalMessageID(received, i)
      /\ PerPartition!OriginalMessageID(received, i) = OriginalMessageID(received, i)
  BY DEF OriginalMessageID, PerMessage!OriginalMessageID, PerPartition!OriginalMessageID
<1>. QED
  BY <1>1, <1>2 DEF PerMessage!LaneOf, PerPartition!LaneOf, PerMessage!MessageIds,
                    PerPartition!MessageIds, PartitionOf

(* Beginning event i is allowed by both abstract specifications when it    *)
(* was dispatched, is neither begun nor done, and is the next of its       *)
(* partition.                                                              *)
LEMMA BeginAllowed ==
    ASSUME TypeOK, NEW i \in 1..Len(received), i \notin Active \cup done,
           \A j \in 1..(i - 1) : PartitionOf(j) = PartitionOf(i) => j \in done,
           Active' = Active \cup {i}, UNCHANGED <<received, done>>
    PROVE  i \in EventIds /\ PerMessage!Begin(i) /\ PerPartition!Begin(i)
<1>1. \A j \in 1..(i - 1) : j \in 1..Len(received)
  OBVIOUS
<1>2. \A j \in 1..(i - 1) : PerPartition!LaneOf(j) = PerPartition!LaneOf(i) => j \in done
  BY <1>1, Lanes
<1>3. \A j \in 1..(i - 1) : PerMessage!LaneOf(j) = PerMessage!LaneOf(i) => j \in done
  <2>. TAKE j \in 1..(i - 1)
  <2>. HAVE PerMessage!LaneOf(j) = PerMessage!LaneOf(i)
  <2>1. OriginalMessageID(received, j) = OriginalMessageID(received, i)
    BY <1>1, Lanes
  <2>. QED
    BY <2>1 DEF PartitionOf
<1>4. i \in EventIds
  BY MaxEventsAssumption DEF TypeOK
<1>5. PerMessage!Begin(i) /\ PerPartition!Begin(i)
  BY <1>2, <1>3 DEF PerMessage!Begin, PerMessage!Ready, PerPartition!Begin, PerPartition!Ready
<1>. QED
  BY <1>4, <1>5

(* A step of the router that moves no event to or from a worker's hands.   *)
LEMMA ActiveUnmoved ==
    ASSUME UNCHANGED <<current, received, done>>,
           \A p \in Partitions : worker'[p] = "processing" <=> worker[p] = "processing"
    PROVE  UNCHANGED PerMessage!orderVars /\ UNCHANGED PerPartition!orderVars
BY DEF Active, PerMessage!orderVars, PerPartition!orderVars

(* What a worker takes from its queue may begin.                           *)
LEMMA TakeBegins ==
    ASSUME RouterInv, NEW p \in Partitions, Take(p), NEW i, i = Head(queue[p])
    PROVE  i \in EventIds /\ PerMessage!Begin(i) /\ PerPartition!Begin(i)
<1>. USE DEF RouterInv
<1>1. /\ queue[p] \in Seq(EventIds) /\ queue[p] # <<>>
      /\ worker[p] = "range"
      /\ worker'[p] = "processing" /\ current'[p] = i
      /\ \A q \in Partitions : q # p => worker'[q] = worker[q] /\ current'[q] = current[q]
      /\ UNCHANGED <<received, done>>
  BY DEF Take, TypeOK
<1>2. Len(queue[p]) \in Nat \ {0} /\ i = queue[p][1]
  BY <1>1, HeadTailProperties, EmptySeq
<1>3. /\ i \in 1..Dispatched /\ PartitionOf(i) = p
      /\ \A l \in 1..Len(queue[p]) : i <= queue[p][l]
  BY <1>2 DEF Order, QueuesSorted
<1>4. Dispatched \in Nat /\ Dispatched <= Len(received)
  BY DEF TypeOK, Dispatched
<1>5. i \in 1..Len(received)
  BY <1>3, <1>4
<1>6. i \notin done
  BY <1>2, <1>3 DEF Order, DoneFirst
<1>7. i \notin Active
  BY <1>1, <1>3 DEF Active, Order, CurrentFirst
<1>8. Active' = Active \cup {i}
  BY <1>1 DEF Active
<1>9. \A j \in 1..(i - 1) : PartitionOf(j) = PartitionOf(i) => j \in done
  <2>. TAKE j \in 1..(i - 1)
  <2>. HAVE PartitionOf(j) = PartitionOf(i)
  <2>1. j \in 1..Dispatched
    BY <1>3, <1>4
  <2>. QED
    BY <2>1, <1>1, <1>3 DEF Order, NothingLost
<1>. QED
  BY <1>1, <1>5, <1>6, <1>7, <1>8, <1>9, BeginAllowed

(* What a worker is through with is finished.                              *)
LEMMA FinishEnds ==
    ASSUME RouterInv, NEW p \in Partitions, FinishOne(p)
    PROVE  /\ current[p] \in EventIds
           /\ PerMessage!Finish(current[p]) /\ PerPartition!Finish(current[p])
<1>. USE DEF RouterInv
<1>1. /\ worker[p] = "processing" /\ worker'[p] = "range"
      /\ \A q \in Partitions : q # p => worker'[q] = worker[q] /\ current'[q] = current[q]
      /\ received' = received /\ done' = done \cup {current[p]}
  BY DEF FinishOne, TypeOK
<1>2. \A q \in Partitions : q # p /\ worker[q] = "processing" => current[q] # current[p]
  BY <1>1 DEF Order, CurrentFirst
<1>3. Active' = Active \ {current[p]} /\ current[p] \in Active
  BY <1>1, <1>2 DEF Active
<1>4. current[p] \in EventIds
  BY <1>1 DEF TypeOK
<1>5. PerMessage!Finish(current[p]) /\ PerPartition!Finish(current[p])
  BY <1>1, <1>3 DEF PerMessage!Finish, PerPartition!Finish
<1>. QED
  BY <1>4, <1>5

LEMMA OrderStep ==
    ASSUME RouterInv, [Next]_vars
    PROVE  [PerMessage!OrderNext]_PerMessage!orderVars /\ [PerPartition!OrderNext]_PerPartition!orderVars
<1>. USE DEF RouterInv
<1>1. ASSUME NEW e \in Events, Receive(e)
      PROVE  PerMessage!OrderNext /\ PerPartition!OrderNext
  <2>1. Active' = Active
    BY <1>1 DEF Receive, Active
  <2>2. PerMessage!Receive(e) /\ PerPartition!Receive(e)
    BY <1>1, <2>1, SameStream DEF Receive, PerMessage!Receive, PerPartition!Receive
  <2>. QED
    BY <2>2, SameStream DEF PerMessage!OrderNext, PerPartition!OrderNext
<1>2. ASSUME NEW p \in Partitions, Take(p) \/ FinishOne(p)
      PROVE  PerMessage!OrderNext /\ PerPartition!OrderNext
  BY <1>2, TakeBegins, FinishEnds, SameStream DEF PerMessage!OrderNext, PerPartition!OrderNext
<1>3. CASE Enqueue \/ Abort \/ Goodbye \/ CloseQueue \/ Terminate
  BY <1>3, ActiveUnmoved DEF Enqueue, Abort, Goodbye, CloseQueue, Terminate
<1>4. CASE Join
  <2>1. \A p \in Partitions : worker'[p] = "processing" <=> worker[p] = "processing"
    BY <1>4 DEF Join, TypeOK
  <2>. QED
    BY <1>4, <2>1, ActiveUnmoved DEF Join
<1>5. ASSUME NEW p \in Partitions, EndOfQueue(p)
      PROVE  UNCHANGED PerMessage!orderVars /\ UNCHANGED PerPartition!orderVars
  <2>1. \A q \in Partitions : worker'[q] = "processing" <=> worker[q] = "processing"
    BY <1>5 DEF EndOfQueue, TypeOK
  <2>. QED
    BY <1>5, <2>1, ActiveUnmoved DEF EndOfQueue
<1>6. CASE SignalArrives \/ SignalTerminates \/ Exit
  BY <1>6, ActiveUnmoved DEF SignalArrives, SignalTerminates, Exit, routerVars
<1>7. CASE UNCHANGED vars
  BY <1>7, ActiveUnmoved DEF vars
<1>. QED
  BY <1>1, <1>2, <1>3, <1>4, <1>5, <1>6, <1>7 DEF Next, Exited

LEMMA OrderStart == Init => PerMessage!OrderInit /\ PerPartition!OrderInit
BY DEF Init, Active, PerMessage!OrderInit, PerPartition!OrderInit

(* The guarantee of routing.go: with one lane per original message, the    *)
(* router handles the events of a lane one at a time, in the order they    *)
(* were received.                                                          *)
THEOREM ImplementsMessageOrder == Spec => PerMessageOrder
BY OrderStart, OrderStep, RouterInvariant, PTL
   DEF Spec, PerMessageOrder, PerMessage!OrderSpec

(* What the implementation provides beyond it: one lane per partition.     *)
THEOREM ImplementsPartitionOrder == Spec => PerPartitionOrder
BY OrderStart, OrderStep, RouterInvariant, PTL
   DEF Spec, PerPartitionOrder, PerPartition!OrderSpec
=============================================================================
