-------------------------- MODULE PartitionRouter --------------------------
(***************************************************************************)
(* The concurrent skeleton of slackscot: the main loop (runInternal) that  *)
(* dispatches message events to partitions (routing.go), one buffered      *)
(* queue and one worker goroutine (processMessages) per partition, and the *)
(* three ways the program stops: a termination signal, an event that makes *)
(* the main loop return, and the goodbye event of the test mode.           *)
(***************************************************************************)
EXTENDS MessageEvents, FiniteSets

CONSTANTS
    PartitionCount,  \* advanced.messageProcessingPartitionCount
    BufferSize,      \* advanced.messageProcessingBufferedMessageCount
    Hash,            \* the CRC-32 of each message id
    TestMode         \* OptionTestMode

(* New refuses a partition count that is not a power of two.               *)
ASSUME PartitionCountAssumption ==
    /\ PartitionCount \in Nat \ {0}
    /\ \E k \in 0..PartitionCount : PartitionCount = 2^k
ASSUME BufferSizeAssumption == BufferSize \in Nat
ASSUME HashAssumption == Hash \in [MessageIds -> Nat]
ASSUME TestModeAssumption == TestMode \in BOOLEAN

VARIABLES
    received,  \* the events taken from the RTM's channel, in order
    mainLoop,  \* where runInternal is
    next,      \* the index of its for loops over the queues and the workers
    queue,     \* messageQueues
    closed,    \* which of them are closed
    worker,    \* where each processMessages is
    current,   \* the event a worker is processing, 0 if none
    done,      \* the events completely processed (history)
    watcher,   \* where watchForTerminationSignalToAbort is
    run        \* the goroutine that waits on the termination channel: Run,
               \* or the test that created the channel

routerVars == <<received, mainLoop, next, queue, closed, worker, current, done>>
lifeVars == <<watcher, run>>
vars == <<received, mainLoop, next, queue, closed, worker, current, done, watcher, run>>

Partitions == 0..(PartitionCount - 1)

(* hash & hashMask, the mask being the lowest log2(PartitionCount) bits.   *)
PartitionForMsgID(id) == Hash[id] % PartitionCount

(* MUTANT of PartitionOf: edits are routed by their own timestamp.         *)
PartitionOfOwnID(i) == PartitionForMsgID(i)

PartitionOf(i) == PartitionForMsgID(OriginalMessageID(received, i))

Dispatched == IF mainLoop = "routing" THEN Len(received) - 1 ELSE Len(received)

TypeOK ==
    /\ received \in Seq(Events)
    /\ Len(received) <= MaxEvents
    /\ Dispatched \in Nat
    /\ mainLoop \in {"range", "routing", "closing", "joining", "terminating", "terminated"}
    /\ next \in Partitions
    /\ queue \in [Partitions -> Seq(EventIds)]
    /\ closed \in [Partitions -> BOOLEAN]
    /\ worker \in [Partitions -> {"range", "processing", "signalling", "terminated"}]
    /\ current \in [Partitions -> MessageIds]
    /\ \A p \in Partitions : worker[p] = "processing" <=> current[p] # 0
    /\ done \subseteq EventIds
    /\ watcher \in {"waiting", "sending", "sent"}
    /\ run \in {"waiting", "returned", "exited"}

Init ==
    /\ received = <<>>
    /\ mainLoop = "range"
    /\ next = 0
    /\ queue = [p \in Partitions |-> <<>>]
    /\ closed = [p \in Partitions |-> FALSE]
    /\ worker = [p \in Partitions |-> "range"]
    /\ current = [p \in Partitions |-> 0]
    /\ done = {}
    /\ watcher = "waiting"
    /\ run = "waiting"

Alive == run # "exited"

-----------------------------------------------------------------------------
(* The main loop *)

Receive(e) ==
    /\ Alive /\ mainLoop = "range"
    /\ Len(received) < MaxEvents
    /\ e \in Deliverable(received)
    /\ received' = Append(received, e)
    /\ mainLoop' = "routing"
    /\ UNCHANGED <<next, queue, closed, worker, current, done, lifeVars>>

(* MUTANT of Room: one event too many.                                     *)
RoomForOneMore(p) == Len(queue[p]) <= BufferSize

(* A send on a channel completes when its buffer has room; without a       *)
(* buffer, when a receiver waits, in whose hands the event then is.        *)
Room(p) == IF BufferSize = 0
           THEN worker[p] = "range" /\ queue[p] = <<>>
           ELSE Len(queue[p]) < BufferSize

(* MUTANT of Enqueue: the event is dropped when the queue is full.         *)
EnqueueOrDrop ==
    /\ Alive /\ mainLoop = "routing"
    /\ LET p == PartitionOf(Len(received)) IN
         queue' = IF Room(p) THEN [queue EXCEPT ![p] = Append(@, Len(received))] ELSE queue
    /\ mainLoop' = "range"
    /\ UNCHANGED <<received, next, closed, worker, current, done, lifeVars>>

(* routeMessageEvent.                                                      *)
Enqueue ==
    /\ Alive /\ mainLoop = "routing"
    /\ LET p == PartitionOf(Len(received)) IN
         /\ Room(p)
         /\ queue' = [queue EXCEPT ![p] = Append(@, Len(received))]
    /\ mainLoop' = "range"
    /\ UNCHANGED <<received, next, closed, worker, current, done, lifeVars>>

(* The loop returns on invalid credentials, on an error while looking up   *)
(* the bot's identity at a (re)connection, or when its channel is closed:  *)
(* the workers are left running.                                           *)
Abort ==
    /\ Alive /\ mainLoop = "range"
    /\ mainLoop' = "terminating"
    /\ UNCHANGED <<received, next, queue, closed, worker, current, done, lifeVars>>

(* MUTANT of Goodbye: the workers are waited for without closing queues.   *)
GoodbyeWithoutClosing ==
    /\ Alive /\ mainLoop = "range" /\ TestMode
    /\ mainLoop' = "joining"
    /\ UNCHANGED <<received, next, queue, closed, worker, current, done, lifeVars>>

Goodbye ==
    /\ Alive /\ mainLoop = "range" /\ TestMode
    /\ mainLoop' = "closing"
    /\ UNCHANGED <<received, next, queue, closed, worker, current, done, lifeVars>>

(* MUTANT of CloseQueue: the index is not reset for the joining loop.      *)
CloseWithoutReset ==
    /\ Alive /\ mainLoop = "closing"
    /\ closed' = [closed EXCEPT ![next] = TRUE]
    /\ next' = next + 1
    /\ mainLoop' = IF next + 1 = PartitionCount THEN "joining" ELSE "closing"
    /\ UNCHANGED <<received, queue, worker, current, done, lifeVars>>

CloseQueue ==
    /\ Alive /\ mainLoop = "closing"
    /\ closed' = [closed EXCEPT ![next] = TRUE]
    /\ next' = (next + 1) % PartitionCount
    /\ mainLoop' = IF next + 1 = PartitionCount THEN "joining" ELSE "closing"
    /\ UNCHANGED <<received, queue, worker, current, done, lifeVars>>

(* The main loop and a worker meet on that worker's termination channel.   *)
Join ==
    /\ Alive /\ mainLoop = "joining"
    /\ worker[next] = "signalling"
    /\ worker' = [worker EXCEPT ![next] = "terminated"]
    /\ next' = (next + 1) % PartitionCount
    /\ mainLoop' = IF next + 1 = PartitionCount THEN "terminating" ELSE "joining"
    /\ UNCHANGED <<received, queue, closed, current, done, lifeVars>>

(* runInternal's deferred send on the unbuffered termination channel.      *)
Terminate ==
    /\ mainLoop = "terminating" /\ run = "waiting"
    /\ mainLoop' = "terminated"
    /\ run' = "returned"
    /\ UNCHANGED <<received, next, queue, closed, worker, current, done, watcher>>

-----------------------------------------------------------------------------
(* The workers *)

(* MUTANT of Take: nothing is taken from a closed queue.                   *)
TakeUnlessClosed(p) ==
    /\ Alive /\ worker[p] = "range" /\ queue[p] # <<>> /\ ~closed[p]
    /\ worker' = [worker EXCEPT ![p] = "processing"]
    /\ current' = [current EXCEPT ![p] = Head(queue[p])]
    /\ queue' = [queue EXCEPT ![p] = Tail(@)]
    /\ UNCHANGED <<received, mainLoop, next, closed, done, lifeVars>>

Take(p) ==
    /\ Alive /\ worker[p] = "range" /\ queue[p] # <<>>
    /\ worker' = [worker EXCEPT ![p] = "processing"]
    /\ current' = [current EXCEPT ![p] = Head(queue[p])]
    /\ queue' = [queue EXCEPT ![p] = Tail(@)]
    /\ UNCHANGED <<received, mainLoop, next, closed, done, lifeVars>>

FinishOne(p) ==
    /\ Alive /\ worker[p] = "processing"
    /\ done' = done \cup {current[p]}
    /\ worker' = [worker EXCEPT ![p] = "range"]
    /\ current' = [current EXCEPT ![p] = 0]
    /\ UNCHANGED <<received, mainLoop, next, queue, closed, lifeVars>>

(* MUTANT of EndOfQueue: the worker leaves without emptying its queue.     *)
EndWhenClosed(p) ==
    /\ Alive /\ worker[p] = "range" /\ closed[p]
    /\ worker' = [worker EXCEPT ![p] = "signalling"]
    /\ UNCHANGED <<received, mainLoop, next, queue, closed, current, done, lifeVars>>

(* The range over the queue ends once it is closed and empty.              *)
EndOfQueue(p) ==
    /\ Alive /\ worker[p] = "range" /\ queue[p] = <<>> /\ closed[p]
    /\ worker' = [worker EXCEPT ![p] = "signalling"]
    /\ UNCHANGED <<received, mainLoop, next, queue, closed, current, done, lifeVars>>

-----------------------------------------------------------------------------
(* The process *)

SignalArrives ==
    /\ Alive /\ watcher = "waiting"
    /\ watcher' = "sending"
    /\ UNCHANGED <<routerVars, run>>

SignalTerminates ==
    /\ watcher = "sending" /\ run = "waiting"
    /\ watcher' = "sent"
    /\ run' = "returned"
    /\ UNCHANGED routerVars

(* Once Run (or the test) is unblocked, main returns whenever it likes and *)
(* every goroutine stops with the process.                                 *)
Exit ==
    /\ run = "returned"
    /\ run' = "exited"
    /\ UNCHANGED <<routerVars, watcher>>

Exited == ~Alive /\ UNCHANGED vars

Next ==
    \/ \E e \in Events : Receive(e)
    \/ Enqueue \/ Abort \/ Goodbye \/ CloseQueue \/ Join \/ Terminate
    \/ \E p \in Partitions : Take(p) \/ FinishOne(p) \/ EndOfQueue(p)
    \/ SignalArrives \/ SignalTerminates \/ Exit
    \/ Exited

Spec == Init /\ [][Next]_vars

(* Goroutines that can run do run, and processing one message terminates;  *)
(* events, signals and the end of the process are the environment's.       *)
Fairness ==
    /\ WF_vars(Enqueue)
    /\ WF_vars(CloseQueue) /\ WF_vars(Join)
    /\ WF_vars(Terminate) /\ WF_vars(SignalTerminates)
    /\ \A p \in Partitions : WF_vars(Take(p) \/ FinishOne(p) \/ EndOfQueue(p))

FairSpec == Spec /\ Fairness

-----------------------------------------------------------------------------
(* Properties *)

Active == {current[p] : p \in {q \in Partitions : worker[q] = "processing"}}

Started == Active \cup done

(* A new message and its edits are handled in the order they arrived, each *)
(* completely before the next one starts (routing.go: "to ensure that all  *)
(* message and its updates are processed in order").                       *)
InOrderPerMessage ==
    \A j \in Started : \A i \in 1..(j - 1) :
        OriginalMessageID(received, i) = OriginalMessageID(received, j) => i \in done

(* In test mode, closing the queues and joining the workers loses nothing: *)
(* once every worker was joined, every event ever received was processed   *)
(* (runInternal, "Close all processing queues and wait").                  *)
Drained == worker = [p \in Partitions |-> "terminated"]
DrainLosesNothing == Drained => done = 1..Len(received)

(* However slow its worker is, the events dispatched to a partition and    *)
(* not yet processed fit its buffer and the worker's hands: one more       *)
(* blocks the main loop, so that memory stays bounded and Slack's channel  *)
(* backs up.                                                               *)
BoundedBacklog ==
    \A p \in Partitions :
        Cardinality({i \in 1..Dispatched \ done : PartitionOf(i) = p}) <= BufferSize + 1

(* Whatever is received is processed in the end, unless the process exits: *)
(* no partition starves, and neither does an event behind a full buffer.   *)
EveryEventProcessed ==
    \A i \in EventIds : (i <= Len(received)) ~> (i \in done \/ ~Alive)

(* A goodbye in test mode ends in the test being told, whatever was queued *)
(* and however the workers interleave with the closing.                    *)
GoodbyeTerminates == (mainLoop \in {"closing", "joining"}) ~> (run # "waiting")

(* The guarantee of doc.go: updates and deletions are processed in order   *)
(* relative to the original message they refer to.                         *)
DeletionsInOrder ==
    \A j \in Started : \A i \in 1..(j - 1) :
        (received[j].kind \in {"changed", "deleted"} /\ received[i].about = received[j].about)
            => i \in done

(* The abstract specification, with one lane per original message and with *)
(* one lane per partition.                                                 *)
PerMessage == INSTANCE OrderedProcessing
    WITH Lane <- [m \in MessageIds |-> m], active <- Active
PerPartition == INSTANCE OrderedProcessing
    WITH Lane <- [m \in MessageIds |-> PartitionForMsgID(m)], active <- Active

PerMessageOrder == PerMessage!OrderSpec
PerPartitionOrder == PerPartition!OrderSpec
=============================================================================
