-------------------------- MODULE Slackscot_proofs --------------------------
(***************************************************************************)
(* The composed bot implements the tracker: whatever the partitions, their *)
(* buffers, the hash and the end of the process, its handlers run in an    *)
(* order the tracker allows. What is proved of the tracker is then true of *)
(* the bot.                                                                *)
(***************************************************************************)
EXTENDS Slackscot, PartitionRouter_proofs

USE DEF EventIds, MessageIds

(* The tracker reads the stream of events, and its order, as the router's  *)
(* abstract specification with one lane per partition does.                *)
LEMMA SameOrder ==
    /\ Tracker!Events = Events /\ Tracker!EventIds = EventIds
    /\ Tracker!Deliverable(received) = Deliverable(received)
    /\ Tracker!OrderInit <=> PerPartition!OrderInit
    /\ \A i : Tracker!Begin(i) <=> PerPartition!Begin(i)
    /\ \A i : Tracker!Finish(i) <=> PerPartition!Finish(i)
<1>1. Tracker!Events = Events /\ Tracker!EventIds = EventIds
  BY DEF Events, Kinds, Tracker!Events, Tracker!Kinds, Tracker!MessageIds, Tracker!EventIds
<1>2. \A e : Tracker!CanFollow(received, e) <=> CanFollow(received, e)
  BY DEF CanFollow, Tracker!CanFollow
<1>3. Tracker!NoContent = NoContent
  BY DEF NoContent, Tracker!NoContent
<1>4. Tracker!Deliverable(received) = Deliverable(received)
  BY <1>1, <1>2, <1>3 DEF Deliverable, Tracker!Deliverable
<1>5. \A i : Tracker!LaneOf(i) = PerPartition!LaneOf(i)
  BY DEF Tracker!LaneOf, PerPartition!LaneOf, Tracker!OriginalMessageID,
         PerPartition!OriginalMessageID, Tracker!MessageIds, PerPartition!MessageIds
<1>6. \A i : Tracker!Begin(i) <=> PerPartition!Begin(i)
  BY <1>5 DEF Tracker!Begin, Tracker!Ready, PerPartition!Begin, PerPartition!Ready
<1>7. \A i : Tracker!Finish(i) <=> PerPartition!Finish(i)
  BY DEF Tracker!Finish, PerPartition!Finish
<1>. QED
  BY <1>1, <1>4, <1>6, <1>7 DEF Tracker!OrderInit, PerPartition!OrderInit

LEMMA BotRoutes == [BotNext]_botVars => [Next]_vars
BY DEF BotNext, RouterStep, TakeAndStart, Process, StopProcessing, Next, botVars

(* What leaves the workers' events alone is no step of the tracker's order. *)
LEMMA NotTracked ==
    ASSUME UNCHANGED <<received, current, done, handlerVars>>,
           \A p \in Partitions : worker'[p] = "processing" <=> worker[p] = "processing"
    PROVE  UNCHANGED Tracker!allVars
BY DEF Active, handlerVars, Tracker!handVars, Tracker!trackerVars, Tracker!allVars

LEMMA BotTracks ==
    ASSUME RouterInv, [BotNext]_botVars
    PROVE  [Tracker!TrackerNext]_(Tracker!allVars)
<1>. USE DEF RouterInv
<1>1. ASSUME NEW e \in Events, Receive(e), UNCHANGED handlerVars
      PROVE  Tracker!TrackerNext
  <2>1. Active' = Active
    BY <1>1 DEF Receive, Active
  <2>2. Tracker!ReceiveEvent(e)
    BY <1>1, <2>1, SameOrder
       DEF Receive, Tracker!ReceiveEvent, Tracker!Receive, handlerVars, Tracker!handVars,
           Tracker!trackerVars
  <2>. QED
    BY <2>2, SameOrder DEF Tracker!TrackerNext
<1>2. ASSUME NEW p \in Partitions, TakeAndStart(p) PROVE Tracker!TrackerNext
  <2>. DEFINE i == Head(queue[p])
  <2>1. i \in EventIds /\ Tracker!Begin(i) /\ Tracker!StartHandler(i)
    BY <1>2, TakeBegins, SameOrder DEF TakeAndStart
  <2>. HIDE DEF i
  <2>. QED
    BY <2>1, SameOrder DEF Tracker!TrackerNext, Tracker!BeginEvent
<1>3. ASSUME NEW p \in Partitions, Process(p) PROVE Tracker!TrackerNext
  <2>1. current[p] \in EventIds /\ Tracker!HandlerStep(current[p])
    BY <1>3 DEF Process, TypeOK
  <2>2. UNCHANGED Tracker!orderVars
    BY <1>3 DEF Process, vars, Active, Tracker!orderVars
  <2>. QED
    BY <2>1, <2>2, SameOrder DEF Tracker!TrackerNext, Tracker!Step
<1>4. ASSUME NEW p \in Partitions, StopProcessing(p) PROVE Tracker!TrackerNext
  <2>1. /\ current[p] \in EventIds /\ pc[current[p]] = "finished"
        /\ Tracker!Finish(current[p]) /\ UNCHANGED handlerVars
    BY <1>4, FinishEnds, SameOrder DEF StopProcessing
  <2>2. Tracker!FinishEvent(current[p])
    BY <2>1 DEF Tracker!FinishEvent, handlerVars, Tracker!handVars, Tracker!trackerVars
  <2>. QED
    BY <2>1, <2>2, SameOrder DEF Tracker!TrackerNext
<1>5. CASE RouterStep /\ ~\E e \in Events : Receive(e)
  <2>1. \/ Enqueue \/ Abort \/ Goodbye \/ CloseQueue \/ Terminate
        \/ Join \/ \E p \in Partitions : EndOfQueue(p)
        \/ SignalArrives \/ SignalTerminates \/ Exit \/ Exited
    BY <1>5 DEF RouterStep
  <2>2. UNCHANGED <<received, current, done>>
    BY <2>1 DEF Enqueue, Abort, Goodbye, CloseQueue, Terminate, Join, EndOfQueue,
                SignalArrives, SignalTerminates, Exit, Exited, vars, routerVars
  <2>3. \A p \in Partitions : worker'[p] = "processing" <=> worker[p] = "processing"
    <3>1. CASE Join
      BY <3>1 DEF Join, TypeOK
    <3>2. CASE \E p \in Partitions : EndOfQueue(p)
      BY <3>2 DEF EndOfQueue, TypeOK
    <3>. QED
      BY <2>1, <3>1, <3>2 DEF Enqueue, Abort, Goodbye, CloseQueue, Terminate,
                SignalArrives, SignalTerminates, Exit, Exited, vars, routerVars
  <2>. QED
    BY <1>5, <2>2, <2>3, NotTracked DEF RouterStep
<1>6. CASE UNCHANGED botVars
  BY <1>6, NotTracked DEF botVars, vars
<1>. QED
  BY <1>1, <1>2, <1>3, <1>4, <1>5, <1>6 DEF BotNext, RouterStep

LEMMA BotStart == BotInit => Init /\ Tracker!TrackerInit
BY DEF BotInit

LEMMA BotRouterInvariant == BotSpec => []RouterInv
<1>1. BotSpec => Spec
  BY BotStart, BotRoutes, PTL DEF BotSpec, Spec
<1>. QED
  BY <1>1, RouterInvariant, PTL

(* processMessages, in one goroutine per partition, handles the events in  *)
(* an order the tracker has: what is proved of the tracker's handlers for  *)
(* its lanes holds of the bot.                                             *)
THEOREM BotImplementsTracker == BotSpec => HandlersRunInOrder
<1>. DEFINE TN == Tracker!TrackerNext
            TV == Tracker!allVars
<1>1. RouterInv /\ [BotNext]_botVars => [TN]_TV
  BY BotTracks
<1>. QED
  BY <1>1, BotStart, BotRouterInvariant, PTL
     DEF BotSpec, HandlersRunInOrder, Tracker!TrackerSpec

-----------------------------------------------------------------------------
(* The theorems about the tracker hold of the bot's.  They are those of    *)
(* another instance of it, with the same definitions.                      *)

Proved == INSTANCE TrackedResponses_proofs
    WITH Lane <- [m \in MessageIds |-> PartitionForMsgID(m)], active <- Active

LEMMA SameStart == Tracker!TrackerInit <=> Proved!TrackerInit
BY DEF Tracker!TrackerInit, Proved!TrackerInit, Tracker!OrderInit, Proved!OrderInit,
       Tracker!EventIds, Proved!EventIds, Tracker!MessageIds, Proved!MessageIds,
       Tracker!Responses, Proved!Responses

LEMMA SameLookups ==
    ASSUME NEW i
    PROVE  /\ Tracker!IgnoreTooOld(i) <=> Proved!IgnoreTooOld(i)
           /\ Tracker!FindResponses(i) <=> Proved!FindResponses(i)
           /\ Tracker!FindNothing(i) <=> Proved!FindNothing(i)
           /\ Tracker!StartHandler(i) <=> Proved!StartHandler(i)
BY DEF Tracker!IgnoreTooOld, Proved!IgnoreTooOld, Tracker!FindResponses, Proved!FindResponses,
       Tracker!FindNothing, Proved!FindNothing, Tracker!StartHandler, Proved!StartHandler,
       Tracker!Triggered, Proved!Triggered, Tracker!handVars, Proved!handVars

LEMMA SameCalls ==
    ASSUME NEW i
    PROVE  /\ Tracker!SendOne(i) <=> Proved!SendOne(i)
           /\ Tracker!LookUpOne(i) <=> Proved!LookUpOne(i)
           /\ Tracker!UpdateOne(i) <=> Proved!UpdateOne(i)
           /\ Tracker!RemoveOne(i) <=> Proved!RemoveOne(i)
           /\ Tracker!RangeOne(i) <=> Proved!RangeOne(i)
           /\ Tracker!DeleteOne(i) <=> Proved!DeleteOne(i)
BY DEF Tracker!SendOne, Proved!SendOne, Tracker!LookUpOne, Proved!LookUpOne,
       Tracker!UpdateOne, Proved!UpdateOne, Tracker!RemoveOne, Proved!RemoveOne,
       Tracker!RangeOne, Proved!RangeOne, Tracker!DeleteOne, Proved!DeleteOne,
       Tracker!Busy, Proved!Busy, Tracker!handVars, Proved!handVars,
       Tracker!First, Proved!First,
       Tracker!Previous, Proved!Previous, Tracker!SendNew, Proved!SendNew,
       Tracker!UpdateResponse, Proved!UpdateResponse, Tracker!UpdateMissed, Proved!UpdateMissed,
       Tracker!ToDelete, Proved!ToDelete, Tracker!DeleteResponse, Proved!DeleteResponse,
       Tracker!Private, Proved!Private, Tracker!Triggered, Proved!Triggered

LEMMA SameEnds ==
    ASSUME NEW i
    PROVE  /\ Tracker!StoreSent(i) <=> Proved!StoreSent(i)
           /\ Tracker!ReplaceResponses(i) <=> Proved!ReplaceResponses(i)
           /\ Tracker!ForgetResponses(i) <=> Proved!ForgetResponses(i)
<1>1. Tracker!CachedIds = Proved!CachedIds
  BY DEF Tracker!CachedIds, Proved!CachedIds, Tracker!MessageIds, Proved!MessageIds
<1>2. \A S : Tracker!Cardinality(S) = Proved!Cardinality(S)
  BY Zenon DEF Tracker!Cardinality, Proved!Cardinality
<1>3. \A m : Tracker!Victims(m) = Proved!Victims(m)
  BY <1>1, <1>2 DEF Tracker!Victims, Proved!Victims
<1>4. \A m : Tracker!CacheAdd(m, i) <=> Proved!CacheAdd(m, i)
  BY <1>3, Zenon
     DEF Tracker!CacheAdd, Proved!CacheAdd, Tracker!MessageIds, Proved!MessageIds
<1>5. \A m : Tracker!CacheRemove(m) <=> Proved!CacheRemove(m)
  BY DEF Tracker!CacheRemove, Proved!CacheRemove
<1>. QED
  BY <1>4, <1>5
     DEF Tracker!StoreSent, Proved!StoreSent, Tracker!ReplaceResponses, Proved!ReplaceResponses,
         Tracker!ForgetResponses, Proved!ForgetResponses, Tracker!ToDelete, Proved!ToDelete,
         Tracker!Busy, Proved!Busy, Tracker!handVars, Proved!handVars

LEMMA SameEvents ==
    /\ Tracker!Events = Proved!Events /\ Tracker!EventIds = Proved!EventIds
    /\ \A e : Tracker!Receive(e) <=> Proved!Receive(e)
    /\ \A i : Tracker!Begin(i) <=> Proved!Begin(i)
    /\ \A i : Tracker!Finish(i) <=> Proved!Finish(i)
<1>1. Tracker!Events = Proved!Events /\ Tracker!EventIds = Proved!EventIds
  BY DEF Tracker!Events, Proved!Events, Tracker!Kinds, Proved!Kinds,
         Tracker!MessageIds, Proved!MessageIds, Tracker!EventIds, Proved!EventIds
<1>2. \A e : Tracker!CanFollow(received, e) <=> Proved!CanFollow(received, e)
  BY DEF Tracker!CanFollow, Proved!CanFollow
<1>3. Tracker!NoContent = Proved!NoContent
  BY DEF Tracker!NoContent, Proved!NoContent
<1>4. Tracker!Deliverable(received) = Proved!Deliverable(received)
  BY <1>1, <1>2, <1>3 DEF Tracker!Deliverable, Proved!Deliverable
<1>5. \A e : Tracker!Receive(e) <=> Proved!Receive(e)
  BY <1>4 DEF Tracker!Receive, Proved!Receive
<1>6. \A i : Tracker!Begin(i) <=> Proved!Begin(i)
  BY DEF Tracker!Begin, Proved!Begin, Tracker!Ready, Proved!Ready,
         Tracker!LaneOf, Proved!LaneOf, Tracker!OriginalMessageID, Proved!OriginalMessageID
<1>7. \A i : Tracker!Finish(i) <=> Proved!Finish(i)
  BY DEF Tracker!Finish, Proved!Finish
<1>. QED
  BY <1>1, <1>5, <1>6, <1>7

LEMMA SameVars == UNCHANGED Tracker!allVars <=> UNCHANGED Proved!allVars
BY DEF Tracker!allVars, Proved!allVars, Tracker!trackerVars, Proved!trackerVars,
       Tracker!handVars, Proved!handVars

LEMMA SameStep == Tracker!TrackerNext <=> Proved!TrackerNext
<1>1. \A i : Tracker!HandlerStep(i) <=> Proved!HandlerStep(i)
  BY SameLookups, SameCalls, SameEnds DEF Tracker!HandlerStep, Proved!HandlerStep
<1>2. \A i : Tracker!Step(i) <=> Proved!Step(i)
  BY <1>1 DEF Tracker!Step, Proved!Step, Tracker!orderVars, Proved!orderVars
<1>3. \A i : Tracker!BeginEvent(i) <=> Proved!BeginEvent(i)
  BY SameEvents, SameLookups DEF Tracker!BeginEvent, Proved!BeginEvent
<1>4. \A i : Tracker!FinishEvent(i) <=> Proved!FinishEvent(i)
  BY SameEvents
     DEF Tracker!FinishEvent, Proved!FinishEvent, Tracker!trackerVars, Proved!trackerVars,
         Tracker!handVars, Proved!handVars
<1>5. \A e : Tracker!ReceiveEvent(e) <=> Proved!ReceiveEvent(e)
  BY SameEvents
     DEF Tracker!ReceiveEvent, Proved!ReceiveEvent, Tracker!trackerVars, Proved!trackerVars,
         Tracker!handVars, Proved!handVars
<1>6. Tracker!AllHandled <=> Proved!AllHandled
  BY SameEvents, SameVars DEF Tracker!AllHandled, Proved!AllHandled
<1>. QED
  BY <1>2, <1>3, <1>4, <1>5, <1>6, SameEvents DEF Tracker!TrackerNext, Proved!TrackerNext

LEMMA BotIsTracker == BotSpec => Proved!TrackerSpec
<1>. DEFINE TN == Proved!TrackerNext
            TV == Proved!allVars
<1>1. RouterInv /\ [BotNext]_botVars => [TN]_TV
  BY BotTracks, SameStep, SameVars
<1>2. BotInit => Init /\ Proved!TrackerInit
  BY BotStart, SameStart
<1>. QED
  BY <1>1, <1>2, BotRouterInvariant, PTL DEF BotSpec, Proved!TrackerSpec

(* The constants of the bot are as the tracker assumes.                    *)
LEMMA TrackerConstants ==
    /\ MaxEvents \in Nat
    /\ Actions \subseteq Nat
    /\ Contents \subseteq SUBSET Actions
    /\ Ephemeral \in [Contents -> SUBSET Actions]
    /\ CacheSize \in Nat \ {0}
    /\ Faults \subseteq {"send", "ack", "update", "delete"}
BY MaxEventsAssumption, HandlerAssumption

(* processMessages' goroutines never hold the same map of responses, one   *)
(* ranging over it while the other changes it, unless the deletion of a    *)
(* message fell in another partition than the message.                     *)
THEOREM BotSharesNoMap == BotSpec => []NoSharedMap
<1>1. Proved!MapsNotShared <=> NoSharedMap
  BY DEF NoSharedMap, Proved!MapsNotShared, Tracker!MapsNotShared,
         Proved!DeletionInLane, Tracker!DeletionInLane
<1>2. BotSpec => []Proved!MapsNotShared
  BY BotIsTracker, Proved!MapsHaveOneHolder, TrackerConstants, PTL
<1>. QED
  BY <1>1, <1>2, PTL

(* What the cache of the bot tracks between two handlers of a message      *)
(* shows the answers to its latest version, and all of them but those      *)
(* whose call failed.  Unless the message's deletion fell in another       *)
(* partition, it is on Slack too, and nothing there is forgotten but for a *)
(* known cause.                                                            *)
THEOREM BotKeepsTrack ==
    BotSpec => [](/\ Tracker!TrackedResponsesExist
                  /\ Tracker!TrackedResponsesAreFresh
                  /\ Tracker!TrackedResponsesAreComplete
                  /\ Tracker!NoResponseForgotten)
<1>1. /\ \A m : Proved!Quiet(m) <=> Tracker!Quiet(m)
      /\ \A m : Proved!MessageOf(m) = Tracker!MessageOf(m)
      /\ \A i, a : Proved!Private(i, a) <=> Tracker!Private(i, a)
  BY DEF Proved!Quiet, Tracker!Quiet, Proved!MessageOf, Tracker!MessageOf,
         Proved!Private, Tracker!Private, Proved!Triggered, Tracker!Triggered
<1>2. Proved!CachedIds = Tracker!CachedIds
  BY DEF Proved!CachedIds, Tracker!CachedIds, Proved!MessageIds, Tracker!MessageIds
<1>3. \A m : Proved!Tracked(m) = Tracker!Tracked(m)
  BY <1>1, <1>2 DEF Proved!Tracked, Tracker!Tracked
<1>4. \A m : Proved!LastHandled(m) = Tracker!LastHandled(m)
  BY DEF Proved!LastHandled, Tracker!LastHandled
<1>5. \A m : Proved!DeletionInLane(m) <=> Tracker!DeletionInLane(m)
  BY DEF Proved!DeletionInLane, Tracker!DeletionInLane
<1>6. Proved!TrackedResponsesExist => Tracker!TrackedResponsesExist
  BY <1>1, <1>3, <1>5 DEF Proved!TrackedResponsesExist, Tracker!TrackedResponsesExist,
                    Proved!MessageIds, Tracker!MessageIds
<1>7. Proved!TrackedResponsesAreFresh => Tracker!TrackedResponsesAreFresh
  BY <1>1, <1>2, <1>4
     DEF Proved!TrackedResponsesAreFresh, Tracker!TrackedResponsesAreFresh,
         Proved!Triggered, Tracker!Triggered
<1>8. Proved!TrackedResponsesAreComplete => Tracker!TrackedResponsesAreComplete
  BY <1>1, <1>2, <1>4
     DEF Proved!TrackedResponsesAreComplete, Tracker!TrackedResponsesAreComplete,
         Proved!Triggered, Tracker!Triggered
<1>9. Proved!NoResponseForgotten => Tracker!NoResponseForgotten
  <2>1. \A m : Proved!Answers(m) = Tracker!Answers(m)
    BY <1>1 DEF Proved!Answers, Tracker!Answers
  <2>. QED
    BY <1>1, <1>3, <1>5, <2>1
       DEF Proved!NoResponseForgotten, Tracker!NoResponseForgotten,
           Proved!MessageIds, Tracker!MessageIds
<1>. QED
  BY <1>6, <1>7, <1>8, <1>9, BotIsTracker, TrackerConstants, Proved!TrackedExist,
     Proved!TrackedAreFresh, Proved!TrackedAreComplete, Proved!NoneForgotten, PTL
=============================================================================
