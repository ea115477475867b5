----------------------------- MODULE Slackscot -----------------------------
(***************************************************************************)
(* The whole message path: the main loop and its partition workers         *)
(* (PartitionRouter) running the handlers of ResponseTracker.  A worker's  *)
(* processing of an event is the handler's steps on the shared response    *)
(* cache and on Slack.                                                     *)
(***************************************************************************)
EXTENDS PartitionRouter

CONSTANTS Actions, Ephemeral, CacheSize, Faults  \* as in ResponseTracker

ASSUME HandlerAssumption ==
    /\ Actions \subseteq Nat /\ Contents \subseteq SUBSET Actions
    /\ Ephemeral \in [Contents -> SUBSET Actions]
    /\ CacheSize \in Nat \ {0}
    /\ Faults \subseteq {"send", "ack", "update", "delete"}

VARIABLES pc, todo, visited, entry, held, updating, moving, deleting, cache, live, text, lost

(* The tracker, its lanes being the partitions and its active events those *)
(* the workers have in hand.                                               *)
Tracker == INSTANCE ResponseTracker
    WITH Lane <- [m \in MessageIds |-> PartitionForMsgID(m)], active <- Active

handlerVars ==
    <<pc, todo, visited, entry, held, <<updating, moving, deleting>>, cache, live, text, lost>>
botVars == <<vars, handlerVars>>

BotInit ==
    /\ Init
    /\ Tracker!TrackerInit

(* A worker receives an event from its queue and hands it to its handler.  *)
TakeAndStart(p) == Take(p) /\ Tracker!StartHandler(Head(queue[p]))

(* processUpdatedMessage, processDeletedMessage and processNewMessage run. *)
Process(p) ==
    /\ Alive /\ worker[p] = "processing"
    /\ Tracker!HandlerStep(current[p])
    /\ UNCHANGED vars

(* MUTANT of StopProcessing: the handler is not waited for.                *)
StopWithoutWaiting(p) ==
    /\ worker[p] = "processing"
    /\ FinishOne(p)
    /\ UNCHANGED handlerVars

(* The handler returns and the worker ranges over its queue again.         *)
StopProcessing(p) ==
    /\ worker[p] = "processing" /\ pc[current[p]] = "finished"
    /\ FinishOne(p)
    /\ UNCHANGED handlerVars

(* The steps of the main loop, of the end of a worker and of the process.  *)
RouterStep ==
    /\ \/ \E e \in Events : Receive(e)
       \/ Enqueue \/ Abort \/ Goodbye \/ CloseQueue \/ Join \/ Terminate
       \/ \E p \in Partitions : EndOfQueue(p)
       \/ SignalArrives \/ SignalTerminates \/ Exit \/ Exited
    /\ UNCHANGED handlerVars

BotNext ==
    \/ RouterStep
    \/ \E p \in Partitions : TakeAndStart(p) \/ Process(p) \/ StopProcessing(p)

BotSpec == BotInit /\ [][BotNext]_botVars

(* As in PartitionRouter; the API calls of a handler return.               *)
BotFairness ==
    /\ WF_botVars(Enqueue /\ UNCHANGED handlerVars)
    /\ WF_botVars((CloseQueue \/ Join) /\ UNCHANGED handlerVars)
    /\ WF_botVars(Terminate /\ UNCHANGED handlerVars)
    /\ WF_botVars(SignalTerminates /\ UNCHANGED handlerVars)
    /\ \A p \in Partitions :
         WF_botVars(\/ TakeAndStart(p) \/ Process(p) \/ StopProcessing(p)
                    \/ EndOfQueue(p) /\ UNCHANGED handlerVars)

FairBotSpec == BotSpec /\ BotFairness

-----------------------------------------------------------------------------
(* Properties *)

(* The composition handles events in an order the tracker was checked for: *)
(* every step of the bot is a step of the tracker or leaves it alone.      *)
HandlersRunInOrder == Tracker!TrackerSpec

(* No two workers hold the same map of responses, as the tracker has it.   *)
NoSharedMap == Tracker!MapsNotShared

(* When no call fails, every action a new message triggers answers it in   *)
(* the end, unless the process exits: no answer is stuck behind another    *)
(* partition, a full queue or the closing of the queues.                   *)
EveryMessageAnswered ==
    \A i \in EventIds : \A a \in Actions :
        (i <= Len(received) /\ received[i].kind = "new" /\ a \in received[i].content)
            ~> (text[[by |-> i, action |-> a]] # 0 \/ ~Alive)
=============================================================================
