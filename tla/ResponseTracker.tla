-------------------------- MODULE ResponseTracker --------------------------
(***************************************************************************)
(* What slackscot does with a message event: it answers new messages,      *)
(* keeps the answers' ids in a bounded cache keyed by the message they     *)
(* answer (triggeringMsgToResponse), and updates or deletes them when that *)
(* message is edited or deleted.  One step per cache operation and per API *)
(* call, so that handlers of different lanes interleave; events start in   *)
(* the order OrderedProcessing allows.                                     *)
(***************************************************************************)
EXTENDS OrderedProcessing, FiniteSets

CONSTANTS
    Actions,    \* the plugin actions, numbered in the order they are tried
    Ephemeral,  \* those that answer a given content with an ephemeral message
    CacheSize,  \* responseCacheSize
    Faults      \* which API calls may fail

(* A message says which actions answer it: all that routeMessage tells.    *)
ASSUME ActionsAssumption == Actions \subseteq Nat
ASSUME ContentsAssumption == Contents \subseteq SUBSET Actions
ASSUME EphemeralAssumption == Ephemeral \in [Contents -> SUBSET Actions]
ASSUME CacheSizeAssumption == CacheSize \in Nat \ {0}
ASSUME FaultsAssumption == Faults \subseteq {"send", "ack", "update", "delete"}

(* The message an action posted while event by was handled.                *)
Responses == [by : EventIds, action : Actions]

VARIABLES
    pc,       \* where the handler of an event is
    todo,     \* the actions whose answers it still has to send
    visited,  \* the responses its deletion loop went over
    entry,    \* newResponseByActionID, the map it builds
    held,     \* the event whose map it got from the cache, 0 if none
    updating, \* the response it looked up and is about to update
    moving,   \* the one it updated and has not removed from the old map yet
    deleting, \* the one its deletion loop got to and is about to delete
    cache,    \* triggeringMsgToResponse: the event whose map a key holds, or 0
    live,     \* the bot's messages visible on Slack
    text,     \* the event whose answer each of them shows
    lost      \* answers the bot does not track, for a cause (history): never
              \* sent, not acknowledged, not updated, not deleted, or evicted

handVars == <<updating, moving, deleting>>
trackerVars == <<pc, todo, visited, entry, held, handVars, cache, live, text, lost>>
allVars == <<received, active, done, trackerVars>>

TrackerTypeOK ==
    /\ OrderTypeOK
    /\ pc \in [EventIds -> {"waiting", "lookup", "sending", "responding", "removing", "finished"}]
    /\ todo \in [EventIds -> SUBSET Actions]
    /\ visited \in [EventIds -> SUBSET Responses]
    /\ entry \in [EventIds -> SUBSET Responses]
    /\ held \in [EventIds -> MessageIds]
    /\ updating \in [EventIds -> SUBSET Responses]
    /\ moving \in [EventIds -> SUBSET Responses]
    /\ deleting \in [EventIds -> SUBSET Responses]
    /\ cache \in [MessageIds -> MessageIds]
    /\ live \subseteq Responses
    /\ text \in [Responses -> MessageIds]
    /\ lost \subseteq Responses

TrackerInit ==
    /\ OrderInit
    /\ pc = [i \in EventIds |-> "waiting"]
    /\ todo = [i \in EventIds |-> {}]
    /\ visited = [i \in EventIds |-> {}]
    /\ entry = [i \in EventIds |-> {}]
    /\ held = [i \in EventIds |-> 0]
    /\ updating = [i \in EventIds |-> {}]
    /\ moving = [i \in EventIds |-> {}]
    /\ deleting = [i \in EventIds |-> {}]
    /\ cache = [m \in MessageIds |-> 0]
    /\ live = {}
    /\ text = [r \in Responses |-> 0]
    /\ lost = {}

First(S) == CHOOSE a \in S : \A b \in S : a <= b

(* The message a cache key stands for.  The answers to an edit of a        *)
(* message that is not in the cache are kept under the edit's own id.      *)
MessageOf(id) == IF id = 0 THEN 0 ELSE received[id].about

(* routeMessage: the actions that answer event i.  Which ones do is up to   *)
(* the plugins and the message, they are tried in a fixed order, and each   *)
(* gives one answer at most; a message of the bot's own has none.          *)
Triggered(i) == received[i].content

(* What action a answers to event i is for the eyes of one user.           *)
Private(i, a) == a \in Ephemeral[Triggered(i)]

-----------------------------------------------------------------------------
(* The response cache: an ARC of CacheSize entries, of which only the      *)
(* bound is kept, the policy choosing any victim.                          *)

CachedIds == {m \in MessageIds : cache[m] # 0}

Victims(id) == IF cache[id] # 0 \/ Cardinality(CachedIds) < CacheSize
               THEN {{}} ELSE {{m} : m \in CachedIds}

CacheAdd(id, i) ==
    \E victims \in Victims(id) :
        /\ cache' = [m \in MessageIds |-> IF m = id THEN i
                                          ELSE IF m \in victims THEN 0 ELSE cache[m]]
        /\ lost' = lost \cup UNION {entry[cache[m]] : m \in victims}

CacheRemove(id) == cache' = [cache EXCEPT ![id] = 0] /\ UNCHANGED lost

-----------------------------------------------------------------------------
(* processMessages hands the event to its handler; a new message is routed *)
(* to the plugins at once, and its answers are sent.                       *)

StartHandler(i) ==
    /\ pc' = [pc EXCEPT ![i] = CASE received[i].kind = "new" -> "sending"
                                 [] received[i].kind \in {"changed", "deleted"} -> "lookup"
                                 [] OTHER -> "finished"]
    /\ todo' = [todo EXCEPT ![i] = IF received[i].kind = "new" THEN Triggered(i) ELSE {}]
    /\ UNCHANGED <<visited, entry, held, handVars, cache, live, text, lost>>

(* processUpdatedMessage leaves early when the message is too old.         *)
IgnoreTooOld(i) ==
    /\ pc[i] = "lookup" /\ received[i].tooOld
    /\ pc' = [pc EXCEPT ![i] = "finished"]
    /\ UNCHANGED <<todo, visited, entry, held, handVars, cache, live, text, lost>>

(* The cache knows the edited or deleted message: its map is shared, not   *)
(* copied.                                                                 *)
FindResponses(i) ==
    /\ pc[i] = "lookup" /\ ~received[i].tooOld
    /\ cache[received[i].about] # 0
    /\ held' = [held EXCEPT ![i] = cache[received[i].about]]
    /\ IF received[i].kind = "changed"
       THEN /\ pc' = [pc EXCEPT ![i] = "responding"]
            /\ todo' = [todo EXCEPT ![i] = Triggered(i)]
       ELSE /\ pc' = [pc EXCEPT ![i] = "removing"]
            /\ UNCHANGED todo
    /\ UNCHANGED <<visited, entry, handVars, cache, live, text, lost>>

(* It does not: an edit is answered like a new message, a deletion ends.   *)
FindNothing(i) ==
    /\ pc[i] = "lookup" /\ ~received[i].tooOld
    /\ cache[received[i].about] = 0
    /\ IF received[i].kind = "changed"
       THEN /\ pc' = [pc EXCEPT ![i] = "sending"]
            /\ todo' = [todo EXCEPT ![i] = Triggered(i)]
       ELSE /\ pc' = [pc EXCEPT ![i] = "finished"]
            /\ UNCHANGED todo
    /\ UNCHANGED <<visited, entry, held, handVars, cache, live, text, lost>>

-----------------------------------------------------------------------------
(* The API calls: a call that fails may have had its effect ("ack").       *)

(* MUTANT of SendNew: ephemeral messages are kept.                         *)
SendNewKeepingAll(i, a) ==
    LET r == [by |-> i, action |-> a] IN
    /\ live' = live \cup {r}
    /\ text' = [text EXCEPT ![r] = i]
    /\ entry' = [entry EXCEPT ![i] = @ \cup {r}]
    /\ UNCHANGED lost

(* MUTANT of SendNew: the answers to edits are not kept.                   *)
SendNewUnrecorded(i, a) ==
    LET r == [by |-> i, action |-> a] IN
    /\ live' = live \cup {r}
    /\ text' = [text EXCEPT ![r] = i]
    /\ entry' = IF received[i].kind = "changed" THEN entry ELSE [entry EXCEPT ![i] = @ \cup {r}]
    /\ UNCHANGED lost

(* MUTANT of SendNew: the response is known by the edited message.         *)
SendNewByMessage(i, a) ==
    LET r == [by |-> received[i].about, action |-> a] IN
    /\ live' = live \cup {r}
    /\ text' = [text EXCEPT ![r] = i]
    /\ entry' = [entry EXCEPT ![i] = @ \cup {r}]
    /\ UNCHANGED lost

(* sendNewMessage.  The id of an ephemeral message is not modifiable and   *)
(* is not kept.                                                            *)
SendNew(i, a) ==
    LET r == [by |-> i, action |-> a] IN
    \/ /\ live' = live \cup {r}
       /\ text' = [text EXCEPT ![r] = i]
       /\ entry' = IF Private(i, a) THEN entry ELSE [entry EXCEPT ![i] = @ \cup {r}]
       /\ UNCHANGED lost
    \/ /\ "send" \in Faults
       /\ lost' = lost \cup {r}
       /\ UNCHANGED <<live, text, entry>>
    \/ /\ "ack" \in Faults
       /\ live' = live \cup {r}
       /\ text' = [text EXCEPT ![r] = i]
       /\ lost' = lost \cup {r}
       /\ UNCHANGED entry

(* Event i's answer is not shown, or not known to be.                      *)
UpdateMissed(i, r) == lost' = lost \cup {[by |-> i, action |-> r.action]}

(* MUTANT of UpdateResponse: its error is ignored.                         *)
UpdateUnchecked(i, r) ==
    /\ \/ text' = [text EXCEPT ![r] = i]
       \/ "update" \in Faults /\ UNCHANGED text
    /\ entry' = [entry EXCEPT ![i] = @ \cup {r}]
    /\ moving' = [moving EXCEPT ![i] = {r}]
    /\ UNCHANGED lost

(* updateExistingMessage, whatever the options of the new answer: an       *)
(* updated response goes into the new map, and is still in the old one;    *)
(* one whose update failed stays there only, and is deleted later on.      *)
UpdateResponse(i, r) ==
    \/ /\ r \in live
       /\ text' = [text EXCEPT ![r] = i]
       /\ entry' = [entry EXCEPT ![i] = @ \cup {r}]
       /\ moving' = [moving EXCEPT ![i] = {r}]
       /\ UNCHANGED lost
    \/ /\ "update" \in Faults \/ r \notin live
       /\ UpdateMissed(i, r)
       /\ UNCHANGED <<text, entry, moving>>
    \/ /\ "ack" \in Faults /\ r \in live
       /\ text' = [text EXCEPT ![r] = i]
       /\ UpdateMissed(i, r)
       /\ UNCHANGED <<entry, moving>>

(* DeleteMessage, whose error is ignored.                                  *)
DeleteResponse(r) ==
    \/ /\ live' = live \ {r}
       /\ UNCHANGED lost
    \/ /\ "delete" \in Faults
       /\ lost' = lost \cup {r}
       /\ UNCHANGED live

-----------------------------------------------------------------------------
(* The handlers' loops *)

(* A handler of an edit is between two steps of one answer, or of one      *)
(* deletion.                                                               *)
Busy(i) == updating[i] \cup moving[i] \cup deleting[i] # {}

(* cachedResponses[pluginActionID].  Only edits take responses out of a    *)
(* map, one at a time, so that none is there yet when a new one is sent.   *)
Previous(i, a) == {r \in entry[held[i]] : r.action = a}

SendOne(i) ==
    /\ pc[i] \in {"sending", "responding"} /\ todo[i] # {} /\ ~Busy(i)
    /\ LET a == First(todo[i]) IN
         /\ pc[i] = "responding" => Previous(i, a) = {}
         /\ SendNew(i, a)
         /\ todo' = [todo EXCEPT ![i] = @ \ {a}]
    /\ UNCHANGED <<pc, visited, held, handVars, cache>>

(* processUpdatedMessageWithCachedResponses, of an action that had an      *)
(* answer: the lookup, the call, and the removal from the old map, between *)
(* which a deletion in another lane may do anything.                       *)
LookUpOne(i) ==
    /\ pc[i] = "responding" /\ todo[i] # {} /\ ~Busy(i)
    /\ \E r \in Previous(i, First(todo[i])) : updating' = [updating EXCEPT ![i] = {r}]
    /\ UNCHANGED <<pc, todo, visited, entry, held, moving, deleting, cache, live, text, lost>>

UpdateOne(i) ==
    /\ \E r \in updating[i] :
         /\ UpdateResponse(i, r)
         /\ todo' = [todo EXCEPT ![i] = @ \ {r.action}]
    /\ updating' = [updating EXCEPT ![i] = {}]
    /\ UNCHANGED <<pc, visited, held, deleting, cache, live>>

(* MUTANT of RemoveOne: the response stays in the old map too.             *)
RemoveNone(i) ==
    /\ moving[i] # {}
    /\ moving' = [moving EXCEPT ![i] = {}]
    /\ UNCHANGED <<pc, todo, visited, entry, held, updating, deleting, cache, live, text, lost>>

RemoveOne(i) ==
    /\ moving[i] # {}
    /\ entry' = [entry EXCEPT ![held[i]] = @ \ moving[i]]
    /\ moving' = [moving EXCEPT ![i] = {}]
    /\ UNCHANGED <<pc, todo, visited, held, updating, deleting, cache, live, text, lost>>

(* The deletion loops range over the map the cache holds, whatever it      *)
(* holds when the loop gets there, in any order; the call comes after.     *)
ToDelete(i) == entry[held[i]] \ visited[i]

RangeOne(i) ==
    /\ pc[i] \in {"responding", "removing"} /\ todo[i] = {} /\ ~Busy(i)
    /\ \E r \in ToDelete(i) :
         /\ visited' = [visited EXCEPT ![i] = @ \cup {r}]
         /\ deleting' = [deleting EXCEPT ![i] = {r}]
    /\ UNCHANGED <<pc, todo, entry, held, updating, moving, cache, live, text, lost>>

DeleteOne(i) ==
    /\ \E r \in deleting[i] :
         /\ DeleteResponse(r)
         /\ deleting' = [deleting EXCEPT ![i] = @ \ {r}]
    /\ UNCHANGED <<pc, todo, visited, entry, held, updating, moving, cache, text>>

(* MUTANT of StoreSent: the key is the channel without the timestamp.      *)
StoreByChannel(i) ==
    /\ pc[i] = "sending" /\ todo[i] = {}
    /\ IF entry[i] # {} THEN CacheAdd(0, i) ELSE UNCHANGED <<cache, lost>>
    /\ pc' = [pc EXCEPT ![i] = "finished"]
    /\ UNCHANGED <<todo, visited, entry, held, handVars, live, text>>

(* sendOutgoingMessages keeps the answers under the event's own id.        *)
StoreSent(i) ==
    /\ pc[i] = "sending" /\ todo[i] = {}
    /\ IF entry[i] # {} THEN CacheAdd(i, i) ELSE UNCHANGED <<cache, lost>>
    /\ pc' = [pc EXCEPT ![i] = "finished"]
    /\ UNCHANGED <<todo, visited, entry, held, handVars, live, text>>

(* The end of processUpdatedMessageWithCachedResponses.                    *)
ReplaceResponses(i) ==
    /\ pc[i] = "responding" /\ todo[i] = {} /\ ToDelete(i) = {} /\ ~Busy(i)
    /\ IF entry[i] # {} THEN CacheAdd(received[i].about, i) ELSE CacheRemove(received[i].about)
    /\ pc' = [pc EXCEPT ![i] = "finished"]
    /\ UNCHANGED <<todo, visited, entry, held, handVars, live, text>>

(* MUTANT of ForgetResponses: the entry of the deleted message stays.      *)
ForgetNothing(i) ==
    /\ pc[i] = "removing" /\ ToDelete(i) = {} /\ ~Busy(i)
    /\ pc' = [pc EXCEPT ![i] = "finished"]
    /\ UNCHANGED <<todo, visited, entry, held, handVars, cache, live, text, lost>>

(* MUTANT of ForgetResponses: the deletion loop may stop early.            *)
ForgetEarly(i) ==
    /\ pc[i] = "removing" /\ ~Busy(i)
    /\ CacheRemove(received[i].about)
    /\ pc' = [pc EXCEPT ![i] = "finished"]
    /\ UNCHANGED <<todo, visited, entry, held, handVars, live, text>>

(* The end of processDeletedMessage.                                       *)
ForgetResponses(i) ==
    /\ pc[i] = "removing" /\ ToDelete(i) = {} /\ ~Busy(i)
    /\ CacheRemove(received[i].about)
    /\ pc' = [pc EXCEPT ![i] = "finished"]
    /\ UNCHANGED <<todo, visited, entry, held, handVars, live, text>>

HandlerStep(i) ==
    \/ IgnoreTooOld(i) \/ FindResponses(i) \/ FindNothing(i)
    \/ SendOne(i) \/ LookUpOne(i) \/ UpdateOne(i) \/ RemoveOne(i)
    \/ RangeOne(i) \/ DeleteOne(i)
    \/ StoreSent(i) \/ ReplaceResponses(i) \/ ForgetResponses(i)

-----------------------------------------------------------------------------
ReceiveEvent(e) == Receive(e) /\ UNCHANGED trackerVars
BeginEvent(i) == Begin(i) /\ StartHandler(i)
Step(i) == HandlerStep(i) /\ UNCHANGED orderVars
FinishEvent(i) == pc[i] = "finished" /\ Finish(i) /\ UNCHANGED trackerVars

(* Every event the behaviour is bounded to was handled.                    *)
AllHandled == done = EventIds /\ UNCHANGED allVars

TrackerNext ==
    \/ \E e \in Events : ReceiveEvent(e)
    \/ \E i \in EventIds : BeginEvent(i) \/ Step(i) \/ FinishEvent(i)
    \/ AllHandled

TrackerSpec == TrackerInit /\ [][TrackerNext]_allVars

-----------------------------------------------------------------------------
(* Properties.  A response is tracked when a map of the cache holds it.    *)

Tracked(m) == UNION {entry[cache[id]] : id \in {k \in CachedIds : MessageOf(k) = m}}

Answers(m) == {r \in live : MessageOf(r.by) = m /\ ~Private(r.by, r.action)}

(* No handler of an event about m is at work.                              *)
Quiet(m) == \A i \in active : received[i].about # m

(* The deletion of m is handled after what was received about m before it, *)
(* which the router only provides when they fall in the same partition.    *)
DeletionInLane(m) ==
    \A i \in 1..Len(received) :
        (received[i].kind = "deleted" /\ received[i].about = m) => Lane[i] = Lane[m]

(* Under a cached key there are only messages that answered the message of *)
(* that key, at most one per action, and none that cannot be modified: an  *)
(* edit never touches the answers to another message (sendOutgoingMessages *)
(* and processUpdatedMessageWithCachedResponses), however handlers         *)
(* interleave.                                                             *)
EntriesBelongToTheirKey ==
    \A id \in CachedIds : \A r \in entry[cache[id]] :
        /\ MessageOf(r.by) = MessageOf(id)
        /\ ~Private(r.by, r.action)
        /\ \A s \in entry[cache[id]] : s.action = r.action => s = r

(* Between two handlers, what the cache tracks exists on Slack, so that no *)
(* later edit updates a deleted message.  A deletion in another lane may   *)
(* run while an edit of the message does, delete a response between its    *)
(* update and its removal from the old map, and leave it tracked.          *)
TrackedResponsesExist ==
    \A m \in MessageIds : Quiet(m) /\ DeletionInLane(m) => Tracked(m) \subseteq live

(* Between two handlers, a response on Slack is tracked unless it was lost *)
(* for one of the known causes: no path of the handlers forgets one.       *)
NoResponseForgotten ==
    \A m \in MessageIds : Quiet(m) /\ DeletionInLane(m) => Answers(m) \subseteq Tracked(m) \cup lost

(* The last edit of m, or m itself, that the bot handled.                  *)
LastHandled(m) ==
    LET about == {i \in done : /\ received[i].about = m /\ ~received[i].tooOld
                               /\ received[i].kind \in {"new", "changed"}}
    IN  CHOOSE i \in about : \A j \in about : j <= i

(* Between two handlers, the responses kept under a message's own id are   *)
(* the answers to its latest version, of actions that still answer it,     *)
(* whatever call failed in between: one whose update failed is not kept.   *)
TrackedResponsesAreFresh ==
    \A m \in CachedIds :
        Quiet(m) /\ MessageOf(m) = m =>
            \A r \in entry[cache[m]] : /\ text[r] = LastHandled(m)
                                      /\ r.action \in Triggered(LastHandled(m))

(* They are the answers of all those actions, but for those whose own call *)
(* failed: an edit adds the missing ones and keeps the others, whatever    *)
(* became of one of them (README, "Update responses for each triggered     *)
(* action").                                                               *)
TrackedResponsesAreComplete ==
    \A m \in CachedIds :
        Quiet(m) /\ MessageOf(m) = m =>
            LET last == LastHandled(m)
            IN  {a \in Triggered(last) : /\ ~Private(last, a)
                                        /\ [by |-> last, action |-> a] \notin lost}
                    \subseteq {r.action : r \in entry[cache[m]]}

(* Once the deletion of a message was handled, the cache never again holds *)
(* answers under that message's id.                                        *)
DeletedMessageForgotten ==
    \A i \in done : received[i].kind = "deleted" /\ DeletionInLane(received[i].about)
        => cache[received[i].about] = 0

(* Two handlers at work never hold the same map of responses, one ranging  *)
(* over it while the other changes it, unless the deletion of a message    *)
(* fell in another lane than the message.                                  *)
MapsNotShared ==
    \A i, j \in active :
        i # j /\ held[i] # 0 /\ held[i] = held[j] /\ pc[i] # "finished" /\ pc[j] # "finished"
            => ~DeletionInLane(received[i].about)

(* The bot removes a response only while it handles an edit or a deletion  *)
(* of the message that response answers.                                   *)
RemovedForItsMessage ==
    [][\A r \in live \ live' :
         \E i \in active : /\ received[i].about = MessageOf(r.by)
                          /\ received[i].kind \in {"changed", "deleted"}]_allVars

(* answer.go: AnswerEphemeral "sends the answer as an ephemeral message":   *)
(* an answer for one user is shown by no message the others see.           *)
EphemeralAnswersStayPrivate ==
    \A r \in live : Private(text[r], r.action) => Private(r.by, r.action)

(* README: "On deletion of triggering messages, responses are also         *)
(* deleted".                                                               *)
DeletedMessageHasNoResponses ==
    \A i \in done : received[i].kind = "deleted" => Answers(received[i].about) = {}
=============================================================================
