------------------------ MODULE ResponseTracker_proofs -----------------------
(***************************************************************************)
(* Whatever the lanes, the actions, the size of the cache, the calls that  *)
(* fail and the handlers that interleave: a handler only ever has, keeps   *)
(* and removes responses to the message its event is about.                *)
(***************************************************************************)
EXTENDS ResponseTracker, WellFoundedInduction, TLAPS

USE DEF EventIds, MessageIds
USE MaxEventsAssumption, ContentsAssumption

Ids == 1..Len(received)

(* Every event is about its own message, or about one that was posted and  *)
(* came before it; only an edit is too old.                                *)
EventsWellFormed ==
    \A i \in Ids :
        /\ received[i].kind \in {"new", "other"} => received[i].about = i
        /\ received[i].kind \in {"changed", "deleted"} /\ received[i].about # 0 =>
              received[i].about \in Ids /\ received[received[i].about].kind = "new"
        /\ received[i].tooOld => received[i].kind = "changed"

(* What a handler does fits its event, and it has a map where it needs one. *)
Phases ==
    \A i \in EventIds :
        /\ pc[i] = "waiting" <=> i \notin active \cup done
        /\ i \in done => pc[i] = "finished"
        /\ pc[i] = "lookup" => received[i].kind \in {"changed", "deleted"}
        /\ pc[i] = "sending" => received[i].kind \in {"new", "changed"}
        /\ pc[i] = "responding" => received[i].kind = "changed"
        /\ pc[i] = "removing" => received[i].kind = "deleted"
        /\ pc[i] \in {"responding", "removing"} => held[i] # 0

(* The map a handler got from the cache is of its own message.             *)
HeldBelongs ==
    \A i \in EventIds : held[i] # 0 =>
        i \in Ids /\ held[i] \in Ids /\ received[held[i]].about = received[i].about

(* A map has answers to one message, one per action, of those actions its  *)
(* handler is through with.                                                *)
EntriesBelong ==
    \A i \in EventIds :
        /\ pc[i] \in {"waiting", "lookup"} => entry[i] = {}
        /\ \A r \in entry[i] :
             /\ i \in Ids /\ r.by \in Ids
             /\ received[r.by].about = received[i].about
             /\ ~Private(r.by, r.action)
             /\ r.action \notin todo[i]
             /\ \A s \in entry[i] : s.action = r.action => s = r

(* A response a handler is about to update, move or delete answers its own *)
(* message, and the handler is about one of the three.                     *)
InHand ==
    \A i \in EventIds :
        /\ updating[i] \cup moving[i] # {} => pc[i] = "responding"
        /\ deleting[i] # {} => pc[i] \in {"responding", "removing"}
        /\ \A r \in updating[i] \cup moving[i] \cup deleting[i] :
             /\ r.by \in Ids /\ received[r.by].about = received[i].about
             /\ ~Private(r.by, r.action)
        /\ \A r \in updating[i] : r.action \in todo[i]
        /\ updating[i] = {} \/ moving[i] = {}
        /\ deleting[i] # {} => updating[i] = {} /\ moving[i] = {}

(* A key of the cache has a map of its own message.                        *)
CacheBelongs ==
    \A id \in MessageIds : cache[id] # 0 =>
        /\ cache[id] \in Ids /\ id \in Ids \cup {0}
        /\ received[cache[id]].about = MessageOf(id)

TrackerInv ==
    /\ TrackerTypeOK
    /\ EventsWellFormed
    /\ Phases
    /\ HeldBelongs
    /\ EntriesBelong
    /\ InHand
    /\ CacheBelongs

(* The first of some actions is one of them.                               *)
LEMMA FirstIsOne == ASSUME NEW S, S \subseteq Actions, S # {} PROVE First(S) \in S
<1>1. PICK a \in S : \A b \in S : <<b, a>> \notin OpToRel(<, Nat)
  BY ActionsAssumption, NatLessThanWellFounded, WFMin, Zenon
<1>2. \A b \in S : ~(b < a)
  <2>. TAKE b \in S
  <2>1. <<b, a>> \in Nat \X Nat /\ <<b, a>>[1] = b /\ <<b, a>>[2] = a
    BY ActionsAssumption
  <2>. QED
    BY <1>1, <2>1, Zenon DEF OpToRel
<1>3. \A b \in S : a <= b
  BY <1>2, ActionsAssumption, SMT
<1>. QED
  BY <1>3 DEF First

(* What an event that was received looks like.                             *)
LEMMA EventType ==
    ASSUME OrderTypeOK, NEW i \in Ids
    PROVE  /\ i \in EventIds
           /\ received[i].about \in MessageIds
           /\ received[i].kind \in Kinds
           /\ received[i].tooOld \in BOOLEAN
           /\ Triggered(i) \subseteq Actions
<1>1. received[i] \in Events /\ Len(received) \in Nat /\ Len(received) <= MaxEvents
  BY DEF OrderTypeOK, Ids
<1>. QED
  BY <1>1 DEF Events, Ids, Triggered

(* The message an event is about is about itself.                          *)
LEMMA AboutItself ==
    ASSUME OrderTypeOK, EventsWellFormed, NEW i \in Ids
    PROVE  /\ received[i].about \in Ids \cup {0}
           /\ MessageOf(received[i].about) = received[i].about
<1>1. received[i].kind \in Kinds /\ received[i].about \in MessageIds
  BY EventType
<1>2. CASE received[i].kind \in {"new", "other"}
  BY <1>1, <1>2 DEF EventsWellFormed, MessageOf, Ids
<1>3. CASE received[i].kind \in {"changed", "deleted"}
  BY <1>1, <1>3 DEF EventsWellFormed, MessageOf, Ids
<1>. QED
  BY <1>1, <1>2, <1>3 DEF Kinds

LEMMA TrackerInvInit == TrackerInit => TrackerInv
<1>. SUFFICES ASSUME TrackerInit PROVE TrackerInv
  OBVIOUS
<1>1. Ids = {} /\ OrderTypeOK
  BY DEF TrackerInit, OrderInit, OrderTypeOK, Ids
<1>2. TrackerTypeOK
  BY <1>1 DEF TrackerInit, TrackerTypeOK, Responses
<1>. QED
  BY <1>1, <1>2 DEF TrackerInit, OrderInit, TrackerInv, EventsWellFormed, Phases, HeldBelongs,
                    EntriesBelong, InHand, CacheBelongs, Ids

(* What a handler that is at work knows.                                   *)
LEMMA AtWork ==
    ASSUME TrackerInv, NEW i \in EventIds,
           pc[i] \in {"lookup", "sending", "responding", "removing"}
    PROVE  i \in Ids /\ i \in active /\ i \notin done
BY DEF TrackerInv, TrackerTypeOK, OrderTypeOK, Phases, Ids

-----------------------------------------------------------------------------
(* One lemma per action *)

LEMMA InvReceive == ASSUME TrackerInv, NEW e \in Events, ReceiveEvent(e) PROVE TrackerInv'
<1>. DEFINE n == Len(received) + 1
<1>. USE DEF TrackerInv
<1>1. /\ received \in Seq(Events) /\ received' = Append(received, e)
      /\ Len(received) < MaxEvents /\ e \in Deliverable(received)
      /\ UNCHANGED <<active, done, trackerVars>>
  BY DEF ReceiveEvent, Receive, TrackerTypeOK, OrderTypeOK
<1>2. /\ n \in Nat /\ Len(received') = n /\ received'[n] = e
      /\ \A k \in Ids : received'[k] = received[k]
      /\ Ids' = Ids \cup {n} /\ n \in EventIds
      /\ received' \in Seq(Events)
  BY <1>1 DEF Ids
<1>3. CanFollow(received, e)
  BY <1>1 DEF Deliverable
<1>4. TrackerTypeOK'
  <2>1. OrderTypeOK'
    <3>1. active \subseteq Ids' /\ done \subseteq Ids'
      BY <1>2 DEF TrackerTypeOK, OrderTypeOK, Ids
    <3>. QED
      BY <1>1, <1>2, <3>1 DEF OrderTypeOK, Ids
  <2>. QED
    BY <1>1, <2>1 DEF TrackerTypeOK, trackerVars, handVars, Responses
<1>5. EventsWellFormed'
  <2>. SUFFICES ASSUME NEW i \in Ids'
                PROVE  /\ received'[i].kind \in {"new", "other"} => received'[i].about = i
                       /\ received'[i].kind \in {"changed", "deleted"} /\ received'[i].about # 0 =>
                            /\ received'[i].about \in Ids'
                            /\ received'[received'[i].about].kind = "new"
                       /\ received'[i].tooOld => received'[i].kind = "changed"
    BY DEF EventsWellFormed
  <2>1. CASE i \in Ids
    BY <1>2, <2>1 DEF EventsWellFormed
  <2>2. CASE i = n
    <3>1. e.kind \in Kinds /\ e.about \in MessageIds
      BY DEF Events
    <3>2. CASE e.kind \in {"new", "other"}
      BY <1>2, <1>3, <2>2, <3>2 DEF CanFollow
    <3>3. CASE e.kind \in {"changed", "deleted"}
      <4>1. e.about # 0 => e.about \in Ids /\ received[e.about].kind = "new"
        BY <1>2, <1>3, <3>1, <3>3 DEF CanFollow, Ids
      <4>2. e.tooOld => e.kind = "changed"
        BY <1>3 DEF CanFollow
      <4>. QED
        BY <1>2, <2>2, <3>3, <4>1, <4>2
    <3>. QED
      BY <1>2, <2>2, <3>1, <3>2, <3>3 DEF Kinds
  <2>. QED
    BY <1>2, <2>1, <2>2
<1>6. \A i \in EventIds : pc[i] \notin {"waiting", "finished"} => i \in Ids
  BY AtWork DEF TrackerTypeOK
<1>7. Phases'
  BY <1>1, <1>2, <1>6 DEF Phases, trackerVars
<1>8. HeldBelongs'
  BY <1>1, <1>2 DEF HeldBelongs, trackerVars
<1>9. EntriesBelong'
  <2>1. \A r \in Responses : r.by \in Ids => (Private(r.by, r.action)' <=> Private(r.by, r.action))
    BY <1>1, <1>2 DEF Private, Triggered
  <2>2. \A i \in EventIds : entry[i] \subseteq Responses
    BY DEF TrackerTypeOK
  <2>3. \A i \in EventIds : \A r \in entry[i] :
           /\ i \in Ids' /\ r.by \in Ids'
           /\ received'[r.by].about = received'[i].about
           /\ ~Private(r.by, r.action)'
           /\ r.action \notin todo[i]
           /\ \A s \in entry[i] : s.action = r.action => s = r
    BY <1>2, <2>1, <2>2 DEF EntriesBelong
  <2>. QED
    BY <1>1, <2>3 DEF EntriesBelong, trackerVars
<1>10. CacheBelongs'
  BY <1>1, <1>2 DEF CacheBelongs, MessageOf, trackerVars, Ids
<1>11. InHand'
  <2>1. \A i \in EventIds : pc[i] \in {"responding", "removing"} => i \in Ids
    BY <1>6
  <2>2. \A i \in Ids : /\ received'[i].about = received[i].about
                        /\ \A b : Private(i, b)' <=> Private(i, b)
    BY <1>2 DEF Private, Triggered
  <2>3. UNCHANGED <<pc, todo, updating, moving, deleting>>
    BY <1>1 DEF trackerVars, handVars
  <2>. QED
    BY <1>2, <2>1, <2>2, <2>3 DEF InHand
<1>. QED
  BY <1>4, <1>5, <1>7, <1>8, <1>9, <1>10, <1>11

(* A step of which the events received, the maps and the cache know        *)
(* nothing, or less.                                                       *)
LEMMA InvKept ==
    ASSUME TrackerInv, UNCHANGED received, TrackerTypeOK', Phases', InHand',
           \A i \in EventIds : held'[i] = held[i] \/ held'[i] = 0,
           \A i \in EventIds : entry'[i] \subseteq entry[i],
           \A i \in EventIds : entry[i] = {} \/ todo'[i] \subseteq todo[i],
           \A i \in EventIds : pc'[i] \in {"waiting", "lookup"} => pc[i] \in {"waiting", "lookup"},
           \A id \in MessageIds : cache'[id] \in {cache[id], 0}
    PROVE  TrackerInv'
<1>. USE DEF TrackerInv
<1>1. Ids' = Ids
  BY DEF Ids
<1>2. EventsWellFormed'
  BY <1>1 DEF EventsWellFormed
<1>3. HeldBelongs'
  BY <1>1 DEF HeldBelongs
<1>4. \A i, a : Private(i, a)' <=> Private(i, a)
  BY DEF Private, Triggered
<1>5. EntriesBelong'
  BY <1>1, <1>4 DEF EntriesBelong
<1>6. CacheBelongs'
  BY <1>1 DEF CacheBelongs, MessageOf
<1>. QED
  BY <1>2, <1>3, <1>5, <1>6

(* A step after which handlers have no more in hand than before.           *)
LEMMA HandKept ==
    ASSUME TrackerInv, UNCHANGED received,
           \A i \in EventIds : /\ updating'[i] \subseteq updating[i]
                               /\ moving'[i] \subseteq moving[i]
                               /\ deleting'[i] \subseteq deleting[i],
           \A i \in EventIds : Busy(i) => pc'[i] = pc[i],
           \A i \in EventIds : updating'[i] = {} \/ todo'[i] = todo[i]
    PROVE  InHand'
<1>1. Ids' = Ids /\ \A i, a : Private(i, a)' <=> Private(i, a)
  BY DEF Ids, Private, Triggered
<1>2. \A i \in EventIds : Busy(i) <=> updating[i] # {} \/ moving[i] # {} \/ deleting[i] # {}
  BY DEF Busy
<1>. QED
  BY <1>1, <1>2 DEF TrackerInv, InHand

(* In particular, one that leaves what they have in hand alone.            *)
LEMMA HandUnchanged ==
    ASSUME TrackerInv, UNCHANGED <<received, handVars>>, NEW i \in EventIds, ~Busy(i),
           \A j \in EventIds : j # i => pc'[j] = pc[j] /\ todo'[j] = todo[j]
    PROVE  InHand'
<1>1. UNCHANGED <<updating, moving, deleting>>
  BY DEF handVars
<1>2. updating[i] = {}
  BY DEF Busy
<1>. QED
  BY <1>1, <1>2, HandKept

(* A handler that does not respond or remove has nothing in hand.          *)
LEMMA NothingInHand ==
    ASSUME TrackerInv, NEW i \in EventIds, pc[i] \notin {"responding", "removing"}
    PROVE  ~Busy(i)
BY DEF TrackerInv, InHand, Busy

LEMMA InvBegin == ASSUME TrackerInv, NEW i \in EventIds, BeginEvent(i) PROVE TrackerInv'
<1>. USE DEF TrackerInv
<1>1. /\ i \in Ids /\ i \notin active \cup done
      /\ active' = active \cup {i} /\ UNCHANGED <<received, done>>
  BY DEF BeginEvent, Begin, Ready, Ids
<1>2. /\ received[i].kind \in Kinds /\ Triggered(i) \subseteq Actions
  BY <1>1, EventType DEF TrackerTypeOK
<1>3. /\ pc[i] = "waiting" /\ entry[i] = {}
  BY <1>1 DEF Phases, EntriesBelong
<1>4. /\ pc' = [pc EXCEPT ![i] = CASE received[i].kind = "new" -> "sending"
                                   [] received[i].kind \in {"changed", "deleted"} -> "lookup"
                                   [] OTHER -> "finished"]
      /\ todo' = [todo EXCEPT ![i] = IF received[i].kind = "new" THEN Triggered(i) ELSE {}]
      /\ UNCHANGED <<visited, entry, held, handVars, cache, live, text, lost>>
  BY DEF BeginEvent, StartHandler
<1>5. /\ pc'[i] \in {"sending", "lookup", "finished"}
      /\ pc'[i] = "sending" => received[i].kind = "new"
      /\ pc'[i] = "lookup" => received[i].kind \in {"changed", "deleted"}
      /\ \A j \in EventIds : j # i => pc'[j] = pc[j] /\ todo'[j] = todo[j]
      /\ pc' \in [EventIds -> {"waiting", "lookup", "sending", "responding", "removing", "finished"}]
  BY <1>2, <1>4 DEF TrackerTypeOK, Kinds
<1>6. TrackerTypeOK'
  BY <1>1, <1>2, <1>4, <1>5 DEF TrackerTypeOK, OrderTypeOK, handVars, Ids
<1>7. Phases'
  BY <1>1, <1>4, <1>5 DEF Phases, TrackerTypeOK, OrderTypeOK
<1>8. InHand'
  BY <1>1, <1>3, <1>4, <1>5, NothingInHand, HandUnchanged DEF TrackerTypeOK
<1>. QED
  BY <1>1, <1>3, <1>4, <1>5, <1>6, <1>7, <1>8, InvKept

LEMMA InvFinish == ASSUME TrackerInv, NEW i \in EventIds, FinishEvent(i) PROVE TrackerInv'
<1>. USE DEF TrackerInv
<1>1. /\ pc[i] = "finished" /\ i \in active
      /\ active' = active \ {i} /\ done' = done \cup {i}
      /\ UNCHANGED <<received, trackerVars>>
  BY DEF FinishEvent, Finish
<1>2. TrackerTypeOK'
  BY <1>1 DEF TrackerTypeOK, OrderTypeOK, trackerVars, handVars
<1>3. Phases'
  BY <1>1 DEF Phases, trackerVars
<1>4. InHand'
  BY <1>1, HandKept DEF trackerVars, handVars
<1>. QED
  BY <1>1, <1>2, <1>3, <1>4, InvKept DEF trackerVars

(* The steps of a handler.                                                 *)

LEMMA InvLookup ==
    ASSUME TrackerInv, NEW i \in EventIds, UNCHANGED orderVars,
           IgnoreTooOld(i) \/ FindResponses(i) \/ FindNothing(i)
    PROVE  TrackerInv'
<1>. USE DEF TrackerInv
<1>. DEFINE m == received[i].about
<1>1. /\ pc[i] = "lookup" /\ entry[i] = {} /\ UNCHANGED <<received, active, done>>
      /\ UNCHANGED <<visited, entry, handVars, cache, live, text, lost>>
  BY DEF IgnoreTooOld, FindResponses, FindNothing, EntriesBelong, orderVars
<1>2. /\ i \in Ids /\ i \in active /\ i \notin done
      /\ received[i].kind \in {"changed", "deleted"} /\ m \in MessageIds
      /\ Triggered(i) \subseteq Actions
  BY <1>1, AtWork, EventType DEF TrackerTypeOK, Phases
<1>3. /\ pc'[i] \in {"finished", "responding", "removing", "sending"}
      /\ pc'[i] \in {"responding", "sending"} => received[i].kind = "changed"
      /\ pc'[i] = "removing" => received[i].kind = "deleted"
      /\ pc'[i] \in {"responding", "removing"} => held'[i] # 0
      /\ held'[i] \in {held[i], cache[m]}
      /\ todo'[i] \in {todo[i], Triggered(i)}
      /\ \A j \in EventIds : j # i =>
           pc'[j] = pc[j] /\ todo'[j] = todo[j] /\ held'[j] = held[j]
      /\ pc' \in [EventIds -> {"waiting", "lookup", "sending", "responding", "removing", "finished"}]
      /\ todo' \in [EventIds -> SUBSET Actions] /\ held' \in [EventIds -> MessageIds]
  <2>1. CASE IgnoreTooOld(i)
    BY <1>2, <2>1 DEF IgnoreTooOld, TrackerTypeOK
  <2>2. CASE FindResponses(i)
    BY <1>2, <2>2 DEF FindResponses, TrackerTypeOK
  <2>3. CASE FindNothing(i)
    <3>1. /\ pc \in [EventIds -> {"waiting", "lookup", "sending", "responding", "removing", "finished"}]
          /\ todo \in [EventIds -> SUBSET Actions] /\ held \in [EventIds -> MessageIds]
      BY DEF TrackerTypeOK
    <3>2. UNCHANGED held
      BY <2>3 DEF FindNothing
    <3>3. CASE received[i].kind = "changed"
      BY <1>2, <2>3, <3>1, <3>2, <3>3 DEF FindNothing
    <3>4. CASE received[i].kind # "changed"
      BY <1>2, <2>3, <3>1, <3>2, <3>4 DEF FindNothing
    <3>. QED
      BY <3>3, <3>4
  <2>. QED
    BY <2>1, <2>2, <2>3
<1>4. Ids' = Ids /\ \A j, a : Private(j, a)' <=> Private(j, a)
  BY <1>1 DEF Ids, Private, Triggered
<1>5. TrackerTypeOK'
  BY <1>1, <1>3 DEF TrackerTypeOK, OrderTypeOK, handVars
<1>6. EventsWellFormed' /\ CacheBelongs'
  BY <1>1, <1>4 DEF EventsWellFormed, CacheBelongs, MessageOf
<1>7. Phases'
  BY <1>1, <1>2, <1>3 DEF Phases
<1>8. HeldBelongs'
  <2>1. cache[m] # 0 => cache[m] \in Ids /\ received[cache[m]].about = m
    BY <1>2, AboutItself DEF CacheBelongs, TrackerTypeOK
  <2>. SUFFICES ASSUME NEW j \in EventIds, held'[j] # 0
                PROVE  j \in Ids /\ held'[j] \in Ids /\ received[held'[j]].about = received[j].about
    BY <1>1, <1>4 DEF HeldBelongs
  <2>2. CASE held'[j] = held[j]
    BY <2>2 DEF HeldBelongs
  <2>3. CASE j = i /\ held'[j] = cache[m]
    BY <1>2, <2>1, <2>3
  <2>. QED
    BY <1>3, <2>2, <2>3
<1>9. EntriesBelong'
  BY <1>1, <1>3, <1>4 DEF EntriesBelong
<1>10. InHand'
  BY <1>1, <1>3, NothingInHand, HandUnchanged
<1>. QED
  BY <1>5, <1>6, <1>7, <1>8, <1>9, <1>10

(* A handler that is through with action a gets response r into its map at *)
(* most; other maps get nothing.                                           *)
LEMMA InvAnswered ==
    ASSUME TrackerInv, NEW i \in EventIds, UNCHANGED orderVars,
           pc[i] \in {"sending", "responding"}, NEW a \in todo[i], NEW r \in Responses,
           UNCHANGED <<pc, held, cache>>, todo' = [todo EXCEPT ![i] = @ \ {a}],
           TrackerTypeOK', InHand',
           r.by \in Ids, r.action = a, received[r.by].about = received[i].about,
           ~Private(r.by, a), entry'[i] \subseteq entry[i] \cup {r},
           \A j \in EventIds : j # i => entry'[j] \subseteq entry[j]
    PROVE  TrackerInv'
<1>. USE DEF TrackerInv
<1>1. i \in Ids /\ UNCHANGED <<received, active, done>>
  BY AtWork DEF orderVars
<1>2. Ids' = Ids /\ \A j, b : Private(j, b)' <=> Private(j, b)
  BY <1>1 DEF Ids, Private, Triggered
<1>3. EventsWellFormed' /\ HeldBelongs' /\ CacheBelongs' /\ Phases'
  BY <1>1, <1>2 DEF EventsWellFormed, HeldBelongs, CacheBelongs, MessageOf, Phases
<1>4. EntriesBelong'
  <2>. SUFFICES ASSUME NEW j \in EventIds
                PROVE  /\ pc[j] \in {"waiting", "lookup"} => entry'[j] = {}
                       /\ \A s \in entry'[j] :
                            /\ j \in Ids /\ s.by \in Ids
                            /\ received[s.by].about = received[j].about
                            /\ ~Private(s.by, s.action)
                            /\ s.action \notin todo'[j]
                            /\ \A t \in entry'[j] : t.action = s.action => t = s
    BY <1>1, <1>2 DEF EntriesBelong
  <2>1. CASE j # i
    <3>1. todo'[j] = todo[j] /\ entry'[j] \subseteq entry[j]
      BY <2>1 DEF TrackerTypeOK
    <3>. QED
      BY <3>1 DEF EntriesBelong
  <2>2. CASE j = i
    <3>1. todo'[i] = todo[i] \ {a}
      BY DEF TrackerTypeOK
    <3>2. \A s \in entry[i] : s.action # a
      BY DEF EntriesBelong
    <3>. QED
      BY <1>1, <2>2, <3>1, <3>2 DEF EntriesBelong
  <2>. QED
    BY <2>1, <2>2
<1>. QED
  BY <1>3, <1>4

LEMMA InvSendOne ==
    ASSUME TrackerInv, NEW i \in EventIds, UNCHANGED orderVars, SendOne(i)
    PROVE  TrackerInv'
<1>. DEFINE a == First(todo[i])  r == [by |-> i, action |-> a]
<1>1. /\ pc[i] \in {"sending", "responding"} /\ todo[i] # {} /\ ~Busy(i)
      /\ SendNew(i, a) /\ todo' = [todo EXCEPT ![i] = @ \ {a}]
      /\ UNCHANGED <<pc, visited, held, handVars, cache>>
  BY DEF SendOne
<1>2. todo[i] \subseteq Actions /\ a \in todo[i] /\ i \in Ids
  BY <1>1, FirstIsOne, AtWork DEF TrackerInv, TrackerTypeOK
<1>3. r \in Responses
  BY <1>2 DEF Responses
<1>4. /\ live' \subseteq live \cup {r} /\ text' \in {text, [text EXCEPT ![r] = i]}
      /\ lost' \subseteq lost \cup {r}
      /\ \/ entry' = entry
         \/ entry' = [entry EXCEPT ![i] = @ \cup {r}] /\ ~Private(i, a)
  BY <1>1 DEF SendNew
<1>5. r.by = i /\ r.action = a
  OBVIOUS
<1>. HIDE DEF a, r
<1>6. /\ entry \in [EventIds -> SUBSET Responses] /\ todo \in [EventIds -> SUBSET Actions]
      /\ live \subseteq Responses /\ lost \subseteq Responses
      /\ text \in [Responses -> MessageIds]
  BY DEF TrackerInv, TrackerTypeOK
<1>7. TrackerTypeOK'
  <2>1. OrderTypeOK'
    BY DEF TrackerInv, TrackerTypeOK, OrderTypeOK, orderVars
  <2>2. entry' \in [EventIds -> SUBSET Responses]
    BY <1>3, <1>4, <1>6
  <2>3. todo' \in [EventIds -> SUBSET Actions]
    BY <1>1, <1>6
  <2>4. live' \subseteq Responses /\ lost' \subseteq Responses
    BY <1>3, <1>4, <1>6
  <2>5. text' \in [Responses -> MessageIds]
    BY <1>3, <1>4, <1>6
  <2>. QED
    BY <1>1, <2>1, <2>2, <2>3, <2>4, <2>5 DEF TrackerInv, TrackerTypeOK, handVars
<1>0. InHand'
  <2>1. \A j \in EventIds : j # i => pc'[j] = pc[j] /\ todo'[j] = todo[j]
    BY <1>1, <1>6
  <2>2. UNCHANGED <<received, handVars>>
    BY <1>1 DEF orderVars
  <2>. QED
    BY <1>1, <2>1, <2>2, HandUnchanged
<1>8. CASE entry' = entry
  <2>1. Phases' /\ UNCHANGED received
    BY <1>1 DEF TrackerInv, Phases, orderVars
  <2>2. \A j \in EventIds : entry[j] = {} \/ todo'[j] \subseteq todo[j]
    BY <1>1, <1>6
  <2>. QED
    BY <1>0, <1>1, <1>7, <1>8, <2>1, <2>2, InvKept
<1>9. CASE entry' = [entry EXCEPT ![i] = @ \cup {r}] /\ ~Private(i, a)
  <2>1. /\ entry'[i] \subseteq entry[i] \cup {r}
        /\ \A j \in EventIds : j # i => entry'[j] \subseteq entry[j]
    BY <1>6, <1>9
  <2>2. /\ r.by \in Ids /\ received[r.by].about = received[i].about /\ ~Private(r.by, a)
        /\ UNCHANGED <<pc, held, cache>>
    BY <1>1, <1>2, <1>5, <1>9
  <2>. QED
    BY <1>0, <1>1, <1>2, <1>3, <1>5, <1>7, <2>1, <2>2, InvAnswered, ZenonT(30)
<1>. QED
  BY <1>4, <1>8, <1>9

(* A function stays of its type when a value of that type is set.          *)
LEMMA SetType ==
    ASSUME NEW S, NEW T, NEW f \in [S -> T], NEW x \in S, NEW y \in T
    PROVE  [f EXCEPT ![x] = y] \in [S -> T]
OBVIOUS

(* A handler that responds knows the map it holds.                         *)
LEMMA HeldMap ==
    ASSUME TrackerInv, NEW i \in EventIds, pc[i] \in {"responding", "removing"}
    PROVE  held[i] \in Ids /\ held[i] \in EventIds /\ received[held[i]].about = received[i].about
BY EventType DEF TrackerInv, TrackerTypeOK, Phases, HeldBelongs

LEMMA InvLookUpOne ==
    ASSUME TrackerInv, NEW i \in EventIds, UNCHANGED orderVars, LookUpOne(i)
    PROVE  TrackerInv'
<1>. DEFINE a == First(todo[i])
<1>1. /\ pc[i] = "responding" /\ todo[i] # {} /\ ~Busy(i)
      /\ UNCHANGED <<pc, todo, visited, entry, held, moving, deleting, cache, live, text, lost>>
  BY DEF LookUpOne
<1>2. PICK r \in Previous(i, a) : updating' = [updating EXCEPT ![i] = {r}]
  BY DEF LookUpOne
<1>3. a \in todo[i]
  BY <1>1, FirstIsOne DEF TrackerInv, TrackerTypeOK
<1>. HIDE DEF a
<1>4. r \in entry[held[i]] /\ r.action = a
  BY <1>2 DEF Previous
<1>5. /\ r \in Responses /\ r.by \in Ids /\ ~Private(r.by, r.action)
      /\ received[r.by].about = received[i].about
  BY <1>1, <1>4, HeldMap DEF TrackerInv, TrackerTypeOK, EntriesBelong
<1>6. updating \in [EventIds -> SUBSET Responses]
  BY DEF TrackerInv, TrackerTypeOK
<1>7. \A j \in EventIds : updating'[j] = IF j = i THEN {r} ELSE updating[j]
  BY <1>2, <1>6
<1>8. TrackerTypeOK'
  <2>1. OrderTypeOK'
    BY DEF TrackerInv, TrackerTypeOK, OrderTypeOK, orderVars
  <2>2. updating' \in [EventIds -> SUBSET Responses]
    BY <1>2, <1>5, <1>6
  <2>. QED
    BY <1>1, <2>1, <2>2 DEF TrackerInv, TrackerTypeOK
<1>9. Phases' /\ UNCHANGED received
  BY <1>1 DEF TrackerInv, Phases, orderVars
<1>10. InHand'
  <2>1. Ids' = Ids /\ \A j, b : Private(j, b)' <=> Private(j, b)
    BY <1>9 DEF Ids, Private, Triggered
  <2>2. moving[i] = {} /\ deleting[i] = {}
    BY <1>1 DEF Busy
  <2>. QED
    BY <1>1, <1>3, <1>4, <1>5, <1>7, <1>9, <2>1, <2>2 DEF TrackerInv, InHand
<1>. QED
  BY <1>1, <1>8, <1>9, <1>10, InvKept

LEMMA InvUpdateOne ==
    ASSUME TrackerInv, NEW i \in EventIds, UNCHANGED orderVars, UpdateOne(i)
    PROVE  TrackerInv'
<1>1. PICK r \in updating[i] : /\ UpdateResponse(i, r)
                               /\ todo' = [todo EXCEPT ![i] = @ \ {r.action}]
  BY DEF UpdateOne
<1>. DEFINE a == r.action
<1>2. /\ pc[i] = "responding" /\ updating' = [updating EXCEPT ![i] = {}]
      /\ UNCHANGED <<pc, visited, held, deleting, cache, live>>
  BY <1>1 DEF UpdateOne, TrackerInv, InHand
<1>3. /\ a \in todo[i] /\ i \in Ids /\ r.by \in Ids /\ ~Private(r.by, a)
      /\ received[r.by].about = received[i].about
  BY <1>1, <1>2, AtWork DEF TrackerInv, InHand
<1>4. /\ entry \in [EventIds -> SUBSET Responses] /\ todo \in [EventIds -> SUBSET Actions]
      /\ live \subseteq Responses /\ lost \subseteq Responses
      /\ text \in [Responses -> MessageIds]
      /\ updating \in [EventIds -> SUBSET Responses] /\ moving \in [EventIds -> SUBSET Responses]
  BY DEF TrackerInv, TrackerTypeOK
<1>5. r \in Responses
  BY <1>1, <1>4
<1>6. [by |-> i, action |-> r.action] \in Responses
  BY <1>5 DEF Responses
<1>7. /\ text' \in {text, [text EXCEPT ![r] = i]}
      /\ lost' \subseteq lost \cup {[by |-> i, action |-> r.action]}
      /\ \/ entry' = entry /\ moving' = moving
         \/ /\ entry' = [entry EXCEPT ![i] = @ \cup {r}]
            /\ moving' = [moving EXCEPT ![i] = {r}]
  BY <1>1 DEF UpdateResponse, UpdateMissed
<1>8. TrackerTypeOK'
  <2>1. OrderTypeOK'
    BY DEF TrackerInv, TrackerTypeOK, OrderTypeOK, orderVars
  <2>2. entry' \in [EventIds -> SUBSET Responses] /\ moving' \in [EventIds -> SUBSET Responses]
    <3>1. CASE entry' = entry /\ moving' = moving
      BY <1>4, <3>1
    <3>2. CASE entry' = [entry EXCEPT ![i] = @ \cup {r}] /\ moving' = [moving EXCEPT ![i] = {r}]
      <4>. HIDE DEF EventIds
      <4>. QED
        BY <1>4, <1>5, <3>2
    <3>. QED
      BY <1>7, <3>1, <3>2
  <2>3. todo' \in [EventIds -> SUBSET Actions]
    BY <1>1, <1>4
  <2>4. live' \subseteq Responses /\ lost' \subseteq Responses
    BY <1>2, <1>4, <1>6, <1>7
  <2>5. text' \in [Responses -> MessageIds]
    <3>1. i \in MessageIds
      OBVIOUS
    <3>2. text' = text \/ text' = [text EXCEPT ![r] = i]
      BY <1>7
    <3>3. text \in [Responses -> MessageIds]
      BY <1>4
    <3>. HIDE DEF EventIds, MessageIds
    <3>. QED
      BY <3>1, <3>2, <3>3, <1>5, SetType, Zenon
  <2>6. updating' \in [EventIds -> SUBSET Responses]
    BY <1>2, <1>4
  <2>. QED
    BY <1>2, <2>1, <2>2, <2>3, <2>4, <2>5, <2>6 DEF TrackerInv, TrackerTypeOK
<1>9. InHand'
  <2>1. Ids' = Ids /\ UNCHANGED received /\ \A j, b : Private(j, b)' <=> Private(j, b)
    BY DEF Ids, Private, Triggered, orderVars
  <2>2. \A j \in EventIds : /\ updating'[j] = IF j = i THEN {} ELSE updating[j]
                            /\ j # i => todo'[j] = todo[j] /\ moving'[j] = moving[j]
    BY <1>1, <1>2, <1>4, <1>7
  <2>3. moving'[i] \subseteq {r} /\ deleting[i] = {}
    BY <1>1, <1>4, <1>7 DEF TrackerInv, InHand
  <2>. QED
    BY <1>2, <1>3, <2>1, <2>2, <2>3 DEF TrackerInv, InHand
<1>10. /\ entry'[i] \subseteq entry[i] \cup {r}
       /\ \A j \in EventIds : j # i => entry'[j] \subseteq entry[j]
  BY <1>4, <1>7
<1>11. /\ UNCHANGED <<pc, held, cache>> /\ todo' = [todo EXCEPT ![i] = @ \ {a}]
       /\ pc[i] \in {"sending", "responding"} /\ r.action = a
  BY <1>1, <1>2
<1>. HIDE DEF a
<1>. QED
  BY <1>3, <1>5, <1>8, <1>9, <1>10, <1>11, InvAnswered, ZenonT(30)

LEMMA InvRemoveOne ==
    ASSUME TrackerInv, NEW i \in EventIds, UNCHANGED orderVars, RemoveOne(i)
    PROVE  TrackerInv'
<1>1. /\ moving[i] # {} /\ entry' = [entry EXCEPT ![held[i]] = @ \ moving[i]]
      /\ moving' = [moving EXCEPT ![i] = {}]
      /\ UNCHANGED <<pc, todo, visited, held, updating, deleting, cache, live, text, lost>>
  BY DEF RemoveOne
<1>2. /\ entry \in [EventIds -> SUBSET Responses] /\ moving \in [EventIds -> SUBSET Responses]
  BY DEF TrackerInv, TrackerTypeOK
<1>3. held[i] \in EventIds
  BY <1>1, HeldMap DEF TrackerInv, InHand
<1>4. \A j \in EventIds : entry'[j] \subseteq entry[j] /\ moving'[j] \subseteq moving[j]
  <2>. HIDE DEF EventIds
  <2>. QED
    BY <1>1, <1>2, <1>3
<1>5. TrackerTypeOK'
  <2>1. entry' \in [EventIds -> SUBSET Responses] /\ moving' \in [EventIds -> SUBSET Responses]
    <3>. HIDE DEF EventIds
    <3>. QED
      BY <1>1, <1>2, <1>3
  <2>2. OrderTypeOK'
    BY DEF TrackerInv, TrackerTypeOK, OrderTypeOK, orderVars
  <2>. QED
    BY <1>1, <2>1, <2>2 DEF TrackerInv, TrackerTypeOK
<1>6. Phases' /\ UNCHANGED received
  BY <1>1 DEF TrackerInv, Phases, orderVars
<1>7. InHand'
  BY <1>1, <1>4, <1>6, HandKept
<1>. QED
  BY <1>1, <1>4, <1>5, <1>6, <1>7, InvKept

LEMMA InvRangeOne ==
    ASSUME TrackerInv, NEW i \in EventIds, UNCHANGED orderVars, RangeOne(i)
    PROVE  TrackerInv'
<1>1. PICK r \in ToDelete(i) : /\ visited' = [visited EXCEPT ![i] = @ \cup {r}]
                               /\ deleting' = [deleting EXCEPT ![i] = {r}]
  BY DEF RangeOne
<1>2. /\ pc[i] \in {"responding", "removing"} /\ ~Busy(i)
      /\ UNCHANGED <<pc, todo, entry, held, updating, moving, cache, live, text, lost>>
  BY DEF RangeOne
<1>3. /\ r \in Responses /\ r.by \in Ids /\ ~Private(r.by, r.action)
      /\ received[r.by].about = received[i].about
  BY <1>1, <1>2, HeldMap DEF ToDelete, TrackerInv, TrackerTypeOK, EntriesBelong
<1>4. /\ visited \in [EventIds -> SUBSET Responses] /\ deleting \in [EventIds -> SUBSET Responses]
  BY DEF TrackerInv, TrackerTypeOK
<1>5. TrackerTypeOK'
  <2>1. visited' \in [EventIds -> SUBSET Responses] /\ deleting' \in [EventIds -> SUBSET Responses]
    BY <1>1, <1>3, <1>4
  <2>2. OrderTypeOK'
    BY DEF TrackerInv, TrackerTypeOK, OrderTypeOK, orderVars
  <2>. QED
    BY <1>2, <2>1, <2>2 DEF TrackerInv, TrackerTypeOK
<1>6. Phases' /\ UNCHANGED received
  BY <1>2 DEF TrackerInv, Phases, orderVars
<1>7. InHand'
  <2>1. Ids' = Ids /\ \A j, b : Private(j, b)' <=> Private(j, b)
    BY <1>6 DEF Ids, Private, Triggered
  <2>2. updating[i] = {} /\ moving[i] = {}
    BY <1>2 DEF Busy
  <2>3. \A j \in EventIds : deleting'[j] = IF j = i THEN {r} ELSE deleting[j]
    BY <1>1, <1>4
  <2>. QED
    BY <1>2, <1>3, <1>6, <2>1, <2>2, <2>3 DEF TrackerInv, InHand
<1>. QED
  BY <1>2, <1>5, <1>6, <1>7, InvKept

LEMMA InvDeleteOne ==
    ASSUME TrackerInv, NEW i \in EventIds, UNCHANGED orderVars, DeleteOne(i)
    PROVE  TrackerInv'
<1>1. PICK r \in deleting[i] :
         deleting' = [deleting EXCEPT ![i] = @ \ {r}] /\ DeleteResponse(r)
  BY DEF DeleteOne
<1>2. UNCHANGED <<pc, todo, visited, entry, held, updating, moving, cache, text>>
  BY DEF DeleteOne
<1>3. deleting \in [EventIds -> SUBSET Responses]
  BY DEF TrackerInv, TrackerTypeOK
<1>4. r \in Responses /\ live' \subseteq live /\ lost' \subseteq lost \cup {r}
  BY <1>1, <1>3 DEF DeleteResponse, TrackerInv, TrackerTypeOK
<1>5. /\ deleting' \in [EventIds -> SUBSET Responses]
      /\ \A j \in EventIds : deleting'[j] \subseteq deleting[j]
  BY <1>1, <1>3
<1>6. TrackerTypeOK'
  <2>1. OrderTypeOK'
    BY DEF TrackerInv, TrackerTypeOK, OrderTypeOK, orderVars
  <2>. QED
    BY <1>2, <1>4, <1>5, <2>1 DEF TrackerInv, TrackerTypeOK
<1>7. Phases' /\ UNCHANGED received
  BY <1>2 DEF TrackerInv, Phases, orderVars
<1>8. InHand'
  BY <1>2, <1>5, <1>7, HandKept
<1>. QED
  BY <1>2, <1>6, <1>7, <1>8, InvKept

(* Adding to the cache, or removing from it, as a handler ends.            *)
LEMMA InvStore ==
    ASSUME TrackerInv, NEW i \in EventIds, UNCHANGED orderVars,
           StoreSent(i) \/ ReplaceResponses(i) \/ ForgetResponses(i)
    PROVE  TrackerInv'
<1>. USE DEF TrackerInv
<1>. DEFINE m == received[i].about
<1>1. /\ pc[i] \in {"sending", "responding", "removing"} /\ pc' = [pc EXCEPT ![i] = "finished"]
      /\ UNCHANGED <<todo, visited, entry, held, handVars, live, text>>
      /\ UNCHANGED <<received, active, done>>
  BY DEF StoreSent, ReplaceResponses, ForgetResponses, orderVars
<1>2. i \in Ids /\ i \in active /\ i \notin done /\ m \in MessageIds
  BY <1>1, AtWork, EventType DEF TrackerTypeOK
<1>3. PICK k \in {i, m} : CacheAdd(k, i) \/ CacheRemove(k) \/ UNCHANGED <<cache, lost>>
  BY DEF StoreSent, ReplaceResponses, ForgetResponses
<1>4. k \in MessageIds /\ k \in Ids \cup {0} /\ MessageOf(k) = m
  <2>1. CASE k = i
    BY <1>2, <2>1 DEF MessageOf, Ids
  <2>2. CASE k = m
    BY <1>2, <2>2, AboutItself DEF TrackerTypeOK
  <2>. QED
    BY <2>1, <2>2
<1>5. /\ cache' \in [MessageIds -> MessageIds]
      /\ \A id \in MessageIds : cache'[id] \in {cache[id], 0} \/ (id = k /\ cache'[id] = i)
  <2>1. CASE CacheAdd(k, i)
    <3>1. PICK victims \in Victims(k) :
            cache' = [id \in MessageIds |-> IF id = k THEN i
                                            ELSE IF id \in victims THEN 0 ELSE cache[id]]
      BY <2>1 DEF CacheAdd
    <3>2. cache \in [MessageIds -> MessageIds]
      BY DEF TrackerTypeOK
    <3>3. \A j \in EventIds : j \in MessageIds
      OBVIOUS
    <3>4. i \in MessageIds /\ 0 \in MessageIds
      BY <3>3
    <3>. QED
      BY <3>1, <3>2, <3>4
  <2>2. CASE CacheRemove(k) \/ UNCHANGED <<cache, lost>>
    <3>1. cache \in [MessageIds -> MessageIds]
      BY DEF TrackerTypeOK
    <3>2. 0 \in MessageIds
      OBVIOUS
    <3>3. CASE cache' = [cache EXCEPT ![k] = 0]
      <4>1. k \in MessageIds
        BY <1>4
      <4>. QED
        BY <3>1, <3>3, <3>2, <4>1
    <3>4. CASE cache' = cache
      BY <3>1, <3>4
    <3>. QED
      BY <2>2, <3>3, <3>4 DEF CacheRemove
  <2>. QED
    BY <1>3, <2>1, <2>2
<1>6. lost' \subseteq Responses
  <2>1. CASE CacheAdd(k, i)
    <3>1. PICK victims \in Victims(k) : lost' = lost \cup UNION {entry[cache[v]] : v \in victims}
      BY <2>1 DEF CacheAdd
    <3>2. \A v \in victims : v \in MessageIds /\ cache[v] # 0
      BY <3>1 DEF Victims, CachedIds
    <3>3. \A v \in victims : cache[v] \in EventIds
      BY <3>2 DEF TrackerTypeOK
    <3>4. entry \in [EventIds -> SUBSET Responses] /\ lost \subseteq Responses
      BY DEF TrackerTypeOK
    <3>5. \A v \in victims : entry[cache[v]] \subseteq Responses
      BY <3>3, <3>4
    <3>. QED
      BY <3>1, <3>4, <3>5
  <2>2. CASE CacheRemove(k) \/ UNCHANGED <<cache, lost>>
    BY <2>2 DEF CacheRemove, TrackerTypeOK
  <2>. QED
    BY <1>3, <2>1, <2>2
<1>7. TrackerTypeOK'
  BY <1>1, <1>5, <1>6 DEF TrackerTypeOK, OrderTypeOK, handVars
<1>8. Phases'
  BY <1>1, <1>2 DEF Phases, TrackerTypeOK
<1>9. Ids' = Ids /\ \A j, a : Private(j, a)' <=> Private(j, a)
  BY <1>1 DEF Ids, Private, Triggered
<1>10. EventsWellFormed' /\ HeldBelongs'
  BY <1>1, <1>9 DEF EventsWellFormed, HeldBelongs
<1>11. EntriesBelong'
  BY <1>1, <1>9 DEF EntriesBelong, TrackerTypeOK
<1>12. CacheBelongs'
  <2>1. \A id \in MessageIds : MessageOf(id)' = MessageOf(id)
    BY <1>1 DEF MessageOf
  <2>. QED
    BY <1>1, <1>2, <1>4, <1>5, <1>9, <2>1 DEF CacheBelongs
<1>13. InHand'
  <2>1. ~Busy(i)
    BY NothingInHand DEF StoreSent, ReplaceResponses, ForgetResponses
  <2>2. \A j \in EventIds : j # i => pc'[j] = pc[j] /\ todo'[j] = todo[j]
    BY <1>1 DEF TrackerTypeOK
  <2>. QED
    BY <1>1, <2>1, <2>2, HandUnchanged
<1>. QED
  BY <1>7, <1>8, <1>10, <1>11, <1>12, <1>13

-----------------------------------------------------------------------------
LEMMA TrackerInvStep == TrackerInv /\ [TrackerNext]_allVars => TrackerInv'
<1>. SUFFICES ASSUME TrackerInv, [TrackerNext]_allVars PROVE TrackerInv'
  OBVIOUS
<1>1. ASSUME NEW e \in Events, ReceiveEvent(e) PROVE TrackerInv'
  BY <1>1, InvReceive
<1>2. ASSUME NEW i \in EventIds, BeginEvent(i) PROVE TrackerInv'
  BY <1>2, InvBegin
<1>3. ASSUME NEW i \in EventIds, Step(i) PROVE TrackerInv'
  <2>1. UNCHANGED orderVars /\ HandlerStep(i)
    BY <1>3 DEF Step
  <2>2. CASE IgnoreTooOld(i) \/ FindResponses(i) \/ FindNothing(i)
    BY <2>1, <2>2, InvLookup
  <2>3. CASE SendOne(i)
    BY <2>1, <2>3, InvSendOne
  <2>4. CASE UpdateOne(i)
    BY <2>1, <2>4, InvUpdateOne
  <2>5. CASE DeleteOne(i)
    BY <2>1, <2>5, InvDeleteOne
  <2>6. CASE StoreSent(i) \/ ReplaceResponses(i) \/ ForgetResponses(i)
    BY <2>1, <2>6, InvStore
  <2>7. CASE LookUpOne(i) \/ RemoveOne(i) \/ RangeOne(i)
    BY <2>1, <2>7, InvLookUpOne, InvRemoveOne, InvRangeOne
  <2>. QED
    BY <2>1, <2>2, <2>3, <2>4, <2>5, <2>6, <2>7 DEF HandlerStep
<1>4. ASSUME NEW i \in EventIds, FinishEvent(i) PROVE TrackerInv'
  BY <1>4, InvFinish
<1>5. CASE UNCHANGED allVars
  <2>1. UNCHANGED <<received, active, done, trackerVars>>
    BY <1>5 DEF allVars
  <2>2. TrackerTypeOK' /\ Phases'
    BY <2>1 DEF TrackerInv, TrackerTypeOK, OrderTypeOK, Phases, trackerVars, handVars
  <2>3. InHand'
    BY <2>1, HandKept DEF trackerVars, handVars
  <2>. QED
    BY <2>1, <2>2, <2>3, InvKept DEF trackerVars
<1>. QED
  BY <1>1, <1>2, <1>3, <1>4, <1>5 DEF TrackerNext, AllHandled

(* Whatever handlers of slackscot.go overlap, a map of responses stays     *)
(* with the message it answers.                                            *)
THEOREM TrackerInvariant == TrackerSpec => []TrackerInv
BY TrackerInvInit, TrackerInvStep, PTL DEF TrackerSpec

(* Every handler, cache entry and response of slackscot.go has the type    *)
(* stated, for any bound, lanes, actions, cache size and failing calls.    *)
THEOREM TrackerTypeCorrect == TrackerSpec => []TrackerTypeOK
<1>1. TrackerInv => TrackerTypeOK
  BY DEF TrackerInv
<1>. QED
  BY <1>1, TrackerInvariant, PTL

(* What the cache holds under a key answered the message of that key, once *)
(* per action, whatever handlers ran at the same time and whatever failed: *)
(* an edit can only touch the answers to its own message.                  *)
THEOREM CachedAnswersBelong == TrackerSpec => []EntriesBelongToTheirKey
<1>1. TrackerInv => EntriesBelongToTheirKey
  <2>. SUFFICES ASSUME TrackerInv, NEW id \in CachedIds, NEW r \in entry[cache[id]]
                PROVE  /\ MessageOf(r.by) = MessageOf(id)
                       /\ ~Private(r.by, r.action)
                       /\ \A s \in entry[cache[id]] : s.action = r.action => s = r
    BY DEF EntriesBelongToTheirKey
  <2>1. cache[id] \in Ids /\ received[cache[id]].about = MessageOf(id)
    BY DEF TrackerInv, CacheBelongs, CachedIds
  <2>2. cache[id] \in EventIds
    BY <2>1, EventType DEF TrackerInv, TrackerTypeOK
  <2>3. r.by \in Ids /\ received[r.by].about = received[cache[id]].about
    BY <2>2 DEF TrackerInv, EntriesBelong
  <2>4. MessageOf(r.by) = received[r.by].about
    BY <2>3 DEF MessageOf, Ids
  <2>. QED
    BY <2>1, <2>2, <2>3, <2>4 DEF TrackerInv, EntriesBelong
<1>. QED
  BY <1>1, TrackerInvariant, PTL

(* processUpdatedMessage and processDeletedMessage delete no answer to a   *)
(* message other than the one edited or deleted; no other handler deletes. *)
THEOREM DeletionsStayWithTheirMessage == TrackerSpec => RemovedForItsMessage
<1>. DEFINE Removal == \A r \in live \ live' :
                         \E i \in active : /\ received[i].about = MessageOf(r.by)
                                          /\ received[i].kind \in {"changed", "deleted"}
<1>1. TrackerInv /\ [TrackerNext]_allVars => [Removal]_allVars
  <2>. SUFFICES ASSUME TrackerInv, TrackerNext, NEW r \in live, r \notin live'
                PROVE  \E i \in active : /\ received[i].about = MessageOf(r.by)
                                         /\ received[i].kind \in {"changed", "deleted"}
    OBVIOUS
  <2>1. PICK i \in EventIds : DeleteOne(i)
    <3>1. \A e \in Events : ~ReceiveEvent(e)
      BY DEF ReceiveEvent, trackerVars
    <3>2. \A i \in EventIds : ~BeginEvent(i) /\ ~FinishEvent(i)
      BY DEF BeginEvent, StartHandler, FinishEvent, trackerVars
    <3>3. ~AllHandled
      BY DEF AllHandled, allVars, trackerVars
    <3>4. PICK i \in EventIds : HandlerStep(i)
      BY <3>1, <3>2, <3>3 DEF TrackerNext, Step
    <3>5. ~SendOne(i)
      BY DEF SendOne, SendNew
    <3>. QED
      BY <3>4, <3>5 DEF HandlerStep, IgnoreTooOld, FindResponses, FindNothing, LookUpOne,
                        UpdateOne, RemoveOne, RangeOne, StoreSent, ReplaceResponses,
                        ForgetResponses
  <2>2. r \in deleting[i]
    BY <2>1 DEF DeleteOne, DeleteResponse
  <2>3. /\ r.by \in Ids /\ received[r.by].about = received[i].about
        /\ pc[i] \in {"responding", "removing"}
    BY <2>2 DEF TrackerInv, InHand
  <2>4. i \in active /\ received[i].kind \in {"changed", "deleted"}
    BY <2>3, AtWork DEF TrackerInv, Phases
  <2>5. MessageOf(r.by) = received[r.by].about
    BY <2>3 DEF MessageOf, Ids
  <2>. QED
    BY <2>3, <2>4, <2>5
<1>. QED
  BY <1>1, TrackerInvariant, PTL DEF TrackerSpec, RemovedForItsMessage

-----------------------------------------------------------------------------
(* Who may hold the map of a message, and who may cache it again           *)

(* What began came after all of its lane that was received before.         *)
LanesInOrder ==
    /\ active \cap done = {}
    /\ \A i \in active \cup done : \A j \in 1..(i - 1) : LaneOf(j) = LaneOf(i) => j \in done

(* Nothing is about a message whose deletion was received before it.       *)
DeletionsAreLast ==
    \A i, j \in Ids : i < j /\ received[i].kind = "deleted" =>
        received[j].about # received[i].about

(* A handler has a map once it found one.                                  *)
HoldersFound ==
    \A i \in EventIds : held[i] # 0 => pc[i] \in {"responding", "removing", "finished"}

OrderInv == TrackerInv /\ LanesInOrder /\ DeletionsAreLast /\ HoldersFound

LEMMA OrderInvInit == TrackerInit => OrderInv
BY TrackerInvInit DEF TrackerInit, OrderInit, OrderInv, LanesInOrder, DeletionsAreLast,
                      HoldersFound, Ids

(* A step that begins and ends nothing, and in which nothing is received.  *)
LEMMA OrderKept ==
    ASSUME OrderInv, UNCHANGED orderVars PROVE LanesInOrder' /\ DeletionsAreLast'
<1>1. \A i : LaneOf(i)' = LaneOf(i)
  BY DEF orderVars, LaneOf, OriginalMessageID
<1>. QED
  BY <1>1 DEF OrderInv, LanesInOrder, DeletionsAreLast, Ids, orderVars

LEMMA OrderInvStep == OrderInv /\ [TrackerNext]_allVars => OrderInv'
<1>. SUFFICES ASSUME OrderInv, [TrackerNext]_allVars PROVE OrderInv'
  OBVIOUS
<1>0. TrackerInv' /\ OrderTypeOK
  BY TrackerInvStep DEF OrderInv, TrackerInv, TrackerTypeOK
<1>1. ASSUME NEW e \in Events, ReceiveEvent(e) PROVE OrderInv'
  <2>. DEFINE n == Len(received) + 1
  <2>1. /\ received \in Seq(Events) /\ received' = Append(received, e)
        /\ e \in Deliverable(received) /\ UNCHANGED <<active, done, pc, held>>
    BY <1>0, <1>1 DEF ReceiveEvent, Receive, OrderTypeOK, trackerVars
  <2>2. /\ n \in Nat /\ received'[n] = e /\ \A k \in Ids : received'[k] = received[k]
        /\ Ids' = Ids \cup {n} /\ \A k \in Ids : k < n
    BY <2>1 DEF Ids
  <2>3. \A k \in Ids : received[k].kind = "deleted" => e.about # received[k].about
    <3>1. CanFollow(received, e) /\ e.about \in MessageIds
      BY <2>1 DEF Deliverable, Events
    <3>. SUFFICES ASSUME NEW k \in Ids, received[k].kind = "deleted"
                  PROVE  e.about # received[k].about
      OBVIOUS
    <3>2. received[k].about \in Ids \cup {0}
      BY <1>0, AboutItself DEF OrderInv, TrackerInv
    <3>3. CASE e.kind \in {"new", "other"}
      BY <2>2, <3>1, <3>2, <3>3 DEF CanFollow, Ids
    <3>4. CASE e.kind \notin {"new", "other"}
      BY <3>1, <3>4 DEF CanFollow, Ids
    <3>. QED
      BY <3>3, <3>4
  <2>4. DeletionsAreLast'
    BY <2>2, <2>3 DEF OrderInv, DeletionsAreLast, Ids
  <2>5. \A k \in Ids : LaneOf(k)' = LaneOf(k)
    BY <2>2 DEF LaneOf, OriginalMessageID
  <2>6. \A i \in active \cup done : i \in Ids /\ \A j \in 1..(i - 1) : j \in Ids
    BY <1>0 DEF OrderTypeOK, Ids
  <2>7. LanesInOrder'
    BY <2>1, <2>5, <2>6 DEF OrderInv, LanesInOrder
  <2>. QED
    BY <1>0, <2>1, <2>4, <2>7 DEF OrderInv, HoldersFound
<1>2. ASSUME NEW i \in EventIds, BeginEvent(i) PROVE OrderInv'
  <2>1. /\ i \notin active \cup done /\ active' = active \cup {i}
        /\ \A j \in 1..(i - 1) : LaneOf(j) = LaneOf(i) => j \in done
        /\ UNCHANGED <<received, done, held>>
    BY <1>2 DEF BeginEvent, Begin, Ready, StartHandler
  <2>2. \A j : LaneOf(j)' = LaneOf(j)
    BY <2>1 DEF LaneOf, OriginalMessageID
  <2>3. LanesInOrder' /\ DeletionsAreLast'
    BY <2>1, <2>2 DEF OrderInv, LanesInOrder, DeletionsAreLast, Ids
  <2>4. pc[i] = "waiting" /\ \A j \in EventIds : j # i => pc'[j] = pc[j]
    BY <1>2, <2>1 DEF BeginEvent, StartHandler, OrderInv, TrackerInv, TrackerTypeOK, Phases
  <2>5. HoldersFound'
    BY <2>1, <2>4 DEF OrderInv, HoldersFound
  <2>. QED
    BY <1>0, <2>3, <2>5 DEF OrderInv
<1>3. ASSUME NEW i \in EventIds, FinishEvent(i) PROVE OrderInv'
  <2>1. /\ i \in active /\ active' = active \ {i} /\ done' = done \cup {i}
        /\ UNCHANGED <<received, pc, held>>
    BY <1>3 DEF FinishEvent, Finish, trackerVars
  <2>2. \A j : LaneOf(j)' = LaneOf(j)
    BY <2>1 DEF LaneOf, OriginalMessageID
  <2>. QED
    BY <1>0, <2>1, <2>2 DEF OrderInv, LanesInOrder, DeletionsAreLast, HoldersFound, Ids
<1>4. ASSUME NEW i \in EventIds, Step(i) PROVE OrderInv'
  <2>1. UNCHANGED orderVars /\ HandlerStep(i)
    BY <1>4 DEF Step
  <2>2. pc \in [EventIds -> {"waiting", "lookup", "sending", "responding", "removing", "finished"}]
    BY DEF OrderInv, TrackerInv, TrackerTypeOK
  <2>3. /\ \A j \in EventIds : j # i => pc'[j] = pc[j] /\ held'[j] = held[j]
        /\ held'[i] # 0 => pc'[i] \in {"responding", "removing", "finished"}
    <3>1. CASE FindResponses(i)
      BY <2>2, <3>1 DEF FindResponses, OrderInv, TrackerInv, TrackerTypeOK
    <3>2. CASE FindNothing(i) \/ IgnoreTooOld(i)
      BY <2>2, <3>2 DEF FindNothing, IgnoreTooOld, OrderInv, HoldersFound
    <3>3. CASE SendOne(i) \/ LookUpOne(i) \/ UpdateOne(i) \/ RemoveOne(i) \/ RangeOne(i) \/ DeleteOne(i)
      BY <3>3 DEF SendOne, LookUpOne, UpdateOne, RemoveOne, RangeOne, DeleteOne, OrderInv,
                  HoldersFound
    <3>4. CASE StoreSent(i) \/ ReplaceResponses(i) \/ ForgetResponses(i)
      BY <2>2, <3>4 DEF StoreSent, ReplaceResponses, ForgetResponses
    <3>. QED
      BY <2>1, <3>1, <3>2, <3>3, <3>4 DEF HandlerStep
  <2>4. HoldersFound'
    BY <2>3 DEF OrderInv, HoldersFound
  <2>. QED
    BY <1>0, <2>1, <2>4, OrderKept DEF OrderInv
<1>5. CASE UNCHANGED allVars
  BY <1>0, <1>5, OrderKept DEF OrderInv, HoldersFound, allVars, trackerVars, orderVars
<1>. QED
  BY <1>1, <1>2, <1>3, <1>4, <1>5 DEF TrackerNext, AllHandled

(* And those of one lane are handled in order: nothing about a message     *)
(* follows its deletion.                                                   *)
THEOREM OrderInvariant == TrackerSpec => []OrderInv
BY OrderInvInit, OrderInvStep, PTL DEF TrackerSpec

(* An edit of m, and a deletion of m that is in its lane, is in m's lane.  *)
LEMMA LaneOfChange ==
    ASSUME OrderInv, NEW i \in Ids, received[i].kind \in {"changed", "deleted"},
           DeletionInLane(received[i].about)
    PROVE  LaneOf(i) = Lane[received[i].about]
BY DEF LaneOf, OriginalMessageID, DeletionInLane, Ids

(* triggeringMsgToResponse's maps are shared, not copied, and ranged over  *)
(* without a lock: what keeps two workers from one map is the order of the *)
(* lanes.                                                                  *)
THEOREM MapsHaveOneHolder == TrackerSpec => []MapsNotShared
<1>1. OrderInv => MapsNotShared
  <2>. SUFFICES ASSUME OrderInv, NEW i \in active, NEW j \in active, i # j,
                       held[i] # 0, held[i] = held[j], pc[i] # "finished", pc[j] # "finished",
                       DeletionInLane(received[i].about)
                PROVE  FALSE
    BY DEF MapsNotShared
  <2>1. i \in Ids /\ j \in Ids /\ i \in EventIds /\ j \in EventIds
    BY DEF OrderInv, TrackerInv, TrackerTypeOK, OrderTypeOK, Ids
  <2>2. received[i].about = received[j].about
    BY <2>1 DEF OrderInv, TrackerInv, HeldBelongs
  <2>3. received[i].kind \in {"changed", "deleted"} /\ received[j].kind \in {"changed", "deleted"}
    BY <2>1 DEF OrderInv, TrackerInv, Phases, HoldersFound
  <2>4. LaneOf(i) = LaneOf(j)
    BY <2>1, <2>2, <2>3, LaneOfChange
  <2>5. i \in Nat /\ j \in Nat /\ i >= 1 /\ j >= 1
    BY <2>1
  <2>6. i \in done \/ j \in done
    BY <2>4, <2>5 DEF OrderInv, LanesInOrder
  <2>. QED
    BY <2>6 DEF OrderInv, LanesInOrder
<1>. QED
  BY <1>1, OrderInvariant, PTL

(* A key that a handled deletion has removed is free.                      *)
Forgotten ==
    \A i \in Ids :
        received[i].kind = "deleted" /\ DeletionInLane(received[i].about) /\ pc[i] = "finished"
            => cache[received[i].about] = 0

(* When a deletion is handled, no handler of its message is at work that   *)
(* could cache it again: it was done before, or is not received any more.  *)
LEMMA NoneAfterDeletion ==
    ASSUME OrderInv, NEW k \in active, received[k].kind \in {"new", "changed"},
           NEW i \in Ids, received[i].kind = "deleted", DeletionInLane(received[i].about),
           pc[i] = "finished"
    PROVE  received[k].about # received[i].about
<1>. SUFFICES ASSUME received[k].about = received[i].about PROVE FALSE
  OBVIOUS
<1>1. k \in Ids /\ k \in Nat /\ i \in Nat /\ i >= 1 /\ k >= 1 /\ i # k
  BY DEF OrderInv, TrackerInv, TrackerTypeOK, OrderTypeOK, Ids
<1>2. i \in EventIds /\ i \in active \cup done
  BY EventType DEF OrderInv, TrackerInv, TrackerTypeOK, Phases
<1>3. LaneOf(i) = Lane[received[i].about]
  BY LaneOfChange
<1>4. LaneOf(k) = Lane[received[k].about]
  <2>1. CASE received[k].kind = "new"
    BY <1>1, <2>1 DEF LaneOf, OriginalMessageID, OrderInv, TrackerInv, EventsWellFormed
  <2>2. CASE received[k].kind = "changed"
    BY <1>1, <2>2, LaneOfChange
  <2>. QED
    BY <2>1, <2>2
<1>5. CASE i < k
  BY <1>1, <1>5 DEF OrderInv, DeletionsAreLast
<1>6. CASE k < i
  BY <1>1, <1>2, <1>3, <1>4, <1>6 DEF OrderInv, LanesInOrder
<1>. QED
  BY <1>1, <1>5, <1>6

(* What a step of a handler keeps free: the key of every other deletion.   *)
LEMMA KeysStayFree ==
    ASSUME OrderInv, NEW k \in EventIds, HandlerStep(k),
           NEW i \in Ids, received[i].kind = "deleted", DeletionInLane(received[i].about),
           pc[i] = "finished", cache[received[i].about] = 0
    PROVE  cache'[received[i].about] = 0
<1>. DEFINE m == received[i].about
<1>1. m \in MessageIds /\ (m = 0 \/ received[m].kind = "new")
  BY EventType DEF OrderInv, TrackerInv, TrackerTypeOK, EventsWellFormed
<1>2. pc[k] # "finished" /\ pc[k] \in {"lookup", "sending", "responding", "removing"}
  BY DEF OrderInv, TrackerInv, InHand, HandlerStep, IgnoreTooOld, FindResponses, FindNothing, SendOne, LookUpOne,
         UpdateOne, RemoveOne, RangeOne, DeleteOne, StoreSent, ReplaceResponses, ForgetResponses
<1>3. k \in Ids /\ k \in active /\ k # 0
  BY <1>2, AtWork DEF OrderInv
<1>4. CASE UNCHANGED cache
  BY <1>4
<1>5. ASSUME NEW id, CacheAdd(id, k), id # m PROVE cache'[m] = 0
  BY <1>1, <1>5 DEF CacheAdd
<1>6. CASE StoreSent(k) /\ CacheAdd(k, k)
  <2>1. received[k].kind \in {"new", "changed"}
    BY <1>6 DEF StoreSent, OrderInv, TrackerInv, Phases
  <2>2. k # m
    <3>. SUFFICES ASSUME k = m PROVE FALSE
      OBVIOUS
    <3>1. received[k].about = m
      BY <1>1, <1>3 DEF OrderInv, TrackerInv, EventsWellFormed
    <3>. QED
      BY <1>3, <2>1, <3>1, NoneAfterDeletion
  <2>. QED
    BY <1>5, <1>6, <2>2
<1>7. CASE ReplaceResponses(k) /\ CacheAdd(received[k].about, k)
  <2>1. received[k].kind \in {"new", "changed"}
    BY <1>7 DEF ReplaceResponses, OrderInv, TrackerInv, Phases
  <2>. QED
    BY <1>3, <1>5, <1>7, <2>1, NoneAfterDeletion
<1>8. CASE CacheRemove(received[k].about)
  <2>1. cache \in [MessageIds -> MessageIds]
    BY DEF OrderInv, TrackerInv, TrackerTypeOK
  <2>. QED
    BY <1>1, <1>8, <2>1 DEF CacheRemove
<1>. QED
  BY <1>4, <1>6, <1>7, <1>8 DEF HandlerStep, IgnoreTooOld, FindResponses, FindNothing, SendOne,
     LookUpOne, UpdateOne, RemoveOne, RangeOne, DeleteOne, StoreSent, ReplaceResponses, ForgetResponses

LEMMA ForgottenStep == OrderInv /\ Forgotten /\ [TrackerNext]_allVars => Forgotten'
<1>. SUFFICES ASSUME OrderInv, Forgotten, [TrackerNext]_allVars PROVE Forgotten'
  OBVIOUS
<1>0. /\ OrderTypeOK /\ cache \in [MessageIds -> MessageIds]
      /\ pc \in [EventIds -> {"waiting", "lookup", "sending", "responding", "removing", "finished"}]
  BY DEF OrderInv, TrackerInv, TrackerTypeOK
<1>1. ASSUME NEW e \in Events, ReceiveEvent(e) PROVE Forgotten'
  <2>. DEFINE n == Len(received) + 1
  <2>1. /\ received \in Seq(Events) /\ received' = Append(received, e)
        /\ Len(received) < MaxEvents /\ UNCHANGED <<pc, cache>>
    BY <1>0, <1>1 DEF ReceiveEvent, Receive, OrderTypeOK, trackerVars
  <2>2. /\ n \in EventIds /\ Len(received') = n /\ n \notin Ids
        /\ \A k \in Ids : received'[k] = received[k]
        /\ Ids' = Ids \cup {n}
    BY <2>1 DEF Ids
  <2>3. pc[n] = "waiting"
    BY <1>0, <2>2 DEF OrderInv, TrackerInv, Phases, OrderTypeOK, Ids
  <2>4. \A m : DeletionInLane(m)' => DeletionInLane(m)
    BY <2>2 DEF DeletionInLane, Ids
  <2>. QED
    BY <2>1, <2>2, <2>3, <2>4 DEF Forgotten
<1>2. ASSUME NEW i \in EventIds, BeginEvent(i) PROVE Forgotten'
  <2>1. UNCHANGED <<received, cache>>
    BY <1>2 DEF BeginEvent, Begin, StartHandler
  <2>2. /\ \A j \in EventIds : j # i => pc'[j] = pc[j]
        /\ received[i].kind = "deleted" => pc'[i] = "lookup"
    BY <1>0, <1>2 DEF BeginEvent, StartHandler
  <2>3. Ids' = Ids /\ Ids \subseteq EventIds /\ \A m : DeletionInLane(m)' <=> DeletionInLane(m)
    BY <1>0, <2>1 DEF Ids, OrderTypeOK, DeletionInLane
  <2>. QED
    BY <2>1, <2>2, <2>3 DEF Forgotten
<1>3. CASE UNCHANGED <<received, pc, cache>>
  BY <1>3 DEF Forgotten, Ids, DeletionInLane
<1>4. ASSUME NEW k \in EventIds, Step(k) PROVE Forgotten'
  <2>1. UNCHANGED received /\ HandlerStep(k)
    BY <1>4 DEF Step, orderVars
  <2>2. Ids' = Ids /\ Ids \subseteq EventIds /\ \A m : DeletionInLane(m)' <=> DeletionInLane(m)
    BY <1>0, <2>1 DEF Ids, OrderTypeOK, DeletionInLane
  <2>3. \A j \in EventIds : j # k => pc'[j] = pc[j]
    BY <1>0, <2>1 DEF HandlerStep, IgnoreTooOld, FindResponses, FindNothing, SendOne,
       LookUpOne, UpdateOne, RemoveOne, RangeOne, DeleteOne, StoreSent, ReplaceResponses, ForgetResponses
  <2>4. k \in Ids /\ received[k].kind = "deleted" /\ pc'[k] = "finished"
          => pc[k] = "finished" \/ cache'[received[k].about] = 0
    <3>. SUFFICES ASSUME k \in Ids, received[k].kind = "deleted", pc'[k] = "finished",
                         pc[k] # "finished"
                  PROVE  cache'[received[k].about] = 0
      OBVIOUS
    <3>1. received[k].about \in MessageIds /\ ~received[k].tooOld
      BY <1>0, EventType DEF OrderInv, TrackerInv, EventsWellFormed
    <3>2. pc[k] \notin {"sending", "responding"}
      BY DEF OrderInv, TrackerInv, Phases
    <3>3. FindNothing(k) \/ ForgetResponses(k)
      BY <1>0, <2>1, <3>1, <3>2 DEF HandlerStep, IgnoreTooOld, FindResponses, SendOne,
         LookUpOne, UpdateOne, RemoveOne, RangeOne, DeleteOne, StoreSent, ReplaceResponses
    <3>. QED
      BY <1>0, <3>1, <3>3 DEF FindNothing, ForgetResponses, CacheRemove
  <2>5. ASSUME NEW i \in Ids, received[i].kind = "deleted",
               DeletionInLane(received[i].about), pc'[i] = "finished"
        PROVE  cache'[received[i].about] = 0
    <3>1. CASE pc[i] = "finished"
      BY <2>1, <2>5, <3>1, KeysStayFree DEF Forgotten
    <3>2. CASE pc[i] # "finished"
      BY <2>2, <2>3, <2>4, <2>5, <3>2
    <3>. QED
      BY <3>1, <3>2
  <2>. QED
    BY <2>1, <2>2, <2>5 DEF Forgotten
<1>. QED
  BY <1>1, <1>2, <1>3, <1>4
     DEF TrackerNext, AllHandled, FinishEvent, Finish, allVars, trackerVars

(* processDeletedMessage's removal is final: no edit whose handler runs at *)
(* the same time puts responses back under the deleted message's key, as   *)
(* long as the deletion is in its lane.                                    *)
THEOREM DeletedStayForgotten == TrackerSpec => []DeletedMessageForgotten
<1>1. TrackerInit => Forgotten
  BY DEF TrackerInit, OrderInit, Forgotten, Ids
<1>2. TrackerSpec => []Forgotten
  BY <1>1, ForgottenStep, OrderInvariant, PTL DEF TrackerSpec
<1>3. OrderInv /\ Forgotten => DeletedMessageForgotten
  <2>. SUFFICES ASSUME OrderInv, Forgotten, NEW i \in done, received[i].kind = "deleted",
                       DeletionInLane(received[i].about)
                PROVE  cache[received[i].about] = 0
    BY DEF DeletedMessageForgotten
  <2>1. i \in Ids
    BY DEF OrderInv, TrackerInv, TrackerTypeOK, OrderTypeOK, Ids
  <2>2. pc[i] = "finished"
    BY <2>1, EventType DEF OrderInv, TrackerInv, TrackerTypeOK, Phases
  <2>. QED
    BY <2>1, <2>2 DEF Forgotten
<1>. QED
  BY <1>2, <1>3, OrderInvariant, PTL
=============================================================================
