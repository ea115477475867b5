----------------------- MODULE TrackedResponses_proofs -----------------------
(***************************************************************************)
(* What becomes of every response: whatever the lanes, the actions, the    *)
(* size of the cache, the calls that fail and the handlers that            *)
(* interleave, what the cache tracks shows the latest answers and, with    *)
(* deletions in their lane, is on Slack, and what is on Slack is tracked   *)
(* or lost for a known cause.                                              *)
(***************************************************************************)
EXTENDS ResponseTracker_proofs

USE DEF EventIds, MessageIds
USE MaxEventsAssumption, ContentsAssumption

(* An event whose handler gives answers.                                   *)
Answering(i) == received[i].kind \in {"new", "changed"} /\ ~received[i].tooOld

EditsAreLater ==
    \A i \in Ids :
        /\ received[i].about <= i
        /\ received[i].kind \in {"changed", "deleted"} => received[i].about < i

(* A handler that sends or removes has an event to do it for, and sends    *)
(* what answers that event.                                                *)
Sending ==
    \A i \in EventIds :
        /\ pc[i] \in {"sending", "responding", "removing"} => ~received[i].tooOld
        /\ IF pc[i] \in {"sending", "responding"} THEN todo[i] \subseteq Triggered(i)
                                                  ELSE todo[i] = {}

(* The maps in the cache are of handlers that have ended, and are there    *)
(* once.                                                                   *)
CachedMaps ==
    \A id \in MessageIds : cache[id] # 0 =>
        /\ id \in Ids /\ pc[id] = "finished" /\ received[id].kind \in {"new", "changed"}
        /\ pc[cache[id]] = "finished" /\ Answering(cache[id])
        /\ \A k \in MessageIds : cache[k] = cache[id] => k = id

(* So are the maps that handlers hold, which at the end of the handler are *)
(* no longer in the cache.                                                 *)
HeldMaps ==
    \A i \in EventIds : held[i] # 0 =>
        /\ received[i].about \in Ids /\ pc[received[i].about] = "finished"
        /\ held[i] # i /\ pc[held[i]] = "finished"
        /\ \A id \in MessageIds : cache[id] = held[i] =>
             id = received[i].about /\ pc[i] # "finished"

(* The entry of a message of which an edit found none is empty for good.   *)
UncachedEdits ==
    \A i \in Ids :
        /\ received[i].kind = "changed" /\ ~received[i].tooOld
        /\ pc[i] \in {"sending", "finished"} /\ held[i] = 0
        => /\ cache[received[i].about] = 0
           /\ \A k \in Ids : received[k].about = received[i].about => pc[k] # "responding"

(* A message's own entry is of its latest version that was handled.        *)
LatestCached ==
    \A i \in Ids :
        Answering(i) /\ pc[i] = "finished" /\ cache[received[i].about] # 0 =>
            i <= cache[received[i].about]

(* While a handler works on the map of a message, nobody caches another.   *)
HeldIsCached ==
    \A i \in active :
        pc[i] \in {"responding", "removing"} /\ DeletionInLane(received[i].about) =>
            cache[received[i].about] \in {0, held[i]}

MapInv ==
    /\ EditsAreLater
    /\ Sending
    /\ CachedMaps
    /\ HeldMaps
    /\ UncachedEdits
    /\ LatestCached
    /\ HeldIsCached

(* The events that are handled are of those received.                      *)
LEMMA HandledIds ==
    ASSUME TrackerTypeOK
    PROVE  active \subseteq Ids /\ done \subseteq Ids /\ Ids \subseteq EventIds
<1>1. Len(received) \in Nat /\ Len(received) <= MaxEvents
  BY DEF TrackerTypeOK, OrderTypeOK
<1>2. Ids \subseteq EventIds
  BY <1>1 DEF Ids
<1>. QED
  BY <1>2 DEF TrackerTypeOK, OrderTypeOK, Ids

(* The maps that are cached and held are of events.                        *)
LEMMA MapIds ==
    ASSUME TrackerTypeOK
    PROVE  /\ \A id \in MessageIds : cache[id] # 0 => cache[id] \in EventIds
           /\ \A i \in EventIds : held[i] # 0 => held[i] \in EventIds
<1>1. cache \in [MessageIds -> MessageIds] /\ held \in [EventIds -> MessageIds]
  BY DEF TrackerTypeOK
<1>2. \A id \in MessageIds : id # 0 => id \in EventIds
  OBVIOUS
<1>3. \A id \in MessageIds : cache[id] \in MessageIds
  BY <1>1
<1>4. \A i \in EventIds : held[i] \in MessageIds
  BY <1>1
<1>. HIDE DEF EventIds, MessageIds
<1>. QED
  BY <1>2, <1>3, <1>4

-----------------------------------------------------------------------------
(* The lane of a message has its edits, and handles one of them at a time. *)

LEMMA LaneOfAnswer ==
    ASSUME OrderInv, NEW i \in Ids, received[i].kind \in {"new", "changed"}
    PROVE  LaneOf(i) = Lane[received[i].about]
BY DEF LaneOf, OriginalMessageID, OrderInv, TrackerInv, EventsWellFormed

LEMMA InOrder ==
    ASSUME OrderInv, NEW i \in active, NEW j \in active \cup done, LaneOf(i) = LaneOf(j)
    PROVE  j <= i /\ (j \in active => j = i)
<1>0. i \in Ids /\ j \in Ids
  BY DEF OrderInv, TrackerInv, TrackerTypeOK, OrderTypeOK, Ids
<1>1. i \in Nat /\ j \in Nat /\ 1 <= i /\ 1 <= j /\ i \notin done
  BY <1>0 DEF OrderInv, LanesInOrder, Ids
<1>2. CASE i < j
  <2>1. i \in 1..(j - 1)
    BY <1>1, <1>2
  <2>. QED
    BY <1>1, <2>1 DEF OrderInv, LanesInOrder
<1>3. CASE j < i
  <2>1. j \in 1..(i - 1)
    BY <1>1, <1>3
  <2>2. j \in done
    BY <2>1 DEF OrderInv, LanesInOrder
  <2>. QED
    BY <1>1, <1>3, <2>2 DEF OrderInv, LanesInOrder
<1>. QED
  BY <1>1, <1>2, <1>3

(* What a handler at work on one version of a message knows of another.    *)
LEMMA OneVersionAtWork ==
    ASSUME OrderInv, NEW i \in active, NEW j \in active \cup done,
           received[i].about = received[j].about,
           \/ received[i].kind \in {"new", "changed"} /\ received[j].kind \in {"new", "changed"}
           \/ DeletionInLane(received[i].about) /\ received[i].kind # "other"
                                                /\ received[j].kind # "other"
    PROVE  j <= i /\ (j \in active => j = i)
<1>1. i \in Ids /\ j \in Ids
  BY DEF OrderInv, TrackerInv, TrackerTypeOK, OrderTypeOK, Ids
<1>2. received[i].kind \in Kinds /\ received[j].kind \in Kinds
  BY <1>1, EventType DEF OrderInv, TrackerInv, TrackerTypeOK
<1>3. LaneOf(i) = Lane[received[i].about] /\ LaneOf(j) = Lane[received[j].about]
  BY <1>1, <1>2, LaneOfAnswer, LaneOfChange DEF Kinds
<1>. QED
  BY <1>3, InOrder

-----------------------------------------------------------------------------
(* The steps keep MapInv *)

LEMMA MapInvInit == TrackerInit => MapInv
BY DEF TrackerInit, OrderInit, MapInv, Ids, EditsAreLater, Sending, CachedMaps, HeldMaps,
       UncachedEdits, LatestCached, HeldIsCached

(* Steps that leave the cache and what handlers hold alone.                *)
LEMMA MapKept ==
    ASSUME OrderInv, MapInv, UNCHANGED <<received, pc, held, cache>>, active' \subseteq active,
           \A i \in EventIds : todo'[i] \subseteq todo[i]
    PROVE  MapInv'
<1>1. Ids' = Ids /\ Ids \subseteq EventIds
  BY DEF Ids, OrderInv, TrackerInv, TrackerTypeOK, OrderTypeOK
<1>2. EditsAreLater' /\ CachedMaps' /\ HeldMaps' /\ UncachedEdits' /\ LatestCached'
  BY <1>1 DEF MapInv, EditsAreLater, CachedMaps, HeldMaps, UncachedEdits, LatestCached, Answering
<1>3. Sending'
  BY <1>1 DEF MapInv, Sending, Triggered
<1>4. HeldIsCached'
  BY DEF MapInv, HeldIsCached, DeletionInLane
<1>. QED
  BY <1>2, <1>3, <1>4 DEF MapInv

LEMMA MapReceive ==
    ASSUME OrderInv, MapInv, NEW e \in Events, ReceiveEvent(e) PROVE MapInv'
<1>. DEFINE n == Len(received) + 1
<1>1. /\ received \in Seq(Events) /\ received' = Append(received, e)
      /\ Len(received) < MaxEvents /\ e \in Deliverable(received)
      /\ UNCHANGED <<active, done, trackerVars>>
  BY DEF ReceiveEvent, Receive, OrderInv, TrackerInv, TrackerTypeOK, OrderTypeOK
<1>2. /\ n \in EventIds /\ received'[n] = e /\ n \notin Ids
      /\ \A k \in Ids : received'[k] = received[k]
      /\ Ids' = Ids \cup {n} /\ Ids \subseteq EventIds /\ active \subseteq Ids
  <2>1. n \in EventIds /\ n \notin Ids /\ Ids' = Ids \cup {n} /\ Ids \subseteq EventIds
    BY <1>1 DEF Ids
  <2>2. active \subseteq Ids
    BY DEF Ids, OrderInv, TrackerInv, TrackerTypeOK, OrderTypeOK
  <2>. QED
    BY <1>1, <2>1, <2>2 DEF Ids
<1>3. pc[n] = "waiting" /\ held[n] = 0
  BY <1>2 DEF OrderInv, TrackerInv, TrackerTypeOK, OrderTypeOK, Phases, HeldBelongs, Ids
<1>4. EditsAreLater'
  <2>1. /\ e.about \in Nat /\ e.kind \in Kinds
        /\ IF e.kind \in {"new", "other"} THEN e.about = n ELSE e.about <= Len(received)
    BY <1>1 DEF Deliverable, Events, CanFollow
  <2>. QED
    BY <1>1, <1>2, <2>1 DEF MapInv, EditsAreLater, Ids, Kinds
<1>5. Sending'
  <2>1. UNCHANGED <<pc, todo>>
    BY <1>1 DEF trackerVars
  <2>2. \A i \in EventIds : pc[i] \in {"sending", "responding", "removing"} => i \in Ids
    BY AtWork, HandledIds DEF OrderInv, TrackerInv
  <2>3. \A i \in Ids : received'[i] = received[i]
    BY <1>2
  <2>. QED
    BY <2>1, <2>2, <2>3 DEF MapInv, Sending, Triggered
<1>6. \A id \in MessageIds : cache[id] # 0 => cache[id] \in Ids
  BY DEF OrderInv, TrackerInv, CacheBelongs
<1>7. CachedMaps'
  BY <1>1, <1>2, <1>6 DEF MapInv, CachedMaps, Answering, trackerVars
<1>8. HeldMaps'
  <2>1. \A i \in EventIds : held[i] # 0 => i \in Ids
    BY DEF OrderInv, TrackerInv, HeldBelongs
  <2>2. \A i \in Ids : received'[i].about = received[i].about
    BY <1>2
  <2>3. UNCHANGED <<pc, held, cache>>
    BY <1>1 DEF trackerVars
  <2>. QED
    BY <1>2, <2>1, <2>2, <2>3 DEF MapInv, HeldMaps
<1>9. UncachedEdits'
  <2>1. UNCHANGED <<pc, held, cache>>
    BY <1>1 DEF trackerVars
  <2>2. \A i \in Ids : received'[i] = received[i]
    BY <1>2
  <2>3. ASSUME NEW i \in Ids', received'[i].kind = "changed", ~received'[i].tooOld,
               pc[i] \in {"sending", "finished"}, held[i] = 0
        PROVE  /\ cache[received'[i].about] = 0
               /\ \A k \in Ids' : received'[k].about = received'[i].about => pc[k] # "responding"
    <3>1. i \in Ids /\ received'[i] = received[i]
      BY <1>2, <1>3, <2>2, <2>3
    <3>2. /\ cache[received[i].about] = 0
          /\ \A k \in Ids : received[k].about = received[i].about => pc[k] # "responding"
      BY <2>3, <3>1 DEF MapInv, UncachedEdits
    <3>. QED
      BY <1>2, <1>3, <2>2, <3>1, <3>2
  <2>. QED
    BY <2>1, <2>3 DEF UncachedEdits
<1>10. LatestCached'
  BY <1>1, <1>2, <1>3 DEF MapInv, LatestCached, Answering, trackerVars
<1>11. HeldIsCached'
  <2>1. \A m : DeletionInLane(m)' => DeletionInLane(m)
    BY <1>2 DEF DeletionInLane, Ids
  <2>. QED
    BY <1>1, <1>2, <2>1 DEF MapInv, HeldIsCached, trackerVars
<1>. QED
  BY <1>4, <1>5, <1>7, <1>8, <1>9, <1>10, <1>11 DEF MapInv

LEMMA MapBegin ==
    ASSUME OrderInv, MapInv, NEW i \in EventIds, BeginEvent(i) PROVE MapInv'
<1>1. /\ i \in Ids /\ i \notin active \cup done /\ active' = active \cup {i}
      /\ UNCHANGED <<received, done, held, cache>>
  BY DEF BeginEvent, Begin, Ready, StartHandler, Ids
<1>2. /\ received[i].kind \in Kinds /\ (received[i].tooOld => received[i].kind = "changed")
      /\ Ids' = Ids /\ Ids \subseteq EventIds
  BY <1>1, EventType DEF OrderInv, TrackerInv, TrackerTypeOK, OrderTypeOK, EventsWellFormed, Ids
<1>3. /\ pc[i] = "waiting" /\ \A j \in EventIds : j # i => pc'[j] = pc[j] /\ todo'[j] = todo[j]
      /\ pc'[i] \in {"sending", "lookup", "finished"}
      /\ pc'[i] = "sending" => received[i].kind = "new" /\ todo'[i] = Triggered(i)
      /\ pc'[i] = "finished" => received[i].kind = "other"
      /\ pc'[i] # "sending" => todo'[i] = {}
  BY <1>1, <1>2 DEF BeginEvent, StartHandler, OrderInv, TrackerInv, TrackerTypeOK, Phases, Kinds
<1>4. held[i] = 0
  BY <1>3 DEF OrderInv, HoldersFound
<1>5. EditsAreLater'
  BY <1>1, <1>2 DEF MapInv, EditsAreLater
<1>6. Sending'
  BY <1>1, <1>2, <1>3 DEF MapInv, Sending, Triggered
<1>7. \A id \in MessageIds : cache[id] # 0 => cache[id] \in EventIds
  BY MapIds DEF OrderInv, TrackerInv
<1>8. CachedMaps'
  BY <1>1, <1>2, <1>3, <1>7 DEF MapInv, CachedMaps, Answering
<1>9. HeldMaps'
  <2>1. \A k \in EventIds : held[k] # 0 => k # i /\ held[k] \in EventIds
    BY <1>4, MapIds DEF OrderInv, TrackerInv
  <2>2. pc[i] # "finished" /\ \A j \in EventIds : j # i => pc'[j] = pc[j]
    BY <1>3
  <2>. QED
    BY <1>1, <1>2, <2>1, <2>2 DEF MapInv, HeldMaps
<1>10. UncachedEdits'
  <2>1. \A j \in Ids : j # i => pc'[j] = pc[j]
    BY <1>2, <1>3
  <2>2. pc'[i] # "responding" /\ (received[i].kind = "changed" => pc'[i] \notin {"sending", "finished"})
    BY <1>3
  <2>3. ASSUME NEW j \in Ids', received'[j].kind = "changed", ~received'[j].tooOld,
               pc'[j] \in {"sending", "finished"}, held'[j] = 0
        PROVE  /\ cache'[received'[j].about] = 0
               /\ \A k \in Ids' : received'[k].about = received'[j].about => pc'[k] # "responding"
    <3>1. j # i /\ j \in Ids /\ received'[j] = received[j]
      BY <1>1, <1>2, <2>2, <2>3
    <3>2. /\ cache[received[j].about] = 0
          /\ \A k \in Ids : received[k].about = received[j].about => pc[k] # "responding"
      BY <1>1, <2>1, <2>3, <3>1 DEF MapInv, UncachedEdits
    <3>. QED
      BY <1>1, <1>2, <2>1, <2>2, <3>1, <3>2
  <2>. QED
    BY <2>3 DEF UncachedEdits
<1>11. LatestCached'
  BY <1>1, <1>2, <1>3 DEF MapInv, LatestCached, Answering
<1>12. HeldIsCached'
  <2>1. active \subseteq EventIds
    BY HandledIds DEF OrderInv, TrackerInv
  <2>. QED
    BY <1>1, <1>3, <2>1 DEF MapInv, HeldIsCached, DeletionInLane
<1>. QED
  BY <1>5, <1>6, <1>8, <1>9, <1>10, <1>11, <1>12 DEF MapInv

LEMMA MapLookup ==
    ASSUME OrderInv, MapInv, NEW i \in EventIds, UNCHANGED orderVars,
           IgnoreTooOld(i) \/ FindResponses(i) \/ FindNothing(i)
    PROVE  MapInv'
<1>. DEFINE m == received[i].about
<1>1. /\ pc[i] = "lookup" /\ held[i] = 0
      /\ UNCHANGED <<received, active, done, cache>>
  BY DEF IgnoreTooOld, FindResponses, FindNothing, OrderInv, HoldersFound, orderVars
<1>2. /\ i \in Ids /\ i \in active /\ i \in active \cup done
      /\ received[i].kind \in {"changed", "deleted"} /\ m \in MessageIds
      /\ Ids' = Ids /\ Ids \subseteq EventIds /\ received[i].tooOld \in BOOLEAN
  <2>1. i \in Ids /\ i \in active /\ Ids' = Ids
    BY <1>1, AtWork DEF OrderInv, Ids
  <2>2. m \in MessageIds /\ Ids \subseteq EventIds /\ received[i].tooOld \in BOOLEAN
    BY <2>1, EventType DEF OrderInv, TrackerInv, TrackerTypeOK
  <2>. QED
    BY <1>1, <2>1, <2>2 DEF OrderInv, TrackerInv, Phases
<1>3. \A j \in EventIds : j # i => pc'[j] = pc[j] /\ todo'[j] = todo[j] /\ held'[j] = held[j]
  BY DEF IgnoreTooOld, FindResponses, FindNothing, OrderInv, TrackerInv, TrackerTypeOK
<1>4. /\ \/ pc'[i] = "finished" /\ ~Answering(i) /\ held'[i] = 0
         \/ /\ pc'[i] = "sending" /\ received[i].kind = "changed" /\ held'[i] = 0
            /\ cache[m] = 0
         \/ /\ pc'[i] \in {"responding", "removing"} /\ cache[m] # 0 /\ held'[i] = cache[m]
      /\ pc'[i] # "finished" => ~received[i].tooOld
      /\ IF pc'[i] \in {"responding", "sending"} THEN todo'[i] = Triggered(i)
                                                ELSE todo'[i] = todo[i]
  <2>0. /\ pc \in [EventIds -> {"waiting", "lookup", "sending", "responding", "removing", "finished"}]
        /\ todo \in [EventIds -> SUBSET Actions] /\ held \in [EventIds -> MessageIds]
    BY DEF OrderInv, TrackerInv, TrackerTypeOK
  <2>1. CASE IgnoreTooOld(i)
    BY <1>1, <2>0, <2>1 DEF IgnoreTooOld, Answering
  <2>2. CASE FindResponses(i)
    BY <2>0, <2>2 DEF FindResponses
  <2>3. CASE FindNothing(i) /\ received[i].kind = "changed"
    BY <1>1, <2>0, <2>3 DEF FindNothing
  <2>4. CASE FindNothing(i) /\ received[i].kind = "deleted"
    BY <1>1, <2>0, <2>4 DEF FindNothing, Answering
  <2>. QED
    BY <1>2, <2>1, <2>2, <2>3, <2>4
<1>5. EditsAreLater'
  BY <1>1, <1>2 DEF MapInv, EditsAreLater
<1>6. Sending'
  BY <1>1, <1>2, <1>3, <1>4 DEF MapInv, Sending, Triggered
<1>7. /\ \A id \in MessageIds : cache[id] # 0 => cache[id] \in EventIds
      /\ \A k \in EventIds : held[k] # 0 => held[k] \in EventIds
  BY MapIds DEF OrderInv, TrackerInv
<1>8. CachedMaps'
  BY <1>1, <1>2, <1>3, <1>7 DEF MapInv, CachedMaps, Answering
<1>9. HeldMaps'
  <2>. SUFFICES ASSUME NEW k \in EventIds, held'[k] # 0
                PROVE  /\ received[k].about \in Ids /\ pc'[received[k].about] = "finished"
                       /\ held'[k] # k /\ pc'[held'[k]] = "finished"
                       /\ \A id \in MessageIds : cache[id] = held'[k] =>
                            id = received[k].about /\ pc'[k] # "finished"
    BY <1>1, <1>2 DEF HeldMaps
  <2>1. CASE k # i
    <3>1. held[k] # 0 /\ held'[k] = held[k] /\ pc'[k] = pc[k] /\ held[k] \in EventIds
      BY <1>3, <1>7, <2>1
    <3>2. /\ received[k].about \in Ids /\ pc[received[k].about] = "finished"
          /\ held[k] # k /\ pc[held[k]] = "finished"
          /\ \A id \in MessageIds : cache[id] = held[k] =>
               id = received[k].about /\ pc[k] # "finished"
      BY <3>1 DEF MapInv, HeldMaps
    <3>. QED
      BY <1>1, <1>2, <1>3, <3>1, <3>2
  <2>2. CASE k = i
    <3>1. cache[m] # 0 /\ held'[i] = cache[m] /\ pc'[i] # "finished"
      BY <1>4, <2>2
    <3>2. /\ m \in Ids /\ pc[m] = "finished" /\ pc[cache[m]] = "finished"
          /\ \A id \in MessageIds : cache[id] = cache[m] => id = m
      BY <1>2, <3>1 DEF MapInv, CachedMaps
    <3>. QED
      BY <1>1, <1>2, <1>3, <1>7, <2>2, <3>1, <3>2
  <2>. QED
    BY <2>1, <2>2
<1>10. UncachedEdits'
  <2>. SUFFICES ASSUME NEW j \in Ids, received[j].kind = "changed", ~received[j].tooOld,
                       pc'[j] \in {"sending", "finished"}, held'[j] = 0
                PROVE  /\ cache[received[j].about] = 0
                       /\ \A k \in Ids : received[k].about = received[j].about =>
                            pc'[k] # "responding"
    BY <1>1, <1>2 DEF UncachedEdits
  <2>1. CASE j # i
    <3>1. /\ cache[received[j].about] = 0
          /\ \A k \in Ids : received[k].about = received[j].about => pc[k] # "responding"
      BY <1>2, <1>3, <2>1 DEF MapInv, UncachedEdits
    <3>. QED
      BY <1>2, <1>3, <1>4, <3>1
  <2>2. CASE j = i
    <3>1. pc'[i] = "sending" /\ received[i].kind = "changed" /\ cache[m] = 0
      BY <1>4, <2>2 DEF Answering
    <3>2. ASSUME NEW k \in Ids, received[k].about = m, pc'[k] = "responding" PROVE FALSE
      <4>1. k # i /\ pc[k] = "responding" /\ k \in EventIds
        BY <1>2, <1>3, <3>1, <3>2
      <4>2. k \in active /\ received[k].kind = "changed"
        BY <4>1, AtWork DEF OrderInv, TrackerInv, Phases
      <4>. QED
        BY <1>2, <3>1, <3>2, <4>1, <4>2, OneVersionAtWork
    <3>. QED
      BY <2>2, <3>1, <3>2
  <2>. QED
    BY <2>1, <2>2
<1>11. LatestCached'
  <2>1. \A j : Answering(j)' <=> Answering(j)
    BY <1>1 DEF Answering
  <2>2. \A j \in Ids : Answering(j) /\ pc'[j] = "finished" => pc[j] = "finished"
    BY <1>2, <1>3, <1>4
  <2>. QED
    BY <1>1, <1>2, <2>1, <2>2 DEF MapInv, LatestCached
<1>12. HeldIsCached'
  <2>1. active \subseteq EventIds
    BY HandledIds DEF OrderInv, TrackerInv
  <2>2. \A k : DeletionInLane(k)' <=> DeletionInLane(k)
    BY <1>1 DEF DeletionInLane
  <2>3. ASSUME NEW k \in active, pc'[k] \in {"responding", "removing"},
               DeletionInLane(received[k].about)
        PROVE  cache[received[k].about] \in {0, held'[k]}
    <3>1. CASE k = i
      BY <1>4, <2>3, <3>1
    <3>2. CASE k # i
      BY <1>3, <2>1, <2>3, <3>2 DEF MapInv, HeldIsCached
    <3>. QED
      BY <3>1, <3>2
  <2>. QED
    BY <1>1, <2>2, <2>3 DEF HeldIsCached
<1>. QED
  BY <1>5, <1>6, <1>8, <1>9, <1>10, <1>11, <1>12 DEF MapInv

(* The key under which a handler that ends adds or removes.                *)
KeyOf(i) == IF pc[i] = "sending" THEN i ELSE received[i].about

(* What a handler that ends does to the cache: its own key has its map, if *)
(* there is anything in it, and of the others some may be evicted, which   *)
(* loses their responses.                                                  *)
LEMMA StoreEffect ==
    ASSUME OrderInv, NEW i \in EventIds,
           StoreSent(i) \/ ReplaceResponses(i) \/ ForgetResponses(i)
    PROVE  /\ KeyOf(i) \in MessageIds
           /\ cache'[KeyOf(i)] = IF pc[i] # "removing" /\ entry[i] # {} THEN i
                                 ELSE IF pc[i] = "sending" THEN cache[KeyOf(i)] ELSE 0
           /\ \A id \in MessageIds : id # KeyOf(i) =>
                \/ cache'[id] = cache[id]
                \/ cache[id] # 0 /\ cache'[id] = 0 /\ entry[cache[id]] \subseteq lost'
           /\ lost \subseteq lost' /\ lost' \subseteq lost \cup UNION {entry[j] : j \in EventIds}
<1>. DEFINE key == KeyOf(i)
<1>1. pc[i] \in {"sending", "responding", "removing"}
  BY DEF StoreSent, ReplaceResponses, ForgetResponses
<1>2. key \in MessageIds
  <2>1. i \in MessageIds
    OBVIOUS
  <2>2. received[i].about \in MessageIds
    BY <1>1, AtWork, EventType DEF OrderInv, TrackerInv, TrackerTypeOK
  <2>. QED
    BY <2>1, <2>2 DEF KeyOf
<1>3. cache \in [MessageIds -> MessageIds]
  BY DEF OrderInv, TrackerInv, TrackerTypeOK
<1>4. CASE pc[i] # "removing" /\ entry[i] # {} /\ CacheAdd(key, i)
  <2>1. PICK victims \in Victims(key) :
          /\ cache' = [id \in MessageIds |-> IF id = key THEN i
                                             ELSE IF id \in victims THEN 0 ELSE cache[id]]
          /\ lost' = lost \cup UNION {entry[cache[id]] : id \in victims}
    BY <1>4 DEF CacheAdd
  <2>2. \A id \in victims : id \in MessageIds /\ cache[id] # 0
    BY <2>1 DEF Victims, CachedIds
  <2>3. \A id \in victims : cache[id] \in EventIds
    BY <2>2, MapIds DEF OrderInv, TrackerInv
  <2>. HIDE DEF key, EventIds, MessageIds
  <2>4. cache'[key] = i
    BY <1>2, <2>1
  <2>5. \A id \in MessageIds : id # key => cache'[id] = IF id \in victims THEN 0 ELSE cache[id]
    BY <2>1
  <2>6. \A id \in victims : entry[cache[id]] \subseteq lost'
    BY <2>1
  <2>7. lost \subseteq lost' /\ lost' \subseteq lost \cup UNION {entry[j] : j \in EventIds}
    BY <2>1, <2>3
  <2>. QED
    BY <1>2, <1>4, <2>2, <2>4, <2>5, <2>6, <2>7 DEF key
<1>5. CASE /\ pc[i] # "sending" /\ (pc[i] = "removing" \/ entry[i] = {})
           /\ CacheRemove(key)
  BY <1>1, <1>2, <1>3, <1>5 DEF CacheRemove
<1>6. CASE pc[i] = "sending" /\ entry[i] = {} /\ UNCHANGED <<cache, lost>>
  BY <1>2, <1>6
<1>. QED
  BY <1>4, <1>5, <1>6 DEF StoreSent, ReplaceResponses, ForgetResponses, KeyOf

LEMMA MapStore ==
    ASSUME OrderInv, MapInv, NEW i \in EventIds, UNCHANGED orderVars,
           StoreSent(i) \/ ReplaceResponses(i) \/ ForgetResponses(i)
    PROVE  MapInv'
<1>. DEFINE m == received[i].about  key == KeyOf(i)
<1>1. /\ pc[i] \in {"sending", "responding", "removing"}
      /\ pc' = [pc EXCEPT ![i] = "finished"]
      /\ UNCHANGED <<todo, held, received, active, done>>
      /\ todo[i] = {}
  BY DEF StoreSent, ReplaceResponses, ForgetResponses, orderVars, MapInv, Sending
<1>2. /\ i \in Ids /\ i \in active /\ Ids' = Ids /\ Ids \subseteq EventIds
      /\ ~received[i].tooOld /\ received[i].about \in MessageIds
  <2>1. i \in Ids /\ i \in active /\ Ids' = Ids
    BY <1>1, AtWork DEF OrderInv, Ids
  <2>2. Ids \subseteq EventIds /\ received[i].about \in MessageIds
    BY <2>1, EventType DEF OrderInv, TrackerInv, TrackerTypeOK
  <2>. QED
    BY <1>1, <2>1, <2>2 DEF MapInv, Sending
<1>3. \A j \in EventIds : pc'[j] = IF j = i THEN "finished" ELSE pc[j]
  BY <1>1 DEF OrderInv, TrackerInv, TrackerTypeOK
<1>4. /\ key \in MessageIds
      /\ \A id \in MessageIds : id # key => cache'[id] \in {cache[id], 0}
      /\ cache'[key] = IF pc[i] # "removing" /\ entry[i] # {} THEN i
                       ELSE IF pc[i] = "sending" THEN cache[key] ELSE 0
  BY StoreEffect
<1>5. /\ pc[i] \in {"sending", "responding"} => received[i].kind \in {"new", "changed"}
      /\ pc[i] = "sending" => key = i /\ held[i] = 0
      /\ pc[i] # "sending" => key = m /\ held[i] # 0 /\ m \in Ids /\ pc[m] = "finished"
                             /\ received[m].kind = "new"
  <2>1. CASE pc[i] = "sending"
    BY <2>1 DEF OrderInv, HoldersFound, KeyOf, TrackerInv, Phases
  <2>2. CASE pc[i] # "sending"
    <3>1. held[i] # 0 /\ received[i].kind \in {"changed", "deleted"}
      BY <1>1, <2>2 DEF OrderInv, TrackerInv, Phases
    <3>2. m \in Ids /\ pc[m] = "finished"
      BY <3>1 DEF MapInv, HeldMaps
    <3>3. m # 0
      BY <3>2 DEF Ids
    <3>. QED
      BY <1>2, <2>2, <3>1, <3>2, <3>3 DEF KeyOf, OrderInv, TrackerInv, Phases, EventsWellFormed
  <2>. QED
    BY <2>1, <2>2
<1>6. /\ \A id \in MessageIds : cache[id] # 0 => cache[id] # i /\ cache[id] \in EventIds
      /\ \A k \in EventIds : held[k] # 0 => held[k] # i /\ held[k] \in EventIds
  BY <1>1, MapIds DEF OrderInv, TrackerInv, MapInv, CachedMaps, HeldMaps
<1>7. \A id \in MessageIds : cache'[id] # 0 =>
        \/ cache'[id] = cache[id]
        \/ id = key /\ cache'[id] = i
  <2>. HIDE DEF key, MessageIds
  <2>. QED
    BY <1>4
<1>8. cache'[key] = i => key \in Ids /\ received[key].kind \in {"new", "changed"}
                         /\ pc'[key] = "finished" /\ Answering(i)
  <2>. SUFFICES ASSUME cache'[key] = i
                PROVE  key \in Ids /\ received[key].kind \in {"new", "changed"}
                       /\ pc'[key] = "finished" /\ Answering(i)
    OBVIOUS
  <2>1. pc[i] \in {"sending", "responding"}
    <3>1. pc[i] # "removing"
      BY <1>1, <1>4, <1>2
    <3>. QED
      BY <1>1, <3>1
  <2>. QED
    BY <1>2, <1>3, <1>5, <2>1 DEF Answering
<1>9. EditsAreLater'
  BY <1>1, <1>2 DEF MapInv, EditsAreLater
<1>10. Sending'
  BY <1>1, <1>2, <1>3 DEF MapInv, Sending, Triggered
<1>11. CachedMaps'
  <2>. SUFFICES ASSUME NEW id \in MessageIds, cache'[id] # 0
                PROVE  /\ id \in Ids /\ pc'[id] = "finished"
                       /\ received[id].kind \in {"new", "changed"}
                       /\ pc'[cache'[id]] = "finished" /\ Answering(cache'[id])
                       /\ \A k \in MessageIds : cache'[k] = cache'[id] => k = id
    BY <1>1, <1>2 DEF CachedMaps, Answering
  <2>1. CASE cache'[id] = cache[id]
    <3>1. /\ id \in Ids /\ pc[id] = "finished"
          /\ received[id].kind \in {"new", "changed"}
          /\ pc[cache[id]] = "finished" /\ Answering(cache[id])
          /\ \A k \in MessageIds : cache[k] = cache[id] => k = id
      BY <2>1 DEF MapInv, CachedMaps
    <3>2. cache[id] # i /\ cache[id] \in EventIds
      BY <1>6, <2>1
    <3>. QED
      BY <1>2, <1>3, <1>7, <2>1, <3>1, <3>2
  <2>2. CASE id = key /\ cache'[id] = i
    <3>1. \A k \in MessageIds : cache'[k] = i => k = key
      BY <1>2, <1>6, <1>7
    <3>. QED
      BY <1>3, <1>8, <2>2, <3>1
  <2>. QED
    BY <1>7, <2>1, <2>2
<1>12. HeldMaps'
  <2>. SUFFICES ASSUME NEW k \in EventIds, held[k] # 0
                PROVE  /\ received[k].about \in Ids /\ pc'[received[k].about] = "finished"
                       /\ held[k] # k /\ pc'[held[k]] = "finished"
                       /\ \A id \in MessageIds : cache'[id] = held[k] =>
                            id = received[k].about /\ pc'[k] # "finished"
    BY <1>1, <1>2 DEF HeldMaps
  <2>1. /\ received[k].about \in Ids /\ pc[received[k].about] = "finished"
        /\ held[k] # k /\ pc[held[k]] = "finished"
        /\ \A id \in MessageIds : cache[id] = held[k] =>
             id = received[k].about /\ pc[k] # "finished"
    BY DEF MapInv, HeldMaps
  <2>2. held[k] # i /\ held[k] \in EventIds
    BY <1>6
  <2>3. ASSUME NEW id \in MessageIds, cache'[id] = held[k]
        PROVE  id = received[k].about /\ pc'[k] # "finished"
    <3>1. cache[id] = held[k]
      BY <1>7, <2>2, <2>3
    <3>2. k # i
      <4>. SUFFICES ASSUME k = i PROVE FALSE
        OBVIOUS
      <4>1. id = key /\ pc[i] # "sending"
        BY <1>5, <2>1, <3>1
      <4>2. cache'[key] \in {i, 0}
        BY <1>4, <4>1
      <4>. QED
        BY <2>2, <2>3, <4>1, <4>2
    <3>. QED
      BY <1>3, <2>1, <3>1, <3>2
  <2>. QED
    BY <1>2, <1>3, <2>1, <2>2, <2>3
<1>13. UncachedEdits'
  <2>. SUFFICES ASSUME NEW j \in Ids, received[j].kind = "changed", ~received[j].tooOld,
                       pc'[j] \in {"sending", "finished"}, held[j] = 0
                PROVE  /\ cache'[received[j].about] = 0
                       /\ \A k \in Ids : received[k].about = received[j].about =>
                            pc'[k] # "responding"
    BY <1>1, <1>2 DEF UncachedEdits
  <2>1. pc[j] \in {"sending", "finished"} /\ j \in EventIds
    BY <1>2, <1>3, <1>5
  <2>2. /\ cache[received[j].about] = 0
        /\ \A k \in Ids : received[k].about = received[j].about => pc[k] # "responding"
    BY <2>1 DEF MapInv, UncachedEdits
  <2>3. received[j].about \in MessageIds
    BY EventType DEF OrderInv, TrackerInv, TrackerTypeOK
  <2>4. cache'[received[j].about] = 0
    <3>. SUFFICES ASSUME received[j].about = key, cache'[key] = i PROVE FALSE
      BY <1>7, <2>2, <2>3
    <3>1. CASE pc[i] = "sending"
      <4>1. key = i /\ received[j].about = i /\ i # 0
        BY <1>5, <3>1
      <4>2. received[i].about = i /\ received[i].kind = "new"
        BY <1>2, <4>1 DEF OrderInv, TrackerInv, EventsWellFormed
      <4>3. j \in active \cup done /\ j # i
        BY <2>1, <4>2 DEF OrderInv, TrackerInv, Phases
      <4>4. j <= i
        BY <1>2, <4>1, <4>2, <4>3, OneVersionAtWork
      <4>5. i < j
        BY <4>1 DEF MapInv, EditsAreLater
      <4>. QED
        BY <4>4, <4>5, <2>1
    <3>2. CASE pc[i] = "responding"
      BY <1>2, <1>5, <2>2, <3>2
    <3>3. CASE pc[i] = "removing"
      BY <1>2, <1>4, <3>3
    <3>. QED
      BY <1>1, <3>1, <3>2, <3>3
  <2>. QED
    BY <1>2, <1>3, <2>2, <2>4
<1>14. LatestCached'
  <2>. SUFFICES ASSUME NEW j \in Ids, Answering(j), pc'[j] = "finished",
                       cache'[received[j].about] # 0
                PROVE  j <= cache'[received[j].about]
    BY <1>1, <1>2 DEF LatestCached, Answering
  <2>1. received[j].about \in MessageIds /\ j \in EventIds
    BY EventType DEF OrderInv, TrackerInv, TrackerTypeOK
  <2>2. j \in active \cup done
    BY <1>2, <1>3, <2>1 DEF OrderInv, TrackerInv, Phases
  <2>3. CASE cache'[received[j].about] = cache[received[j].about]
    <3>1. CASE j # i
      BY <1>3, <2>1, <2>3, <3>1 DEF MapInv, LatestCached
    <3>2. CASE j = i
      <4>1. cache[m] # 0
        BY <2>3, <3>2
      <4>2. pc[i] = "sending"
        <5>. SUFFICES ASSUME pc[i] # "sending" PROVE FALSE
          OBVIOUS
        <5>1. key = m
          BY <1>5
        <5>2. cache'[m] \in {0, i}
          BY <1>4, <5>1
        <5>. QED
          BY <1>6, <2>1, <2>3, <3>2, <5>2
      <4>3. received[i].kind = "new"
        BY <1>2, <1>5, <4>1, <4>2 DEF MapInv, UncachedEdits
      <4>4. m = i
        BY <1>2, <4>3 DEF OrderInv, TrackerInv, EventsWellFormed
      <4>. QED
        BY <2>1, <3>2, <4>1, <4>2, <4>4 DEF MapInv, CachedMaps
    <3>. QED
      BY <3>1, <3>2
  <2>4. CASE received[j].about = key /\ cache'[key] = i
    <3>1. Answering(i)
      BY <1>8, <2>4
    <3>2. received[j].about = m
      <4>1. CASE pc[i] = "sending"
        <5>1. received[j].about = i /\ i # 0 /\ (j # i => received[j].kind = "changed")
          BY <1>5, <2>4, <4>1 DEF Answering, OrderInv, TrackerInv, EventsWellFormed
        <5>. QED
          BY <1>2, <5>1 DEF OrderInv, TrackerInv, EventsWellFormed
      <4>2. CASE pc[i] # "sending"
        BY <1>5, <2>4, <4>2
      <4>. QED
        BY <4>1, <4>2
    <3>. QED
      BY <1>2, <2>2, <2>4, <3>1, <3>2, OneVersionAtWork DEF Answering
  <2>5. \/ cache'[received[j].about] = cache[received[j].about]
        \/ received[j].about = key /\ cache'[key] = i
    <3>. HIDE DEF key, EventIds, MessageIds
    <3>1. received[j].about \in MessageIds /\ cache'[received[j].about] # 0
      BY <2>1
    <3>. QED
      BY <1>7, <3>1
  <2>. QED
    BY <2>3, <2>4, <2>5
<1>15. HeldIsCached'
  <2>1. active \subseteq EventIds /\ active \subseteq Ids
    BY HandledIds DEF OrderInv, TrackerInv
  <2>2. \A k : DeletionInLane(k)' <=> DeletionInLane(k)
    BY <1>1 DEF DeletionInLane
  <2>3. ASSUME NEW k \in active, pc'[k] \in {"responding", "removing"},
               DeletionInLane(received[k].about)
        PROVE  cache'[received[k].about] \in {0, held[k]}
    <3>1. k # i /\ pc[k] \in {"responding", "removing"}
      BY <1>3, <2>1, <2>3
    <3>2. cache[received[k].about] \in {0, held[k]}
      BY <2>3, <3>1 DEF MapInv, HeldIsCached
    <3>3. /\ received[k].about \in MessageIds /\ received[k].kind \in {"changed", "deleted"}
      BY <2>1, <3>1, EventType DEF OrderInv, TrackerInv, TrackerTypeOK, Phases
    <3>4. ~(received[k].about = key /\ cache'[key] = i)
      <4>. SUFFICES ASSUME received[k].about = key, cache'[key] = i PROVE FALSE
        OBVIOUS
      <4>1. received[k].about = m
        <5>1. CASE pc[i] = "sending"
          <6>1. received[k].about = i /\ i # 0
            BY <1>5, <5>1
          <6>. QED
            BY <1>2, <2>1, <3>3, <6>1 DEF OrderInv, TrackerInv, EventsWellFormed
        <5>2. CASE pc[i] # "sending"
          BY <1>5, <5>2
        <5>. QED
          BY <5>1, <5>2
      <4>2. received[i].kind \in {"new", "changed"}
        BY <1>8 DEF Answering
      <4>. QED
        BY <1>2, <2>3, <3>1, <3>3, <4>1, <4>2, OneVersionAtWork
    <3>. QED
      BY <1>7, <3>2, <3>3, <3>4
  <2>. QED
    BY <1>1, <2>2, <2>3 DEF HeldIsCached
<1>. QED
  BY <1>9, <1>10, <1>11, <1>12, <1>13, <1>14, <1>15 DEF MapInv

LEMMA MapInvStep == OrderInv /\ MapInv /\ [TrackerNext]_allVars => MapInv'
<1>. SUFFICES ASSUME OrderInv, MapInv, [TrackerNext]_allVars PROVE MapInv'
  OBVIOUS
<1>1. ASSUME NEW e \in Events, ReceiveEvent(e) PROVE MapInv'
  BY <1>1, MapReceive
<1>2. ASSUME NEW i \in EventIds, BeginEvent(i) PROVE MapInv'
  BY <1>2, MapBegin
<1>3. ASSUME NEW i \in EventIds, Step(i) PROVE MapInv'
  <2>1. UNCHANGED orderVars /\ HandlerStep(i)
    BY <1>3 DEF Step
  <2>2. CASE IgnoreTooOld(i) \/ FindResponses(i) \/ FindNothing(i)
    BY <2>1, <2>2, MapLookup
  <2>3. CASE StoreSent(i) \/ ReplaceResponses(i) \/ ForgetResponses(i)
    BY <2>1, <2>3, MapStore
  <2>4. CASE SendOne(i) \/ LookUpOne(i) \/ UpdateOne(i) \/ RemoveOne(i) \/ RangeOne(i) \/ DeleteOne(i)
    <3>1. UNCHANGED <<received, pc, held, cache>> /\ active' = active
      BY <2>1, <2>4 DEF SendOne, LookUpOne, UpdateOne, RemoveOne, RangeOne, DeleteOne, orderVars
    <3>2. \A j \in EventIds : todo'[j] \subseteq todo[j]
      <4>. HIDE DEF EventIds, MessageIds
      <4>1. todo \in [EventIds -> SUBSET Actions]
        BY DEF OrderInv, TrackerInv, TrackerTypeOK
      <4>2. ASSUME NEW a, todo' = [todo EXCEPT ![i] = @ \ {a}]
            PROVE  \A j \in EventIds : todo'[j] \subseteq todo[j]
        BY <4>1, <4>2
      <4>3. CASE SendOne(i)
        <5>. DEFINE a == First(todo[i])
        <5>1. todo' = [todo EXCEPT ![i] = @ \ {a}]
          BY <4>3 DEF SendOne
        <5>. HIDE DEF a
        <5>. QED
          BY <4>2, <5>1
      <4>4. CASE UpdateOne(i)
        <5>1. PICK r \in updating[i] : todo' = [todo EXCEPT ![i] = @ \ {r.action}]
          BY <4>4 DEF UpdateOne
        <5>. QED
          BY <4>2, <5>1
      <4>5. CASE LookUpOne(i) \/ RemoveOne(i) \/ RangeOne(i) \/ DeleteOne(i)
        BY <4>5 DEF LookUpOne, RemoveOne, RangeOne, DeleteOne
      <4>. QED
        BY <2>4, <4>3, <4>4, <4>5
    <3>. QED
      BY <3>1, <3>2, MapKept
  <2>. QED
    BY <2>1, <2>2, <2>3, <2>4 DEF HandlerStep
<1>4. ASSUME NEW i \in EventIds, FinishEvent(i) PROVE MapInv'
  BY <1>4, MapKept DEF FinishEvent, Finish, trackerVars
<1>5. CASE UNCHANGED allVars
  BY <1>5, MapKept DEF allVars, trackerVars
<1>. QED
  BY <1>1, <1>2, <1>3, <1>4, <1>5 DEF TrackerNext, AllHandled

-----------------------------------------------------------------------------
(* What becomes of the responses *)

(* What a handler has in hand is still where it found it, or where it put  *)
(* it; a deletion elsewhere may range over what an edit moves on.          *)
HandKnown ==
    \A i \in EventIds :
        /\ updating[i] \subseteq entry[held[i]]
        /\ moving[i] \subseteq entry[i]
        /\ \A r \in deleting[i] :
             /\ r \in visited[i]
             /\ DeletionInLane(received[i].about) => r \in entry[held[i]]

(* Handler i is moving r from the map of j to its own.                     *)
Moves(i, j, r) == r \in moving[i] /\ held[i] = j

(* A response is kept in one map, or in two while it is moved.             *)
KeptOnce ==
    \A i, j \in EventIds : \A r \in entry[i] :
        r \in entry[j] => i = j \/ Moves(i, j, r) \/ Moves(j, i, r)

(* An answer that was not yet sent is nowhere.                             *)
Unsent ==
    \A r \in Responses :
        pc[r.by] \in {"waiting", "lookup"} \/ r.action \in todo[r.by] =>
            /\ r \notin live /\ r \notin lost
            /\ \A j \in EventIds : r \notin entry[j] /\ r \notin visited[j]

(* What a map has is on Slack, unless who holds the map deleted it, or a   *)
(* deletion in another lane did.                                           *)
KeptExists ==
    \A j \in EventIds : DeletionInLane(received[j].about) =>
        \A r \in entry[j] :
            r \in live \/ \E k \in EventIds : held[k] = j /\ r \in visited[k]

(* It answers the map's event, unless someone holds the map to change it.  *)
KeptIsFresh ==
    \A j \in EventIds : \A r \in entry[j] :
        /\ Answering(j) /\ r.action \in Triggered(j)
        /\ text[r] = j \/ \E k \in EventIds : held[k] = j

(* It has all that was answered, with the same exception.                  *)
KeptIsComplete ==
    \A j \in Ids :
        Answering(j) /\ pc[j] \in {"sending", "responding", "finished"} =>
            \A a \in Triggered(j) \ todo[j] :
                \/ Private(j, a) \/ [by |-> j, action |-> a] \in lost
                \/ \E r \in entry[j] : r.action = a
                \/ \E k \in EventIds : held[k] = j

(* The deletion loop leaves nothing on Slack but what it failed to delete, *)
(* or is about to.                                                         *)
VisitedIsGone ==
    \A k \in EventIds : \A r \in visited[k] : r \in live => r \in lost \/ r \in deleting[k]

(* Handler j is not through, or its map is in the cache.                   *)
Watched(j) == pc[j] # "finished" \/ \E id \in MessageIds : cache[id] = j

(* What is on Slack is in a map that is watched, or lost.                  *)
SentIsKept ==
    \A r \in live : r \notin lost =>
        /\ r.by \in Ids
        /\ DeletionInLane(received[r.by].about) /\ ~Private(r.by, r.action) =>
             \E j \in EventIds : r \in entry[j] /\ Watched(j)

ResponseInv ==
    /\ HandKnown
    /\ KeptOnce
    /\ Unsent
    /\ KeptExists
    /\ KeptIsFresh
    /\ KeptIsComplete
    /\ VisitedIsGone
    /\ SentIsKept

LEMMA ResponseInvInit == TrackerInit => ResponseInv
BY DEF TrackerInit, OrderInit, ResponseInv, Ids, HandKnown, KeptOnce, Unsent, KeptExists, KeptIsFresh,
       KeptIsComplete, VisitedIsGone, SentIsKept, Responses

(* Two handlers that hold one map are one, if both change it or a deletion *)
(* is in its lane.                                                         *)
LEMMA OneHolder ==
    ASSUME OrderInv, NEW i \in EventIds, NEW j \in EventIds,
           pc[i] \in {"responding", "removing"}, pc[j] \in {"responding", "removing"},
           received[i].about = received[j].about,
           \/ pc[i] = "responding" /\ pc[j] = "responding"
           \/ DeletionInLane(received[i].about)
    PROVE  i = j
<1>1. /\ i \in active /\ j \in active
      /\ received[i].kind = IF pc[i] = "responding" THEN "changed" ELSE "deleted"
      /\ received[j].kind = IF pc[j] = "responding" THEN "changed" ELSE "deleted"
  BY AtWork DEF OrderInv, TrackerInv, Phases
<1>. QED
  BY <1>1, OneVersionAtWork

(* A map that a handler holds is not being added to.                       *)
LEMMA HeldIsStill ==
    ASSUME OrderInv, MapInv, NEW i \in EventIds, held[i] # 0
    PROVE  held[i] \in EventIds /\ held[i] # i /\ updating[held[i]] = {} /\ moving[held[i]] = {}
BY MapIds DEF OrderInv, TrackerInv, InHand, MapInv, HeldMaps

(* A response in the map of one handler that another moves is one both     *)
(* know.                                                                   *)
LEMMA MovedFromHeld ==
    ASSUME OrderInv, MapInv, NEW i \in EventIds, pc[i] \in {"responding", "removing"},
           NEW j \in EventIds, NEW r, Moves(j, held[i], r),
           pc[i] = "responding" \/ DeletionInLane(received[i].about)
    PROVE  i = j
<1>1. pc[j] = "responding" /\ held[j] = held[i]
  BY DEF Moves, OrderInv, TrackerInv, InHand
<1>2. received[i].about = received[j].about
  BY <1>1, HeldMap DEF OrderInv
<1>. QED
  BY <1>1, <1>2, OneHolder

(* An event is received.                                                   *)
LEMMA ResponsesReceive ==
    ASSUME OrderInv, MapInv, ResponseInv, NEW e \in Events, ReceiveEvent(e)
    PROVE  ResponseInv'
<1>. DEFINE n == Len(received) + 1
<1>1. /\ received \in Seq(Events) /\ received' = Append(received, e)
      /\ Len(received) < MaxEvents /\ UNCHANGED trackerVars
  BY DEF ReceiveEvent, Receive, OrderInv, TrackerInv, TrackerTypeOK, OrderTypeOK
<1>2. /\ n \in EventIds /\ n \notin Ids
      /\ \A k \in Ids : received'[k] = received[k]
      /\ Ids' = Ids \cup {n} /\ Ids \subseteq EventIds
  BY <1>1 DEF Ids
<1>3. pc[n] = "waiting"
  BY <1>2, HandledIds DEF OrderInv, TrackerInv, Phases
<1>4. UNCHANGED <<pc, todo, visited, entry, held, updating, moving, deleting, cache, live, text, lost>>
  BY <1>1 DEF trackerVars, handVars
<1>5. \A j \in Ids : /\ Triggered(j)' = Triggered(j) /\ (Answering(j)' <=> Answering(j))
                      /\ \A a : Private(j, a)' <=> Private(j, a)
  BY <1>2 DEF Triggered, Answering, Private
<1>6. KeptOnce' /\ Unsent' /\ VisitedIsGone'
  BY <1>4 DEF ResponseInv, KeptOnce, Moves, Unsent, VisitedIsGone
<1>0. \A m : DeletionInLane(m)' => DeletionInLane(m)
  BY <1>2 DEF DeletionInLane, Ids
<1>10. KeptExists'
  <2>1. \A j \in EventIds : entry[j] # {} => j \in Ids
    BY DEF OrderInv, TrackerInv, EntriesBelong
  <2>. QED
    BY <1>0, <1>2, <1>4, <2>1 DEF ResponseInv, KeptExists
<1>11. HandKnown'
  <2>1. \A j \in EventIds : deleting[j] # {} => j \in Ids
    BY AtWork DEF OrderInv, TrackerInv, InHand
  <2>. QED
    BY <1>0, <1>2, <1>4, <2>1 DEF ResponseInv, HandKnown
<1>7. KeptIsFresh'
  <2>1. \A j \in EventIds : entry[j] # {} => j \in Ids
    BY DEF OrderInv, TrackerInv, EntriesBelong
  <2>. QED
    BY <1>4, <1>5, <2>1 DEF ResponseInv, KeptIsFresh
<1>8. KeptIsComplete'
  BY <1>2, <1>3, <1>4, <1>5 DEF ResponseInv, KeptIsComplete
<1>9. SentIsKept'
  <2>1. \A j : Watched(j)' <=> Watched(j)
    BY <1>4 DEF Watched
  <2>. QED
    BY <1>0, <1>2, <1>4, <1>5, <2>1 DEF ResponseInv, SentIsKept
<1>. QED
  BY <1>6, <1>7, <1>8, <1>9, <1>10, <1>11 DEF ResponseInv

(* A handler of which nothing was sent yet starts or looks up: the maps    *)
(* and Slack stay.                                                         *)
LEMMA ResponsesStart ==
    ASSUME OrderInv, MapInv, ResponseInv, NEW i \in EventIds,
           pc[i] \in {"waiting", "lookup"},
           UNCHANGED <<received, visited, entry, handVars, cache, live, text, lost>>,
           \A j \in EventIds : j # i =>
                pc'[j] = pc[j] /\ todo'[j] = todo[j] /\ held'[j] = held[j],
           pc'[i] = "finished" => ~Answering(i),
           pc'[i] \in {"sending", "responding"} => todo'[i] = Triggered(i)
    PROVE  ResponseInv'
<1>1. held[i] = 0 /\ entry[i] = {}
  BY DEF OrderInv, HoldersFound, TrackerInv, EntriesBelong
<1>2. Ids' = Ids /\ Ids \subseteq EventIds
  BY HandledIds DEF OrderInv, TrackerInv, Ids
<1>0. /\ UNCHANGED <<updating, moving, deleting>>
      /\ updating[i] = {} /\ moving[i] = {} /\ deleting[i] = {}
  BY NothingInHand DEF handVars, OrderInv, Busy
<1>3. HandKnown' /\ KeptOnce' /\ VisitedIsGone'
  BY <1>0 DEF ResponseInv, HandKnown, DeletionInLane, KeptOnce, Moves, VisitedIsGone
<1>4. Unsent'
  <2>1. \A r \in Responses : r.by \in EventIds
    BY DEF Responses
  <2>. QED
    BY <2>1 DEF ResponseInv, Unsent
<1>5. \A j, k \in EventIds : held[k] = j => held'[k] = j
  BY <1>1
<1>6. KeptExists'
  BY <1>5 DEF ResponseInv, KeptExists, DeletionInLane
<1>7. /\ \A j : Triggered(j)' = Triggered(j) /\ (Answering(j)' <=> Answering(j))
      /\ \A j, a : Private(j, a)' <=> Private(j, a)
      /\ \A m : DeletionInLane(m)' <=> DeletionInLane(m)
  BY DEF Triggered, Answering, Private, DeletionInLane
<1>8. KeptIsFresh'
  BY <1>5, <1>7 DEF ResponseInv, KeptIsFresh
<1>9. KeptIsComplete'
  <2>. SUFFICES ASSUME NEW j \in Ids, Answering(j),
                       pc'[j] \in {"sending", "responding", "finished"},
                       NEW a \in Triggered(j) \ todo'[j]
                PROVE  \/ Private(j, a) \/ [by |-> j, action |-> a] \in lost
                       \/ \E r \in entry[j] : r.action = a
                       \/ \E k \in EventIds : held'[k] = j
    BY <1>2, <1>7 DEF KeptIsComplete
  <2>1. j # i
    OBVIOUS
  <2>. QED
    BY <1>2, <1>5, <2>1 DEF ResponseInv, KeptIsComplete
<1>10. SentIsKept'
  <2>1. \A j \in EventIds : j # i => (Watched(j)' <=> Watched(j))
    BY DEF Watched
  <2>. QED
    BY <1>1, <1>2, <1>7, <2>1 DEF ResponseInv, SentIsKept
<1>. QED
  BY <1>3, <1>4, <1>6, <1>8, <1>9, <1>10 DEF ResponseInv

LEMMA ResponsesStore ==
    ASSUME OrderInv, MapInv, ResponseInv, NEW i \in EventIds, UNCHANGED orderVars,
           StoreSent(i) \/ ReplaceResponses(i) \/ ForgetResponses(i)
    PROVE  ResponseInv'
<1>. DEFINE m == received[i].about  key == KeyOf(i)
<1>1. /\ pc[i] \in {"sending", "responding", "removing"}
      /\ pc' = [pc EXCEPT ![i] = "finished"]
      /\ UNCHANGED <<todo, visited, entry, held, live, text, received, active, done>>
      /\ UNCHANGED <<updating, moving, deleting>>
  BY DEF StoreSent, ReplaceResponses, ForgetResponses, orderVars, handVars
<1>2. \A j \in EventIds : pc'[j] = IF j = i THEN "finished" ELSE pc[j]
  BY <1>1 DEF OrderInv, TrackerInv, TrackerTypeOK
<1>3. i \in Ids /\ i \in active /\ Ids' = Ids /\ Ids \subseteq EventIds
  BY <1>1, AtWork, HandledIds DEF OrderInv, TrackerInv, Ids
<1>4. lost \subseteq lost' /\ lost' \subseteq lost \cup UNION {entry[j] : j \in EventIds}
  BY StoreEffect
<1>5. /\ \A j : Triggered(j)' = Triggered(j) /\ (Answering(j)' <=> Answering(j))
      /\ \A j, a : Private(j, a)' <=> Private(j, a)
      /\ \A k : DeletionInLane(k)' <=> DeletionInLane(k)
  BY <1>1 DEF Triggered, Answering, Private, DeletionInLane
<1>6. HandKnown' /\ KeptOnce' /\ KeptExists'
  BY <1>1, <1>5 DEF ResponseInv, HandKnown, KeptOnce, Moves, KeptExists
<1>7. KeptIsFresh'
  BY <1>1, <1>5 DEF ResponseInv, KeptIsFresh
<1>8. VisitedIsGone'
  BY <1>1, <1>4 DEF ResponseInv, VisitedIsGone
<1>9. Unsent'
  <2>1. \A r \in Responses : r.by \in EventIds
    BY DEF Responses
  <2>2. ASSUME NEW r \in Responses, pc'[r.by] \in {"waiting", "lookup"} \/ r.action \in todo[r.by]
        PROVE  /\ r \notin live /\ r \notin lost'
               /\ \A j \in EventIds : r \notin entry[j] /\ r \notin visited[j]
    <3>1. pc[r.by] \in {"waiting", "lookup"} \/ r.action \in todo[r.by]
      BY <1>2, <2>1, <2>2
    <3>. QED
      BY <1>4, <3>1 DEF ResponseInv, Unsent
  <2>. QED
    BY <1>1, <2>2 DEF Unsent
<1>10. KeptIsComplete'
  <2>. SUFFICES ASSUME NEW j \in Ids, Answering(j),
                       pc'[j] \in {"sending", "responding", "finished"},
                       NEW a \in Triggered(j) \ todo[j]
                PROVE  \/ Private(j, a) \/ [by |-> j, action |-> a] \in lost'
                       \/ \E r \in entry[j] : r.action = a
                       \/ \E k \in EventIds : held[k] = j
    BY <1>1, <1>3, <1>5 DEF KeptIsComplete
  <2>1. pc[j] \in {"sending", "responding", "finished"}
    <3>1. CASE j # i
      BY <1>2, <1>3, <3>1
    <3>2. CASE j = i
      <4>1. received[i].kind # "deleted"
        BY <3>2 DEF Answering
      <4>. QED
        BY <1>1, <3>2, <4>1 DEF OrderInv, TrackerInv, Phases
    <3>. QED
      BY <3>1, <3>2
  <2>. QED
    BY <1>4, <2>1 DEF ResponseInv, KeptIsComplete
<1>11. SentIsKept'
  <2>. SUFFICES ASSUME NEW r \in live, r \notin lost'
                PROVE  /\ r.by \in Ids
                       /\ DeletionInLane(received[r.by].about) /\ ~Private(r.by, r.action) =>
                            \E j \in EventIds : r \in entry[j] /\ Watched(j)'
    BY <1>1, <1>3, <1>5 DEF SentIsKept
  <2>1. r \notin lost /\ r.by \in Ids
    BY <1>4 DEF ResponseInv, SentIsKept
  <2>. SUFFICES ASSUME DeletionInLane(received[r.by].about), ~Private(r.by, r.action)
                PROVE  \E j \in EventIds : r \in entry[j] /\ Watched(j)'
    BY <2>1
  <2>2. PICK j \in EventIds : r \in entry[j] /\ Watched(j)
    BY <2>1 DEF ResponseInv, SentIsKept
  <2>3. j \in Ids /\ received[r.by].about = received[j].about
    BY <2>2 DEF OrderInv, TrackerInv, EntriesBelong
  <2>. SUFFICES Watched(j)'
    BY <2>2
  <2>4. CASE j = i
    <3>1. entry[i] # {} /\ Answering(i)
      BY <2>2, <2>4 DEF ResponseInv, KeptIsFresh
    <3>2. pc[i] # "removing"
      BY <3>1 DEF Answering, OrderInv, TrackerInv, Phases
    <3>3. key \in MessageIds /\ cache'[key] = i
      BY <3>1, <3>2, StoreEffect
    <3>. QED
      BY <2>4, <3>3 DEF Watched
  <2>5. CASE j # i /\ pc[j] # "finished"
    BY <1>2, <2>5 DEF Watched
  <2>6. CASE j # i /\ pc[j] = "finished"
    <3>1. PICK id \in MessageIds : cache[id] = j
      BY <2>2, <2>6 DEF Watched
    <3>2. id # key
      <4>. SUFFICES ASSUME id = key PROVE FALSE
        OBVIOUS
      <4>1. id \in Ids /\ pc[id] = "finished"
        BY <3>1 DEF MapInv, CachedMaps
      <4>2. pc[i] \in {"responding", "removing"} /\ id = m
        BY <1>1, <4>1 DEF KeyOf
      <4>3. received[j].about = m
        <5>1. MessageOf(m) = m
          BY <1>3, AboutItself DEF OrderInv, TrackerInv, TrackerTypeOK
        <5>. QED
          BY <3>1, <4>2, <5>1 DEF OrderInv, TrackerInv, CacheBelongs
      <4>4. cache[m] = held[i]
        BY <1>3, <2>3, <3>1, <4>2, <4>3 DEF MapInv, HeldIsCached
      <4>5. r \in visited[i] /\ deleting[i] = {}
        <5>1. ToDelete(i) = {} /\ deleting[i] = {}
          BY <4>2 DEF StoreSent, ReplaceResponses, ForgetResponses, Busy
        <5>. QED
          BY <2>2, <3>1, <4>2, <4>4, <5>1 DEF ToDelete
      <4>. QED
        BY <2>1, <4>5 DEF ResponseInv, VisitedIsGone
    <3>3. \/ cache'[id] = cache[id]
          \/ entry[cache[id]] \subseteq lost'
      BY <3>2, StoreEffect
    <3>. QED
      BY <2>2, <3>1, <3>3 DEF Watched
  <2>. QED
    BY <2>4, <2>5, <2>6
<1>. QED
  BY <1>6, <1>7, <1>8, <1>9, <1>10, <1>11 DEF ResponseInv

-----------------------------------------------------------------------------
(* The API calls *)

(* What stays as it is while a call is made.                               *)
LEMMA SameMeaning ==
    ASSUME UNCHANGED received
    PROVE  /\ Ids' = Ids
           /\ \A j : Triggered(j)' = Triggered(j) /\ (Answering(j)' <=> Answering(j))
           /\ \A j, a : Private(j, a)' <=> Private(j, a)
           /\ \A k : DeletionInLane(k)' <=> DeletionInLane(k)
BY DEF Ids, Triggered, Answering, Private, DeletionInLane

LEMMA ResponsesSend ==
    ASSUME OrderInv, MapInv, ResponseInv, NEW i \in EventIds, UNCHANGED orderVars, SendOne(i)
    PROVE  ResponseInv'
<1>. DEFINE a == First(todo[i])  r == [by |-> i, action |-> a]
<1>1. /\ pc[i] \in {"sending", "responding"} /\ todo[i] # {}
      /\ SendNew(i, a) /\ todo' = [todo EXCEPT ![i] = @ \ {a}]
      /\ UNCHANGED <<pc, visited, held, updating, moving, deleting, cache, received>>
  BY DEF SendOne, orderVars, handVars
<1>2. /\ todo[i] \subseteq Actions /\ a \in todo[i] /\ i \in Ids
      /\ a \in Triggered(i) /\ Answering(i)
  <2>1. todo[i] \subseteq Actions /\ a \in todo[i] /\ i \in Ids
    BY <1>1, FirstIsOne, AtWork DEF OrderInv, TrackerInv, TrackerTypeOK
  <2>2. received[i].kind \in {"new", "changed"}
    BY <1>1 DEF OrderInv, TrackerInv, Phases
  <2>. QED
    BY <1>1, <2>1, <2>2 DEF MapInv, Sending, Answering
<1>3. r \in Responses /\ r.by = i /\ r.action = a
  BY <1>2 DEF Responses
<1>4. \/ /\ live' = live \cup {r} /\ text' = [text EXCEPT ![r] = i] /\ lost' = lost
         /\ \/ Private(i, a) /\ entry' = entry
            \/ ~Private(i, a) /\ entry' = [entry EXCEPT ![i] = @ \cup {r}]
      \/ live' = live /\ text' = text /\ lost' = lost \cup {r} /\ entry' = entry
      \/ /\ live' = live \cup {r} /\ text' = [text EXCEPT ![r] = i]
         /\ lost' = lost \cup {r} /\ entry' = entry
  BY <1>1 DEF SendNew
<1>5. /\ r \notin live /\ r \notin lost
      /\ \A j \in EventIds : r \notin entry[j] /\ r \notin visited[j]
  BY <1>2, <1>3 DEF ResponseInv, Unsent
<1>6. /\ entry \in [EventIds -> SUBSET Responses] /\ todo \in [EventIds -> SUBSET Actions]
      /\ text \in [Responses -> MessageIds] /\ live \subseteq Responses
  BY DEF OrderInv, TrackerInv, TrackerTypeOK
<1>7. /\ \A j \in EventIds : todo'[j] = IF j = i THEN todo[i] \ {a} ELSE todo[j]
      /\ \A j \in EventIds : j # i => entry'[j] = entry[j]
      /\ entry[i] \subseteq entry'[i] /\ entry'[i] \subseteq entry[i] \cup {r}
      /\ \A s \in Responses : s # r => text'[s] = text[s]
      /\ live \subseteq live' /\ live' \subseteq live \cup {r}
      /\ lost \subseteq lost' /\ lost' \subseteq lost \cup {r}
      /\ r \in entry'[i] => r \in live' /\ text'[r] = i
      /\ r \in entry'[i] \/ r \in lost' \/ Private(i, a)
  <2>. HIDE DEF r, a
  <2>1. \A j \in EventIds : todo'[j] = IF j = i THEN todo[i] \ {a} ELSE todo[j]
    BY <1>1, <1>6
  <2>2. CASE entry' = entry /\ (r \in lost' \/ Private(i, a))
    <3>1. \A s \in Responses : s # r => text'[s] = text[s]
      BY <1>4, <1>6
    <3>. QED
      BY <1>3, <1>4, <1>5, <2>1, <2>2, <3>1
  <2>3. CASE entry' = [entry EXCEPT ![i] = @ \cup {r}] /\ r \in live' /\ lost' = lost
                /\ live' = live \cup {r} /\ text' = [text EXCEPT ![r] = i]
    BY <1>3, <1>6, <2>1, <2>3
  <2>. QED
    BY <1>4, <2>2, <2>3
<1>. HIDE DEF a, r
<1>8. KeptOnce'
  BY <1>1, <1>5, <1>7 DEF ResponseInv, KeptOnce, Moves
<1>0. HandKnown'
  <2>1. \A j \in EventIds : entry[j] \subseteq entry'[j]
    BY <1>7
  <2>2. \A j \in EventIds : updating[j] # {} \/ deleting[j] # {} => held[j] \in EventIds
    BY HeldMap DEF OrderInv, TrackerInv, InHand
  <2>3. \A j : DeletionInLane(j)' <=> DeletionInLane(j)
    BY <1>1 DEF DeletionInLane
  <2>. QED
    BY <1>1, <2>1, <2>2, <2>3 DEF ResponseInv, HandKnown
<1>9. Unsent'
  <2>1. \A s \in Responses : s.by \in EventIds
    BY DEF Responses
  <2>2. ASSUME NEW s \in Responses, pc[s.by] \in {"waiting", "lookup"} \/ s.action \in todo'[s.by]
        PROVE  s # r /\ (pc[s.by] \in {"waiting", "lookup"} \/ s.action \in todo[s.by])
    BY <1>1, <1>3, <1>7, <2>1, <2>2
  <2>3. ASSUME NEW s \in Responses, pc[s.by] \in {"waiting", "lookup"} \/ s.action \in todo'[s.by]
        PROVE  /\ s \notin live' /\ s \notin lost'
               /\ \A j \in EventIds : s \notin entry'[j] /\ s \notin visited[j]
    <3>1. s # r /\ (pc[s.by] \in {"waiting", "lookup"} \/ s.action \in todo[s.by])
      BY <2>2, <2>3
    <3>2. /\ s \notin live /\ s \notin lost
          /\ \A j \in EventIds : s \notin entry[j] /\ s \notin visited[j]
      BY <3>1 DEF ResponseInv, Unsent
    <3>. QED
      BY <1>7, <3>1, <3>2
  <2>. QED
    BY <1>1, <2>3 DEF Unsent
<1>10. KeptExists'
  BY <1>1, <1>7, SameMeaning DEF ResponseInv, KeptExists
<1>11. KeptIsFresh'
  <2>. SUFFICES ASSUME NEW j \in EventIds, NEW s \in entry'[j]
                PROVE  /\ Answering(j) /\ s.action \in Triggered(j)
                       /\ text'[s] = j \/ \E k \in EventIds : held[k] = j
    BY <1>1, SameMeaning DEF KeptIsFresh
  <2>1. CASE s = r
    <3>1. j = i
      BY <1>5, <1>7, <2>1
    <3>. QED
      BY <1>2, <1>3, <1>7, <2>1, <3>1
  <2>2. CASE s # r
    <3>1. s \in entry[j] /\ s \in Responses
      BY <1>6, <1>7, <2>2
    <3>. QED
      BY <1>7, <2>2, <3>1 DEF ResponseInv, KeptIsFresh
  <2>. QED
    BY <2>1, <2>2
<1>12. KeptIsComplete'
  <2>. SUFFICES ASSUME NEW j \in Ids, Answering(j),
                       pc[j] \in {"sending", "responding", "finished"},
                       NEW b \in Triggered(j) \ todo'[j]
                PROVE  \/ Private(j, b) \/ [by |-> j, action |-> b] \in lost'
                       \/ \E s \in entry'[j] : s.action = b
                       \/ \E k \in EventIds : held[k] = j
    BY <1>1, SameMeaning DEF KeptIsComplete
  <2>0. Ids \subseteq EventIds
    BY HandledIds DEF OrderInv, TrackerInv
  <2>1. CASE j = i /\ b = a
    <3>1. r \in entry'[i] \/ [by |-> i, action |-> a] \in lost' \/ Private(i, a)
      BY <1>7 DEF r
    <3>. QED
      BY <1>3, <2>1, <3>1
  <2>2. CASE j # i \/ b # a
    <3>1. b \in Triggered(j) \ todo[j]
      BY <1>7, <2>0, <2>2
    <3>2. entry[j] \subseteq entry'[j]
      BY <1>7, <2>0
    <3>. QED
      BY <1>7, <3>1, <3>2 DEF ResponseInv, KeptIsComplete
  <2>. QED
    BY <2>1, <2>2
<1>13. VisitedIsGone'
  BY <1>1, <1>5, <1>7 DEF ResponseInv, VisitedIsGone
<1>14. SentIsKept'
  <2>. SUFFICES ASSUME NEW s \in live', s \notin lost'
                PROVE  /\ s.by \in Ids
                       /\ DeletionInLane(received[s.by].about) /\ ~Private(s.by, s.action) =>
                            \E j \in EventIds : s \in entry'[j] /\ Watched(j)
    <3>1. \A j : Watched(j)' <=> Watched(j)
      BY <1>1 DEF Watched
    <3>. QED
      BY <1>1, <3>1, SameMeaning DEF SentIsKept
  <2>1. CASE s = r
    BY <1>1, <1>2, <1>3, <1>7, <2>1 DEF Watched
  <2>2. CASE s # r
    BY <1>7, <2>2 DEF ResponseInv, SentIsKept
  <2>. QED
    BY <2>1, <2>2
<1>. QED
  BY <1>0, <1>8, <1>9, <1>10, <1>11, <1>12, <1>13, <1>14 DEF ResponseInv

(* A handler finds the response it will update.                            *)
LEMMA ResponsesLookUp ==
    ASSUME OrderInv, MapInv, ResponseInv, NEW i \in EventIds, UNCHANGED orderVars, LookUpOne(i)
    PROVE  ResponseInv'
<1>1. UNCHANGED <<pc, todo, visited, entry, held, moving, deleting, cache, live, text, lost, received>>
  BY DEF LookUpOne, orderVars
<1>2. \A j \in EventIds : updating'[j] = updating[j] \/ updating'[j] \subseteq entry[held[j]]
  BY DEF LookUpOne, Previous, OrderInv, TrackerInv, TrackerTypeOK
<1>3. \A j : Watched(j)' <=> Watched(j)
  BY <1>1 DEF Watched
<1>4. HandKnown' /\ KeptOnce' /\ Unsent' /\ KeptExists' /\ VisitedIsGone'
  BY <1>1, <1>2, SameMeaning
     DEF ResponseInv, HandKnown, KeptOnce, Moves, Unsent, KeptExists, VisitedIsGone
<1>5. KeptIsFresh' /\ KeptIsComplete' /\ SentIsKept'
  BY <1>1, <1>3, SameMeaning DEF ResponseInv, KeptIsFresh, KeptIsComplete, SentIsKept
<1>. QED
  BY <1>4, <1>5 DEF ResponseInv

LEMMA ResponsesUpdate ==
    ASSUME OrderInv, MapInv, ResponseInv, NEW i \in EventIds, UNCHANGED orderVars, UpdateOne(i)
    PROVE  ResponseInv'
<1>. DEFINE h == held[i]
<1>3. PICK r \in updating[i] : /\ UpdateResponse(i, r)
                               /\ todo' = [todo EXCEPT ![i] = @ \ {r.action}]
  BY DEF UpdateOne
<1>. DEFINE a == r.action
<1>1. /\ pc[i] = "responding" /\ todo' = [todo EXCEPT ![i] = @ \ {a}]
      /\ updating' = [updating EXCEPT ![i] = {}]
      /\ moving[i] = {} /\ deleting[i] = {}
      /\ UNCHANGED <<pc, visited, held, deleting, cache, live, received>>
  BY <1>3 DEF UpdateOne, orderVars, OrderInv, TrackerInv, InHand
<1>2. /\ a \in todo[i] /\ i \in Ids /\ a \in Triggered(i) /\ Answering(i)
      /\ h \in EventIds /\ h # i /\ held[i] = h
  <2>1. a \in todo[i] /\ i \in Ids
    BY <1>1, <1>3, AtWork DEF OrderInv, TrackerInv, InHand
  <2>2. received[i].kind = "changed" /\ h # 0
    BY <1>1 DEF OrderInv, TrackerInv, Phases
  <2>3. h \in EventIds /\ h # i
    BY <2>2, HeldIsStill
  <2>. QED
    BY <1>1, <2>1, <2>2, <2>3 DEF MapInv, Sending, Answering
<1>. DEFINE missed == [by |-> i, action |-> a]
<1>4. r \in entry[h] /\ r.action = a /\ missed.by = i /\ missed.action = a
  BY <1>3 DEF ResponseInv, HandKnown
<1>5. \/ /\ r \in live /\ lost' = lost /\ text' = [text EXCEPT ![r] = i]
         /\ entry' = [entry EXCEPT ![i] = @ \cup {r}] /\ moving' = [moving EXCEPT ![i] = {r}]
      \/ /\ lost' = lost \cup {missed} /\ text' \in {text, [text EXCEPT ![r] = i]}
         /\ entry' = entry /\ moving' = moving
  BY <1>3, <1>4 DEF UpdateResponse, UpdateMissed
<1>6. /\ entry \in [EventIds -> SUBSET Responses] /\ todo \in [EventIds -> SUBSET Actions]
      /\ text \in [Responses -> MessageIds] /\ moving \in [EventIds -> SUBSET Responses]
      /\ updating \in [EventIds -> SUBSET Responses]
  BY DEF OrderInv, TrackerInv, TrackerTypeOK
<1>. HIDE DEF a, h
<1>7. r \in Responses /\ \A j \in EventIds : r \in entry[j] => j = h
  <2>1. moving[h] = {}
    <3>1. held[i] # 0
      BY <1>2
    <3>. QED
      BY <1>2, <3>1, HeldIsStill
  <2>2. ASSUME NEW j \in EventIds, Moves(j, h, r) PROVE FALSE
    <3>1. Moves(j, held[i], r)
      BY <1>2, <2>2
    <3>2. i = j
      BY <1>1, <3>1, MovedFromHeld
    <3>. QED
      BY <1>1, <2>2, <3>2 DEF Moves
  <2>. QED
    BY <1>2, <1>4, <1>6, <2>1, <2>2 DEF ResponseInv, KeptOnce, Moves
<1>8. /\ \A j \in EventIds : todo'[j] = IF j = i THEN todo[i] \ {a} ELSE todo[j]
      /\ \A s \in Responses : s # r => text'[s] = text[s]
  <2>. HIDE DEF missed, EventIds, MessageIds
  <2>1. \A j \in EventIds : todo'[j] = IF j = i THEN todo[i] \ {a} ELSE todo[j]
    BY <1>1, <1>6
  <2>2. text' \in {text, [text EXCEPT ![r] = i]}
    BY <1>5
  <2>3. \A s \in Responses : s # r => text'[s] = text[s]
    BY <1>6, <2>2
  <2>. QED
    BY <2>1, <2>3
<1>9. \/ /\ lost' = lost \cup {missed} /\ entry' = entry /\ moving' = moving
      \/ /\ lost' = lost /\ r \in live /\ text'[r] = i
         /\ \A j \in EventIds : /\ entry'[j] = IF j = i THEN entry[i] \cup {r} ELSE entry[j]
                               /\ moving'[j] = IF j = i THEN {r} ELSE moving[j]
  <2>. HIDE DEF missed, EventIds, MessageIds
  <2>1. CASE lost' = lost \cup {missed} /\ entry' = entry /\ moving' = moving
    BY <2>1
  <2>2. CASE /\ r \in live /\ lost' = lost /\ text' = [text EXCEPT ![r] = i]
             /\ entry' = [entry EXCEPT ![i] = @ \cup {r}]
             /\ moving' = [moving EXCEPT ![i] = {r}]
    <3>1. text'[r] = i
      BY <1>6, <1>7, <2>2
    <3>2. \A j \in EventIds : /\ entry'[j] = IF j = i THEN entry[i] \cup {r} ELSE entry[j]
                              /\ moving'[j] = IF j = i THEN {r} ELSE moving[j]
      BY <1>6, <2>2
    <3>. QED
      BY <2>2, <3>1, <3>2
  <2>. QED
    BY <1>5, <2>1, <2>2
<1>10. \A j \in EventIds : \A s \in entry'[j] :
          \/ s # r /\ s \in entry[j]
          \/ s = r /\ j = h
          \/ s = r /\ j = i /\ r \in live /\ text'[r] = i
  BY <1>2, <1>7, <1>9
<1>11. lost \subseteq lost' /\ lost' \subseteq lost \cup {missed}
  BY <1>9
<1>12. KeptOnce'
  <2>. SUFFICES ASSUME NEW j \in EventIds, NEW k \in EventIds, NEW s \in entry'[j],
                       s \in entry'[k]
                PROVE  j = k \/ Moves(j, k, s)' \/ Moves(k, j, s)'
    BY DEF KeptOnce
  <2>1. CASE s = r
    <3>1. j = h \/ (j = i /\ r \in moving'[i])
      BY <1>2, <1>7, <1>9, <2>1
    <3>2. k = h \/ (k = i /\ r \in moving'[i])
      BY <1>2, <1>7, <1>9, <2>1
    <3>. QED
      BY <1>1, <1>2, <2>1, <3>1, <3>2 DEF Moves
  <2>2. CASE s # r
    <3>1. s \in entry[j] /\ s \in entry[k]
      BY <1>9, <2>2
    <3>2. j = k \/ Moves(j, k, s) \/ Moves(k, j, s)
      BY <3>1 DEF ResponseInv, KeptOnce
    <3>3. \A l \in EventIds : moving[l] \subseteq moving'[l]
      BY <1>1, <1>9
    <3>. QED
      BY <1>1, <3>2, <3>3 DEF Moves
  <2>. QED
    BY <2>1, <2>2
<1>0. HandKnown'
  <2>1. \A j \in EventIds : entry[j] \subseteq entry'[j]
    BY <1>9
  <2>2. \A j \in EventIds : updating[j] # {} \/ deleting[j] # {} => held[j] \in EventIds
    BY HeldMap DEF OrderInv, TrackerInv, InHand
  <2>3. \A j : DeletionInLane(j)' <=> DeletionInLane(j)
    BY <1>1 DEF DeletionInLane
  <2>4. \A j \in EventIds : updating'[j] = IF j = i THEN {} ELSE updating[j]
    BY <1>1, <1>6
  <2>5. \A j \in EventIds : moving'[j] \subseteq entry'[j]
    BY <1>1, <1>9 DEF ResponseInv, HandKnown
  <2>. QED
    BY <1>1, <2>1, <2>2, <2>3, <2>4, <2>5 DEF ResponseInv, HandKnown
<1>13. Unsent'
  <2>1. \A s \in Responses : s.by \in EventIds
    BY DEF Responses
  <2>2. ASSUME NEW s \in Responses, pc[s.by] \in {"waiting", "lookup"} \/ s.action \in todo'[s.by]
        PROVE  /\ s \notin live /\ s \notin lost'
               /\ \A j \in EventIds : s \notin entry'[j] /\ s \notin visited[j]
    <3>1. s # missed /\ (pc[s.by] \in {"waiting", "lookup"} \/ s.action \in todo[s.by])
      BY <1>1, <1>4, <1>8, <2>1, <2>2
    <3>2. /\ s \notin live /\ s \notin lost
          /\ \A j \in EventIds : s \notin entry[j] /\ s \notin visited[j]
      BY <3>1 DEF ResponseInv, Unsent
    <3>3. s # r
      BY <1>2, <1>4, <3>2
    <3>. QED
      BY <1>10, <1>11, <3>1, <3>2, <3>3
  <2>. QED
    BY <1>1, <2>2 DEF Unsent
<1>14. KeptExists'
  <2>. SUFFICES ASSUME NEW j \in EventIds, NEW s \in entry'[j],
                       DeletionInLane(received[j].about)
                PROVE  s \in live \/ \E k \in EventIds : held[k] = j /\ s \in visited[k]
    BY <1>1, SameMeaning DEF KeptExists
  <2>1. s \in entry[j] \/ s \in live
    BY <1>4, <1>10
  <2>. QED
    BY <2>1 DEF ResponseInv, KeptExists
<1>15. KeptIsFresh'
  <2>. SUFFICES ASSUME NEW j \in EventIds, NEW s \in entry'[j]
                PROVE  /\ Answering(j) /\ s.action \in Triggered(j)
                       /\ text'[s] = j \/ \E k \in EventIds : held[k] = j
    BY <1>1, SameMeaning DEF KeptIsFresh
  <2>1. CASE s # r /\ s \in entry[j]
    <3>1. text'[s] = text[s]
      BY <1>6, <1>8, <2>1
    <3>. QED
      BY <2>1, <3>1 DEF ResponseInv, KeptIsFresh
  <2>2. CASE s = r /\ j = h
    BY <1>2, <1>4, <2>2 DEF ResponseInv, KeptIsFresh
  <2>3. CASE s = r /\ j = i /\ text'[r] = i
    BY <1>2, <1>4, <2>3
  <2>. QED
    BY <1>10, <2>1, <2>2, <2>3
<1>16. KeptIsComplete'
  <2>. SUFFICES ASSUME NEW j \in Ids, Answering(j),
                       pc[j] \in {"sending", "responding", "finished"},
                       NEW b \in Triggered(j) \ todo'[j]
                PROVE  \/ Private(j, b) \/ [by |-> j, action |-> b] \in lost'
                       \/ \E s \in entry'[j] : s.action = b
                       \/ \E k \in EventIds : held[k] = j
    BY <1>1, SameMeaning DEF KeptIsComplete
  <2>0. j \in EventIds
    BY HandledIds DEF OrderInv, TrackerInv
  <2>1. CASE j = i /\ b = a
    BY <1>2, <1>4, <1>9, <2>1
  <2>2. CASE j # i \/ b # a
    <3>1. b \in Triggered(j) \ todo[j]
      BY <1>8, <2>0, <2>2
    <3>2. entry[j] \subseteq entry'[j]
      BY <1>9, <2>0
    <3>. QED
      BY <1>2, <1>11, <3>1, <3>2 DEF ResponseInv, KeptIsComplete
  <2>. QED
    BY <2>1, <2>2
<1>17. VisitedIsGone'
  BY <1>1, <1>11 DEF ResponseInv, VisitedIsGone
<1>18. SentIsKept'
  <2>. SUFFICES ASSUME NEW s \in live, s \notin lost'
                PROVE  /\ s.by \in Ids
                       /\ DeletionInLane(received[s.by].about) /\ ~Private(s.by, s.action) =>
                            \E j \in EventIds : s \in entry'[j] /\ Watched(j)
    <3>1. \A j : Watched(j)' <=> Watched(j)
      BY <1>1 DEF Watched
    <3>. QED
      BY <1>1, <3>1, SameMeaning DEF SentIsKept
  <2>1. s \notin lost /\ s.by \in Ids
    BY <1>11 DEF ResponseInv, SentIsKept
  <2>2. ASSUME NEW j \in EventIds, s \in entry[j], Watched(j)
        PROVE  \E k \in EventIds : s \in entry'[k] /\ Watched(k)
    BY <1>9, <2>2
  <2>. QED
    BY <2>1, <2>2 DEF ResponseInv, SentIsKept
<1>. QED
  BY <1>0, <1>12, <1>13, <1>14, <1>15, <1>16, <1>17, <1>18 DEF ResponseInv

(* The updated response leaves the old map.                                *)
LEMMA ResponsesRemove ==
    ASSUME OrderInv, MapInv, ResponseInv, NEW i \in EventIds, UNCHANGED orderVars, RemoveOne(i)
    PROVE  ResponseInv'
<1>. DEFINE h == held[i]
<1>1. /\ moving[i] # {} /\ entry' = [entry EXCEPT ![h] = @ \ moving[i]]
      /\ moving' = [moving EXCEPT ![i] = {}]
      /\ UNCHANGED <<pc, todo, visited, held, updating, deleting, cache, live, text, lost, received>>
  BY DEF RemoveOne, orderVars
<1>2. /\ pc[i] = "responding" /\ h # 0 /\ updating[i] = {} /\ deleting[i] = {}
      /\ moving[i] \subseteq entry[i]
  BY <1>1 DEF OrderInv, TrackerInv, InHand, Phases, ResponseInv, HandKnown
<1>3. h \in EventIds /\ h # i /\ moving[h] = {}
  BY <1>2, HeldIsStill
<1>4. /\ entry \in [EventIds -> SUBSET Responses] /\ moving \in [EventIds -> SUBSET Responses]
  BY DEF OrderInv, TrackerInv, TrackerTypeOK
<1>5. \A j \in EventIds : /\ entry'[j] = IF j = h THEN entry[h] \ moving[i] ELSE entry[j]
                          /\ moving'[j] = IF j = i THEN {} ELSE moving[j]
  <2>. HIDE DEF EventIds, h
  <2>. QED
    BY <1>1, <1>3, <1>4
<1>6. ASSUME NEW j \in EventIds, pc[j] \in {"responding", "removing"}, held[j] = h, j # i
      PROVE  pc[j] # "responding" /\ ~DeletionInLane(received[j].about)
  <2>1. received[i].about = received[j].about
    BY <1>2, <1>6, HeldMap DEF OrderInv
  <2>. QED
    BY <1>2, <1>6, <2>1, OneHolder
<1>7. HandKnown'
  <2>1. ASSUME NEW j \in EventIds PROVE updating[j] \subseteq entry'[held[j]]
    <3>1. CASE updating[j] = {}
      BY <3>1
    <3>2. CASE updating[j] # {}
      <4>1. pc[j] = "responding" /\ j # i /\ updating[j] \subseteq entry[held[j]]
        BY <1>2, <3>2 DEF OrderInv, TrackerInv, InHand, ResponseInv, HandKnown
      <4>2. held[j] # h /\ held[j] \in EventIds
        BY <1>6, <4>1, HeldMap DEF OrderInv
      <4>. QED
        BY <1>5, <4>1, <4>2
    <3>. QED
      BY <3>1, <3>2
  <2>2. ASSUME NEW j \in EventIds PROVE moving'[j] \subseteq entry'[j]
    BY <1>3, <1>5 DEF ResponseInv, HandKnown
  <2>3. ASSUME NEW j \in EventIds, NEW r \in deleting[j]
        PROVE  r \in visited[j] /\ (DeletionInLane(received[j].about) => r \in entry'[held[j]])
    <3>1. pc[j] \in {"responding", "removing"} /\ j # i
      BY <1>2, <2>3 DEF OrderInv, TrackerInv, InHand
    <3>2. held[j] \in EventIds
      BY <3>1, HeldMap DEF OrderInv
    <3>. QED
      BY <1>5, <1>6, <2>3, <3>1, <3>2 DEF ResponseInv, HandKnown
  <2>. QED
    BY <1>1, <2>1, <2>2, <2>3, SameMeaning DEF HandKnown
<1>8. KeptOnce'
  <2>. SUFFICES ASSUME NEW j \in EventIds, NEW k \in EventIds, NEW s \in entry'[j],
                       s \in entry'[k]
                PROVE  j = k \/ Moves(j, k, s)' \/ Moves(k, j, s)'
    BY DEF KeptOnce
  <2>1. s \in entry[j] /\ s \in entry[k]
    BY <1>5
  <2>2. j = k \/ Moves(j, k, s) \/ Moves(k, j, s)
    BY <2>1 DEF ResponseInv, KeptOnce
  <2>3. ~Moves(i, j, s) /\ ~Moves(i, k, s)
    BY <1>5 DEF Moves
  <2>. QED
    BY <1>1, <1>5, <2>2, <2>3 DEF Moves
<1>9. \A j \in EventIds : entry'[j] \subseteq entry[j]
  BY <1>5
<1>10. Unsent' /\ KeptExists' /\ VisitedIsGone'
  BY <1>1, <1>9, SameMeaning DEF ResponseInv, Unsent, KeptExists, VisitedIsGone
<1>11. KeptIsFresh'
  BY <1>1, <1>9, SameMeaning DEF ResponseInv, KeptIsFresh
<1>12. KeptIsComplete'
  <2>1. \A j \in Ids : entry'[j] = entry[j] \/ held[i] = j
    BY <1>5, HandledIds DEF OrderInv, TrackerInv
  <2>. QED
    BY <1>1, <2>1, SameMeaning DEF ResponseInv, KeptIsComplete
<1>13. SentIsKept'
  <2>1. \A j : Watched(j)' <=> Watched(j)
    BY <1>1 DEF Watched
  <2>2. ASSUME NEW s, NEW j \in EventIds, s \in entry[j], Watched(j)
        PROVE  \E k \in EventIds : s \in entry'[k] /\ Watched(k)
    <3>1. CASE s \in entry'[j]
      BY <2>2, <3>1
    <3>2. CASE s \notin entry'[j]
      BY <1>2, <1>3, <1>5, <2>2, <3>2 DEF Watched
    <3>. QED
      BY <3>1, <3>2
  <2>. QED
    BY <1>1, <2>1, <2>2, SameMeaning DEF ResponseInv, SentIsKept
<1>. QED
  BY <1>7, <1>8, <1>10, <1>11, <1>12, <1>13 DEF ResponseInv

(* A deletion loop gets to a response.                                     *)
LEMMA ResponsesRange ==
    ASSUME OrderInv, MapInv, ResponseInv, NEW i \in EventIds, UNCHANGED orderVars, RangeOne(i)
    PROVE  ResponseInv'
<1>1. /\ pc[i] \in {"responding", "removing"} /\ deleting[i] = {}
      /\ UNCHANGED <<pc, todo, entry, held, updating, moving, cache, live, text, lost, received>>
  BY DEF RangeOne, Busy, orderVars
<1>2. PICK r \in ToDelete(i) : /\ visited' = [visited EXCEPT ![i] = @ \cup {r}]
                               /\ deleting' = [deleting EXCEPT ![i] = {r}]
  BY DEF RangeOne
<1>3. held[i] \in EventIds /\ r \in entry[held[i]]
  BY <1>1, <1>2, HeldMap DEF OrderInv, ToDelete
<1>4. \A j \in EventIds : /\ visited'[j] = IF j = i THEN visited[i] \cup {r} ELSE visited[j]
                          /\ deleting'[j] = IF j = i THEN {r} ELSE deleting[j]
  BY <1>2 DEF OrderInv, TrackerInv, TrackerTypeOK
<1>5. HandKnown'
  BY <1>1, <1>3, <1>4, SameMeaning DEF ResponseInv, HandKnown
<1>6. KeptOnce'
  BY <1>1 DEF ResponseInv, KeptOnce, Moves
<1>7. Unsent'
  <2>1. ASSUME NEW s \in Responses, pc[s.by] \in {"waiting", "lookup"} \/ s.action \in todo[s.by]
        PROVE  /\ s \notin live /\ s \notin lost
               /\ \A j \in EventIds : s \notin entry[j] /\ s \notin visited'[j]
    <3>1. /\ s \notin live /\ s \notin lost
          /\ \A j \in EventIds : s \notin entry[j] /\ s \notin visited[j]
      BY <2>1 DEF ResponseInv, Unsent
    <3>. QED
      BY <1>3, <1>4, <3>1
  <2>. QED
    BY <1>1, <2>1 DEF Unsent
<1>8. KeptExists'
  <2>1. \A j \in EventIds : visited[j] \subseteq visited'[j]
    BY <1>4
  <2>. QED
    BY <1>1, <2>1, SameMeaning DEF ResponseInv, KeptExists
<1>9. VisitedIsGone'
  BY <1>1, <1>4 DEF ResponseInv, VisitedIsGone
<1>10. KeptIsFresh' /\ KeptIsComplete'
  BY <1>1, SameMeaning DEF ResponseInv, KeptIsFresh, KeptIsComplete
<1>11. SentIsKept'
  <2>1. \A j : Watched(j)' <=> Watched(j)
    BY <1>1 DEF Watched
  <2>. QED
    BY <1>1, <2>1, SameMeaning DEF ResponseInv, SentIsKept
<1>. QED
  BY <1>5, <1>6, <1>7, <1>8, <1>9, <1>10, <1>11 DEF ResponseInv

LEMMA ResponsesDelete ==
    ASSUME OrderInv, MapInv, ResponseInv, NEW i \in EventIds, UNCHANGED orderVars, DeleteOne(i)
    PROVE  ResponseInv'
<1>1. UNCHANGED <<pc, todo, visited, entry, held, updating, moving, cache, text, received>>
  BY DEF DeleteOne, orderVars
<1>2. PICK r \in deleting[i] :
         DeleteResponse(r) /\ deleting' = [deleting EXCEPT ![i] = @ \ {r}]
  BY DEF DeleteOne
<1>3. /\ pc[i] \in {"responding", "removing"} /\ r \in visited[i] /\ moving[i] = {}
      /\ DeletionInLane(received[i].about) => r \in entry[held[i]]
      /\ r.by \in Ids /\ received[r.by].about = received[i].about
  BY <1>2 DEF ResponseInv, HandKnown, OrderInv, TrackerInv, InHand
<1>4. /\ \A j \in EventIds : deleting'[j] = IF j = i THEN deleting[i] \ {r} ELSE deleting[j]
      /\ live' \subseteq live /\ live \subseteq live' \cup {r}
      /\ lost \subseteq lost' /\ lost' \subseteq lost \cup {r}
      /\ r \in live' => r \in lost'
  BY <1>2 DEF DeleteResponse, OrderInv, TrackerInv, TrackerTypeOK
<1>5. HandKnown'
  BY <1>1, <1>4, SameMeaning DEF ResponseInv, HandKnown
<1>6. KeptOnce'
  BY <1>1 DEF ResponseInv, KeptOnce, Moves
<1>7. Unsent'
  <2>1. ASSUME NEW s \in Responses, pc[s.by] \in {"waiting", "lookup"} \/ s.action \in todo[s.by]
        PROVE  /\ s \notin live' /\ s \notin lost'
               /\ \A j \in EventIds : s \notin entry[j] /\ s \notin visited[j]
    <3>1. /\ s \notin live /\ s \notin lost
          /\ \A j \in EventIds : s \notin entry[j] /\ s \notin visited[j]
      BY <2>1 DEF ResponseInv, Unsent
    <3>. QED
      BY <1>3, <1>4, <3>1
  <2>. QED
    BY <1>1, <2>1 DEF Unsent
<1>8. KeptExists'
  <2>. SUFFICES ASSUME NEW j \in EventIds, NEW s \in entry[j],
                       DeletionInLane(received[j].about)
                PROVE  s \in live' \/ \E k \in EventIds : held[k] = j /\ s \in visited[k]
    BY <1>1, SameMeaning DEF KeptExists
  <2>1. CASE s = r
    <3>1. DeletionInLane(received[i].about)
      BY <1>3, <2>1 DEF OrderInv, TrackerInv, EntriesBelong
    <3>2. r \in entry[held[i]] /\ held[i] \in EventIds /\ held[i] # 0
      BY <1>3, <3>1, HeldMap DEF OrderInv, TrackerInv, Phases
    <3>3. j = held[i] \/ Moves(j, held[i], r) \/ Moves(held[i], j, r)
      BY <2>1, <3>2 DEF ResponseInv, KeptOnce
    <3>4. ~Moves(held[i], j, r)
      BY <3>2, HeldIsStill DEF Moves
    <3>5. ~Moves(j, held[i], r)
      <4>. SUFFICES ASSUME Moves(j, held[i], r) PROVE FALSE
        OBVIOUS
      <4>1. i = j
        BY <1>3, <3>1, MovedFromHeld
      <4>. QED
        BY <1>3, <4>1 DEF Moves
    <3>. QED
      BY <1>3, <2>1, <3>3, <3>4, <3>5
  <2>2. CASE s # r
    BY <1>4, <2>2 DEF ResponseInv, KeptExists
  <2>. QED
    BY <2>1, <2>2
<1>9. KeptIsFresh'
  BY <1>1, SameMeaning DEF ResponseInv, KeptIsFresh
<1>10. KeptIsComplete'
  BY <1>1, <1>4, SameMeaning DEF ResponseInv, KeptIsComplete
<1>11. VisitedIsGone'
  BY <1>1, <1>4 DEF ResponseInv, VisitedIsGone
<1>12. SentIsKept'
  <2>1. \A j : Watched(j)' <=> Watched(j)
    BY <1>1 DEF Watched
  <2>. QED
    BY <1>1, <1>4, <2>1, SameMeaning DEF ResponseInv, SentIsKept
<1>. QED
  BY <1>5, <1>6, <1>7, <1>8, <1>9, <1>10, <1>11, <1>12 DEF ResponseInv

-----------------------------------------------------------------------------
FateInv == OrderInv /\ MapInv /\ ResponseInv

LEMMA ResponseInvStep == FateInv /\ [TrackerNext]_allVars => ResponseInv'
<1>. SUFFICES ASSUME OrderInv, MapInv, ResponseInv, [TrackerNext]_allVars PROVE ResponseInv'
  BY DEF FateInv
<1>0. /\ pc \in [EventIds -> {"waiting", "lookup", "sending", "responding", "removing", "finished"}]
      /\ todo \in [EventIds -> SUBSET Actions] /\ held \in [EventIds -> MessageIds]
  BY DEF OrderInv, TrackerInv, TrackerTypeOK
<1>1. ASSUME NEW e \in Events, ReceiveEvent(e) PROVE ResponseInv'
  BY <1>1, ResponsesReceive
<1>2. ASSUME NEW i \in EventIds, BeginEvent(i) PROVE ResponseInv'
  <2>1. i \in Ids /\ i \notin active \cup done /\ StartHandler(i) /\ UNCHANGED received
    BY <1>2 DEF BeginEvent, Begin, Ready, Ids
  <2>2. pc[i] = "waiting" /\ received[i].kind \in Kinds
    BY <2>1, EventType DEF OrderInv, TrackerInv, TrackerTypeOK, Phases
  <2>3. /\ \A j \in EventIds : j # i => pc'[j] = pc[j] /\ todo'[j] = todo[j] /\ held'[j] = held[j]
        /\ pc'[i] = "finished" => ~Answering(i)
        /\ pc'[i] \in {"sending", "responding"} => todo'[i] = Triggered(i)
        /\ UNCHANGED <<visited, entry, handVars, cache, live, text, lost>>
    BY <1>0, <2>1, <2>2 DEF StartHandler, Answering, Kinds
  <2>. QED
    BY <2>1, <2>2, <2>3, ResponsesStart
<1>3. ASSUME NEW i \in EventIds, Step(i) PROVE ResponseInv'
  <2>1. UNCHANGED orderVars /\ UNCHANGED received /\ HandlerStep(i)
    BY <1>3 DEF Step, orderVars
  <2>2. CASE IgnoreTooOld(i) \/ FindResponses(i) \/ FindNothing(i)
    <3>1. pc[i] = "lookup" /\ UNCHANGED <<visited, entry, handVars, cache, live, text, lost>>
      BY <2>2 DEF IgnoreTooOld, FindResponses, FindNothing
    <3>2. /\ \A j \in EventIds : j # i => pc'[j] = pc[j] /\ todo'[j] = todo[j] /\ held'[j] = held[j]
          /\ pc'[i] = "finished" => ~Answering(i)
          /\ pc'[i] \in {"sending", "responding"} => todo'[i] = Triggered(i)
      <4>1. received[i].kind \in {"changed", "deleted"}
        BY <3>1 DEF OrderInv, TrackerInv, Phases
      <4>2. CASE IgnoreTooOld(i)
        BY <1>0, <4>2 DEF IgnoreTooOld, Answering
      <4>3. CASE FindResponses(i)
        BY <1>0, <4>3 DEF FindResponses
      <4>4. CASE FindNothing(i)
        BY <1>0, <4>1, <4>4 DEF FindNothing, Answering
      <4>. QED
        BY <2>2, <4>2, <4>3, <4>4
    <3>. QED
      BY <2>1, <3>1, <3>2, ResponsesStart
  <2>3. CASE StoreSent(i) \/ ReplaceResponses(i) \/ ForgetResponses(i)
    BY <2>1, <2>3, ResponsesStore
  <2>4. CASE SendOne(i)
    BY <2>1, <2>4, ResponsesSend
  <2>5. CASE UpdateOne(i)
    BY <2>1, <2>5, ResponsesUpdate
  <2>6. CASE DeleteOne(i)
    BY <2>1, <2>6, ResponsesDelete
  <2>7. CASE LookUpOne(i) \/ RemoveOne(i) \/ RangeOne(i)
    BY <2>1, <2>7, ResponsesLookUp, ResponsesRemove, ResponsesRange
  <2>. QED
    BY <2>1, <2>2, <2>3, <2>4, <2>5, <2>6, <2>7 DEF HandlerStep
<1>4. CASE UNCHANGED <<received, trackerVars>>
  <2>1. UNCHANGED <<pc, todo, visited, entry, held, updating, moving, deleting, cache, live, text, lost>>
    BY <1>4 DEF trackerVars, handVars
  <2>2. \A j : Watched(j)' <=> Watched(j)
    BY <2>1 DEF Watched
  <2>3. HandKnown' /\ KeptOnce' /\ Unsent' /\ KeptExists' /\ VisitedIsGone'
    BY <1>4, <2>1, SameMeaning
       DEF ResponseInv, HandKnown, KeptOnce, Moves, Unsent, KeptExists, VisitedIsGone
  <2>4. KeptIsFresh' /\ KeptIsComplete' /\ SentIsKept'
    BY <1>4, <2>1, <2>2, SameMeaning DEF ResponseInv, KeptIsFresh, KeptIsComplete, SentIsKept
  <2>. QED
    BY <2>3, <2>4 DEF ResponseInv
<1>. QED
  BY <1>1, <1>2, <1>3, <1>4 DEF TrackerNext, AllHandled, FinishEvent, Finish, allVars

(* What the handlers of slackscot.go maintain about the responses, at each *)
(* of their steps and whatever calls fail: each is kept in one map, or in  *)
(* two while an edit moves it, which is cached or at work; a map not held  *)
(* by a handler has the answers of its event, all of them, and they are on *)
(* Slack if a deletion of the message is in its lane.                      *)
THEOREM FateInvariant == TrackerSpec => []FateInv
<1>1. TrackerInit => FateInv
  BY OrderInvInit, MapInvInit, ResponseInvInit DEF FateInv
<1>2. FateInv /\ [TrackerNext]_allVars => FateInv'
  BY OrderInvStep, MapInvStep, ResponseInvStep DEF FateInv
<1>. QED
  BY <1>1, <1>2, PTL DEF TrackerSpec

(* A message that no handler is at work on has been handled completely.    *)
LEMMA QuietIsDone ==
    ASSUME OrderInv, NEW m, Quiet(m), NEW i \in Ids, received[i].about = m,
           pc[i] # "waiting"
    PROVE  i \in done /\ pc[i] = "finished"
<1>1. i \in EventIds /\ i \in active \cup done
  BY HandledIds DEF OrderInv, TrackerInv, Phases
<1>2. i \notin active
  BY DEF Quiet
<1>. QED
  BY <1>1, <1>2 DEF OrderInv, TrackerInv, Phases

(* Nobody holds a map that is cached for a message nobody works on.        *)
LEMMA QuietIsNotHeld ==
    ASSUME OrderInv, MapInv, NEW id \in CachedIds, Quiet(MessageOf(id)), NEW k \in EventIds
    PROVE  held[k] # cache[id]
<1>. SUFFICES ASSUME held[k] = cache[id] PROVE FALSE
  OBVIOUS
<1>1. id \in MessageIds /\ cache[id] # 0 /\ held[k] # 0
  BY DEF CachedIds
<1>2. id = received[k].about /\ pc[k] # "finished" /\ k \in Ids
  BY <1>1 DEF MapInv, HeldMaps, OrderInv, TrackerInv, HeldBelongs
<1>3. MessageOf(id) = id
  BY <1>2, AboutItself DEF OrderInv, TrackerInv, TrackerTypeOK
<1>4. pc[k] # "waiting"
  BY <1>1 DEF OrderInv, HoldersFound
<1>. QED
  BY <1>2, <1>3, <1>4, QuietIsDone

(* What the cache tracks of a message exists once its handlers are done,   *)
(* whatever calls failed, as long as a deletion of the message runs in its *)
(* lane: processUpdatedMessageWithCachedResponses then never updates a     *)
(* message the bot deleted.                                                *)
THEOREM TrackedExist == TrackerSpec => []TrackedResponsesExist
<1>1. FateInv => TrackedResponsesExist
  <2>. SUFFICES ASSUME FateInv, NEW m \in MessageIds, Quiet(m), DeletionInLane(m),
                       NEW id \in CachedIds, MessageOf(id) = m, NEW r \in entry[cache[id]]
                PROVE  r \in live
    BY DEF TrackedResponsesExist, Tracked
  <2>1. cache[id] \in EventIds /\ received[cache[id]].about = m
    BY MapIds DEF CachedIds, FateInv, OrderInv, TrackerInv, CacheBelongs
  <2>2. \A k \in EventIds : held[k] # cache[id]
    BY QuietIsNotHeld DEF FateInv
  <2>. QED
    BY <2>1, <2>2 DEF FateInv, ResponseInv, KeptExists
<1>. QED
  BY <1>1, FateInvariant, PTL

(* A response on Slack is tracked once the handlers of its message are     *)
(* done, or was lost to a failed call or an eviction: no path of the       *)
(* handlers drops one, as long as deletions run in their message's lane.   *)
THEOREM NoneForgotten == TrackerSpec => []NoResponseForgotten
<1>1. FateInv => NoResponseForgotten
  <2>. SUFFICES ASSUME FateInv, NEW m \in MessageIds, Quiet(m), DeletionInLane(m),
                       NEW r \in live, MessageOf(r.by) = m, ~Private(r.by, r.action),
                       r \notin lost
                PROVE  r \in Tracked(m)
    BY DEF NoResponseForgotten, Answers
  <2>1. r.by \in Ids
    BY DEF FateInv, ResponseInv, SentIsKept
  <2>2. received[r.by].about = m
    BY <2>1 DEF MessageOf, Ids
  <2>3. PICK j \in EventIds : r \in entry[j] /\ Watched(j)
    BY <2>1, <2>2 DEF FateInv, ResponseInv, SentIsKept
  <2>4. j \in Ids /\ received[j].about = m /\ pc[j] # "waiting"
    BY <2>2, <2>3 DEF FateInv, OrderInv, TrackerInv, EntriesBelong
  <2>5. pc[j] = "finished"
    BY <2>4, QuietIsDone DEF FateInv
  <2>6. PICK id \in MessageIds : cache[id] = j
    BY <2>3, <2>5 DEF Watched
  <2>7. id \in CachedIds /\ MessageOf(id) = m
    BY <2>4, <2>6 DEF CachedIds, FateInv, OrderInv, TrackerInv, CacheBelongs
  <2>. QED
    BY <2>3, <2>6, <2>7 DEF Tracked
<1>. QED
  BY <1>1, FateInvariant, PTL

(* A message's own entry is the map of its last version.                   *)
LEMMA LastIsCached ==
    ASSUME FateInv, NEW m \in CachedIds, Quiet(m), MessageOf(m) = m
    PROVE  /\ cache[m] \in EventIds /\ cache[m] \in Ids /\ pc[cache[m]] = "finished"
           /\ Answering(cache[m]) /\ LastHandled(m) = cache[m]
           /\ \A k \in EventIds : held[k] # cache[m]
<1>. DEFINE about == {i \in done : /\ received[i].about = m /\ ~received[i].tooOld
                                  /\ received[i].kind \in {"new", "changed"}}
            last == cache[m]
<1>1. m \in MessageIds /\ last # 0
  BY DEF CachedIds
<1>2. /\ last \in EventIds /\ last \in Ids /\ received[last].about = m
      /\ pc[last] = "finished" /\ Answering(last)
  BY <1>1, MapIds DEF FateInv, OrderInv, TrackerInv, CacheBelongs, MapInv, CachedMaps
<1>3. last \in about
  BY <1>2, QuietIsDone DEF FateInv, Answering
<1>4. ASSUME NEW j \in about PROVE j <= last
  <2>1. j \in Ids /\ j \in EventIds
    BY HandledIds DEF FateInv, OrderInv, TrackerInv
  <2>2. pc[j] = "finished"
    BY <2>1 DEF FateInv, OrderInv, TrackerInv, Phases
  <2>. QED
    BY <1>1, <2>1, <2>2 DEF FateInv, MapInv, LatestCached, Answering
<1>5. about \subseteq Nat
  BY HandledIds DEF FateInv, OrderInv, TrackerInv
<1>6. LastHandled(m) = CHOOSE i \in about : \A j \in about : j <= i
  BY DEF LastHandled
<1>. HIDE DEF about, last
<1>7. \A i \in about : (\A j \in about : j <= i) => i = last
  <2>. SUFFICES ASSUME NEW i \in about, \A j \in about : j <= i PROVE i = last
    OBVIOUS
  <2>1. i <= last /\ last <= i /\ i \in Nat /\ last \in Nat
    BY <1>3, <1>4, <1>5
  <2>. QED
    BY <2>1
<1>8. LastHandled(m) = last
  BY <1>3, <1>4, <1>6, <1>7
<1>9. \A k \in EventIds : held[k] # cache[m]
  BY QuietIsNotHeld DEF FateInv
<1>. QED
  BY <1>2, <1>8, <1>9 DEF last

(* What is kept under a message's own id are the answers to its latest     *)
(* version, of actions that still answer it: processUpdatedMessage never   *)
(* keeps one whose update failed, nor one that no longer applies.          *)
THEOREM TrackedAreFresh == TrackerSpec => []TrackedResponsesAreFresh
<1>1. FateInv => TrackedResponsesAreFresh
  <2>. SUFFICES ASSUME FateInv, NEW m \in CachedIds, Quiet(m), MessageOf(m) = m,
                       NEW r \in entry[cache[m]]
                PROVE  text[r] = LastHandled(m) /\ r.action \in Triggered(LastHandled(m))
    BY DEF TrackedResponsesAreFresh
  <2>. QED
    BY LastIsCached DEF FateInv, ResponseInv, KeptIsFresh
<1>. QED
  BY <1>1, FateInvariant, PTL

(* And they are the answers of all the actions that answer it in public,   *)
(* but for those whose own call failed: a failed update or send of one     *)
(* answer never costs another.                                             *)
THEOREM TrackedAreComplete == TrackerSpec => []TrackedResponsesAreComplete
<1>1. FateInv => TrackedResponsesAreComplete
  <2>. SUFFICES ASSUME FateInv, NEW m \in CachedIds, Quiet(m), MessageOf(m) = m,
                       NEW a \in Triggered(LastHandled(m)), ~Private(LastHandled(m), a),
                       [by |-> LastHandled(m), action |-> a] \notin lost
                PROVE  \E r \in entry[cache[m]] : r.action = a
    BY DEF TrackedResponsesAreComplete
  <2>. DEFINE j == cache[m]
  <2>1. /\ j \in EventIds /\ j \in Ids /\ pc[j] = "finished" /\ Answering(j)
        /\ LastHandled(m) = j /\ \A k \in EventIds : held[k] # j
    BY LastIsCached
  <2>2. a \notin todo[j]
    BY <2>1 DEF FateInv, MapInv, Sending
  <2>. QED
    BY <2>1, <2>2 DEF FateInv, ResponseInv, KeptIsComplete
<1>. QED
  BY <1>1, FateInvariant, PTL
=============================================================================
