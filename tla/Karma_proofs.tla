---------------------------- MODULE Karma_proofs ----------------------------
(***************************************************************************)
(* The karma plugin on its storage, for any workers, channels, things and  *)
(* faults of the datastore, the workers' messages being of any channels:   *)
(* what is read is what was acknowledged, the memory is a copy of the      *)
(* datastore, and no point is lost or counted twice, but for what messages *)
(* at work in a channel at once leave behind, until one is alone; and a    *)
(* report ranks what it counts by its total.                               *)
(***************************************************************************)
EXTENDS Karma, SequenceTheorems, FiniteSetTheorems, WellFoundedInduction, TLAPS

USE FaultsAssumption, CrashesAssumption, NamesAssumption, ValuesAssumption, MessagesAssumption,
    TopicsAssumption, MaxMessagesAssumption, ChannelsAssumption

(* What can be added up can be stored.                                     *)
Summable == \A v \in Values \cup {0}, match \in Matches : v + match.by \in Values

-----------------------------------------------------------------------------
(* Values and calls *)

LEMMA PointsOfValue == \A v : Points({v}) = v
BY DEF Points

LEMMA PointsType == \A e \in Entries : Points(e) \in Values \cup {0}
<1>1. ASSUME NEW e \in Entries, e # {} PROVE Points(e) \in Values
  <2>1. PICK v \in Values : e = {v}
    BY <1>1 DEF Entries
  <2>. QED
    BY <2>1, PointsOfValue
<1>2. Points({}) = 0
  BY DEF Points
<1>. QED
  BY <1>1, <1>2

LEMMA PointsInt == \A e \in Entries : Points(e) \in Int
<1>. SUFFICES ASSUME NEW e \in Entries PROVE Points(e) \in Int
  OBVIOUS
<1>1. Points(e) \in Values \/ Points(e) = 0
  BY PointsType
<1>2. ASSUME Points(e) \in Values PROVE Points(e) \in Int
  BY <1>2, ValuesAssumption, Zenon
<1>3. ASSUME Points(e) = 0 PROVE Points(e) \in Int
  BY <1>3
<1>. QED
  BY <1>1, <1>2, <1>3, Zenon

LEMMA NamesAreFinite == IsFiniteSet(Names)
<1>1. Len(NameOrder) \in Nat /\ DOMAIN NameOrder = 1..Len(NameOrder)
  OBVIOUS
<1>2. NameOrder \in Surjection(1..Len(NameOrder), Names)
  BY <1>1 DEF Surjection, Names
<1>3. IsFiniteSet(1..Len(NameOrder))
  BY <1>1, FS_Interval
<1>. QED
  BY <1>2, <1>3, FS_Surjection

LEMMA ListedNames ==
    ASSUME NEW S \in SUBSET Names, NEW names \in SetToSeqs(S)
    PROVE  names \in Seq(Names)
<1>1. Cardinality(S) \in Nat
  BY NamesAreFinite, FS_Subset, FS_CardinalityType
<1>2. names \in [1..Cardinality(S) -> S]
  BY DEF SetToSeqs
<1>. QED
  BY <1>1, <1>2

(* A call is one of a key and an entry unless it is none.                  *)
LEMMA CallType ==
    ASSUME StorageTypeOK, NEW w \in Workers
    PROVE  /\ call[w] = NoCall <=> call[w].at = "idle"
           /\ call[w] # NoCall =>
                /\ call[w] \in Calls
                /\ call[w].at \in {"calling", "reconnecting", "storing", "making",
                                   "stored", "failed"}
                /\ call[w].key \in Keys /\ call[w].key[1] \in Silos /\ call[w].entry \in Entries
                /\ call[w].attempt \in 1..maxAttemptCount
<1>1. call[w] \in {NoCall} \cup Calls
  BY DEF StorageTypeOK
<1>2. \A k \in Keys : k[1] \in Silos
  BY DEF Keys
<1>. QED
  BY <1>1, <1>2 DEF NoCall, Calls

LEMMA WorkType ==
    ASSUME KarmaTypeOK, NEW w \in Workers
    PROVE  /\ work[w] = Idle <=> work[w].kind = "idle"
           /\ work[w] # Idle =>
                /\ work[w].silo \in Silos
                /\ \/ work[w].kind = "record" /\ work[w].left \in Seq(Matches)
                   \/ work[w].kind = "reset" /\ work[w].left \in Seq(Names)
<1>1. work[w] \in {Idle} \cup Works
  BY DEF KarmaTypeOK
<1>. QED
  BY <1>1 DEF Idle, Works

-----------------------------------------------------------------------------
(* Types, and what a call is for.                                          *)

(* A worker calls the storage for the match or the name that is in turn,   *)
(* in the channel it was given; one that is down does nothing.             *)
CallsAreWork ==
    \A w \in Workers :
        /\ work[w] # Idle => work[w].silo \in Topics[w]
        /\ call[w] # NoCall =>
             /\ work[w] # Idle /\ work[w].left # <<>>
             /\ call[w].key[1] = work[w].silo
             /\ work[w].kind = "record" =>
                  call[w].key = <<work[w].silo, Head(work[w].left).thing>>

DownIsIdle == ~up => \A w \in Workers : call[w] = NoCall /\ work[w] = Idle

WorkInv == KarmaTypeOK /\ CallsAreWork /\ DownIsIdle

LEMMA WorkInvInit == Init => WorkInv
<1>. SUFFICES ASSUME Init PROVE WorkInv
  OBVIOUS
<1>1. KarmaTypeOK
  BY DEF Init, StorageInit, KarmaTypeOK, StorageTypeOK, Entries
<1>. QED
  BY <1>1 DEF Init, StorageInit, WorkInv, CallsAreWork, DownIsIdle

(* A worker hears a message.                                               *)
LEMMA WorkHear ==
    ASSUME WorkInv, NEW w \in Workers, HearRecord(w) \/ HearReset(w) PROVE WorkInv'
<1>1. /\ up /\ work[w] = Idle /\ heard < MaxMessages /\ heard' = heard + 1
      /\ UNCHANGED <<storageVars, credit>>
  BY DEF HearRecord, HearReset, Hear
<1>2. PICK s \in Topics[w], x \in Works :
        /\ work' = [work EXCEPT ![w] = x] /\ x.silo = s /\ x # Idle
  <2>0. Topics[w] \subseteq Silos
    OBVIOUS
  <2>1. CASE HearRecord(w)
    <3>1. PICK s \in Topics[w], m \in Messages :
            work' = [work EXCEPT ![w] = [kind |-> "record", silo |-> s, left |-> m]]
      BY <2>1 DEF HearRecord
    <3>2. [kind |-> "record", silo |-> s, left |-> m] \in Works
      BY <2>0 DEF Works
    <3>. QED
      BY <3>1, <3>2 DEF Idle
  <2>2. CASE HearReset(w)
    <3>1. PICK s \in Topics[w] : \E names \in SetToSeqs(Present(s, memory)) :
            work' = [work EXCEPT ![w] = [kind |-> "reset", silo |-> s, left |-> names]]
      BY <2>2 DEF HearReset
    <3>2. PICK names \in SetToSeqs(Present(s, memory)) :
            work' = [work EXCEPT ![w] = [kind |-> "reset", silo |-> s, left |-> names]]
      BY <3>1
    <3>3. names \in Seq(Names)
      BY ListedNames DEF Present
    <3>4. [kind |-> "reset", silo |-> s, left |-> names] \in Works
      BY <2>0, <3>3 DEF Works
    <3>. QED
      BY <3>2, <3>4 DEF Idle
  <2>. QED
    BY <2>1, <2>2
<1>3. /\ work \in [Workers -> {Idle} \cup Works] /\ heard \in 0..MaxMessages
      /\ StorageTypeOK /\ credit \in [Keys -> Int]
  BY DEF WorkInv, KarmaTypeOK
<1>4. call[w] = NoCall
  BY <1>1 DEF WorkInv, CallsAreWork
<1>5. /\ work' \in [Workers -> {Idle} \cup Works] /\ heard' \in 0..MaxMessages
      /\ work'[w] = x /\ \A v \in Workers : v # w => work'[v] = work[v]
  BY <1>1, <1>2, <1>3
<1>6. KarmaTypeOK'
  BY <1>1, <1>3, <1>5 DEF KarmaTypeOK, StorageTypeOK, storageVars, memoryVars
<1>7. CallsAreWork'
  BY <1>1, <1>2, <1>4, <1>5 DEF WorkInv, CallsAreWork, storageVars
<1>. QED
  BY <1>1, <1>6, <1>7 DEF WorkInv, DownIsIdle, storageVars

(* It calls the storage: to put the sum, or to delete.                     *)
LEMMA WrittenEntry ==
    ASSUME Summable, WorkInv, NEW w \in Workers, Record(w) \/ Reset(w)
    PROVE  \E k \in Keys, e \in Entries :
              /\ up /\ work[w] # Idle /\ work[w].left # <<>> /\ k[1] = work[w].silo
              /\ work[w].kind = "record" =>
                   /\ k = <<work[w].silo, Head(work[w].left).thing>>
                   /\ Head(work[w].left) \in Matches
                   /\ e = {Points(memory[k]) + Head(work[w].left).by}
              /\ work[w].kind = "reset" => e = {}
              /\ Write(w, k, e) /\ CountAnew(k[1]) /\ UNCHANGED <<work, heard>>
<1>1. /\ up /\ work[w] # Idle /\ work[w].left # <<>>
      /\ CountAnew(work[w].silo) /\ UNCHANGED <<work, heard>>
  BY DEF Record, Reset, Idle
<1>2. /\ work[w].silo \in Silos
      /\ \/ work[w].kind = "record" /\ work[w].left \in Seq(Matches)
         \/ work[w].kind = "reset" /\ work[w].left \in Seq(Names)
  BY <1>1, WorkType DEF WorkInv
<1>. DEFINE match == Head(work[w].left)
            k == <<work[w].silo, match.thing>>
            e == {Points(memory[k]) + match.by}
<1>3. CASE Record(w)
  <2>1. /\ work[w].kind = "record" /\ match \in Matches /\ match.thing # Author
        /\ Write(w, k, e)
    BY <1>1, <1>2, <1>3 DEF Record, ForSelf
  <2>2. match.thing \in Names /\ k \in Keys
    BY <1>2, <2>1 DEF Keys
  <2>3. memory[k] \in Entries
    BY <2>2 DEF WorkInv, KarmaTypeOK, StorageTypeOK
  <2>4. Points(memory[k]) + match.by \in Values
    BY <2>1, <2>3, PointsType DEF Summable
  <2>5. e \in Entries
    BY <2>4 DEF Entries
  <2>. QED
    BY <1>1, <2>1, <2>2, <2>5
<1>4. CASE Reset(w)
  <2>1. work[w].kind = "reset" /\ Head(work[w].left) \in Names
    BY <1>1, <1>2, <1>4 DEF Reset
  <2>2. <<work[w].silo, Head(work[w].left)>> \in Keys /\ {} \in Entries
    BY <1>2, <2>1 DEF Keys, Entries
  <2>. QED
    BY <1>1, <1>4, <2>1, <2>2 DEF Reset
<1>. QED
  BY <1>3, <1>4

LEMMA WorkCall ==
    ASSUME Summable, WorkInv, NEW w \in Workers, Record(w) \/ Reset(w) PROVE WorkInv'
<1>1. PICK k \in Keys, e \in Entries :
        /\ up /\ work[w] # Idle /\ work[w].left # <<>> /\ k[1] = work[w].silo
        /\ work[w].kind = "record" => k = <<work[w].silo, Head(work[w].left).thing>>
        /\ Write(w, k, e) /\ CountAnew(k[1]) /\ UNCHANGED <<work, heard>>
  BY WrittenEntry
<1>. DEFINE c == [at |-> "calling", key |-> k, entry |-> e, attempt |-> 1]
<1>2. /\ call' = [call EXCEPT ![w] = c] /\ call \in [Workers -> {NoCall} \cup Calls]
      /\ UNCHANGED <<persistent, memory, silos, connected, up, crashes, doubt, work, heard>>
  BY <1>1 DEF Write, memoryVars, WorkInv, KarmaTypeOK, StorageTypeOK
<1>3. c \in Calls
  BY DEF Calls, maxAttemptCount
<1>4. /\ call' \in [Workers -> {NoCall} \cup Calls] /\ call'[w] = c /\ c.key = k
      /\ \A v \in Workers : v # w => call'[v] = call[v]
  BY <1>2, <1>3
<1>5. raced' \subseteq Silos
  <2>1. k[1] \in Silos /\ raced \subseteq Silos
    BY DEF Keys, WorkInv, KarmaTypeOK, StorageTypeOK
  <2>2. raced' = raced \ {k[1]} \/ raced' = raced \cup {k[1]}
    BY <1>1 DEF Write
  <2>. QED
    BY <2>1, <2>2
<1>6. credit' \in [Keys -> Int]
  <2>1. credit \in [Keys -> Int] /\ memory \in [Keys -> Entries]
    BY DEF WorkInv, KarmaTypeOK, StorageTypeOK
  <2>2. \A j \in Keys : Points(memory[j]) \in Int
    BY <2>1, PointsInt
  <2>. QED
    BY <1>1, <2>1, <2>2 DEF CountAnew
<1>7. KarmaTypeOK'
  BY <1>2, <1>4, <1>5, <1>6 DEF WorkInv, KarmaTypeOK, StorageTypeOK
<1>8. CallsAreWork'
  BY <1>1, <1>2, <1>4 DEF WorkInv, CallsAreWork
<1>. QED
  BY <1>1, <1>2, <1>7, <1>8 DEF WorkInv, DownIsIdle

(* The call has returned, and its match or name is done with.              *)
LEMMA WorkContinue ==
    ASSUME WorkInv, NEW w \in Workers, Continue(w) PROVE WorkInv'
<1>. DEFINE next == IF work[w].kind = "record" /\ call[w].at = "failed" THEN Idle
                    ELSE [work[w] EXCEPT !.left = Tail(work[w].left)]
            earned == IF work[w].kind = "reset" THEN 0
                      ELSE credit[call[w].key] + Head(work[w].left).by
<1>0. /\ work \in [Workers -> {Idle} \cup Works] /\ call \in [Workers -> {NoCall} \cup Calls]
      /\ credit \in [Keys -> Int]
  BY DEF WorkInv, KarmaTypeOK, StorageTypeOK
<1>1. /\ up /\ call[w].at \in {"stored", "failed"} /\ call' = [call EXCEPT ![w] = NoCall]
      /\ UNCHANGED <<persistent, memory, silos, connected, up, crashes, doubt, raced, heard>>
      /\ credit' = IF call[w].at = "failed" THEN credit
                   ELSE [credit EXCEPT ![call[w].key] = earned]
  BY DEF Continue, Returned, memoryVars
<1>a. work' = [work EXCEPT ![w] = next]
  BY DEF Continue
<1>2. call[w] # NoCall /\ call[w].key \in Keys
  BY <1>1, CallType DEF WorkInv, KarmaTypeOK
<1>3. /\ work[w] # Idle /\ work[w].left # <<>> /\ work[w].silo \in Silos
      /\ \/ work[w].kind = "record" /\ work[w].left \in Seq(Matches)
         \/ work[w].kind = "reset" /\ work[w].left \in Seq(Names)
      /\ work[w] \in Works
  BY <1>2, WorkType DEF WorkInv, CallsAreWork, KarmaTypeOK
<1>4. /\ next \in {Idle} \cup Works
      /\ next # Idle => next.silo = work[w].silo
  <2>1. CASE work[w].kind = "record"
    <3>1. Tail(work[w].left) \in Seq(Matches)
      BY <1>3, <2>1
    <3>. QED
      BY <1>3, <2>1, <3>1 DEF Works
  <2>2. CASE work[w].kind = "reset"
    <3>1. Tail(work[w].left) \in Seq(Names)
      BY <1>3, <2>2
    <3>. QED
      BY <1>3, <2>2, <3>1 DEF Works
  <2>. QED
    BY <1>3, <2>1, <2>2
<1>5. credit' \in [Keys -> Int]
  <2>1. credit[call[w].key] \in Int
    BY <1>0, <1>2
  <2>2. earned \in Int
    BY <1>3, <2>1
  <2>. HIDE DEF earned
  <2>. QED
    BY <1>0, <1>1, <2>2
<1>. HIDE DEF next
<1>6. /\ work' \in [Workers -> {Idle} \cup Works] /\ work'[w] = next
      /\ \A v \in Workers : v # w => work'[v] = work[v]
  BY <1>0, <1>a, <1>4
<1>b. /\ call' \in [Workers -> {NoCall} \cup Calls] /\ call'[w] = NoCall
      /\ \A v \in Workers : v # w => call'[v] = call[v]
  BY <1>0, <1>1
<1>7. KarmaTypeOK'
  BY <1>1, <1>5, <1>6, <1>b DEF WorkInv, KarmaTypeOK, StorageTypeOK
<1>8. CallsAreWork'
  BY <1>3, <1>4, <1>6, <1>b DEF WorkInv, CallsAreWork
<1>. QED
  BY <1>1, <1>7, <1>8 DEF WorkInv, DownIsIdle

LEMMA WorkAnswer ==
    ASSUME WorkInv, NEW w \in Workers, Answer(w) PROVE WorkInv'
<1>1. /\ up /\ call[w] = NoCall /\ work' = [work EXCEPT ![w] = Idle]
      /\ UNCHANGED <<persistent, memory, silos, connected, up, call, crashes, doubt, raced,
                     heard, credit>>
  BY DEF Answer, storageVars, memoryVars
<1>2. work' \in [Workers -> {Idle} \cup Works]
  BY <1>1 DEF WorkInv, KarmaTypeOK
<1>3. KarmaTypeOK'
  BY <1>1, <1>2 DEF WorkInv, KarmaTypeOK, StorageTypeOK
<1>4. /\ work'[w] = Idle /\ \A v \in Workers : v # w => work'[v] = work[v]
  BY <1>1 DEF WorkInv, KarmaTypeOK
<1>5. CallsAreWork'
  BY <1>1, <1>4 DEF WorkInv, CallsAreWork
<1>. QED
  BY <1>1, <1>3, <1>5 DEF WorkInv, DownIsIdle

(* An attempt moves the call on, which stays of its key and entry.         *)
LEMMA AttemptedCall ==
    ASSUME StorageTypeOK, NEW w \in Workers, Attempts(w)
    PROVE  /\ up /\ call[w].at \in {"calling", "reconnecting", "storing", "making"}
           /\ call[w] # NoCall /\ call'[w] # NoCall /\ call'[w] \in Calls
           /\ call'[w].key = call[w].key /\ call'[w].entry = call[w].entry
           /\ \A v \in Workers : v # w => call'[v] = call[v]
           /\ call' \in [Workers -> {NoCall} \cup Calls]
           /\ call'[w].at = "storing" => Accepted(w) \/ MakeSilo(w)
           /\ call'[w].at = "making" => FindNoSilo(w)
           /\ call'[w].at = "stored" => Remember(w)
           /\ UNCHANGED <<up, crashes, raced>>
<1>0. /\ up /\ call[w].at \in {"calling", "reconnecting", "storing", "making"}
      /\ UNCHANGED <<up, crashes, raced>>
  BY DEF Attempts, Accepted, Rejected, Retry, Reconnect, GiveUp, FindNoSilo, MakeSilo, Remember,
         Calling, Errs
<1>1. call[w] # NoCall /\ call[w] \in Calls /\ call[w].attempt \in 1..2
  BY <1>0, CallType DEF maxAttemptCount
<1>2. call \in [Workers -> {NoCall} \cup Calls]
  BY DEF StorageTypeOK
<1>. DEFINE Moved(c) ==
               /\ c \in Calls
               /\ call' = [call EXCEPT ![w] = c] /\ c.key = call[w].key /\ c.entry = call[w].entry
               /\ c.at = "storing" => Accepted(w) \/ MakeSilo(w)
               /\ c.at = "making" => FindNoSilo(w)
               /\ c.at = "stored" => Remember(w)
<1>3. \E c : Moved(c)
  <2>1. CASE Accepted(w) \/ MakeSilo(w)
    <3>. DEFINE c == [call[w] EXCEPT !.at = "storing"]
    <3>1. c \in Calls /\ call' = [call EXCEPT ![w] = c]
      BY <1>1, <2>1 DEF Accepted, MakeSilo, Calls
    <3>2. c.key = call[w].key /\ c.entry = call[w].entry /\ c.at = "storing"
      BY <1>1 DEF Calls
    <3>. HIDE DEF c
    <3>. QED
      BY <3>1, <3>2, <2>1
  <2>2. CASE Rejected(w) \/ GiveUp(w)
    <3>. DEFINE c == [call[w] EXCEPT !.at = "failed"]
    <3>1. c \in Calls /\ call' = [call EXCEPT ![w] = c]
      BY <1>1, <2>2 DEF Rejected, GiveUp, Calls
    <3>2. c.key = call[w].key /\ c.entry = call[w].entry /\ c.at = "failed"
      BY <1>1 DEF Calls
    <3>. HIDE DEF c
    <3>. QED
      BY <3>1, <3>2
  <2>3. CASE Retry(w)
    <3>. DEFINE c == [call[w] EXCEPT !.at = "reconnecting", !.attempt = call[w].attempt + 1]
    <3>0. call[w].attempt + 1 \in 1..maxAttemptCount
      BY <1>1, <2>3 DEF Retry, maxAttemptCount
    <3>1. c \in Calls /\ call' = [call EXCEPT ![w] = c]
      BY <1>1, <2>3, <3>0 DEF Retry, Calls
    <3>2. c.key = call[w].key /\ c.entry = call[w].entry /\ c.at = "reconnecting"
      BY <1>1 DEF Calls
    <3>. HIDE DEF c
    <3>. QED
      BY <3>1, <3>2
  <2>4. CASE Reconnect(w)
    <3>. DEFINE c == [call[w] EXCEPT !.at = "calling"]
    <3>1. c \in Calls /\ call' = [call EXCEPT ![w] = c]
      BY <1>1, <2>4 DEF Reconnect, Calls
    <3>2. c.key = call[w].key /\ c.entry = call[w].entry /\ c.at = "calling"
      BY <1>1 DEF Calls
    <3>. HIDE DEF c
    <3>. QED
      BY <3>1, <3>2
  <2>5. CASE FindNoSilo(w)
    <3>. DEFINE c == [call[w] EXCEPT !.at = "making"]
    <3>1. c \in Calls /\ call' = [call EXCEPT ![w] = c]
      BY <1>1, <2>5 DEF FindNoSilo, Calls
    <3>2. c.key = call[w].key /\ c.entry = call[w].entry /\ c.at = "making"
      BY <1>1 DEF Calls
    <3>. HIDE DEF c
    <3>. QED
      BY <3>1, <3>2, <2>5
  <2>6. CASE Remember(w)
    <3>. DEFINE c == [call[w] EXCEPT !.at = "stored"]
    <3>1. c \in Calls /\ call' = [call EXCEPT ![w] = c]
      BY <1>1, <2>6 DEF Remember, Calls
    <3>2. c.key = call[w].key /\ c.entry = call[w].entry /\ c.at = "stored"
      BY <1>1 DEF Calls
    <3>. HIDE DEF c
    <3>. QED
      BY <3>1, <3>2, <2>6
  <2>. QED
    BY <2>1, <2>2, <2>3, <2>4, <2>5, <2>6 DEF Attempts
<1>4. PICK c : Moved(c)
  BY <1>3
<1>5. c # NoCall
  BY <1>4 DEF Calls, NoCall
<1>. QED
  BY <1>0, <1>1, <1>2, <1>4, <1>5

LEMMA WorkAttempt ==
    ASSUME WorkInv, NEW w \in Workers, Attempts(w), UNCHANGED karmaVars PROVE WorkInv'
<1>1. /\ up /\ call[w] # NoCall /\ call'[w] \in Calls
      /\ call'[w].key = call[w].key
      /\ \A v \in Workers : v # w => call'[v] = call[v]
      /\ call' \in [Workers -> {NoCall} \cup Calls]
      /\ UNCHANGED <<up, crashes, raced>>
  BY AttemptedCall DEF WorkInv, KarmaTypeOK
<1>2. call[w].key \in Keys /\ call[w].entry \in Entries /\ call[w].key[1] \in Silos
  BY <1>1, CallType DEF WorkInv, KarmaTypeOK
<1>. DEFINE k == call[w].key  e == call[w].entry
<1>a. /\ persistent \in [Keys -> Entries] /\ memory \in [Keys -> Entries]
      /\ silos \subseteq Silos
      /\ connected \in BOOLEAN /\ doubt \in [Keys -> SUBSET Entries]
  BY DEF WorkInv, KarmaTypeOK, StorageTypeOK
<1>b. /\ persistent' \in {persistent, [persistent EXCEPT ![k] = e]}
      /\ memory' \in {memory, [memory EXCEPT ![k] = e],
                       [j \in Keys |-> IF j[1] = k[1] THEN {} ELSE memory[j]]}
      /\ silos' \in {silos, silos \cup {k[1]}}
      /\ connected' \in BOOLEAN
      /\ doubt' \in {doubt, [doubt EXCEPT ![k] = {}], [doubt EXCEPT ![k] = @ \cup {e}]}
  <2>1. CASE Accepted(w) \/ Rejected(w)
    BY <1>a, <2>1 DEF Accepted, Rejected, Attempted, memoryVars
  <2>2. CASE Retry(w) \/ GiveUp(w)
    BY <1>a, <2>2 DEF Retry, GiveUp, Errs, Attempted, memoryVars
  <2>3. CASE Reconnect(w) \/ FindNoSilo(w) \/ MakeSilo(w)
    BY <1>a, <2>3 DEF Reconnect, FindNoSilo, MakeSilo, memoryVars
  <2>4. CASE Remember(w)
    BY <1>a, <2>4 DEF Remember, Acknowledged
  <2>. QED
    BY <2>1, <2>2, <2>3, <2>4 DEF Attempts
<1>3. /\ persistent' \in [Keys -> Entries] /\ memory' \in [Keys -> Entries]
      /\ silos' \subseteq Silos
      /\ connected' \in BOOLEAN /\ doubt' \in [Keys -> SUBSET Entries]
  <2>1. doubt[k] \cup {e} \in SUBSET Entries
    BY <1>2, <1>a
  <2>2. {} \in Entries
    BY DEF Entries
  <2>3. [j \in Keys |-> IF j[1] = k[1] THEN {} ELSE memory[j]] \in [Keys -> Entries]
    BY <1>a, <2>2
  <2>4. k \in Keys /\ e \in Entries /\ k[1] \in Silos
    BY <1>2
  <2>. DEFINE wiped == [j \in Keys |-> IF j[1] = k[1] THEN {} ELSE memory[j]]
  <2>. HIDE DEF k, e, wiped
  <2>5. persistent' \in [Keys -> Entries]
    BY <1>a, <1>b, <2>4
  <2>6. memory' \in [Keys -> Entries]
    BY <1>a, <1>b, <2>3, <2>4 DEF wiped
  <2>7. doubt' \in [Keys -> SUBSET Entries]
    BY <1>a, <1>b, <2>1, <2>4
  <2>8. silos' \subseteq Silos
    BY <1>a, <1>b, <2>4
  <2>. QED
    BY <1>b, <2>5, <2>6, <2>7, <2>8
<1>4. KarmaTypeOK'
  BY <1>1, <1>3 DEF WorkInv, KarmaTypeOK, StorageTypeOK, karmaVars
<1>5. CallsAreWork'
  BY <1>1, <1>2 DEF WorkInv, CallsAreWork, karmaVars
<1>. QED
  BY <1>1, <1>4, <1>5 DEF WorkInv, DownIsIdle

(* The process dies, and is started again.                                 *)
LEMMA WorkStops ==
    ASSUME WorkInv, Panics \/ Crashes \/ Restarts PROVE WorkInv'
<1>1. CASE Panics \/ Crashes
  <2>1. /\ up' = FALSE /\ call' = [w \in Workers |-> NoCall] /\ work' = [w \in Workers |-> Idle]
        /\ UNCHANGED <<persistent, memory, silos, connected, doubt, raced, heard, credit>>
    BY <1>1 DEF Panics, Crashes, Panic, Crash, Die, AllStop, memoryVars
  <2>2. crashes' \in 0..MaxCrashes
    BY <1>1 DEF WorkInv, KarmaTypeOK, StorageTypeOK, Panics, Crashes, Panic, Crash
  <2>3. KarmaTypeOK'
    BY <2>1, <2>2 DEF WorkInv, KarmaTypeOK, StorageTypeOK
  <2>. QED
    BY <2>1, <2>3 DEF WorkInv, CallsAreWork, DownIsIdle
<1>2. CASE Restarts
  <2>1. /\ ~up /\ up' = TRUE /\ connected' = TRUE /\ memory' = persistent
        /\ silos' \subseteq Silos /\ raced' = {}
        /\ doubt' = [k \in Keys |-> {}] /\ credit' = [k \in Keys |-> Points(memory'[k])]
        /\ UNCHANGED <<persistent, call, crashes, work, heard>>
    BY <1>2 DEF Restarts, Restart
  <2>2. \A k \in Keys : Points(memory'[k]) \in Int
    <3>1. persistent \in [Keys -> Entries] /\ memory' = persistent
      BY <2>1 DEF WorkInv, KarmaTypeOK, StorageTypeOK
    <3>. QED
      BY <3>1, PointsInt
  <2>3. KarmaTypeOK'
    BY <2>1, <2>2 DEF WorkInv, KarmaTypeOK, StorageTypeOK
  <2>. QED
    BY <2>1, <2>3 DEF WorkInv, CallsAreWork, DownIsIdle
<1>. QED
  BY <1>1, <1>2

LEMMA WorkInvStep ==
    ASSUME Summable, WorkInv, [Next]_vars PROVE WorkInv'
<1>1. ASSUME NEW w \in Workers, HearRecord(w) \/ HearReset(w) \/ Step(w) PROVE WorkInv'
  BY <1>1, WorkHear, WorkCall, WorkContinue, WorkAnswer, WorkAttempt DEF Step
<1>2. CASE UNCHANGED vars
  BY <1>2 DEF vars, storageVars, memoryVars, karmaVars, WorkInv, KarmaTypeOK, StorageTypeOK, CallsAreWork,
              DownIsIdle
<1>. QED
  BY <1>1, <1>2, WorkStops DEF Next

(* What the workers, the storage and the datastore have has its type, for  *)
(* any workers that share channels or do not (Karma, Storage): the karma   *)
(* plugin only adds, puts and deletes what it read or found.               *)
THEOREM KarmaTypeCorrect ==
    ASSUME Summable PROVE Spec => []KarmaTypeOK
<1>1. Spec => []WorkInv
  BY WorkInvInit, WorkInvStep, PTL DEF Spec
<1>2. WorkInv => KarmaTypeOK
  BY DEF WorkInv
<1>. QED
  BY <1>1, <1>2, PTL

-----------------------------------------------------------------------------
(* Writes of a silo that overlap, and what they leave behind.              *)

(* In a silo that is not raced at most one call is in progress.            *)
OneAtATime ==
    \A v, w \in Workers :
        call[v] # NoCall /\ call[w] # NoCall /\ call[v].key[1] = call[w].key[1]
            => v = w \/ call[w].key[1] \in raced

(* What the datastore has executed and the memory has still to be told is  *)
(* in doubt, and so is what the datastore has.                             *)
Executed ==
    \A w \in Workers : call[w].at \in {"storing", "making"} =>
        /\ call[w].entry \in doubt[call[w].key]
        /\ persistent[call[w].key] \in doubt[call[w].key]
        /\ persistent[call[w].key] = call[w].entry \/ call[w].key[1] \in raced

(* What making a map for the silo is to undo was written meanwhile.        *)
Making ==
    \A w \in Workers : call[w].at = "making" =>
        \A k \in Keys : k[1] = call[w].key[1] /\ memory[k] # {} =>
            k[1] \in raced /\ persistent[k] \in doubt[k]

(* A silo without a map has nothing.                                       *)
Unmade == \A k \in Keys : k[1] \notin silos => memory[k] = {}

(* The datastore has what the memory has, or what is in doubt.             *)
Doubtful == \A k \in Keys : persistent[k] \in {memory[k]} \cup doubt[k]

CopyInv == WorkInv /\ OneAtATime /\ Executed /\ Making /\ Unmade /\ Doubtful

LEMMA CopyInvInit == Init => CopyInv
<1>1. Init => WorkInv
  BY WorkInvInit
<1>. QED
  BY <1>1 DEF CopyInv, Init, StorageInit, OneAtATime, Executed, Making, Unmade, Doubtful, NoCall

(* What a call of worker w does to the datastore and to the memory.        *)
Writes(w) ==
    /\ doubt' = [doubt EXCEPT ![call[w].key] = @ \cup {call[w].entry}]
    /\ persistent' = [persistent EXCEPT ![call[w].key] = call[w].entry]
    /\ UNCHANGED <<memory, silos>>
    /\ call'[w].at \notin {"making", "stored"}
Passes(w) ==
    /\ UNCHANGED <<persistent, memory, silos, doubt>>
    /\ call'[w].at \notin {"storing", "making", "stored"}
Misses(w) ==
    /\ UNCHANGED <<persistent, memory, silos, doubt>>
    /\ call[w].at = "storing" /\ call[w].key[1] \notin silos /\ call'[w].at = "making"
Makes(w) ==
    /\ UNCHANGED <<persistent, doubt>>
    /\ memory' = [k \in Keys |-> IF k[1] = call[w].key[1] THEN {} ELSE memory[k]]
    /\ silos' = silos \cup {call[w].key[1]}
    /\ call[w].at = "making" /\ call'[w].at = "storing"
Remembers(w) ==
    /\ memory' = [memory EXCEPT ![call[w].key] = call[w].entry]
    /\ doubt' = IF call[w].key[1] \in raced THEN doubt ELSE [doubt EXCEPT ![call[w].key] = {}]
    /\ UNCHANGED <<persistent, silos>>
    /\ call[w].entry = {} \/ call[w].key[1] \in silos
    /\ call[w].at = "storing" /\ call'[w].at = "stored"

LEMMA AttemptEffect ==
    ASSUME WorkInv, NEW w \in Workers, Attempts(w)
    PROVE  Writes(w) \/ Passes(w) \/ Misses(w) \/ Makes(w) \/ Remembers(w)
<1>1. /\ call[w] # NoCall /\ call[w].at \in {"calling", "reconnecting", "storing", "making"}
      /\ call \in [Workers -> {NoCall} \cup Calls]
  BY AttemptedCall DEF WorkInv, KarmaTypeOK, StorageTypeOK
<1>2. call[w] \in Calls
  BY <1>1
<1>3. CASE Accepted(w)
  <2>1. call'[w].at = "storing"
    BY <1>1, <1>2, <1>3 DEF Accepted, Calls
  <2>. QED
    BY <1>3, <2>1 DEF Accepted, Attempted, Writes, memoryVars
<1>4. CASE Rejected(w) \/ Reconnect(w)
  <2>1. call'[w].at \in {"failed", "calling"}
    BY <1>1, <1>2, <1>4 DEF Rejected, Reconnect, Calls
  <2>. QED
    BY <1>4, <2>1 DEF Rejected, Reconnect, Passes, memoryVars
<1>5. CASE Retry(w) \/ GiveUp(w)
  <2>1. call'[w].at \in {"reconnecting", "failed"}
    BY <1>1, <1>2, <1>5 DEF Retry, GiveUp, Calls
  <2>2. Errs(w)
    BY <1>5 DEF Retry, GiveUp
  <2>. QED
    BY <2>1, <2>2 DEF Errs, Attempted, Writes, Passes, memoryVars
<1>6. CASE FindNoSilo(w)
  <2>1. call'[w].at = "making"
    BY <1>1, <1>2, <1>6 DEF FindNoSilo, Calls
  <2>. QED
    BY <1>6, <2>1 DEF FindNoSilo, Misses, memoryVars
<1>7. CASE MakeSilo(w)
  <2>1. call'[w].at = "storing"
    BY <1>1, <1>2, <1>7 DEF MakeSilo, Calls
  <2>. QED
    BY <1>7, <2>1 DEF MakeSilo, Makes
<1>8. CASE Remember(w)
  <2>1. call'[w].at = "stored"
    BY <1>1, <1>2, <1>8 DEF Remember, Calls
  <2>. QED
    BY <1>8, <2>1 DEF Remember, Remembers, Acknowledged
<1>. QED
  BY <1>3, <1>4, <1>5, <1>6, <1>7, <1>8 DEF Attempts

(* What an attempt needs of the calls.                                     *)
LEMMA AttemptCalls ==
    ASSUME WorkInv, NEW w \in Workers, Attempts(w)
    PROVE  /\ call[w].key \in Keys /\ call[w].key[1] \in Silos /\ call[w].entry \in Entries
           /\ call[w] # NoCall /\ call'[w] # NoCall
           /\ call'[w].key = call[w].key /\ call'[w].entry = call[w].entry
           /\ \A v \in Workers : v # w => call'[v] = call[v]
           /\ UNCHANGED <<up, raced>>
<1>1. StorageTypeOK
  BY DEF WorkInv, KarmaTypeOK
<1>. QED
  BY <1>1, AttemptedCall, CallType

LEMMA WriteType ==
    ASSUME WorkInv
    PROVE  /\ persistent \in [Keys -> Entries] /\ memory \in [Keys -> Entries]
           /\ doubt \in [Keys -> SUBSET Entries]
           /\ \A v \in Workers : call[v].at \in {"storing", "making", "stored"} =>
                 call[v] # NoCall /\ call[v].key \in Keys
<1>1. StorageTypeOK
  BY DEF WorkInv, KarmaTypeOK
<1>2. \A v \in Workers : call[v] # NoCall => call[v].key \in Keys
  BY <1>1, CallType
<1>3. NoCall.at = "idle"
  BY DEF NoCall
<1>. QED
  BY <1>1, <1>2, <1>3 DEF StorageTypeOK

LEMMA AttemptOneAtATime ==
    ASSUME CopyInv, NEW w \in Workers, Attempts(w) PROVE OneAtATime'
<1>1. /\ call[w] # NoCall /\ call'[w].key = call[w].key
      /\ \A v \in Workers : v # w => call'[v] = call[v]
      /\ raced' = raced
  BY AttemptCalls DEF CopyInv
<1>. QED
  BY <1>1 DEF CopyInv, OneAtATime

LEMMA AttemptExecuted ==
    ASSUME CopyInv, NEW w \in Workers, Attempts(w) PROVE Executed'
<1>. DEFINE k == call[w].key  e == call[w].entry
<1>1. /\ k \in Keys /\ call'[w].key = k /\ call'[w].entry = e
      /\ \A v \in Workers : v # w => call'[v] = call[v]
      /\ raced' = raced /\ call[w] # NoCall
  BY AttemptCalls DEF CopyInv
<1>2. /\ persistent \in [Keys -> Entries] /\ memory \in [Keys -> Entries]
      /\ doubt \in [Keys -> SUBSET Entries]
      /\ \A v \in Workers : call[v].at \in {"storing", "making", "stored"} =>
            call[v] # NoCall /\ call[v].key \in Keys
  BY WriteType DEF CopyInv
<1>3. Writes(w) \/ Passes(w) \/ Misses(w) \/ Makes(w) \/ Remembers(w)
  BY AttemptEffect DEF CopyInv
<1>. SUFFICES ASSUME NEW v \in Workers, call'[v].at \in {"storing", "making"}
              PROVE  /\ call'[v].entry \in doubt'[call'[v].key]
                     /\ persistent'[call'[v].key] \in doubt'[call'[v].key]
                     /\ persistent'[call'[v].key] = call'[v].entry \/ call'[v].key[1] \in raced'
  BY DEF Executed
<1>4. CASE v = w
  <2>1. CASE Writes(w)
    <3>1. persistent'[k] = e /\ e \in doubt'[k]
      BY <1>1, <1>2, <2>1 DEF Writes
    <3>. QED
      BY <1>1, <1>4, <3>1
  <2>2. CASE Misses(w) \/ Makes(w)
    <3>1. /\ UNCHANGED <<persistent, doubt>> /\ call[w].at \in {"storing", "making"}
      BY <2>2 DEF Misses, Makes
    <3>. QED
      BY <1>1, <1>4, <3>1 DEF CopyInv, Executed
  <2>3. CASE Passes(w) \/ Remembers(w)
    BY <1>4, <2>3 DEF Passes, Remembers
  <2>. QED
    BY <1>3, <2>1, <2>2, <2>3
<1>5. CASE v # w
  <2>. DEFINE j == call[v].key
  <2>1. /\ call'[v] = call[v] /\ j \in Keys /\ call[v] # NoCall
        /\ call[v].entry \in doubt[j] /\ persistent[j] \in doubt[j]
        /\ persistent[j] = call[v].entry \/ j[1] \in raced
    BY <1>1, <1>2, <1>5 DEF CopyInv, Executed
  <2>2. k[1] = j[1] => j[1] \in raced
    BY <1>1, <1>5, <2>1 DEF CopyInv, OneAtATime
  <2>. HIDE DEF j
  <2>3. /\ call[v].entry \in doubt'[j] /\ persistent'[j] \in doubt'[j]
        /\ persistent'[j] = call[v].entry \/ j[1] \in raced
    <3>1. CASE Writes(w)
      <4>1. /\ \A i \in Keys : i # k => persistent'[i] = persistent[i] /\ doubt'[i] = doubt[i]
            /\ persistent'[k] = e /\ doubt'[k] = doubt[k] \cup {e}
        BY <1>1, <1>2, <3>1 DEF Writes
      <4>. HIDE DEF k, e
      <4>. QED
        BY <2>1, <2>2, <4>1
    <3>2. CASE Remembers(w)
      <4>1. /\ persistent' = persistent /\ \A i \in Keys : i # k => doubt'[i] = doubt[i]
            /\ k[1] \in raced => doubt' = doubt
        BY <1>1, <1>2, <3>2 DEF Remembers
      <4>. HIDE DEF k, e
      <4>. QED
        BY <2>1, <2>2, <4>1
    <3>3. CASE Passes(w) \/ Misses(w) \/ Makes(w)
      BY <2>1, <3>3 DEF Passes, Misses, Makes
    <3>. QED
      BY <1>3, <3>1, <3>2, <3>3
  <2>. QED
    BY <1>1, <2>1, <2>3 DEF j
<1>. QED
  BY <1>4, <1>5

LEMMA AttemptMaking ==
    ASSUME CopyInv, NEW w \in Workers, Attempts(w) PROVE Making'
<1>. DEFINE k == call[w].key  e == call[w].entry
<1>1. /\ k \in Keys /\ call'[w].key = k /\ call'[w].entry = e
      /\ \A v \in Workers : v # w => call'[v] = call[v]
      /\ raced' = raced /\ call[w] # NoCall
  BY AttemptCalls DEF CopyInv
<1>2. /\ persistent \in [Keys -> Entries] /\ memory \in [Keys -> Entries]
      /\ doubt \in [Keys -> SUBSET Entries]
      /\ \A v \in Workers : call[v].at \in {"storing", "making", "stored"} =>
            call[v] # NoCall /\ call[v].key \in Keys
  BY WriteType DEF CopyInv
<1>3. Writes(w) \/ Passes(w) \/ Misses(w) \/ Makes(w) \/ Remembers(w)
  BY AttemptEffect DEF CopyInv
<1>. SUFFICES ASSUME NEW v \in Workers, call'[v].at = "making",
                     NEW j \in Keys, j[1] = call'[v].key[1], memory'[j] # {}
              PROVE  j[1] \in raced' /\ persistent'[j] \in doubt'[j]
  BY DEF Making
<1>4. CASE v = w
  <2>1. Misses(w)
    BY <1>3, <1>4 DEF Writes, Passes, Makes, Remembers
  <2>2. memory[j] # {} /\ j[1] \notin silos
    BY <1>1, <1>4, <2>1 DEF Misses
  <2>. QED
    BY <2>2 DEF CopyInv, Unmade
<1>5. CASE v # w
  <2>1. call[v].at = "making" /\ call[v] # NoCall /\ j[1] = call[v].key[1]
    BY <1>1, <1>2, <1>5
  <2>2. k[1] = j[1] => j[1] \in raced
    BY <1>1, <1>5, <2>1 DEF CopyInv, OneAtATime
  <2>3. memory[j] # {} => j[1] \in raced /\ persistent[j] \in doubt[j]
    BY <2>1 DEF CopyInv, Making
  <2>4. CASE Writes(w)
    <3>1. /\ \A i \in Keys : i # k => persistent'[i] = persistent[i] /\ doubt'[i] = doubt[i]
          /\ persistent'[k] = e /\ doubt'[k] = doubt[k] \cup {e} /\ memory' = memory
      BY <1>1, <1>2, <2>4 DEF Writes
    <3>. HIDE DEF k, e
    <3>. QED
      BY <1>1, <2>2, <2>3, <3>1
  <2>5. CASE Passes(w) \/ Misses(w)
    BY <1>1, <2>3, <2>5 DEF Passes, Misses
  <2>6. CASE Makes(w)
    <3>1. /\ UNCHANGED <<persistent, doubt>>
          /\ \A i \in Keys : memory'[i] = IF i[1] = k[1] THEN {} ELSE memory[i]
      BY <2>6 DEF Makes
    <3>. HIDE DEF k, e
    <3>. QED
      BY <1>1, <2>3, <3>1
  <2>7. CASE Remembers(w)
    <3>1. /\ persistent' = persistent /\ \A i \in Keys : i # k => doubt'[i] = doubt[i]
          /\ k[1] \in raced => doubt' = doubt
          /\ \A i \in Keys : i # k => memory'[i] = memory[i]
          /\ call[w].at = "storing"
      BY <1>1, <1>2, <2>7 DEF Remembers
    <3>2. persistent[k] \in doubt[k]
      BY <3>1 DEF CopyInv, Executed
    <3>. HIDE DEF k, e
    <3>. QED
      BY <1>1, <2>2, <2>3, <3>1, <3>2
  <2>. QED
    BY <1>3, <2>4, <2>5, <2>6, <2>7
<1>. QED
  BY <1>4, <1>5

LEMMA AttemptContent ==
    ASSUME CopyInv, NEW w \in Workers, Attempts(w) PROVE Unmade' /\ Doubtful'
<1>. DEFINE k == call[w].key  e == call[w].entry
<1>1. k \in Keys /\ raced' = raced
  BY AttemptCalls DEF CopyInv
<1>2. /\ persistent \in [Keys -> Entries] /\ memory \in [Keys -> Entries]
      /\ doubt \in [Keys -> SUBSET Entries]
  BY WriteType DEF CopyInv
<1>3. Writes(w) \/ Passes(w) \/ Misses(w) \/ Makes(w) \/ Remembers(w)
  BY AttemptEffect DEF CopyInv
<1>4. /\ \A i \in Keys : i[1] \notin silos => memory[i] = {}
      /\ \A i \in Keys : persistent[i] = memory[i] \/ persistent[i] \in doubt[i]
  BY DEF CopyInv, Unmade, Doubtful
<1>. SUFFICES ASSUME NEW j \in Keys
              PROVE  /\ j[1] \notin silos' => memory'[j] = {}
                     /\ persistent'[j] = memory'[j] \/ persistent'[j] \in doubt'[j]
  BY DEF Unmade, Doubtful
<1>5. CASE Writes(w)
  <2>1. /\ \A i \in Keys : i # k => persistent'[i] = persistent[i] /\ doubt'[i] = doubt[i]
        /\ persistent'[k] = e /\ doubt'[k] = doubt[k] \cup {e}
        /\ memory' = memory /\ silos' = silos
    BY <1>1, <1>2, <1>5 DEF Writes
  <2>. HIDE DEF k, e
  <2>. QED
    BY <1>4, <2>1
<1>6. CASE Passes(w) \/ Misses(w)
  BY <1>4, <1>6 DEF Passes, Misses
<1>7. CASE Makes(w)
  <2>1. /\ UNCHANGED <<persistent, doubt>> /\ silos' = silos \cup {k[1]}
        /\ \A i \in Keys : memory'[i] = IF i[1] = k[1] THEN {} ELSE memory[i]
        /\ call[w].at = "making"
    BY <1>7 DEF Makes
  <2>2. j[1] = k[1] /\ memory[j] # {} => persistent[j] \in doubt[j]
    BY <2>1 DEF CopyInv, Making
  <2>. HIDE DEF k, e
  <2>. QED
    BY <1>4, <2>1, <2>2
<1>8. CASE Remembers(w)
  <2>1. /\ persistent' = persistent /\ silos' = silos
        /\ \A i \in Keys : i # k => doubt'[i] = doubt[i] /\ memory'[i] = memory[i]
        /\ k[1] \in raced => doubt' = doubt
        /\ memory'[k] = e /\ (e = {} \/ k[1] \in silos)
        /\ call[w].at = "storing"
    BY <1>1, <1>2, <1>8 DEF Remembers
  <2>2. persistent[k] \in doubt[k] /\ (persistent[k] = e \/ k[1] \in raced)
    BY <2>1 DEF CopyInv, Executed
  <2>. HIDE DEF k, e
  <2>. QED
    BY <1>4, <2>1, <2>2
<1>. QED
  BY <1>3, <1>5, <1>6, <1>7, <1>8

(* A write that begins: its silo is raced if somebody else writes to it.   *)
LEMMA Begins ==
    ASSUME WorkInv, NEW w \in Workers, NEW k \in Keys, NEW e, Write(w, k, e)
    PROVE  /\ call[w] = NoCall /\ call'[w] # NoCall /\ call'[w].at = "calling"
           /\ call'[w].key = k /\ call'[w].entry = e
           /\ \A v \in Workers : v # w => call'[v] = call[v]
           /\ raced' = raced \ {k[1]} \/ raced' = raced \cup {k[1]}
           /\ k[1] \notin raced' =>
                 \A v \in Workers : call[v] # NoCall => call[v].key[1] # k[1]
           /\ UNCHANGED <<persistent, memory, silos, up, doubt>>
<1>. DEFINE c == [at |-> "calling", key |-> k, entry |-> e, attempt |-> 1]
<1>1. /\ call[w] = NoCall /\ call' = [call EXCEPT ![w] = c]
      /\ raced' = IF Writing[k[1]] = {} THEN raced \ {k[1]} ELSE raced \cup {k[1]}
      /\ UNCHANGED <<persistent, memory, silos, up, doubt>>
  BY DEF Write, memoryVars
<1>2. call \in [Workers -> {NoCall} \cup Calls] /\ k[1] \in Silos
  BY DEF WorkInv, KarmaTypeOK, StorageTypeOK, Keys
<1>3. call'[w] = c /\ \A v \in Workers : v # w => call'[v] = call[v]
  BY <1>1, <1>2
<1>4. c # NoCall
  BY DEF NoCall
<1>5. Writing[k[1]] = {v \in Workers : call[v] # NoCall /\ call[v].key[1] = k[1]}
  BY <1>2 DEF Writing
<1>6. k[1] \notin raced' => Writing[k[1]] = {}
  BY <1>1
<1>. QED
  BY <1>1, <1>3, <1>4, <1>5, <1>6

LEMMA WriteCopy ==
    ASSUME CopyInv, NEW w \in Workers, NEW k \in Keys, NEW e, Write(w, k, e)
    PROVE  OneAtATime' /\ Executed' /\ Making' /\ Unmade' /\ Doubtful'
<1>1. /\ call[w] = NoCall /\ call'[w].at = "calling" /\ call'[w].key = k
      /\ \A v \in Workers : v # w => call'[v] = call[v]
      /\ raced' = raced \ {k[1]} \/ raced' = raced \cup {k[1]}
      /\ k[1] \notin raced' => \A v \in Workers : call[v] # NoCall => call[v].key[1] # k[1]
      /\ UNCHANGED <<persistent, memory, silos, doubt>>
  BY Begins DEF CopyInv
<1>2. \A s : s \in raced /\ s \notin raced' =>
          \A v \in Workers : call[v] # NoCall => call[v].key[1] # s
  BY <1>1
<1>3. \A v \in Workers : call'[v].at \in {"storing", "making"} =>
          call'[v] = call[v] /\ call[v] # NoCall
  BY <1>1 DEF NoCall
<1>4. OneAtATime'
  <2>. SUFFICES ASSUME NEW u \in Workers, NEW v \in Workers, u # v,
                       call'[u] # NoCall, call'[v] # NoCall, call'[u].key[1] = call'[v].key[1]
                PROVE  call'[v].key[1] \in raced'
    BY DEF OneAtATime
  <2>1. CASE u = w \/ v = w
    BY <1>1, <2>1
  <2>2. CASE u # w /\ v # w
    <3>1. call[u] # NoCall /\ call[v] # NoCall /\ call[u].key[1] = call[v].key[1]
          /\ call'[v] = call[v]
      BY <1>1, <2>2
    <3>2. call[v].key[1] \in raced
      BY <3>1 DEF CopyInv, OneAtATime
    <3>. QED
      BY <1>2, <3>1, <3>2
  <2>. QED
    BY <2>1, <2>2
<1>5. Executed'
  <2>. SUFFICES ASSUME NEW v \in Workers, call'[v].at \in {"storing", "making"}
                PROVE  /\ call'[v].entry \in doubt'[call'[v].key]
                       /\ persistent'[call'[v].key] \in doubt'[call'[v].key]
                       /\ persistent'[call'[v].key] = call'[v].entry \/ call'[v].key[1] \in raced'
    BY DEF Executed
  <2>1. /\ call'[v] = call[v] /\ call[v] # NoCall /\ call[v].at \in {"storing", "making"}
    BY <1>3
  <2>2. /\ call[v].entry \in doubt[call[v].key] /\ persistent[call[v].key] \in doubt[call[v].key]
        /\ persistent[call[v].key] = call[v].entry \/ call[v].key[1] \in raced
    BY <2>1 DEF CopyInv, Executed
  <2>. QED
    BY <1>1, <1>2, <2>1, <2>2
<1>6. Making'
  <2>. SUFFICES ASSUME NEW v \in Workers, call'[v].at = "making",
                       NEW j \in Keys, j[1] = call'[v].key[1], memory'[j] # {}
                PROVE  j[1] \in raced' /\ persistent'[j] \in doubt'[j]
    BY DEF Making
  <2>1. call'[v] = call[v] /\ call[v] # NoCall
    BY <1>3
  <2>2. j[1] \in raced /\ persistent[j] \in doubt[j]
    BY <1>1, <2>1 DEF CopyInv, Making
  <2>. QED
    BY <1>1, <1>2, <2>1, <2>2
<1>7. Unmade' /\ Doubtful'
  BY <1>1 DEF CopyInv, Unmade, Doubtful
<1>. QED
  BY <1>4, <1>5, <1>6, <1>7

(* Calls that end, or are left as they are.                                *)
CopyParts == OneAtATime /\ Executed /\ Making /\ Unmade /\ Doubtful
CallsEnd ==
    /\ UNCHANGED <<persistent, memory, silos, doubt, raced>>
    /\ \A v \in Workers : call'[v] \in {call[v], NoCall}

LEMMA CallsEndCopy ==
    ASSUME CopyInv, CallsEnd PROVE CopyParts'
<1>0. UNCHANGED <<persistent, memory, silos, doubt, raced>>
  BY DEF CallsEnd
<1>1. \A v \in Workers : call'[v].at \in {"storing", "making"} => call'[v] = call[v]
  BY DEF CallsEnd, NoCall
<1>2. \A v \in Workers : call'[v] # NoCall => call'[v] = call[v]
  BY DEF CallsEnd
<1>3. OneAtATime'
  BY <1>0, <1>2 DEF CopyInv, OneAtATime
<1>4. Executed'
  BY <1>0, <1>1 DEF CopyInv, Executed
<1>5. Making'
  BY <1>0, <1>1 DEF CopyInv, Making
<1>6. Unmade' /\ Doubtful'
  BY <1>0 DEF CopyInv, Unmade, Doubtful
<1>. QED
  BY <1>3, <1>4, <1>5, <1>6 DEF CopyParts

LEMMA CopyInvStep ==
    ASSUME Summable, CopyInv, [Next]_vars PROVE CopyInv'
<1>0. call \in [Workers -> {NoCall} \cup Calls] /\ persistent \in [Keys -> Entries]
  BY DEF CopyInv, WorkInv, KarmaTypeOK, StorageTypeOK
<1>1. WorkInv'
  BY WorkInvStep DEF CopyInv
<1>2. ASSUME NEW w \in Workers, HearRecord(w) \/ HearReset(w) \/ Answer(w) PROVE CopyParts'
  <2>1. UNCHANGED <<persistent, memory, silos, doubt, raced, call>>
    BY <1>2 DEF HearRecord, HearReset, Hear, Answer, storageVars, memoryVars
  <2>2. \A v \in Workers : call'[v] \in {call[v], NoCall}
    BY <2>1
  <2>. QED
    BY <2>1, <2>2, CallsEndCopy DEF CallsEnd
<1>3. ASSUME NEW w \in Workers, Record(w) \/ Reset(w) PROVE CopyParts'
  <2>1. PICK k \in Keys, e \in Entries : Write(w, k, e)
    BY <1>3, WrittenEntry DEF CopyInv
  <2>. QED
    BY <2>1, WriteCopy DEF CopyParts
<1>4. ASSUME NEW w \in Workers, Continue(w) PROVE CopyParts'
  <2>1. /\ call' = [call EXCEPT ![w] = NoCall]
        /\ UNCHANGED <<persistent, memory, silos, doubt, raced>>
    BY <1>4 DEF Continue, memoryVars
  <2>2. \A v \in Workers : call'[v] \in {call[v], NoCall}
    BY <1>0, <2>1
  <2>. QED
    BY <2>1, <2>2, CallsEndCopy DEF CallsEnd
<1>5. ASSUME Panics \/ Crashes PROVE CopyParts'
  <2>1. /\ call' = [w \in Workers |-> NoCall]
        /\ UNCHANGED <<persistent, memory, silos, doubt, raced>>
    BY <1>5 DEF Panics, Crashes, Panic, Crash, Die, memoryVars
  <2>2. \A v \in Workers : call'[v] \in {call[v], NoCall}
    BY <2>1
  <2>. QED
    BY <2>1, <2>2, CallsEndCopy DEF CallsEnd
<1>6. ASSUME Restarts PROVE CopyParts'
  <2>1. /\ ~up /\ memory' = persistent /\ UNCHANGED <<persistent, call>>
        /\ silos' = {s \in Silos : Present(s, persistent) # {}}
    BY <1>6 DEF Restarts, Restart
  <2>2. \A v \in Workers : call'[v] = NoCall /\ call'[v].at = "idle"
    BY <2>1 DEF CopyInv, WorkInv, DownIsIdle, NoCall
  <2>3. Unmade'
    <3>. SUFFICES ASSUME NEW k \in Keys, persistent[k] # {} PROVE k[1] \in silos'
      BY <2>1 DEF Unmade
    <3>1. PICK s \in Silos, n \in Names : k = <<s, n>>
      BY DEF Keys
    <3>2. n \in Present(s, persistent)
      BY <3>1 DEF Present
    <3>. QED
      BY <2>1, <3>1, <3>2
  <2>4. Doubtful'
    BY <2>1 DEF Doubtful
  <2>5. OneAtATime'
    BY <2>2 DEF OneAtATime
  <2>6. Executed'
    BY <2>2 DEF Executed
  <2>7. Making'
    BY <2>2 DEF Making
  <2>. QED
    BY <2>3, <2>4, <2>5, <2>6, <2>7 DEF CopyParts
<1>7. ASSUME UNCHANGED vars PROVE CopyParts'
  <2>1. UNCHANGED <<persistent, memory, silos, doubt, raced, call>>
    BY <1>7 DEF vars, storageVars, memoryVars
  <2>2. \A v \in Workers : call'[v] \in {call[v], NoCall}
    BY <2>1
  <2>. QED
    BY <2>1, <2>2, CallsEndCopy DEF CallsEnd
<1>8. ASSUME NEW w \in Workers, Attempts(w) PROVE CopyParts'
  BY <1>8, AttemptOneAtATime, AttemptExecuted, AttemptMaking, AttemptContent DEF CopyParts
<1>9. CopyParts'
  <2>1. ASSUME NEW w \in Workers, HearRecord(w) \/ HearReset(w) \/ Step(w) PROVE CopyParts'
    BY <2>1, <1>2, <1>3, <1>4, <1>8 DEF Step
  <2>. QED
    BY <2>1, <1>5, <1>6, <1>7 DEF Next
<1>. QED
  BY <1>1, <1>9 DEF CopyParts, CopyInv

(* The memory is a copy of the datastore (Storage's New, PutSiloString,    *)
(* DeleteSiloString): what no failed call and no overlapping write of the  *)
(* silo left in doubt is the same in both, for any workers of any          *)
(* channels.                                                               *)
THEOREM MemoryStaysCopy ==
    ASSUME Summable PROVE Spec => []MemoryIsCopyButForDoubt
<1>1. Spec => []CopyInv
  BY CopyInvInit, CopyInvStep, PTL DEF Spec
<1>2. CopyInv => MemoryIsCopyButForDoubt
  BY DEF CopyInv, Doubtful, MemoryIsCopyButForDoubt
<1>. QED
  BY <1>1, <1>2, PTL

-----------------------------------------------------------------------------
(* The storage keeps the promise of SiloStore, step by step.               *)

(* Nobody begins a write, and nobody ends one.                             *)
CallsRemain ==
    \A v \in Workers :
        /\ call'[v] = NoCall <=> call[v] = NoCall
        /\ call[v] # NoCall => call'[v].key = call[v].key

LEMMA SameWriting == ASSUME CallsRemain PROVE Writing' = Writing
<1>1. \A s \in Silos : {v \in Workers : call'[v] # NoCall /\ call'[v].key[1] = s}
                         = {v \in Workers : call[v] # NoCall /\ call[v].key[1] = s}
  BY DEF CallsRemain
<1>. QED
  BY <1>1 DEF Writing

LEMMA StoreUnchanged ==
    ASSUME UNCHANGED <<memory, doubt, raced>>, CallsRemain
    PROVE  [Abstract!StoreNext]_(Abstract!storeVars)
BY SameWriting DEF Abstract!storeVars

LEMMA StoreBegins ==
    ASSUME WorkInv, NEW w \in Workers, NEW k \in Keys, NEW e, Write(w, k, e)
    PROVE  Abstract!StoreNext
<1>. DEFINE s == k[1]
<1>1. s \in Silos
  BY DEF Keys
<1>2. /\ call[w] = NoCall /\ call'[w] # NoCall /\ call'[w].key[1] = s
      /\ \A v \in Workers : v # w => call'[v] = call[v]
      /\ UNCHANGED <<memory, doubt>>
  BY Begins
<1>3. raced' = IF Writing[s] = {} THEN raced \ {s} ELSE raced \cup {s}
  BY DEF Write
<1>. HIDE DEF s
<1>4. \A t \in Silos : Writing[t] = {v \in Workers : call[v] # NoCall /\ call[v].key[1] = t}
  BY DEF Writing
<1>5. \A t \in Silos : w \notin Writing[t]
  BY <1>2, <1>4
<1>6. \A t \in Silos : {v \in Workers : call'[v] # NoCall /\ call'[v].key[1] = t}
                         = IF t = s THEN Writing[t] \cup {w} ELSE Writing[t]
  BY <1>2, <1>4
<1>7. Writing' = [Writing EXCEPT ![s] = @ \cup {w}]
  <2>1. Writing' = [t \in Silos |-> {v \in Workers : call'[v] # NoCall /\ call'[v].key[1] = t}]
    BY DEF Writing
  <2>2. DOMAIN Writing = Silos
    BY DEF Writing
  <2>3. [Writing EXCEPT ![s] = @ \cup {w}]
          = [t \in Silos |-> IF t = s THEN Writing[t] \cup {w} ELSE Writing[t]]
    BY <2>2
  <2>. QED
    BY <1>6, <2>1, <2>3
<1>8. Abstract!Begin(w, s)
  BY <1>2, <1>3, <1>5, <1>7 DEF Abstract!Begin
<1>. QED
  BY <1>1, <1>8 DEF Abstract!StoreNext

LEMMA StoreEnds ==
    ASSUME WorkInv, NEW w \in Workers, Continue(w) PROVE Abstract!StoreNext
<1>. DEFINE s == call[w].key[1]
<1>1. /\ call' = [call EXCEPT ![w] = NoCall] /\ call[w].at \in {"stored", "failed"}
      /\ UNCHANGED <<memory, doubt, raced>>
  BY DEF Continue, Returned, memoryVars
<1>2. StorageTypeOK /\ call[w] # NoCall
  BY <1>1 DEF WorkInv, KarmaTypeOK, NoCall
<1>3. s \in Silos
  BY <1>2, CallType DEF Keys
<1>4. call'[w] = NoCall /\ \A v \in Workers : v # w => call'[v] = call[v]
  BY <1>1, <1>2 DEF StorageTypeOK
<1>5. \A t \in Silos : Writing[t] = {v \in Workers : call[v] # NoCall /\ call[v].key[1] = t}
  BY DEF Writing
<1>6. w \in Writing[s]
  BY <1>2, <1>3, <1>5
<1>7. \A t \in Silos : t # s => w \notin Writing[t]
  BY <1>5
<1>. HIDE DEF s
<1>8. \A t \in Silos : {v \in Workers : call'[v] # NoCall /\ call'[v].key[1] = t}
                         = Writing[t] \ {w}
  BY <1>4, <1>5
<1>9. Writing' = [Writing EXCEPT ![s] = @ \ {w}]
  <2>1. Writing' = [t \in Silos |-> {v \in Workers : call'[v] # NoCall /\ call'[v].key[1] = t}]
    BY DEF Writing
  <2>2. DOMAIN Writing = Silos
    BY DEF Writing
  <2>3. [Writing EXCEPT ![s] = @ \ {w}]
          = [t \in Silos |-> IF t = s THEN Writing[t] \ {w} ELSE Writing[t]]
    BY <2>2
  <2>4. \A t \in Silos : t # s => Writing[t] \ {w} = Writing[t]
    BY <1>7
  <2>. QED
    BY <1>8, <2>1, <2>3, <2>4
<1>10. Abstract!End(w, s)
  BY <1>1, <1>6, <1>9 DEF Abstract!End
<1>. QED
  BY <1>3, <1>10 DEF Abstract!StoreNext

(* All calls are cut off.                                                  *)
LEMMA StoreStops ==
    ASSUME \A v \in Workers : call'[v] = NoCall, UNCHANGED <<memory, doubt, raced>>
    PROVE  Abstract!StoreNext
<1>1. \A s \in Silos : {v \in Workers : call'[v] # NoCall /\ call'[v].key[1] = s} = {}
  OBVIOUS
<1>2. Writing' = Abstract!NobodyWrites
  BY <1>1 DEF Writing, Abstract!NobodyWrites
<1>. QED
  BY <1>2 DEF Abstract!StoreNext, Abstract!Stop

LEMMA StoreAttempts ==
    ASSUME CopyInv, NEW w \in Workers, Attempts(w)
    PROVE  [Abstract!StoreNext]_(Abstract!storeVars)
<1>. DEFINE k == call[w].key  e == call[w].entry  s == k[1]
<1>1. /\ k \in Keys /\ s \in Silos /\ e \in Entries /\ call[w] # NoCall /\ call'[w] # NoCall
      /\ call'[w].key = k /\ \A v \in Workers : v # w => call'[v] = call[v]
      /\ raced' = raced
  BY AttemptCalls DEF CopyInv
<1>2. CallsRemain
  BY <1>1 DEF CallsRemain
<1>3. Writing' = Writing
  BY <1>2, SameWriting
<1>4. Writing[s] # {}
  BY <1>1 DEF Writing
<1>5. CASE Writes(w)
  <2>1. doubt' = [doubt EXCEPT ![k] = @ \cup {e}] /\ memory' = memory
    BY <1>5 DEF Writes
  <2>. HIDE DEF k, e
  <2>2. Abstract!Attempt(k)
    BY <1>1, <1>3, <1>4, <2>1 DEF Abstract!Attempt
  <2>. QED
    BY <1>1, <2>2 DEF Abstract!StoreNext
<1>6. CASE Passes(w) \/ Misses(w)
  BY <1>1, <1>2, <1>6, StoreUnchanged DEF Passes, Misses
<1>7. CASE Makes(w)
  <2>1. /\ UNCHANGED doubt /\ call[w].at = "making"
        /\ memory' = [j \in Keys |-> IF j[1] = s THEN {} ELSE memory[j]]
    BY <1>7 DEF Makes
  <2>2. memory \in [Keys -> Entries]
    BY WriteType DEF CopyInv
  <2>3. \A j \in Keys : j[1] = s /\ memory[j] # {} => j[1] \in raced /\ persistent[j] \in doubt[j]
    BY <2>1 DEF CopyInv, Making
  <2>. HIDE DEF s
  <2>4. CASE s \in raced
    <3>1. \A j \in Keys : (IF j[1] = s THEN {} ELSE memory[j])
                            = IF j[1] = s /\ doubt[j] # {} THEN {} ELSE memory[j]
      BY <2>3
    <3>2. memory' = [j \in Keys |-> IF j[1] = s /\ doubt[j] # {} THEN {} ELSE memory[j]]
      BY <2>1, <3>1
    <3>3. Abstract!Undo(s)
      BY <1>1, <1>3, <2>1, <2>4, <3>2 DEF Abstract!Undo
    <3>. QED
      BY <1>1, <3>3 DEF Abstract!StoreNext
  <2>5. CASE s \notin raced
    <3>1. \A j \in Keys : (IF j[1] = s THEN {} ELSE memory[j]) = memory[j]
      BY <2>3, <2>5
    <3>2. memory' = memory
      BY <2>1, <2>2, <3>1
    <3>. QED
      BY <1>1, <1>2, <2>1, <3>2, StoreUnchanged
  <2>. QED
    BY <2>4, <2>5
<1>8. CASE Remembers(w)
  <2>1. /\ memory' = [memory EXCEPT ![k] = e]
        /\ doubt' = IF s \in raced THEN doubt ELSE [doubt EXCEPT ![k] = {}]
        /\ call[w].at = "storing"
    BY <1>8 DEF Remembers
  <2>2. e \in doubt[k]
    BY <2>1 DEF CopyInv, Executed
  <2>. HIDE DEF e
  <2>3. Abstract!Acknowledge(k)
    BY <1>1, <1>3, <1>4, <2>1, <2>2 DEF Abstract!Acknowledge
  <2>. QED
    BY <1>1, <2>3 DEF Abstract!StoreNext
<1>. QED
  BY <1>5, <1>6, <1>7, <1>8, AttemptEffect DEF CopyInv

LEMMA StoreStep ==
    ASSUME Summable, CopyInv, [Next]_vars
    PROVE  [Abstract!StoreNext]_(Abstract!storeVars)
<1>0. WorkInv
  BY DEF CopyInv
<1>1. ASSUME NEW w \in Workers, HearRecord(w) \/ HearReset(w) \/ Answer(w)
      PROVE  [Abstract!StoreNext]_(Abstract!storeVars)
  <2>1. UNCHANGED <<memory, doubt, raced, call>>
    BY <1>1 DEF HearRecord, HearReset, Hear, Answer, storageVars, memoryVars
  <2>. QED
    BY <2>1, StoreUnchanged DEF CallsRemain
<1>2. ASSUME NEW w \in Workers, Record(w) \/ Reset(w) PROVE Abstract!StoreNext
  <2>1. PICK k \in Keys, e \in Entries : Write(w, k, e)
    BY <1>0, <1>2, WrittenEntry
  <2>. QED
    BY <1>0, <2>1, StoreBegins
<1>3. CASE Panics \/ Crashes
  <2>1. /\ call' = [w \in Workers |-> NoCall] /\ UNCHANGED <<memory, doubt, raced>>
    BY <1>3 DEF Panics, Crashes, Panic, Crash, Die, memoryVars
  <2>2. \A v \in Workers : call'[v] = NoCall
    BY <2>1
  <2>. QED
    BY <2>1, <2>2, StoreStops
<1>4. CASE Restarts
  <2>1. /\ ~up /\ UNCHANGED call /\ memory' = persistent
        /\ doubt' = [k \in Keys |-> {}] /\ raced' = {}
    BY <1>4 DEF Restarts, Restart
  <2>2. persistent \in [Keys -> Entries]
    BY WriteType DEF CopyInv
  <2>3. \A v \in Workers : call[v] = NoCall
    BY <1>0, <2>1 DEF WorkInv, DownIsIdle
  <2>4. Writing' = Writing /\ Writing = Abstract!NobodyWrites
    BY <2>1, <2>3, SameWriting DEF CallsRemain, Writing, Abstract!NobodyWrites
  <2>5. \A k \in Keys : persistent[k] \in {memory[k]} \cup doubt[k]
    BY DEF CopyInv, Doubtful
  <2>6. Abstract!Reload
    BY <2>1, <2>2, <2>4, <2>5 DEF Abstract!Reload
  <2>. QED
    BY <2>6 DEF Abstract!StoreNext
<1>5. CASE UNCHANGED vars
  <2>1. UNCHANGED <<memory, doubt, raced, call>>
    BY <1>5 DEF vars, storageVars, memoryVars
  <2>. QED
    BY <2>1, StoreUnchanged DEF CallsRemain
<1>6. ASSUME NEW w \in Workers, HearRecord(w) \/ HearReset(w) \/ Step(w)
      PROVE  [Abstract!StoreNext]_(Abstract!storeVars)
  BY <1>0, <1>1, <1>2, <1>6, StoreEnds, StoreAttempts DEF Step
<1>. QED
  BY <1>3, <1>4, <1>5, <1>6 DEF Next

(* InMemoryDB over DatastoreDB implements SiloStore: however calls fail,   *)
(* are tried again, overlap or are cut off by the end of the process, an   *)
(* acknowledged write that was alone is what is read, and no restart goes  *)
(* back on it, for any workers of any channels.                            *)
THEOREM StorageImplementsStore ==
    ASSUME Summable PROVE Spec => KeepsWhatItAcknowledged
<1>1. Spec => []CopyInv
  BY CopyInvInit, CopyInvStep, PTL DEF Spec
<1>2. Init => Abstract!StoreInit
  <2>1. StorageInit => \A v \in Workers : call[v] = NoCall
    BY DEF StorageInit
  <2>2. StorageInit => Writing = Abstract!NobodyWrites
    BY <2>1 DEF Writing, Abstract!NobodyWrites
  <2>. QED
    BY <2>2 DEF Init, StorageInit, Abstract!StoreInit
<1>3. ASSUME CopyInv, [Next]_vars PROVE [Abstract!StoreNext]_(Abstract!storeVars)
  BY <1>3, StoreStep
<1>. QED
  BY <1>1, <1>2, <1>3, PTL DEF Spec, KeepsWhatItAcknowledged, Abstract!StoreSpec

-----------------------------------------------------------------------------
(* No point is lost or counted twice.                                      *)

(* A put adds a match to what was stored, and a delete takes everything,   *)
(* where no other write overlaps.                                          *)
CallsAddUp ==
    \A w \in Workers : call[w] # NoCall /\ call[w].key[1] \notin raced =>
        /\ call[w].entry = IF work[w].kind = "record"
                           THEN {credit[call[w].key] + Head(work[w].left).by} ELSE {}
        /\ call[w].at = "stored" => memory[call[w].key] = call[w].entry

(* What is stored is what was credited, but for what has just been stored. *)
Credited ==
    up => \A k \in Keys :
        k[1] \notin raced /\ (\A w \in Workers : call[w].at = "stored" => call[w].key # k)
            => Points(memory[k]) = credit[k]

CreditInv == CopyInv /\ CallsAddUp /\ Credited

LEMMA CreditInvInit == Init => CreditInv
BY CopyInvInit DEF CreditInv, Init, StorageInit, CallsAddUp, Credited, Points, NoCall

(* What a step of worker w changes is no other worker's, and no other key. *)
LEMMA CreditTalk ==
    ASSUME CreditInv, NEW w \in Workers, HearRecord(w) \/ HearReset(w) \/ Answer(w)
    PROVE  CallsAddUp' /\ Credited'
<1>1. /\ UNCHANGED <<up, memory, call, credit, raced>> /\ call[w] = NoCall
      /\ \A v \in Workers : v # w => work'[v] = work[v]
  <2>1. CASE Answer(w)
    BY <2>1 DEF Answer, storageVars, memoryVars, CreditInv, CopyInv, WorkInv, KarmaTypeOK
  <2>2. CASE HearRecord(w) \/ HearReset(w)
    <3>1. call[w] = NoCall
      BY <2>2 DEF HearRecord, HearReset, Hear, CreditInv, CopyInv, WorkInv, CallsAreWork
    <3>2. \E x : work' = [work EXCEPT ![w] = x]
      BY <2>2 DEF HearRecord, HearReset
    <3>. QED
      BY <2>2, <3>1, <3>2 DEF HearRecord, HearReset, Hear, storageVars, memoryVars, CreditInv,
                              CopyInv, WorkInv, KarmaTypeOK
  <2>. QED
    BY <2>1, <2>2
<1>2. CallsAddUp'
  BY <1>1 DEF CreditInv, CallsAddUp
<1>3. Credited'
  BY <1>1 DEF CreditInv, Credited
<1>. QED
  BY <1>2, <1>3

LEMMA CreditCall ==
    ASSUME Summable, CreditInv, NEW w \in Workers, Record(w) \/ Reset(w)
    PROVE  CallsAddUp' /\ Credited'
<1>1. PICK k \in Keys, e \in Entries :
        /\ up /\ work[w] # Idle /\ k[1] = work[w].silo
        /\ work[w].kind = "record" => e = {Points(memory[k]) + Head(work[w].left).by}
        /\ work[w].kind = "reset" => e = {}
        /\ Write(w, k, e) /\ CountAnew(k[1]) /\ UNCHANGED <<work, heard>>
  BY WrittenEntry DEF CreditInv, CopyInv
<1>. DEFINE s == k[1]
<1>2. /\ call[w] = NoCall /\ call'[w].at = "calling" /\ call'[w].key = k /\ call'[w].entry = e
      /\ \A v \in Workers : v # w => call'[v] = call[v]
      /\ raced' = raced \ {s} \/ raced' = raced \cup {s}
      /\ s \notin raced' => \A v \in Workers : call[v] # NoCall => call[v].key[1] # s
      /\ UNCHANGED <<up, memory, work>>
  BY <1>1, Begins DEF CreditInv, CopyInv
<1>3. \A v \in Workers : call[v].at = "stored" => call[v] # NoCall /\ call[v].key \in Keys
  BY WriteType DEF CreditInv, CopyInv
<1>4. /\ s \in raced => \A j \in Keys : j[1] = s => credit'[j] = Points(memory[j])
      /\ s \notin raced => credit' = credit
      /\ \A j \in Keys : j[1] # s => credit'[j] = credit[j]
  BY <1>1 DEF CountAnew
<1>. HIDE DEF s
<1>5. s \notin raced' => \A j \in Keys : j[1] = s => Points(memory[j]) = credit'[j]
  <2>. SUFFICES ASSUME s \notin raced', NEW j \in Keys, j[1] = s, s \notin raced
                PROVE  Points(memory[j]) = credit[j]
    BY <1>4
  <2>1. \A v \in Workers : call[v].at = "stored" => call[v].key # j
    BY <1>2, <1>3
  <2>. QED
    BY <1>1, <2>1 DEF CreditInv, Credited
<1>6. work[w].kind \in {"record", "reset"}
  BY <1>1, WorkType DEF CreditInv, CopyInv, WorkInv
<1>7. s \notin raced' =>
        e = IF work[w].kind = "record" THEN {credit'[k] + Head(work[w].left).by} ELSE {}
  BY <1>1, <1>5, <1>6 DEF s
<1>8. CallsAddUp'
  <2>. SUFFICES ASSUME NEW v \in Workers, call'[v] # NoCall, call'[v].key[1] \notin raced'
                PROVE  /\ call'[v].entry = IF work[v].kind = "record"
                             THEN {credit'[call'[v].key] + Head(work[v].left).by} ELSE {}
                       /\ call'[v].at = "stored" => memory[call'[v].key] = call'[v].entry
    BY <1>2 DEF CallsAddUp
  <2>1. CASE v = w
    BY <1>2, <1>7, <2>1 DEF s
  <2>2. CASE v # w
    <3>1. call'[v] = call[v] /\ call[v] # NoCall /\ call[v].key[1] # s
      BY <1>2, <2>2
    <3>2. call[v].key[1] \notin raced
      BY <1>2, <3>1
    <3>3. call[v].key \in Keys
      BY <3>1, CallType DEF CreditInv, CopyInv, WorkInv, KarmaTypeOK
    <3>4. credit'[call[v].key] = credit[call[v].key]
      BY <1>4, <3>1, <3>3
    <3>. QED
      BY <3>1, <3>2, <3>4 DEF CreditInv, CallsAddUp
  <2>. QED
    BY <2>1, <2>2
<1>9. Credited'
  <2>. SUFFICES ASSUME NEW j \in Keys, j[1] \notin raced',
                       \A v \in Workers : call'[v].at = "stored" => call'[v].key # j
                PROVE  Points(memory[j]) = credit'[j]
    BY <1>2 DEF Credited
  <2>1. CASE j[1] = s
    BY <1>5, <2>1
  <2>2. CASE j[1] # s
    <3>1. j[1] \notin raced /\ credit'[j] = credit[j]
      BY <1>2, <1>4, <2>2
    <3>2. \A v \in Workers : call[v].at = "stored" => call[v].key # j
      BY <1>2, <1>3
    <3>. QED
      BY <1>1, <3>1, <3>2 DEF CreditInv, Credited
  <2>. QED
    BY <2>1, <2>2
<1>. QED
  BY <1>8, <1>9

(* In a silo that is not raced no other call is of the silo of this one.   *)
LEMMA AloneInSilo ==
    ASSUME CreditInv, NEW w \in Workers, call[w] # NoCall, call[w].key[1] \notin raced
    PROVE  \A v \in Workers : v # w /\ call[v] # NoCall => call[v].key[1] # call[w].key[1]
BY DEF CreditInv, CopyInv, OneAtATime

LEMMA CreditContinue ==
    ASSUME CreditInv, NEW w \in Workers, Continue(w)
    PROVE  CallsAddUp' /\ Credited'
<1>. DEFINE k == call[w].key
            earned == IF work[w].kind = "reset" THEN 0 ELSE credit[k] + Head(work[w].left).by
<1>0. /\ call \in [Workers -> {NoCall} \cup Calls] /\ credit \in [Keys -> Int]
      /\ work \in [Workers -> {Idle} \cup Works]
  BY DEF CreditInv, CopyInv, WorkInv, KarmaTypeOK, StorageTypeOK
<1>1. /\ up /\ call[w].at \in {"stored", "failed"} /\ call' = [call EXCEPT ![w] = NoCall]
      /\ credit' = IF call[w].at = "failed" THEN credit ELSE [credit EXCEPT ![k] = earned]
      /\ UNCHANGED <<up, memory, raced>>
  BY DEF Continue, Returned, memoryVars
<1>2. \E x : work' = [work EXCEPT ![w] = x]
  BY DEF Continue
<1>3. /\ call'[w] = NoCall /\ call'[w].at = "idle"
      /\ \A v \in Workers : v # w => call'[v] = call[v] /\ work'[v] = work[v]
  BY <1>0, <1>1, <1>2 DEF NoCall
<1>4. call[w] # NoCall /\ k \in Keys /\ work[w].kind \in {"record", "reset"}
  BY <1>1, CallType, WorkType DEF CreditInv, CopyInv, WorkInv, KarmaTypeOK, CallsAreWork
<1>5. \A v \in Workers : v # w /\ call[v] # NoCall /\ call[v].key[1] \notin raced
                           => call[v].key # k /\ call[v].key \in Keys
  BY <1>4, AloneInSilo, CallType DEF CreditInv, CopyInv, WorkInv, KarmaTypeOK
<1>6. call[w].at = "stored" /\ k[1] \notin raced => Points(memory[k]) = earned
  <2>. SUFFICES ASSUME call[w].at = "stored", k[1] \notin raced PROVE Points(memory[k]) = earned
    OBVIOUS
  <2>1. memory[k] = IF work[w].kind = "record"
                    THEN {credit[k] + Head(work[w].left).by} ELSE {}
    BY <1>4 DEF CreditInv, CallsAddUp
  <2>2. CASE work[w].kind = "record"
    <3>1. memory[k] = {earned}
      BY <2>1, <2>2
    <3>. HIDE DEF earned, k
    <3>. QED
      BY <3>1, PointsOfValue
  <2>3. CASE work[w].kind = "reset"
    <3>1. memory[k] = {} /\ earned = 0
      BY <2>1, <2>3
    <3>. QED
      BY <3>1 DEF Points
  <2>. QED
    BY <1>4, <2>2, <2>3
<1>. HIDE DEF k, earned
<1>7. \A j \in Keys : j # k => credit'[j] = credit[j]
  BY <1>0, <1>1
<1>8. call[w].at = "stored" => credit'[k] = earned
  BY <1>0, <1>1, <1>4
<1>9. CallsAddUp'
  <2>. SUFFICES ASSUME NEW v \in Workers, call'[v] # NoCall, call'[v].key[1] \notin raced
                PROVE  /\ call'[v].entry = IF work'[v].kind = "record"
                             THEN {credit'[call'[v].key] + Head(work'[v].left).by} ELSE {}
                       /\ call'[v].at = "stored" => memory'[call'[v].key] = call'[v].entry
    BY <1>1 DEF CallsAddUp
  <2>1. v # w /\ call'[v] = call[v] /\ work'[v] = work[v] /\ call[v] # NoCall
    BY <1>3
  <2>2. credit'[call[v].key] = credit[call[v].key]
    BY <1>5, <1>7, <2>1
  <2>. QED
    BY <1>1, <2>1, <2>2 DEF CreditInv, CallsAddUp
<1>10. Credited'
  <2>. SUFFICES ASSUME NEW j \in Keys, j[1] \notin raced,
                       \A v \in Workers : call'[v].at = "stored" => call'[v].key # j
                PROVE  Points(memory[j]) = credit'[j]
    BY <1>1 DEF Credited
  <2>1. \A v \in Workers : v # w /\ call[v].at = "stored" => call[v].key # j
    BY <1>3
  <2>2. CASE j = k /\ call[w].at = "stored"
    BY <1>6, <1>8, <2>2
  <2>3. CASE j # k \/ call[w].at # "stored"
    <3>1. \A v \in Workers : call[v].at = "stored" => call[v].key # j
      BY <2>1, <2>3 DEF k
    <3>2. Points(memory[j]) = credit[j]
      BY <1>1, <3>1 DEF CreditInv, Credited
    <3>. QED
      BY <1>1, <1>7, <2>3, <3>2
  <2>. QED
    BY <2>2, <2>3
<1>. QED
  BY <1>9, <1>10

LEMMA CreditAttempt ==
    ASSUME CreditInv, NEW w \in Workers, Attempts(w), UNCHANGED karmaVars
    PROVE  CallsAddUp' /\ Credited'
<1>. DEFINE k == call[w].key  e == call[w].entry
<1>1. /\ k \in Keys /\ e \in Entries /\ call[w] # NoCall
      /\ call'[w].key = k /\ call'[w].entry = e
      /\ \A v \in Workers : v # w => call'[v] = call[v]
      /\ UNCHANGED <<up, raced, work, credit>>
  BY AttemptCalls DEF CreditInv, CopyInv, karmaVars
<1>2. call[w].at # "stored" /\ memory \in [Keys -> Entries]
  BY AttemptedCall DEF CreditInv, CopyInv, WorkInv, KarmaTypeOK, StorageTypeOK
<1>3. \A v \in Workers : v # w /\ call[v] # NoCall /\ call[v].key[1] \notin raced
                           => call[v].key # k /\ call[v].key \in Keys
  BY <1>1, AloneInSilo, CallType DEF CreditInv, CopyInv, WorkInv, KarmaTypeOK
<1>4. /\ \A j \in Keys : j # k /\ j[1] \notin raced => memory'[j] = memory[j]
      /\ call'[w].at = "stored" => memory'[k] = e
      /\ call'[w].at # "stored" /\ k[1] \notin raced => memory'[k] = memory[k]
  <2>1. CASE Writes(w) \/ Passes(w) \/ Misses(w)
    BY <2>1 DEF Writes, Passes, Misses
  <2>2. CASE Makes(w)
    <3>1. /\ \A j \in Keys : memory'[j] = IF j[1] = k[1] THEN {} ELSE memory[j]
          /\ call[w].at = "making" /\ call'[w].at = "storing"
      BY <2>2 DEF Makes
    <3>2. \A j \in Keys : j[1] = k[1] /\ memory[j] # {} => j[1] \in raced
      BY <3>1 DEF CreditInv, CopyInv, Making
    <3>. HIDE DEF k
    <3>. QED
      BY <1>1, <3>1, <3>2
  <2>3. CASE Remembers(w)
    BY <1>1, <1>2, <2>3 DEF Remembers
  <2>. QED
    BY <2>1, <2>2, <2>3, AttemptEffect DEF CreditInv, CopyInv
<1>5. CallsAddUp'
  <2>. SUFFICES ASSUME NEW v \in Workers, call'[v] # NoCall, call'[v].key[1] \notin raced
                PROVE  /\ call'[v].entry = IF work[v].kind = "record"
                             THEN {credit[call'[v].key] + Head(work[v].left).by} ELSE {}
                       /\ call'[v].at = "stored" => memory'[call'[v].key] = call'[v].entry
    BY <1>1 DEF CallsAddUp
  <2>1. CASE v = w
    BY <1>1, <1>4, <2>1 DEF CreditInv, CallsAddUp
  <2>2. CASE v # w
    <3>1. call'[v] = call[v] /\ call[v] # NoCall /\ call[v].key[1] \notin raced
      BY <1>1, <2>2
    <3>2. memory'[call[v].key] = memory[call[v].key]
      BY <1>3, <1>4, <2>2, <3>1
    <3>. QED
      BY <3>1, <3>2 DEF CreditInv, CallsAddUp
  <2>. QED
    BY <2>1, <2>2
<1>6. Credited'
  <2>. SUFFICES ASSUME up, NEW j \in Keys, j[1] \notin raced,
                       \A v \in Workers : call'[v].at = "stored" => call'[v].key # j
                PROVE  Points(memory'[j]) = credit[j]
    BY <1>1 DEF Credited
  <2>1. \A v \in Workers : call[v].at = "stored" => call[v].key # j
    BY <1>1, <1>2
  <2>2. memory'[j] = memory[j]
    BY <1>1, <1>4
  <2>. QED
    BY <2>1, <2>2 DEF CreditInv, Credited
<1>. QED
  BY <1>5, <1>6

LEMMA CreditInvStep ==
    ASSUME Summable, CreditInv, [Next]_vars PROVE CreditInv'
<1>1. CopyInv'
  BY CopyInvStep DEF CreditInv
<1>2. CASE Panics \/ Crashes
  <2>1. up' = FALSE /\ \A v \in Workers : call'[v] = NoCall
    BY <1>2 DEF Panics, Crashes, Panic, Crash, Die
  <2>. QED
    BY <1>1, <2>1 DEF CreditInv, CallsAddUp, Credited
<1>3. CASE Restarts
  <2>1. /\ \A v \in Workers : call'[v] = NoCall
        /\ credit' = [k \in Keys |-> Points(memory'[k])]
    BY <1>3 DEF Restarts, Restart, CreditInv, CopyInv, WorkInv, DownIsIdle
  <2>. QED
    BY <1>1, <2>1 DEF CreditInv, CallsAddUp, Credited
<1>4. CASE UNCHANGED vars
  <2>1. UNCHANGED <<up, memory, raced, call, work, credit>>
    BY <1>4 DEF vars, storageVars, memoryVars, karmaVars
  <2>. QED
    BY <1>1, <2>1 DEF CreditInv, CallsAddUp, Credited
<1>5. ASSUME NEW w \in Workers, HearRecord(w) \/ HearReset(w) \/ Step(w)
      PROVE  CallsAddUp' /\ Credited'
  BY <1>5, CreditTalk, CreditCall, CreditContinue, CreditAttempt DEF Step
<1>. QED
  BY <1>1, <1>2, <1>3, <1>4, <1>5 DEF Next, CreditInv

(* The karma of a thing is the sum of what was stored for it since the     *)
(* last reset or restart (recordKarma, clearChannelKarma), whatever puts   *)
(* fail, for workers at work in any channels: an increment is lost only    *)
(* while messages of one channel are at work at once, and the count is     *)
(* right again from the next message of the channel that is alone.         *)
THEOREM KarmaIsSum ==
    ASSUME Summable PROVE Spec => []KarmaAddsUp
<1>1. Spec => []CreditInv
  BY CreditInvInit, CreditInvStep, PTL DEF Spec
<1>2. CreditInv => KarmaAddsUp
  BY DEF CreditInv, Credited, KarmaAddsUp, Quiet, NoCall
<1>. QED
  BY <1>1, <1>2, PTL

-----------------------------------------------------------------------------
(* Sorting a finite set *)

(* A strict order on S in which any two elements are comparable.           *)
StrictOrder(R, S) ==
    /\ \A x \in S : <<x, x>> \notin R
    /\ \A x, y, z \in S : <<x, y>> \in R /\ <<y, z>> \in R => <<x, z>> \in R
    /\ \A x, y \in S : x # y => <<x, y>> \in R \/ <<y, x>> \in R

Sorted(seq, R) == \A i, j \in DOMAIN seq : i < j => <<seq[i], seq[j]>> \in R

LEMMA LessThanFinite ==
    ASSUME NEW S, IsFiniteSet(S), NEW R, StrictOrder(R, S), NEW x \in S
    PROVE  /\ IsFiniteSet(SetLessThan(x, R, S))
           /\ Cardinality(SetLessThan(x, R, S)) \in Nat
           /\ Cardinality(SetLessThan(x, R, S)) < Cardinality(S)
<1>1. SetLessThan(x, R, S) \in SUBSET S /\ SetLessThan(x, R, S) # S
  BY DEF SetLessThan, StrictOrder
<1>2. /\ IsFiniteSet(SetLessThan(x, R, S))
      /\ Cardinality(SetLessThan(x, R, S)) <= Cardinality(S)
      /\ Cardinality(SetLessThan(x, R, S)) # Cardinality(S)
  BY <1>1, FS_Subset
<1>3. Cardinality(SetLessThan(x, R, S)) \in Nat /\ Cardinality(S) \in Nat
  BY <1>2, FS_CardinalityType
<1>. QED
  BY <1>2, <1>3

(* An element has more before it than those before it have.                *)
LEMMA LessThanGrows ==
    ASSUME NEW S, IsFiniteSet(S), NEW R, StrictOrder(R, S),
           NEW x \in S, NEW y \in S, <<x, y>> \in R
    PROVE  Cardinality(SetLessThan(x, R, S)) < Cardinality(SetLessThan(y, R, S))
<1>1. /\ SetLessThan(x, R, S) \in SUBSET SetLessThan(y, R, S)
      /\ SetLessThan(x, R, S) # SetLessThan(y, R, S)
  BY DEF SetLessThan, StrictOrder
<1>2. /\ IsFiniteSet(SetLessThan(y, R, S))
      /\ Cardinality(SetLessThan(x, R, S)) \in Nat
      /\ Cardinality(SetLessThan(y, R, S)) \in Nat
  BY LessThanFinite
<1>3. /\ Cardinality(SetLessThan(x, R, S)) <= Cardinality(SetLessThan(y, R, S))
      /\ Cardinality(SetLessThan(x, R, S)) # Cardinality(SetLessThan(y, R, S))
  BY <1>1, <1>2, FS_Subset
<1>. QED
  BY <1>2, <1>3

(* A finite set can be sorted.                                             *)
LEMMA SortedExists ==
    ASSUME NEW S, IsFiniteSet(S), NEW R, StrictOrder(R, S)
    PROVE  \E seq \in SetToSeqs(S) : Sorted(seq, R)
<1>. DEFINE n == Cardinality(S)
            before(x) == Cardinality(SetLessThan(x, R, S))
            rank == [x \in S |-> before(x) + 1]
<1>1. n \in Nat /\ \A x \in S : before(x) \in Nat /\ before(x) < n
  BY FS_CardinalityType, LessThanFinite
<1>2. \A x, y \in S : <<x, y>> \in R => before(x) < before(y)
  BY LessThanGrows
<1>. HIDE DEF before, n
<1>3. rank \in [S -> 1..n]
  BY <1>1
<1>4. \A x, y \in S : x # y => rank[x] # rank[y]
  <2>. SUFFICES ASSUME NEW x \in S, NEW y \in S, x # y PROVE before(x) # before(y)
    BY <1>1
  <2>1. <<x, y>> \in R \/ <<y, x>> \in R
    BY DEF StrictOrder
  <2>. QED
    BY <1>1, <1>2, <2>1
<1>5. rank \in Injection(S, 1..n)
  BY <1>3, <1>4 DEF Injection, IsInjective
<1>6. IsFiniteSet(1..n) /\ Cardinality(1..n) = n
  BY <1>1, FS_Interval
<1>7. rank \in Surjection(S, 1..n)
  <2>1. Cardinality(S) = Cardinality(1..n)
    BY <1>6 DEF n
  <2>. HIDE DEF rank
  <2>. QED
    BY <1>5, <1>6, <2>1, FS_Injection
<1>8. \A i \in 1..n : \E x \in S : rank[x] = i
  BY <1>7 DEF Surjection
<1>. DEFINE seq == [i \in 1..n |-> CHOOSE x \in S : rank[x] = i]
<1>. HIDE DEF rank
<1>9. \A i \in 1..n : seq[i] \in S /\ rank[seq[i]] = i
  BY <1>8
<1>10. seq \in [1..n -> S] /\ DOMAIN seq = 1..n
  BY <1>9
<1>. HIDE DEF seq
<1>11. \A i, j \in 1..n : i # j => seq[i] # seq[j]
  BY <1>9
<1>12. seq \in SetToSeqs(S)
  BY <1>10, <1>11 DEF SetToSeqs, n
<1>13. Sorted(seq, R)
  <2>. SUFFICES ASSUME NEW i \in 1..n, NEW j \in 1..n, i < j PROVE <<seq[i], seq[j]>> \in R
    BY <1>10 DEF Sorted
  <2>1. seq[i] \in S /\ seq[j] \in S /\ seq[i] # seq[j]
    BY <1>9, <1>11
  <2>2. rank[seq[i]] = i /\ rank[seq[j]] = j
    BY <1>9
  <2>3. rank[seq[i]] = before(seq[i]) + 1 /\ rank[seq[j]] = before(seq[j]) + 1
    BY <2>1 DEF rank
  <2>4. ~(<<seq[j], seq[i]>> \in R)
    BY <1>1, <1>2, <2>1, <2>2, <2>3
  <2>. QED
    BY <2>1, <2>4 DEF StrictOrder
<1>. QED
  BY <1>12, <1>13

(* In a sorted sequence of a set as many elements come before one as are   *)
(* less.                                                                   *)
LEMMA SortedRanks ==
    ASSUME NEW S, IsFiniteSet(S), NEW R, StrictOrder(R, S),
           NEW seq \in SetToSeqs(S), Sorted(seq, R)
    PROVE  /\ seq \in Seq(S) /\ Len(seq) = Cardinality(S)
           /\ \A i \in 1..Len(seq) : /\ seq[i] \in S
                                     /\ Cardinality(SetLessThan(seq[i], R, S)) = i - 1
<1>. DEFINE n == Cardinality(S)
<1>1. n \in Nat /\ IsFiniteSet(1..n) /\ Cardinality(1..n) = n
  BY FS_CardinalityType, FS_Interval
<1>2. seq \in [1..n -> S] /\ \A i, j \in 1..n : i # j => seq[i] # seq[j]
  BY DEF SetToSeqs
<1>3. seq \in Surjection(1..n, S)
  <2>1. seq \in Injection(1..n, S)
    BY <1>2 DEF Injection, IsInjective
  <2>. QED
    BY <1>1, <2>1, FS_Injection
<1>. HIDE DEF n
<1>4. seq \in Seq(S) /\ Len(seq) = n
  BY <1>1, <1>2
<1>5. ASSUME NEW i \in 1..n PROVE Cardinality(SetLessThan(seq[i], R, S)) = i - 1
  <2>. DEFINE T == SetLessThan(seq[i], R, S)
              f == [j \in 1..(i - 1) |-> seq[j]]
  <2>1. \A j \in 1..(i - 1) : j \in 1..n /\ j < i
    BY <1>1
  <2>2. f \in [1..(i - 1) -> T]
    BY <1>2, <2>1 DEF SetLessThan, Sorted
  <2>3. \A j, k \in 1..(i - 1) : j # k => f[j] # f[k]
    BY <1>2, <2>1
  <2>4. \A y \in T : \E j \in 1..(i - 1) : f[j] = y
    <3>. SUFFICES ASSUME NEW y \in T PROVE \E j \in 1..(i - 1) : f[j] = y
      OBVIOUS
    <3>1. y \in S /\ <<y, seq[i]>> \in R
      BY DEF SetLessThan
    <3>2. PICK j \in 1..n : seq[j] = y
      BY <1>3, <3>1 DEF Surjection
    <3>3. j # i /\ ~(i < j)
      <4>1. seq[i] \in S /\ seq[j] \in S
        BY <1>2
      <4>2. ~(<<seq[i], seq[j]>> \in R)
        BY <3>1, <3>2, <4>1 DEF StrictOrder
      <4>. QED
        BY <1>2, <3>1, <3>2, <4>1, <4>2 DEF Sorted, StrictOrder
    <3>. QED
      BY <1>1, <3>2, <3>3
  <2>. HIDE DEF f, T
  <2>5. f \in Bijection(1..(i - 1), T)
    BY <2>2, <2>3, <2>4 DEF Bijection, Injection, Surjection, IsInjective
  <2>6. IsFiniteSet(1..(i - 1)) /\ Cardinality(1..(i - 1)) = i - 1
    BY <1>1, FS_Interval
  <2>7. Cardinality(T) = i - 1
    BY <2>5, <2>6, FS_Bijection DEF ExistsBijection
  <2>. QED
    BY <2>7 DEF T
<1>. QED
  BY <1>2, <1>4, <1>5 DEF n

-----------------------------------------------------------------------------
(* Induction over the naturals, for sets of them, and over the subsets of a *)
(* finite set.                                                             *)

LEMMA Least ==
    ASSUME NEW T \in SUBSET Nat, T # {}
    PROVE  \E x \in T : \A y \in T : x <= y
<1>. DEFINE R == {p \in Nat \X Nat : p[1] < p[2]}
<1>1. R = OpToRel(<, Nat)
  BY Zenon DEF OpToRel
<1>2. IsWellFoundedOn(R, Nat)
  BY <1>1, NatLessThanWellFounded
<1>3. PICK x \in T : \A y \in T : ~(<<y, x>> \in R)
  <2>. HIDE DEF R
  <2>. QED
    BY <1>2, WFMin
<1>4. \A y \in T : ~(y < x)
  BY <1>3
<1>. QED
  BY <1>4

LEMMA Induction ==
    ASSUME NEW T \in SUBSET Nat, 0 \in T, \A n \in T : n + 1 \in T
    PROVE  T = Nat
<1>. DEFINE U == Nat \ T
<1>1. SUFFICES ASSUME U # {} PROVE FALSE
  OBVIOUS
<1>2. PICK n \in U : \A m \in U : n <= m
  BY <1>1, Least
<1>3. n \in Nat /\ n # 0 /\ n - 1 \in Nat /\ n - 1 \notin U
  BY <1>2
<1>. QED
  BY <1>2, <1>3

(* Folds over a finite set, as the library has them: an element is chosen   *)
(* and added to the result for the others.                                 *)
Some(s) == CHOOSE x \in s : TRUE

FoldStep(g, base, F, s) == g[s] = IF s = {} THEN base ELSE F[<<Some(s), g[s \ {Some(s)}]>>]

HasFold(S, V, base, F) ==
    \E g \in [SUBSET S -> V] : \A s \in SUBSET S : FoldStep(g, base, F, s)

(* If s without the chosen element is in T, so is s.                       *)
Growing(T, S) == \A s \in SUBSET S : s # {} /\ s \ {Some(s)} \in T => s \in T

LEMMA SomeOther ==
    ASSUME NEW S, NEW s \in SUBSET S, s # {}
    PROVE  Some(s) \in s /\ Some(s) \in S /\ s \ {Some(s)} \in SUBSET S
BY DEF Some

LEMMA FoldExists ==
    ASSUME NEW S, IsFiniteSet(S), NEW V, NEW base \in V, NEW F \in [S \X V -> V]
    PROVE  HasFold(S, V, base, F)
<1>. DEFINE Small(k) == {s \in SUBSET S : Cardinality(s) <= k}
            T == {k \in Nat : \E g \in [SUBSET S -> V] :
                                 \A s \in Small(k) : FoldStep(g, base, F, s)}
<1>1. \A s \in SUBSET S : /\ IsFiniteSet(s) /\ Cardinality(s) \in Nat
                          /\ Cardinality(s) <= Cardinality(S)
                          /\ Cardinality(s) = 0 => s = {}
  BY FS_Subset, FS_CardinalityType, FS_EmptySet
<1>2. 0 \in T
  <2>. DEFINE g == [s \in SUBSET S |-> base]
  <2>1. g \in [SUBSET S -> V]
    OBVIOUS
  <2>2. ASSUME NEW s \in Small(0) PROVE FoldStep(g, base, F, s)
    <3>1. s = {}
      BY <1>1
    <3>. QED
      BY <3>1 DEF FoldStep
  <2>. QED
    BY <2>1, <2>2
<1>3. ASSUME NEW k \in T PROVE k + 1 \in T
  <2>1. PICK g \in [SUBSET S -> V] : \A s \in Small(k) : FoldStep(g, base, F, s)
    OBVIOUS
  <2>. DEFINE h == [s \in SUBSET S |->
                       IF s = {} THEN base ELSE F[<<Some(s), g[s \ {Some(s)}]>>]]
  <2>2. h \in [SUBSET S -> V]
    <3>1. ASSUME NEW s \in SUBSET S, s # {} PROVE F[<<Some(s), g[s \ {Some(s)}]>>] \in V
      <4>1. Some(s) \in S /\ s \ {Some(s)} \in SUBSET S
        BY <3>1, SomeOther
      <4>2. g[s \ {Some(s)}] \in V
        BY <4>1
      <4>. QED
        BY <4>1, <4>2
    <3>. QED
      BY <3>1
  <2>3. ASSUME NEW s \in Small(k + 1) PROVE FoldStep(h, base, F, s)
    <3>1. CASE s = {}
      BY <3>1 DEF FoldStep
    <3>2. CASE s # {}
      <4>. DEFINE u == s \ {Some(s)}
      <4>1. Some(s) \in s /\ u \in SUBSET S
        BY <3>2, SomeOther
      <4>2. Cardinality(u) = Cardinality(s) - 1
        BY <1>1, <4>1, FS_RemoveElement
      <4>3. u \in Small(k)
        BY <1>1, <4>1, <4>2
      <4>. HIDE DEF u
      <4>4. g[u] = IF u = {} THEN base ELSE F[<<Some(u), g[u \ {Some(u)}]>>]
        BY <2>1, <4>3 DEF FoldStep
      <4>5. h[u] = g[u]
        BY <4>1, <4>4
      <4>6. h[s] = F[<<Some(s), g[u]>>]
        BY <3>2 DEF u
      <4>7. h[s] = F[<<Some(s), h[u]>>]
        BY <4>5, <4>6
      <4>. HIDE DEF h
      <4>. QED
        BY <3>2, <4>7 DEF FoldStep, u
    <3>. QED
      BY <3>1, <3>2
  <2>. HIDE DEF h, Small
  <2>. QED
    BY <2>2, <2>3
<1>4. T = Nat
  <2>. HIDE DEF Small
  <2>1. T \in SUBSET Nat
    OBVIOUS
  <2>. HIDE DEF T
  <2>. QED
    BY <1>2, <1>3, <2>1, Induction
<1>5. Cardinality(S) \in T /\ Small(Cardinality(S)) = SUBSET S
  BY <1>1, <1>4, FS_CardinalityType
<1>. HIDE DEF Small
<1>. QED
  BY <1>5 DEF HasFold

(* What holds of a set when it holds without the chosen element holds of   *)
(* every finite set.                                                       *)
LEMMA FoldInduction ==
    ASSUME NEW S, IsFiniteSet(S), NEW T \in SUBSET (SUBSET S), {} \in T, Growing(T, S)
    PROVE  T = SUBSET S
<1>. DEFINE Small(k) == {s \in SUBSET S : Cardinality(s) <= k}
            N == {k \in Nat : Small(k) \subseteq T}
<1>1. \A s \in SUBSET S : /\ IsFiniteSet(s) /\ Cardinality(s) \in Nat
                          /\ Cardinality(s) <= Cardinality(S)
                          /\ Cardinality(s) = 0 => s = {}
  BY FS_Subset, FS_CardinalityType, FS_EmptySet
<1>2. 0 \in N
  <2>1. \A s \in Small(0) : s = {}
    BY <1>1
  <2>. QED
    BY <2>1
<1>3. ASSUME NEW k \in N PROVE k + 1 \in N
  <2>1. ASSUME NEW s \in Small(k + 1), s # {} PROVE s \in T
    <3>1. s \in SUBSET S /\ Cardinality(s) <= k + 1
      OBVIOUS
    <3>2. Some(s) \in s /\ s \ {Some(s)} \in SUBSET S
      BY <2>1, <3>1, SomeOther
    <3>3. Cardinality(s \ {Some(s)}) = Cardinality(s) - 1
      BY <1>1, <3>1, <3>2, FS_RemoveElement
    <3>4. s \ {Some(s)} \in T
      BY <1>1, <3>1, <3>2, <3>3
    <3>. QED
      BY <2>1, <3>1, <3>4 DEF Growing
  <2>2. \A s \in Small(k + 1) : s \in T
    BY <2>1
  <2>. HIDE DEF Small
  <2>. QED
    BY <2>2
<1>4. N = Nat
  <2>. HIDE DEF Small
  <2>1. \A k \in N : k \in Nat
    OBVIOUS
  <2>. HIDE DEF N
  <2>. QED
    BY <1>2, <1>3, <2>1, Induction
<1>. QED
  BY <1>1, <1>4, FS_CardinalityType

-----------------------------------------------------------------------------
(* The karma of a channel, and of all of them *)

Stored == memory \in [Keys -> Entries]

LEMMA PointsStored ==
    ASSUME Stored, NEW s \in Silos, NEW n \in Names
    PROVE  Points(memory[<<s, n>>]) \in Int
<1>1. memory[<<s, n>>] \in Entries
  BY DEF Stored, Keys
<1>2. \A v \in Values \cup {0} : v \in Int
  OBVIOUS
<1>. QED
  BY <1>1, <1>2, PointsType, Zenon

(* The sums MapThenSumSet goes through for thing n.                        *)
TotalStep(h, n, s) ==
    h[s] = IF s = {} THEN 0 ELSE Points(memory[<<Some(s), n>>]) + h[s \ {Some(s)}]

TotalFold(h, C, n) ==
    h = [s \in SUBSET C |->
            IF s = {} THEN 0 ELSE Points(memory[<<Some(s), n>>]) + h[s \ {Some(s)}]]

LEMMA TotalIsFold ==
    ASSUME Stored, NEW C \in SUBSET Silos, NEW n \in Names
    PROVE  \E h \in [SUBSET C -> Int] :
              /\ \A s \in SUBSET C : TotalStep(h, n, s)
              /\ Total(C, n) = h[C]
<1>. DEFINE F == [p \in C \X Int |-> Points(memory[<<p[1], n>>]) + p[2]]
            h == CHOOSE h : TotalFold(h, C, n)
<1>0. IsFiniteSet(C)
  BY FS_Subset
<1>1. F \in [C \X Int -> Int]
  BY PointsStored
<1>2. PICK g \in [SUBSET C -> Int] : \A s \in SUBSET C : FoldStep(g, 0, F, s)
  <2>. HIDE DEF F
  <2>0. 0 \in Int
    OBVIOUS
  <2>1. HasFold(C, Int, 0, F)
    BY <1>0, <1>1, <2>0, FoldExists, Zenon
  <2>. QED
    BY <2>1 DEF HasFold
<1>3. TotalFold(g, C, n)
  <2>1. ASSUME NEW s \in SUBSET C, s # {}
        PROVE  g[s] = Points(memory[<<Some(s), n>>]) + g[s \ {Some(s)}]
    <3>1. Some(s) \in C /\ s \ {Some(s)} \in SUBSET C
      BY <2>1, SomeOther
    <3>2. g[s] = F[<<Some(s), g[s \ {Some(s)}]>>]
      BY <1>2, <2>1 DEF FoldStep
    <3>3. g[s \ {Some(s)}] \in Int
      BY <3>1
    <3>. QED
      BY <3>1, <3>2, <3>3
  <2>2. g[{}] = 0
    BY <1>2 DEF FoldStep
  <2>. QED
    BY <2>1, <2>2 DEF TotalFold
<1>4. TotalFold(h, C, n)
  BY <1>3
<1>5. Total(C, n) = h[C]
  BY DEF Total, MapThenSumSet, MapThenFoldSet, TotalFold, Some
<1>. HIDE DEF h
<1>6. \A s \in SUBSET C : TotalStep(h, n, s)
  BY <1>4 DEF TotalFold, TotalStep
<1>. DEFINE T == {s \in SUBSET C : h[s] \in Int}
<1>7. {} \in T
  <2>1. TotalStep(h, n, {})
    BY <1>6
  <2>. QED
    BY <2>1 DEF TotalStep
<1>8. ASSUME NEW s \in SUBSET C, s # {}, s \ {Some(s)} \in T PROVE s \in T
  <2>1. Points(memory[<<Some(s), n>>]) \in Int
    BY <1>8, SomeOther, PointsStored
  <2>2. h[s] = Points(memory[<<Some(s), n>>]) + h[s \ {Some(s)}]
    BY <1>6, <1>8 DEF TotalStep
  <2>. QED
    BY <1>8, <2>1, <2>2
<1>9. T = SUBSET C
  <2>1. T \in SUBSET (SUBSET C) /\ Growing(T, C)
    BY <1>8 DEF Growing
  <2>. HIDE DEF T
  <2>. QED
    BY <1>0, <1>7, <2>1, FoldInduction
<1>10. h \in [SUBSET C -> Int]
  <2>1. DOMAIN h = SUBSET C /\ h = [s \in SUBSET C |-> h[s]]
    BY <1>4 DEF TotalFold
  <2>. QED
    BY <1>9, <2>1
<1>. QED
  BY <1>5, <1>6, <1>10

(* The things with karma in some channels, and what the map of their karma *)
(* may be.                                                                 *)
Things(C) == UNION {Present(s, memory) : s \in C}
KarmaMaps == UNION {[D -> Int] : D \in SUBSET Names}

(* The maps ScanGlobalKarma goes through.                                  *)
MergeStep(g, s) ==
    g[s] = IF s = {} THEN <<>> ELSE MergeKarma(g[s \ {Some(s)}], ScanChannelKarma(Some(s)))

MergeFold(g) ==
    g = [s \in SUBSET Silos |->
            IF s = {} THEN <<>> ELSE MergeKarma(g[s \ {Some(s)}], ScanChannelKarma(Some(s)))]

LEMMA ScanMap ==
    ASSUME Stored, NEW s \in Silos
    PROVE  /\ ScanChannelKarma(s) \in KarmaMaps
           /\ DOMAIN ScanChannelKarma(s) = Present(s, memory)
           /\ \A n \in Present(s, memory) : ScanChannelKarma(s)[n] = Points(memory[<<s, n>>])
<1>. DEFINE D == Present(s, memory)
<1>1. D \in SUBSET Names
  BY DEF Present
<1>. HIDE DEF D
<1>2. \A n \in D : Points(memory[<<s, n>>]) \in Int
  BY <1>1, PointsStored
<1>3. ScanChannelKarma(s) = [n \in D |-> Points(memory[<<s, n>>])]
  BY DEF ScanChannelKarma, D
<1>4. ScanChannelKarma(s) \in [D -> Int]
  BY <1>2, <1>3
<1>. QED
  BY <1>1, <1>3, <1>4 DEF KarmaMaps, D

LEMMA MergeMap ==
    ASSUME NEW a \in KarmaMaps, NEW b \in KarmaMaps PROVE MergeKarma(a, b) \in KarmaMaps
<1>1. PICK A \in SUBSET Names : a \in [A -> Int]
  BY DEF KarmaMaps
<1>2. PICK B \in SUBSET Names : b \in [B -> Int]
  BY DEF KarmaMaps
<1>3. MergeKarma(a, b) \in [A \cup B -> Int]
  BY <1>1, <1>2 DEF MergeKarma
<1>4. A \cup B \in SUBSET Names
  OBVIOUS
<1>. QED
  BY <1>3, <1>4 DEF KarmaMaps

LEMMA GlobalIsFold ==
    ASSUME Stored
    PROVE  \E g : MergeFold(g) /\ ScanGlobalKarma = g[Silos]
<1>. DEFINE F == [p \in Silos \X KarmaMaps |-> MergeKarma(p[2], ScanChannelKarma(p[1]))]
            g == CHOOSE g : MergeFold(g)
<1>1. F \in [Silos \X KarmaMaps -> KarmaMaps]
  BY ScanMap, MergeMap
<1>2. <<>> \in KarmaMaps
  <2>1. <<>> \in [{} -> Int]
    OBVIOUS
  <2>. QED
    BY <2>1 DEF KarmaMaps
<1>3. PICK f \in [SUBSET Silos -> KarmaMaps] : \A s \in SUBSET Silos : FoldStep(f, <<>>, F, s)
  <2>. HIDE DEF F
  <2>1. HasFold(Silos, KarmaMaps, <<>>, F)
    BY <1>1, <1>2, FoldExists, Zenon
  <2>. QED
    BY <2>1 DEF HasFold
<1>4. MergeFold(f)
  <2>1. ASSUME NEW s \in SUBSET Silos, s # {}
        PROVE  f[s] = MergeKarma(f[s \ {Some(s)}], ScanChannelKarma(Some(s)))
    <3>1. Some(s) \in Silos /\ s \ {Some(s)} \in SUBSET Silos
      BY <2>1, SomeOther
    <3>2. f[s] = F[<<Some(s), f[s \ {Some(s)}]>>]
      BY <1>3, <2>1 DEF FoldStep
    <3>3. f[s \ {Some(s)}] \in KarmaMaps
      BY <3>1
    <3>. QED
      BY <3>1, <3>2, <3>3
  <2>2. f[{}] = <<>>
    BY <1>3 DEF FoldStep
  <2>. QED
    BY <2>1, <2>2 DEF MergeFold
<1>5. MergeFold(g)
  BY <1>4
<1>6. ScanGlobalKarma = g[Silos]
  BY DEF ScanGlobalKarma, FoldSet, MapThenFoldSet, MergeFold, Some
<1>. QED
  BY <1>5, <1>6

(* What all channels have: their things, with the sum of their karma.      *)
LEMMA GlobalKarma ==
    ASSUME Stored
    PROVE  ScanGlobalKarma = [n \in Things(Silos) |-> Total(Silos, n)]
<1>1. PICK g : MergeFold(g) /\ ScanGlobalKarma = g[Silos]
  BY GlobalIsFold
<1>. DEFINE IsTotal(h, n) == /\ h \in [SUBSET Silos -> Int]
                             /\ \A s \in SUBSET Silos : TotalStep(h, n, s)
                             /\ Total(Silos, n) = h[Silos]
            H == [n \in Names |-> CHOOSE h : IsTotal(h, n)]
<1>2. \A n \in Names : IsTotal(H[n], n)
  <2>1. \A n \in Names : \E h : IsTotal(h, n)
    BY TotalIsFold
  <2>. HIDE DEF IsTotal
  <2>. QED
    BY <2>1
<1>. HIDE DEF H
<1>. DEFINE Summed(s) == [n \in Things(s) |-> H[n][s]]
            T == {s \in SUBSET Silos : /\ g[s] = Summed(s)
                                       /\ \A n \in Names \ Things(s) : H[n][s] = 0}
<1>3. {} \in T
  <2>1. Things({}) = {}
    BY DEF Things
  <2>2. g[{}] = <<>>
    BY <1>1 DEF MergeFold
  <2>3. g[{}] = Summed({})
    BY <2>1, <2>2
  <2>4. \A n \in Names : TotalStep(H[n], n, {})
    BY <1>2
  <2>5. \A n \in Names : H[n][{}] = 0
    BY <2>4 DEF TotalStep
  <2>. QED
    BY <2>3, <2>5
<1>4. ASSUME NEW s \in SUBSET Silos, s # {}, s \ {Some(s)} \in T PROVE s \in T
  <2>. DEFINE c == Some(s)
              u == s \ {Some(s)}
  <2>1. c \in s /\ c \in Silos /\ u \in SUBSET Silos
    BY <1>4, SomeOther
  <2>2. g[s] = MergeKarma(g[u], ScanChannelKarma(c))
    BY <1>1, <1>4 DEF MergeFold
  <2>3. g[u] = Summed(u) /\ \A n \in Names \ Things(u) : H[n][u] = 0
    BY <1>4
  <2>4. \A n \in Names : /\ H[n][s] = Points(memory[<<c, n>>]) + H[n][u]
                         /\ H[n][u] \in Int /\ Points(memory[<<c, n>>]) \in Int
    BY <1>2, <1>4, <2>1, PointsStored DEF TotalStep
  <2>5. /\ Things(s) = Things(u) \cup Present(c, memory)
        /\ Things(s) \subseteq Names
    <3>1. s = u \cup {c}
      BY <2>1
    <3>. HIDE DEF u, c
    <3>2. Things(s) = Things(u) \cup Present(c, memory)
      BY <3>1 DEF Things
    <3>3. \A n \in Things(s) : n \in Names
      BY DEF Things, Present
    <3>. QED
      BY <3>2, <3>3
  <2>6. \A n \in Names \ Present(c, memory) : Points(memory[<<c, n>>]) = 0
    BY DEF Present, Points
  <2>. HIDE DEF c, u
  <2>7. ASSUME NEW n \in Names \ Things(s) PROVE H[n][s] = 0
    <3>1. n \in Names \ Things(u) /\ n \in Names \ Present(c, memory)
      BY <2>5
    <3>2. H[n][u] = 0
      BY <2>3, <3>1
    <3>3. Points(memory[<<c, n>>]) = 0
      BY <2>6, <3>1
    <3>4. H[n][s] = Points(memory[<<c, n>>]) + H[n][u]
      BY <2>4
    <3>. QED
      BY <3>2, <3>3, <3>4
  <2>8. g[s] = Summed(s)
    <3>. DEFINE a == g[u]
                b == ScanChannelKarma(c)
    <3>1. /\ DOMAIN a = Things(u) /\ \A n \in Things(u) : a[n] = H[n][u]
          /\ DOMAIN b = Present(c, memory)
          /\ \A n \in Present(c, memory) : b[n] = Points(memory[<<c, n>>])
      BY <2>1, <2>3, ScanMap
    <3>2. g[s] = [n \in DOMAIN a \cup DOMAIN b |->
                    (IF n \in DOMAIN a THEN a[n] ELSE 0) + (IF n \in DOMAIN b THEN b[n] ELSE 0)]
      BY <2>2 DEF MergeKarma
    <3>. HIDE DEF a, b
    <3>3. ASSUME NEW n \in Things(s)
          PROVE  (IF n \in DOMAIN a THEN a[n] ELSE 0) + (IF n \in DOMAIN b THEN b[n] ELSE 0)
                    = H[n][s]
      <4>1. n \in Names
        BY <2>5
      <4>2. IF n \in DOMAIN a THEN a[n] = H[n][u] ELSE H[n][u] = 0
        BY <2>3, <3>1, <4>1
      <4>3. IF n \in DOMAIN b THEN b[n] = Points(memory[<<c, n>>])
                              ELSE Points(memory[<<c, n>>]) = 0
        BY <2>6, <3>1, <4>1
      <4>. QED
        BY <2>4, <4>1, <4>2, <4>3
    <3>. QED
      BY <2>5, <3>1, <3>2, <3>3
  <2>. QED
    BY <2>7, <2>8
<1>5. T = SUBSET Silos
  <2>1. T \in SUBSET (SUBSET Silos) /\ Growing(T, Silos)
    BY <1>4 DEF Growing
  <2>. HIDE DEF T
  <2>. QED
    BY <1>3, <2>1, FoldInduction
<1>6. g[Silos] = Summed(Silos)
  BY <1>5
<1>7. \A n \in Things(Silos) : H[n][Silos] = Total(Silos, n)
  BY <1>2 DEF Things, Present
<1>. QED
  BY <1>1, <1>6, <1>7

(* What one channel has.                                                   *)
LEMMA ChannelKarma ==
    ASSUME Stored, NEW s \in Silos
    PROVE  ScanChannelKarma(s) = [n \in Things({s}) |-> Total({s}, n)]
<1>1. Things({s}) = Present(s, memory) /\ Present(s, memory) \subseteq Names
  BY DEF Things, Present
<1>2. ASSUME NEW n \in Names PROVE Total({s}, n) = Points(memory[<<s, n>>])
  <2>1. PICK h \in [SUBSET {s} -> Int] :
           /\ \A u \in SUBSET {s} : TotalStep(h, n, u)
           /\ Total({s}, n) = h[{s}]
    BY TotalIsFold
  <2>2. Some({s}) = s
    BY DEF Some
  <2>3. TotalStep(h, n, {s}) /\ TotalStep(h, n, {})
    BY <2>1
  <2>4. h[{s}] = Points(memory[<<s, n>>]) + h[{}] /\ h[{}] = 0
    BY <2>2, <2>3 DEF TotalStep
  <2>. QED
    BY <2>1, <2>4, PointsStored
<1>. QED
  BY <1>1, <1>2 DEF ScanChannelKarma

-----------------------------------------------------------------------------
(* The reports *)

LEMMA PositionIsPlace ==
    \A n \in Names : Position(n) \in 1..Len(NameOrder) /\ NameOrder[Position(n)] = n
BY DEF Position, Names

(* A thing with its karma, and the order of a report on them.              *)
PairOf(C, n) == [key |-> n, value |-> Total(C, n)]
PairsOf(C) == {PairOf(C, n) : n \in Things(C)}
ReportOrder(C, top) ==
    {p \in PairsOf(C) \X PairsOf(C) : IF top THEN Less(p[2], p[1]) ELSE Less(p[1], p[2])}

LEMMA PairType ==
    ASSUME Stored, NEW C \in SUBSET Silos, NEW n \in Things(C)
    PROVE  n \in Names /\ Total(C, n) \in Int /\ Position(n) \in Nat
<1>1. n \in Names
  BY DEF Things, Present
<1>2. Total(C, n) \in Int
  <2>1. PICK h \in [SUBSET C -> Int] : Total(C, n) = h[C]
    BY <1>1, TotalIsFold
  <2>. QED
    BY <2>1
<1>3. Position(n) \in 1..Len(NameOrder) /\ Len(NameOrder) \in Nat
  BY <1>1, PositionIsPlace
<1>. QED
  BY <1>1, <1>2, <1>3

LEMMA PairsCounted ==
    ASSUME NEW C \in SUBSET Silos, NEW S \in SUBSET Things(C)
    PROVE  LET pairs == {PairOf(C, n) : n \in S}
           IN  IsFiniteSet(pairs) /\ Cardinality(pairs) = Cardinality(S)
               /\ Cardinality(S) \in Nat
<1>. DEFINE pairs == {PairOf(C, n) : n \in S}
            f == [n \in S |-> PairOf(C, n)]
<1>1. S \in SUBSET Names
  BY DEF Things, Present
<1>2. IsFiniteSet(S) /\ Cardinality(S) \in Nat
  BY <1>1, NamesAreFinite, FS_Subset, FS_CardinalityType
<1>3. f \in [S -> pairs] /\ \A p \in pairs : \E n \in S : f[n] = p
  OBVIOUS
<1>4. \A m, n \in S : m # n => f[m] # f[n]
  BY DEF PairOf
<1>. HIDE DEF f, pairs
<1>5. f \in Bijection(S, pairs)
  BY <1>3, <1>4 DEF Bijection, Injection, Surjection, IsInjective
<1>6. IsFiniteSet(pairs) /\ Cardinality(pairs) = Cardinality(S)
  BY <1>2, <1>5, FS_Bijection DEF ExistsBijection
<1>. QED
  BY <1>2, <1>6 DEF pairs

(* What a report has before a thing.                                       *)
Earlier(C, top, m, n) ==
    \/ IF top THEN Total(C, m) > Total(C, n) ELSE Total(C, m) < Total(C, n)
    \/ /\ Total(C, m) = Total(C, n)
       /\ IF top THEN Position(m) < Position(n) ELSE Position(m) > Position(n)

LEMMA OrderOfPairs ==
    ASSUME Stored, NEW C \in SUBSET Silos, NEW top \in BOOLEAN,
           NEW m \in Things(C), NEW n \in Things(C)
    PROVE  <<PairOf(C, m), PairOf(C, n)>> \in ReportOrder(C, top) <=> Earlier(C, top, m, n)
<1>1. <<PairOf(C, m), PairOf(C, n)>> \in PairsOf(C) \X PairsOf(C)
  BY DEF PairsOf
<1>2. /\ PairOf(C, m).key = m /\ PairOf(C, m).value = Total(C, m)
      /\ PairOf(C, n).key = n /\ PairOf(C, n).value = Total(C, n)
  BY DEF PairOf
<1>3. /\ Total(C, m) \in Int /\ Total(C, n) \in Int
      /\ Position(m) \in Nat /\ Position(n) \in Nat
  BY PairType
<1>4. CASE top
  BY <1>1, <1>2, <1>3, <1>4 DEF ReportOrder, Earlier, Less
<1>5. CASE ~top
  BY <1>1, <1>2, <1>3, <1>5 DEF ReportOrder, Earlier, Less
<1>. QED
  BY <1>4, <1>5

LEMMA OrderIsStrict ==
    ASSUME Stored, NEW C \in SUBSET Silos, NEW top \in BOOLEAN
    PROVE  StrictOrder(ReportOrder(C, top), PairsOf(C))
<1>. DEFINE before(m, n) == Earlier(C, top, m, n)
<1>1. \A n \in Things(C) : Total(C, n) \in Int /\ Position(n) \in Nat
  BY PairType
<1>2. \A n \in Things(C) : ~before(n, n)
  BY <1>1 DEF Earlier
<1>3. \A l, m, n \in Things(C) : before(l, m) /\ before(m, n) => before(l, n)
  BY <1>1 DEF Earlier
<1>4. \A m, n \in Things(C) : m # n => before(m, n) \/ before(n, m)
  <2>. SUFFICES ASSUME NEW m \in Things(C), NEW n \in Things(C), m # n
                PROVE  before(m, n) \/ before(n, m)
    OBVIOUS
  <2>1. Position(m) # Position(n)
    BY PairType, PositionIsPlace
  <2>. QED
    BY <1>1, <2>1 DEF Earlier
<1>. DEFINE R == ReportOrder(C, top)
<1>5. \A m, n \in Things(C) : <<PairOf(C, m), PairOf(C, n)>> \in R <=> before(m, n)
  BY OrderOfPairs
<1>. HIDE DEF before, R
<1>6. \A p \in PairsOf(C) : <<p, p>> \notin R
  BY <1>2, <1>5 DEF PairsOf
<1>7. \A p, q, r \in PairsOf(C) : <<p, q>> \in R /\ <<q, r>> \in R => <<p, r>> \in R
  BY <1>3, <1>5 DEF PairsOf
<1>8. \A p, q \in PairsOf(C) : p # q => <<p, q>> \in R \/ <<q, p>> \in R
  BY <1>4, <1>5 DEF PairsOf
<1>. QED
  BY <1>6, <1>7, <1>8 DEF StrictOrder, R

(* A report is the beginning of the sorted things.                         *)
LEMMA ReportRanks ==
    ASSUME Stored, NEW C \in SUBSET Silos, NEW top \in BOOLEAN, NEW count \in Nat,
           NEW entries, entries = [n \in Things(C) |-> Total(C, n)]
    PROVE  RanksByTotal(KarmaReport(entries, top, count), C, top, count)
<1>. DEFINE pairs == PairsOf(C)
            R == ReportOrder(C, top)
            sorted == IF top THEN SortTop(pairs) ELSE SortWorst(pairs)
            report == KarmaReport(entries, top, count)
<1>1. ConvertToPairs(entries) = pairs
  BY DEF ConvertToPairs, PairsOf, PairOf
<1>2. /\ IsFiniteSet(pairs) /\ Cardinality(pairs) = Cardinality(Things(C))
      /\ Cardinality(Things(C)) \in Nat
  BY PairsCounted DEF PairsOf
<1>3. StrictOrder(R, pairs)
  BY OrderIsStrict
<1>4. sorted \in SetToSeqs(pairs) /\ Sorted(sorted, R)
  <2>1. \E seq \in SetToSeqs(pairs) : Sorted(seq, R)
    BY <1>2, <1>3, SortedExists
  <2>2. \A seq \in SetToSeqs(pairs) : \A i \in DOMAIN seq : seq[i] \in pairs
    BY DEF SetToSeqs
  <2>. HIDE DEF pairs
  <2>3. ASSUME top, NEW seq \in SetToSeqs(pairs)
        PROVE  Sorted(seq, R) <=> \A i, j \in DOMAIN seq : i < j => Less(seq[j], seq[i])
    BY <2>2, <2>3 DEF Sorted, ReportOrder, pairs
  <2>4. ASSUME ~top, NEW seq \in SetToSeqs(pairs)
        PROVE  Sorted(seq, R) <=> \A i, j \in DOMAIN seq : i < j => Less(seq[i], seq[j])
    BY <2>2, <2>4 DEF Sorted, ReportOrder, pairs
  <2>. HIDE DEF R
  <2>5. CASE top
    BY <2>1, <2>3, <2>5 DEF SortTop
  <2>6. CASE ~top
    BY <2>1, <2>4, <2>6 DEF SortWorst
  <2>. QED
    BY <2>5, <2>6
<1>5. /\ sorted \in Seq(pairs) /\ Len(sorted) = Cardinality(pairs)
      /\ \A i \in 1..Len(sorted) : /\ sorted[i] \in pairs
                                   /\ Cardinality(SetLessThan(sorted[i], R, pairs)) = i - 1
  <2>. HIDE DEF sorted, R, pairs
  <2>. QED
    BY <1>2, <1>3, <1>4, SortedRanks
<1>6. report = SubSeq(sorted, 1, IF Len(sorted) < count THEN Len(sorted) ELSE count)
  BY <1>1 DEF KarmaReport, GetRankedList
<1>. HIDE DEF sorted, R, report, pairs
<1>7. /\ Len(report) = IF Len(sorted) < count THEN Len(sorted) ELSE count
      /\ DOMAIN report = 1..Len(report)
      /\ \A i \in 1..Len(report) : i \in 1..Len(sorted) /\ report[i] = sorted[i]
  BY <1>2, <1>5, <1>6
<1>8. Len(report) = Min({count, Cardinality(Things(C))})
  <2>. DEFINE n == Cardinality(Things(C))
  <2>1. Len(report) = IF n < count THEN n ELSE count
    BY <1>2, <1>5, <1>7
  <2>. HIDE DEF n
  <2>2. Len(report) \in {count, n} /\ \A x \in {count, n} : Len(report) <= x
    BY <1>2, <2>1 DEF n
  <2>3. \A y \in {count, n} : (\A x \in {count, n} : y <= x) => y = Len(report)
    BY <1>2, <2>1 DEF n
  <2>. QED
    BY <2>2, <2>3 DEF Min, n
<1>9. ASSUME NEW i \in DOMAIN report
      PROVE  /\ report[i].key \in Things(C) /\ report[i].value = Total(C, report[i].key)
             /\ Cardinality({n \in Things(C) : Earlier(C, top, n, report[i].key)}) = i - 1
  <2>1. /\ report[i] \in pairs
        /\ Cardinality(SetLessThan(report[i], R, pairs)) = i - 1
    BY <1>5, <1>7
  <2>2. PICK m \in Things(C) : report[i] = PairOf(C, m)
    BY <2>1 DEF pairs, PairsOf
  <2>3. report[i].key = m /\ report[i].value = Total(C, m)
    BY <2>2 DEF PairOf
  <2>. DEFINE S == {n \in Things(C) : Earlier(C, top, n, m)}
  <2>4. SetLessThan(report[i], R, pairs) = {PairOf(C, n) : n \in S}
    <3>1. \A n \in Things(C) : <<PairOf(C, n), PairOf(C, m)>> \in R <=> n \in S
      BY OrderOfPairs DEF R
    <3>. HIDE DEF S
    <3>2. \A n \in S : n \in Things(C)
      BY DEF S
    <3>. QED
      BY <2>2, <3>1, <3>2 DEF SetLessThan, pairs, PairsOf
  <2>5. Cardinality({PairOf(C, n) : n \in S}) = Cardinality(S)
    <3>1. S \in SUBSET Things(C)
      OBVIOUS
    <3>. HIDE DEF S
    <3>. QED
      BY <3>1, PairsCounted
  <2>. QED
    BY <2>1, <2>3, <2>4, <2>5
<1>. QED
  BY <1>8, <1>9 DEF RanksByTotal, Things, Earlier, report

(* "top" and "worst" rank a channel's things, "global top" and "global     *)
(* worst" those of all channels with their karma added up (karma.go:304),  *)
(* whatever is being stored meanwhile, for any channels, things and number *)
(* of them that is asked for.                                              *)
THEOREM KarmaIsRanked ==
    ASSUME Summable PROVE Spec => []ReportsRankByTotal
<1>1. Cardinality(Names) \in Nat
  BY NamesAreFinite, FS_CardinalityType
<1>2. KarmaTypeOK => ReportsRankByTotal
  <2>. SUFFICES ASSUME KarmaTypeOK, NEW top \in BOOLEAN,
                       NEW count \in 0..(Cardinality(Names) + 1)
                PROVE  /\ RanksByTotal(KarmaReport(ScanGlobalKarma, top, count),
                                       Silos, top, count)
                       /\ \A s \in Silos :
                            RanksByTotal(KarmaReport(ScanChannelKarma(s), top, count),
                                         {s}, top, count)
    BY DEF ReportsRankByTotal
  <2>1. Stored /\ count \in Nat
    BY <1>1 DEF KarmaTypeOK, StorageTypeOK, Stored
  <2>2. RanksByTotal(KarmaReport(ScanGlobalKarma, top, count), Silos, top, count)
    BY <2>1, GlobalKarma, ReportRanks
  <2>3. ASSUME NEW s \in Silos
        PROVE  RanksByTotal(KarmaReport(ScanChannelKarma(s), top, count), {s}, top, count)
    BY <2>1, ChannelKarma, ReportRanks
  <2>. QED
    BY <2>2, <2>3
<1>. QED
  BY <1>2, KarmaTypeCorrect, PTL
=============================================================================
