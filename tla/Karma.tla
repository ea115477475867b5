-------------------------------- MODULE Karma --------------------------------
(***************************************************************************)
(* The karma plugin (plugins/karma.go) on its storage.  Every worker       *)
(* executes the action of one message at a time: recordKarma reads,        *)
(* changes and puts the value of each "thing++" of the message in turn,    *)
(* clearChannelKarma deletes the entries it found in the channel's silo.   *)
(***************************************************************************)
EXTENDS KarmaRanking

CONSTANTS
    Messages,     \* messages: sequences of matches
    Author,       \* a match of this thing is about the message's author
    Topics,       \* the channels of the messages a worker is given
    MaxMessages   \* bound: messages heard

(* A match gives the author or some named thing points, up or down.        *)
Matches == UNION {{m[i] : i \in DOMAIN m} : m \in Messages}

ASSUME ValuesAssumption == Values \subseteq Int
ASSUME MessagesAssumption ==
    /\ \A m \in Messages : m \in Seq(Matches)
    /\ \A match \in Matches : match.by \in Int /\ match.thing \in Names \cup {Author}
ASSUME TopicsAssumption == Topics \in [Workers -> SUBSET Silos]
ASSUME MaxMessagesAssumption == MaxMessages \in Nat

VARIABLES
    work,         \* the action every worker is executing
    heard,        \* counts the messages, for the bound
    credit        \* history: the karma stored since the reset, the restart or
                  \* the end of a race in the channel

karmaVars == <<work, heard, credit>>
vars == <<storageVars, karmaVars>>

Idle == [kind |-> "idle"]

Works == [kind : {"record"}, silo : Silos, left : Seq(Matches)]
    \cup [kind : {"reset"}, silo : Silos, left : Seq(Names)]

Init ==
    /\ StorageInit
    /\ work = [w \in Workers |-> Idle]
    /\ heard = 0
    /\ credit = [k \in Keys |-> 0]

Hear(w) ==
    /\ up
    /\ work[w] = Idle
    /\ heard < MaxMessages
    /\ heard' = heard + 1
    /\ UNCHANGED <<storageVars, credit>>

HearRecord(w) ==
    /\ Hear(w)
    /\ \E s \in Topics[w], m \in Messages :
           work' = [work EXCEPT ![w] = [kind |-> "record", silo |-> s, left |-> m]]

(* ScanSilo copies the silo in memory; a map is ranged over in any order.  *)
HearReset(w) ==
    /\ Hear(w)
    /\ \E s \in Topics[w] : \E names \in SetToSeqs(Present(s, memory)) :
           work' = [work EXCEPT ![w] = [kind |-> "reset", silo |-> s, left |-> names]]

(* The match in turn gives the message's author karma.                     *)
ForSelf(w) ==
    /\ work[w].kind = "record"
    /\ work[w].left # <<>>
    /\ Head(work[w].left).thing = Author

(* Writing to a channel whose writes overlapped: what is stored now is     *)
(* what is counted from.                                                   *)
CountAnew(s) ==
    credit' = IF s \in raced
              THEN [k \in Keys |-> IF k[1] = s THEN Points(memory[k]) ELSE credit[k]]
              ELSE credit

(* MUTANT of Record: reads the datastore, past the memory.                 *)
RecordFromDatastore(w) ==
    /\ up
    /\ work[w].kind = "record"
    /\ work[w].left # <<>>
    /\ ~ForSelf(w)
    /\ LET match == Head(work[w].left)
           k == <<work[w].silo, match.thing>>
       IN  Write(w, k, {Points(persistent[k]) + match.by})
    /\ CountAnew(work[w].silo)
    /\ UNCHANGED <<work, heard>>

(* GetSiloString, and the put of what it returned plus the increment.      *)
Record(w) ==
    /\ up
    /\ work[w].kind = "record"
    /\ work[w].left # <<>>
    /\ ~ForSelf(w)
    /\ LET match == Head(work[w].left)
           k == <<work[w].silo, match.thing>>
       IN  Write(w, k, {Points(memory[k]) + match.by})
    /\ CountAnew(work[w].silo)
    /\ UNCHANGED <<work, heard>>

Reset(w) ==
    /\ up
    /\ work[w].kind = "reset"
    /\ work[w].left # <<>>
    /\ Write(w, <<work[w].silo, Head(work[w].left)>>, {})
    /\ CountAnew(work[w].silo)
    /\ UNCHANGED <<work, heard>>

(* The call returned: the next match or entry is in turn.  A put's error   *)
(* ends recordKarma, a delete's error does not end clearChannelKarma.      *)
Continue(w) ==
    /\ Returned(w)
    /\ call' = [call EXCEPT ![w] = NoCall]
    /\ work' = [work EXCEPT ![w] =
           IF work[w].kind = "record" /\ call[w].at = "failed" THEN Idle
           ELSE [work[w] EXCEPT !.left = Tail(@)]]
    /\ credit' = IF call[w].at = "failed" THEN credit
                 ELSE [credit EXCEPT ![call[w].key] =
                          IF work[w].kind = "reset" THEN 0
                          ELSE @ + Head(work[w].left).by]
    /\ UNCHANGED <<persistent, memoryVars, connected, up, crashes, doubt, raced, heard>>

(* The action answers: nothing is left to do, or the author asks for karma. *)
Answer(w) ==
    /\ up
    /\ work[w] # Idle
    /\ call[w] = NoCall
    /\ work[w].left = <<>> \/ ForSelf(w)
    /\ work' = [work EXCEPT ![w] = Idle]
    /\ UNCHANGED <<storageVars, heard, credit>>

AllStop == work' = [w \in Workers |-> Idle] /\ UNCHANGED <<heard, credit>>

Panics == Panic /\ AllStop
Crashes == Crash /\ AllStop

Restarts ==
    /\ Restart
    /\ credit' = [k \in Keys |-> Points(memory'[k])]
    /\ UNCHANGED <<work, heard>>

Step(w) ==
    \/ Record(w) \/ Reset(w) \/ Continue(w) \/ Answer(w)
    \/ Attempts(w) /\ UNCHANGED karmaVars

Next ==
    \/ \E w \in Workers : HearRecord(w) \/ HearReset(w) \/ Step(w)
    \/ Panics
    \/ Crashes
    \/ Restarts

Spec == Init /\ [][Next]_vars

(* The goroutines are scheduled, and a call of the datastore's client      *)
(* returns; that the process is started again is not assumed.              *)
FairSpec ==
    /\ Spec
    /\ \A w \in Workers : WF_vars(Step(w))
    /\ WF_vars(Panics)

-----------------------------------------------------------------------------
(* The variables of a plugin and its storage have their types.             *)
KarmaTypeOK ==
    /\ StorageTypeOK
    /\ work \in [Workers -> {Idle} \cup Works]
    /\ heard \in 0..MaxMessages
    /\ credit \in [Keys -> Int]

(* The karma of a thing is the sum of what was stored for it since the     *)
(* last reset or restart: no increment is lost or counted twice, whatever  *)
(* the retries and failures of the puts (karma.go:178-220).  Excepted are  *)
(* channels in which two messages were at work at once, until the next one *)
(* that is alone: from there on it adds up again.                          *)
KarmaAddsUp ==
    Quiet => \A k \in Keys : k[1] \notin raced => Points(memory[k]) = credit[k]

(* The action of every message ends, with an answer or because the process *)
(* died: the attempts at a failing put or delete are not endless.          *)
EveryActionEnds == \A w \in Workers : work[w] # Idle ~> work[w] = Idle
=============================================================================
