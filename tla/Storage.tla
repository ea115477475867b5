------------------------------- MODULE Storage -------------------------------
(***************************************************************************)
(* The storage of a plugin's state: an InMemoryDB (store/inmemorydb),      *)
(* which answers every read from memory and writes through, over a         *)
(* DatastoreDB (store/datastoredb), which reconnects and tries once more   *)
(* when a call fails.  The workers are the message processing goroutines,  *)
(* which call the storage concurrently and without a lock.                 *)
(*                                                                         *)
(* A put and a delete differ in the entry they write only: {v} for a value *)
(* and {} for none.  The process may die at any moment and be started      *)
(* again, the remote datastore keeps what it has.                          *)
(***************************************************************************)
EXTENDS Integers, Sequences

CONSTANTS
    Workers,      \* the goroutines calling the storage
    Silos,        \* channels, for the karma plugin
    Values,       \* the values stored
    NameOrder,    \* the names, in the order of strings
    Faults,       \* what may go wrong with the remote datastore
    MaxCrashes    \* bound: the process dies at most so often by itself

FaultKinds == {"reject", "lose", "unacknowledged", "connect"}

ASSUME FaultsAssumption == Faults \subseteq FaultKinds
ASSUME CrashesAssumption == MaxCrashes \in Nat

Names == {NameOrder[i] : i \in DOMAIN NameOrder}
ASSUME NamesAssumption == NameOrder \in Seq(Names)

Keys == Silos \X Names
Entries == {{}} \cup {{v} : v \in Values}
Present(s, content) == {n \in Names : content[<<s, n>>] # {}}

maxAttemptCount == 2

VARIABLES
    persistent,   \* the entries of the remote datastore
    memory,       \* imdb.data; of no meaning while the process is down
    silos,        \* the silos that imdb.data has a map for
    connected,    \* the datastore client is not nil
    up,           \* the process runs
    call,         \* the put or delete every worker is executing
    crashes,      \* counts the crashes, for the bound
    doubt,        \* history: the writes attempted and not acknowledged alone
    raced         \* history: the silos with writes that overlapped, until a
                  \* write that begins alone

memoryVars == <<memory, silos>>
storageVars == <<persistent, memoryVars, connected, up, call, crashes, doubt, raced>>

NoCall == [at |-> "idle"]
Calls == [at : {"calling", "reconnecting", "storing", "making", "stored", "failed"},
          key : Keys, entry : Entries, attempt : 1..maxAttemptCount]

(* New loads the memory from the datastore, which has nothing yet.         *)
StorageInit ==
    /\ persistent = [k \in Keys |-> {}]
    /\ memory = persistent /\ silos = {}
    /\ connected = TRUE
    /\ up = TRUE
    /\ call = [w \in Workers |-> NoCall]
    /\ crashes = 0
    /\ doubt = [k \in Keys |-> {}] /\ raced = {}

(* Who is writing to a silo.                                               *)
Writing == [s \in Silos |-> {w \in Workers : call[w] # NoCall /\ call[w].key[1] = s}]

(* A worker calls PutSiloString or DeleteSiloString.                       *)
Write(w, k, e) ==
    /\ call[w] = NoCall
    /\ call' = [call EXCEPT
           ![w] = [at |-> "calling", key |-> k, entry |-> e, attempt |-> 1]]
    /\ raced' = IF Writing[k[1]] = {} THEN raced \ {k[1]} ELSE raced \cup {k[1]}
    /\ UNCHANGED <<persistent, memoryVars, connected, up, crashes, doubt>>

Calling(w) == up /\ call[w].at = "calling" /\ connected

Attempted(k, e) == doubt' = [doubt EXCEPT ![k] = @ \cup {e}]

(* The datastore executes the write and says so.                           *)
Accepted(w) ==
    /\ Calling(w)
    /\ persistent' = [persistent EXCEPT ![call[w].key] = call[w].entry]
    /\ call' = [call EXCEPT ![w].at = "storing"]
    /\ Attempted(call[w].key, call[w].entry)
    /\ UNCHANGED <<memoryVars, connected, up, crashes, raced>>

(* An error which shouldRetry tells is not worth a second attempt.         *)
Rejected(w) ==
    /\ "reject" \in Faults
    /\ Calling(w)
    /\ call' = [call EXCEPT ![w].at = "failed"]
    /\ UNCHANGED <<persistent, memoryVars, connected, up, crashes, doubt, raced>>

(* Any other error: the request or its answer got lost.                    *)
Errs(w) ==
    /\ \/ /\ "lose" \in Faults
          /\ UNCHANGED <<persistent, doubt>>
       \/ /\ "unacknowledged" \in Faults
          /\ persistent' = [persistent EXCEPT ![call[w].key] = call[w].entry]
          /\ Attempted(call[w].key, call[w].entry)
    /\ UNCHANGED <<memoryVars, connected, up, crashes, raced>>

(* MUTANT of Retry: no bound on the attempts.                              *)
RetryAgain(w) ==
    /\ Calling(w)
    /\ Errs(w)
    /\ call' = [call EXCEPT ![w].at = "reconnecting", ![w].attempt = @ + 1]

Retry(w) ==
    /\ Calling(w)
    /\ call[w].attempt < maxAttemptCount
    /\ Errs(w)
    /\ call' = [call EXCEPT ![w].at = "reconnecting", ![w].attempt = @ + 1]

(* connect replaces the client, by nil when it fails; its error is ignored. *)
Reconnect(w) ==
    /\ up /\ call[w].at = "reconnecting"
    /\ connected' \in {TRUE} \cup (IF "connect" \in Faults THEN {FALSE} ELSE {})
    /\ call' = [call EXCEPT ![w].at = "calling"]
    /\ UNCHANGED <<persistent, memoryVars, up, crashes, doubt, raced>>

(* MUTANT of GiveUp: the write is tried anew until it succeeds.            *)
StartOver(w) ==
    /\ Calling(w)
    /\ call[w].attempt = maxAttemptCount
    /\ Errs(w)
    /\ call' = [call EXCEPT ![w].attempt = 1]

GiveUp(w) ==
    /\ Calling(w)
    /\ call[w].attempt = maxAttemptCount
    /\ Errs(w)
    /\ call' = [call EXCEPT ![w].at = "failed"]

(* The write of k is acknowledged, and beyond doubt if it was alone.       *)
Acknowledged(k) == doubt' = IF k[1] \in raced THEN doubt ELSE [doubt EXCEPT ![k] = {}]

(* MUTANT of Remember: the error of the write is not looked at.            *)
RememberRegardless(w) ==
    /\ up
    /\ call[w].at \in {"storing", "failed"}
    /\ call[w].entry = {} \/ call[w].key[1] \in silos
    /\ memory' = [memory EXCEPT ![call[w].key] = call[w].entry]
    /\ call' = [call EXCEPT ![w].at = "stored"]
    /\ Acknowledged(call[w].key)
    /\ UNCHANGED <<persistent, silos, connected, up, crashes, raced>>

(* MUTANT of Remember: deletes leave the memory alone.                     *)
RememberPutsOnly(w) ==
    /\ up
    /\ call[w].at = "storing" /\ (call[w].entry = {} \/ call[w].key[1] \in silos)
    /\ memory' = [memory EXCEPT ![call[w].key] =
           IF call[w].entry = {} THEN @ ELSE call[w].entry]
    /\ call' = [call EXCEPT ![w].at = "stored"]
    /\ Acknowledged(call[w].key)
    /\ UNCHANGED <<persistent, silos, connected, up, crashes, raced>>

(* The write succeeded, and InMemoryDB now updates its map.  For a put it  *)
(* looks first whether the silo has a map, and makes it if not, without a  *)
(* lock: what another put has stored in one made meanwhile is gone.        *)
FindNoSilo(w) ==
    /\ up
    /\ call[w].at = "storing" /\ call[w].entry # {} /\ call[w].key[1] \notin silos
    /\ call' = [call EXCEPT ![w].at = "making"]
    /\ UNCHANGED <<persistent, memoryVars, connected, up, crashes, doubt, raced>>

MakeSilo(w) ==
    /\ up
    /\ call[w].at = "making"
    /\ memory' = [k \in Keys |-> IF k[1] = call[w].key[1] THEN {} ELSE memory[k]]
    /\ silos' = silos \cup {call[w].key[1]}
    /\ call' = [call EXCEPT ![w].at = "storing"]
    /\ UNCHANGED <<persistent, connected, up, crashes, doubt, raced>>

Remember(w) ==
    /\ up
    /\ call[w].at = "storing" /\ (call[w].entry = {} \/ call[w].key[1] \in silos)
    /\ memory' = [memory EXCEPT ![call[w].key] = call[w].entry]
    /\ call' = [call EXCEPT ![w].at = "stored"]
    /\ Acknowledged(call[w].key)
    /\ UNCHANGED <<persistent, silos, connected, up, crashes, raced>>

(* A worker goes on after its call returned.                               *)
Returned(w) == up /\ call[w].at \in {"stored", "failed"}

Die ==
    /\ up' = FALSE
    /\ call' = [w \in Workers |-> NoCall]
    /\ UNCHANGED <<persistent, memoryVars, connected, doubt, raced>>

(* A call on the nil client panics, which ends the process.                *)
Panic ==
    /\ up
    /\ ~connected
    /\ \E w \in Workers : call[w].at = "calling"
    /\ Die
    /\ UNCHANGED crashes

Crash ==
    /\ up
    /\ crashes < MaxCrashes
    /\ crashes' = crashes + 1
    /\ Die

-----------------------------------------------------------------------------
(* The next process connects and loads the memory with a GlobalScan.       *)
Restart ==
    /\ ~up
    /\ up' = TRUE
    /\ connected' = TRUE
    /\ memory' = persistent /\ silos' = {s \in Silos : Present(s, persistent) # {}}
    /\ doubt' = [k \in Keys |-> {}] /\ raced' = {}
    /\ UNCHANGED <<persistent, call, crashes>>

Attempts(w) ==
    \/ Accepted(w) \/ Rejected(w) \/ Retry(w) \/ Reconnect(w) \/ GiveUp(w)
    \/ FindNoSilo(w) \/ MakeSilo(w) \/ Remember(w)

-----------------------------------------------------------------------------
StorageTypeOK ==
    /\ persistent \in [Keys -> Entries]
    /\ memory \in [Keys -> Entries]
    /\ silos \subseteq Silos
    /\ connected \in BOOLEAN
    /\ up \in BOOLEAN
    /\ call \in [Workers -> {NoCall} \cup Calls]
    /\ crashes \in 0..MaxCrashes
    /\ doubt \in [Keys -> SUBSET Entries]
    /\ raced \subseteq Silos

Quiet == up /\ \A w \in Workers : call[w] = NoCall

(* InMemoryDB "keeps a copy of everything in memory while writing through  *)
(* puts and deletes" (inmemorydb.go:8-10): when nobody is in the middle of *)
(* a call, the memory has what the datastore has.                          *)
MemoryIsCopy == Quiet => memory = persistent

(* What of it the code keeps: the memory has what the datastore has, of    *)
(* every key but those left in doubt by calls which failed and may have    *)
(* taken effect nevertheless, or which overlapped with others of the silo; *)
(* and a key is not in doubt any more once written by a call that was      *)
(* alone, whatever raced or failed before it.                              *)
MemoryIsCopyButForDoubt ==
    Quiet => \A k \in Keys : doubt[k] = {} => memory[k] = persistent[k]

(* InMemoryDB over DatastoreDB keeps the promise of SiloStore: through     *)
(* retries, lost answers, panics and reloads, an acknowledged write is     *)
(* what is read until the next one, and no restart goes back on it, unless *)
(* it overlapped with another write of the silo; and what is read of one   *)
(* that did is a value written to that key, or none.                       *)
Abstract == INSTANCE SiloStore
    WITH Writers <- Workers, value <- memory, writing <- Writing, overlapping <- raced
KeepsWhatItAcknowledged == Abstract!StoreSpec
=============================================================================
