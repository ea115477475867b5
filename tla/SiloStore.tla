------------------------------ MODULE SiloStore ------------------------------
(***************************************************************************)
(* What a plugin is promised by the storage it writes its state to         *)
(* (store.GlobalSiloStringStorer), across failed calls and restarts: a     *)
(* read returns the last acknowledged write; a write which was never       *)
(* acknowledged stays in doubt, and only a restart may bring it to light,  *)
(* until another write of the same key is acknowledged.  Of the writes of  *)
(* a silo that overlap one may undo another, and all stay in doubt, until  *)
(* the key is written by a write that nothing overlaps.                    *)
(***************************************************************************)
CONSTANTS
    Writers,  \* those who write
    Silos,
    Keys,     \* pairs of a silo and a name
    Entries   \* {} for no value, {v} for the value v

VARIABLES
    value,        \* what reads return
    doubt,        \* the unacknowledged writes of every key
    writing,      \* who is writing to every silo
    overlapping   \* the silos with writes that overlapped

storeVars == <<value, doubt, writing, overlapping>>

NobodyWrites == [s \in Silos |-> {}]

StoreInit ==
    /\ value = [k \in Keys |-> {}]
    /\ doubt = [k \in Keys |-> {}]
    /\ writing = NobodyWrites
    /\ overlapping = {}

Begin(w, s) ==
    /\ \A t \in Silos : w \notin writing[t]
    /\ writing' = [writing EXCEPT ![s] = @ \cup {w}]
    /\ overlapping' = IF writing[s] = {} THEN overlapping \ {s} ELSE overlapping \cup {s}
    /\ UNCHANGED <<value, doubt>>

Attempt(k) ==
    /\ writing[k[1]] # {}
    /\ \E e \in Entries : doubt' = [doubt EXCEPT ![k] = @ \cup {e}]
    /\ UNCHANGED <<value, writing, overlapping>>

Acknowledge(k) ==
    /\ writing[k[1]] # {}
    /\ \E e \in doubt[k] : value' = [value EXCEPT ![k] = e]
    /\ doubt' = IF k[1] \in overlapping THEN doubt ELSE [doubt EXCEPT ![k] = {}]
    /\ UNCHANGED <<writing, overlapping>>

Undo(s) ==
    /\ s \in overlapping
    /\ value' = [k \in Keys |-> IF k[1] = s /\ doubt[k] # {} THEN {} ELSE value[k]]
    /\ UNCHANGED <<doubt, writing, overlapping>>

End(w, s) ==
    /\ w \in writing[s]
    /\ writing' = [writing EXCEPT ![s] = @ \ {w}]
    /\ UNCHANGED <<value, doubt, overlapping>>

Stop == writing' = NobodyWrites /\ UNCHANGED <<value, doubt, overlapping>>

Reload ==
    /\ writing = NobodyWrites
    /\ \A k \in Keys : value'[k] \in {value[k]} \cup doubt[k]
    /\ DOMAIN value' = Keys
    /\ doubt' = [k \in Keys |-> {}]
    /\ overlapping' = {}
    /\ UNCHANGED writing

StoreNext ==
    \/ \E w \in Writers, s \in Silos : Begin(w, s) \/ End(w, s)
    \/ \E k \in Keys : Attempt(k) \/ Acknowledge(k)
    \/ \E s \in Silos : Undo(s)
    \/ Stop
    \/ Reload

StoreSpec == StoreInit /\ [][StoreNext]_storeVars
=============================================================================
