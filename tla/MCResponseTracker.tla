------------------------- MODULE MCResponseTracker -------------------------
(* Small instances of ResponseTracker for TLC. *)
EXTENDS ResponseTracker

(* Every combination of answering actions. *)
MCContents == SUBSET Actions

(* No answer is ephemeral; and action 1 answers in private what action 2   *)
(* answers too.                                                            *)
MCNoneEphemeral == [c \in Contents |-> {}]
MCSomeEphemeral == [c \in Contents |-> IF 2 \in c THEN {1} ELSE {}]

(* One partition; and two, of which the first has the first message and    *)
(* its edits, and the other what comes later: a deletion of the first, too. *)
MCOneLane == [m \in MessageIds |-> 0]
MCTwoLanes == [m \in MessageIds |-> IF m <= 1 THEN 0 ELSE 1]
=============================================================================
