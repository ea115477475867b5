------------------------- MODULE OrderedProcessing -------------------------
(***************************************************************************)
(* What slackscot promises about the order in which message events are     *)
(* handled: the events of one lane are handled one at a time and in the    *)
(* order they were received, those of different lanes concurrently.  With  *)
(* one lane per original message this is the guarantee of routing.go       *)
(* ("all message and its updates are processed in order"); with one lane   *)
(* per partition it is the stronger fact the implementation provides.      *)
(***************************************************************************)
EXTENDS MessageEvents

CONSTANT Lane  \* the lane of an original message id

VARIABLES
    received,  \* the events received, in order
    active,    \* the events being handled
    done       \* the events completely handled

orderVars == <<received, active, done>>

LaneOf(i) == Lane[OriginalMessageID(received, i)]

OrderTypeOK ==
    /\ received \in Seq(Events)
    /\ Len(received) <= MaxEvents
    /\ active \subseteq 1..Len(received)
    /\ done \subseteq 1..Len(received)

OrderInit ==
    /\ received = <<>>
    /\ active = {}
    /\ done = {}

Receive(e) ==
    /\ Len(received) < MaxEvents
    /\ e \in Deliverable(received)
    /\ received' = Append(received, e)
    /\ UNCHANGED <<active, done>>

(* Handling of i starts: it has not started before, and what came earlier  *)
(* on its lane is completely handled.                                      *)
Ready(i) ==
    /\ i \in 1..Len(received)
    /\ i \notin active \cup done
    /\ \A j \in 1..(i - 1) : LaneOf(j) = LaneOf(i) => j \in done

Begin(i) ==
    /\ Ready(i)
    /\ active' = active \cup {i}
    /\ UNCHANGED <<received, done>>

Finish(i) ==
    /\ i \in active
    /\ active' = active \ {i}
    /\ done' = done \cup {i}
    /\ UNCHANGED received

OrderNext ==
    \/ \E e \in Events : Receive(e)
    \/ \E i \in EventIds : Begin(i) \/ Finish(i)

OrderSpec == OrderInit /\ [][OrderNext]_orderVars
=============================================================================
