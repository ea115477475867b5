--------------------------- MODULE MessageEvents ---------------------------
(***************************************************************************)
(* The message events a Slack RTM connection delivers to slackscot.  An    *)
(* event is known by its position in the order of reception, which is also *)
(* its own timestamp: on one channel Slack's timestamps are unique and     *)
(* grow.  A SlackMessageID is such a timestamp; 0 is the timestamp of a    *)
(* message posted before the bot connected.                                *)
(***************************************************************************)
EXTENDS Naturals, Sequences

CONSTANTS
    MaxEvents,  \* bound on the events of a behaviour
    Contents    \* what a message may say, as far as the bot can tell

ASSUME MaxEventsAssumption == MaxEvents \in Nat

EventIds == 1..MaxEvents
MessageIds == 0..MaxEvents

(* "other" stands for what the workers drop: acknowledgements (reply_to),  *)
(* events whose type is not "message", and message_replied.                *)
Kinds == {"new", "changed", "deleted", "other"}

(* about: the message the event creates, or the one it edits               *)
(* (SubMessage.Timestamp) or removes (DeletedTimestamp).                   *)
(* tooOld: an edit whose age is over maxAgeHandledMessages or unreadable.  *)
Events == [kind : Kinds, about : MessageIds, content : Contents, tooOld : BOOLEAN]

(* getOriginalMessageID: only an edit carries a SubMessage, so an event    *)
(* that deletes a message is known by its own timestamp.                   *)
OriginalMessageID(evs, i) ==
    IF evs[i].kind = "changed" THEN evs[i].about ELSE i

(* What Slack can send after the events evs: a message is edited or        *)
(* deleted after it was posted and never after it was deleted.             *)
CanFollow(evs, e) ==
    /\ e.tooOld => e.kind = "changed"
    /\ IF e.kind \in {"new", "other"}
       THEN e.about = Len(evs) + 1
       ELSE /\ e.about <= Len(evs)
            /\ e.about # 0 => evs[e.about].kind = "new"
            /\ \A i \in 1..Len(evs) : ~(evs[i].kind = "deleted" /\ evs[i].about = e.about)

(* The content of an event that has none: deletions and dropped events are *)
(* given one fixed content, so as not to tell apart what nobody reads.     *)
NoContent == CHOOSE c \in Contents : TRUE

Deliverable(evs) ==
    {e \in Events : /\ CanFollow(evs, e)
                    /\ e.kind \in {"deleted", "other"} \/ e.tooOld => e.content = NoContent}
=============================================================================
