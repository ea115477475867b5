---------------------------- MODULE MCSlackscot ----------------------------
(* Small instances of Slackscot for TLC. *)
EXTENDS Slackscot

MCContents == SUBSET Actions
MCNoneEphemeral == [c \in Contents |-> {}]
MCHash == [m \in MessageIds |-> m]
=============================================================================
