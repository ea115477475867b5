--------------------------- MODULE MCConversation --------------------------
(* A small instance of Conversation for TLC.  Numbers drawn have 3 bits,   *)
(* so that frequencies from 8 on are beyond an int32.                      *)
EXTENDS Conversation

CONSTANTS alice, bob

Run(w, o, c) == [word |-> w, opens |-> o, closes |-> c]

Says(help, users, text) == [help |-> help, users |-> users, text |-> text]

(* Alice asks for help, gives points to both; one word that is quoted, and *)
(* two, of which one has its sides free in two places.                     *)
MCContents ==
    {Says(TRUE, <<alice>>, <<>>), Says(FALSE, <<alice, bob>>, <<Run("thanks", TRUE, TRUE)>>),
     Says(FALSE, <<>>, <<Run("hello", TRUE, TRUE), Run("you", TRUE, TRUE)>>),
     Says(FALSE, <<>>, <<Run("hello", TRUE, FALSE), Run("hello", FALSE, TRUE),
                         Run("there", TRUE, TRUE)>>)}
MCUsers == {alice, bob}
MCLongWords == {"hello", "there", "thanks"}
MCLane == [m \in MessageIds |-> m % 2]
MCChannelOf == [m \in MessageIds |-> IF m = 2 THEN "D" ELSE "C"]

(* 16 becomes 0 as an int32, and 19 becomes 3.                             *)
MCConfigurations ==
    {[frequency |-> 2, channels |-> <<"">>, ignored |-> <<"D">>],
     [frequency |-> 19, channels |-> <<>>, ignored |-> <<>>],
     [frequency |-> 16, channels |-> <<"D">>, ignored |-> <<>>]}

(* For a frequency of 3 the numbers 6 and 7 are drawn again.               *)
MCDraws == [m \in MessageIds |-> CASE m = 0 -> <<6, 3>> [] m = 1 -> <<4, 2>> [] OTHER -> <<3, 1>>]
=============================================================================
