---------------------------- MODULE MCTriggerer ----------------------------
(* Small instances of Triggerer for TLC.  The silo of all channels is the  *)
(* empty sequence; one letter of a trigger's name is the delimiter.        *)
EXTENDS Triggerer

MCLetters == {"C", "S", "E", "ship", "Uacute"}
MCNoSilo == <<>>
MCChannels == {<<"C">>}
MCSilos == {<<>>, <<"C">>}
MCKnownNames == {<<"S", "ship">>, <<"E", "ship">>}
MCNames == MCKnownNames \cup {<<"S", "Uacute", "ship">>}

(* Neither workers nor values are told apart by anything but equality.    *)
MCSymmetry == Permutations(Workers) \cup Permutations(Values \ {noString})
=============================================================================
