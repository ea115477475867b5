---------------------------- MODULE FingerQuoter ---------------------------
(***************************************************************************)
(* The decisions of the finger quoter plugin (plugins/fingerquoter.go):    *)
(* whether it quotes a word of a message, and which.  Both are drawn from  *)
(* a generator seeded with the message's timestamp, which is given here as *)
(* the numbers it draws.                                                   *)
(***************************************************************************)
EXTENDS Integers, Sequences, SequencesExt

CONSTANTS
    Width,      \* the bits of a number drawn: 31 in the code
    LongWords   \* those of at least 5 characters

ASSUME WidthAssumption == Width \in Nat

(* A text is its runs of word characters, with whether white space or an   *)
(* end of the text is right before, and right after.                       *)
Runs(words) == [word : words, opens : BOOLEAN, closes : BOOLEAN]

Words(runs) == [k \in 1..Len(runs) |-> runs[k].word]

(* candidateWordsStarting and candidateWordsEnding: either finds a run as  *)
(* a whole, and looks at one side of it.                                   *)
StartingWords(text) ==
    Words(SelectSeq(text, LAMBDA r : r.opens /\ r.word \in LongWords))
EndingWords(text) ==
    Words(SelectSeq(text, LAMBDA r : r.closes /\ r.word \in LongWords))

(* findCandidateWords intersects the two by their words, so that a word    *)
(* counts whose two sides are free in different places.                    *)
Candidates(text) ==
    SelectSeq(EndingWords(text), LAMBDA w : w \in ToSet(StartingWords(text)))

(* isChannelEnabled: no list, or one of an empty name, is for all channels *)
ChannelEnabled(channel, channels, ignored) ==
    /\ channels \in {<<>>, <<"">>} \/ channel \in ToSet(channels)
    /\ channel \notin ToSet(ignored)

(* The conversion of an int to an int32, whose sign takes one more bit.    *)
Int32(k) == ((k + 2^Width) % 2^(Width + 1)) - 2^Width

(* rand.Int31n takes the first number that is not among the last ones,     *)
(* which would make some remainders more likely than others.               *)
Accepted(draws, n) == {i \in DOMAIN draws : draws[i] <= 2^Width - 1 - (2^Width % n)}

Int31n(draws, n) == draws[Min(Accepted(draws, n))] % n

(* rand.Int31n panics for any other bound.                                 *)
Drawable(frequency) == Int32(frequency) > 0

(* trigger                                                                 *)
Triggers(draws, frequency) == Int31n(draws, Int32(frequency)) = 0

(* fingerQuoteMsg makes a generator of the same seed, which draws the same *)
(* numbers again.  No candidates, no answer.                               *)
Quote(draws, text) ==
    LET words == Candidates(text)
    IN  IF words = <<>> THEN <<>> ELSE <<words[Int31n(draws, Len(words)) + 1]>>
=============================================================================
