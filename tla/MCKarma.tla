------------------------------ MODULE MCKarma ------------------------------
(* Small instances of Karma for TLC. *)
EXTENDS Karma

MCValues == -8..8
MCNameOrder == <<"@ann", "@bob">>
Plus(n, d) == [thing |-> n, by |-> d]
MCMessages ==
    {<<Plus("@ann", 1), Plus("@bob", -2)>>, <<Plus("@bob", 1), Plus("@ann", 1)>>,
     <<Plus("@bob", 1), Plus("@me", 1)>>}
MCSmallMessages == {<<Plus("@ann", 1)>>, <<Plus("@ann", -2)>>}
MCTopics == [w \in Workers |-> 1..w]
MCAnyChannel == [w \in Workers |-> Silos]
=============================================================================
