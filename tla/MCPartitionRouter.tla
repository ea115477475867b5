------------------------- MODULE MCPartitionRouter -------------------------
(* Small instances of PartitionRouter for TLC: what a message says does    *)
(* not matter to routing, so there is one content.                         *)
EXTENDS PartitionRouter

MCContents == {"text"}

(* Neighbouring timestamps fall into different partitions.                 *)
MCHash == [m \in MessageIds |-> m]
=============================================================================
