--------------------------- MODULE MCNcclFlowModel ----------------------------
(***************************************************************************)
(* Instances of NcclFlowModel: the graphs of a small group of ranks, with  *)
(* the ring of the second channel the other way round.                     *)
(***************************************************************************)
EXTENDS NcclFlowModel

Up(n) == [r \in 0 .. n - 1 |-> (r + 1) % n]
Down(n) == [r \in 0 .. n - 1 |-> (r - 1) % n]

TwoRanks == 0 .. 1
ThreeRanks == 0 .. 2
TwoRings == <<Up(2), Down(2)>>
OneRing == <<Up(3)>>

Ring2 == INSTANCE MockNcclRing WITH Ranks <- TwoRanks, RingChannels <- TwoRings
Ring3 == INSTANCE MockNcclRing WITH Ranks <- ThreeRanks, RingChannels <- OneRing

TwoRankAllReduce == {Ring2!AllReduceFlows}
ThreeRankGraphs == {Ring3!AllReduceFlows, Ring3!AlltoAllFlows}

\* The rings are rings: what the theorems about the generated graphs start from.
ASSUME RingsAssumption == Ring2!AreRings /\ Ring3!AreRings
===============================================================================
