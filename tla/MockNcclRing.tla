----------------------------- MODULE MockNcclRing -----------------------------
(***************************************************************************)
(* The flow graphs that SimCCL generates for the ring algorithms and for   *)
(* all-to-all (MockNcclGroup.cc), without PXN.                             *)
(*                                                                         *)
(* A definition that stands right before the one whose name its own name   *)
(* extends is that definition with a plausible fault.                      *)
(***************************************************************************)
EXTENDS Integers, FiniteSets

CONSTANTS
  Ranks,        \* the group, in the order of its rings
  RingChannels  \* the rings: per channel, per rank the next one

N == Cardinality(Ranks)

\* A flow is identified by its channel, its step round the ring and its source
\* (the program counts them up: g_flow_id).  A flow of all-to-all has its
\* destination for the step.
FlowId(c, k, r) == [channel |-> c, step |-> k, rank |-> r]

SingleFlow(src, dest, prev, parents, children, c, chunk) ==
  [src |-> src, dest |-> dest, prev |-> prev, parent_flow_id |-> parents,
   child_flow_id |-> children, channel_id |-> c, chunk_id |-> chunk]

NextRank(c, r) == RingChannels[c][r]
PrevRank(c, r) == CHOOSE p \in Ranks : RingChannels[c][p] = r

\* genringchannels strings the ranks of all nodes one after the other, in an order
\* of each channel, and closes the ring.
AreRings ==
  /\ IsFiniteSet(Ranks) /\ IsFiniteSet(DOMAIN RingChannels) /\ DOMAIN RingChannels # {}
  /\ \A c \in DOMAIN RingChannels :
       \E order \in [0 .. N - 1 -> Ranks] :
         /\ \A r \in Ranks : \E i \in 0 .. N - 1 : order[i] = r
         /\ \A i, j \in 0 .. N - 1 : order[i] = order[j] => i = j
         /\ \A i \in 0 .. N - 1 :
              NextRank(c, order[i]) = order[IF i = N - 1 THEN 0 ELSE i + 1]

\* Each rank passes on, in step k, what the rank before it sent in step k - 1.
RingFlows(steps) ==
  [f \in [channel : DOMAIN RingChannels, step : 0 .. steps - 1, rank : Ranks] |->
     LET c == f.channel
         k == f.step
         r == f.rank
     IN  SingleFlow(r, NextRank(c, r), {PrevRank(c, r)},
                    IF k = 0 THEN {} ELSE {FlowId(c, k - 1, PrevRank(c, r))},
                    IF k = steps - 1 THEN {} ELSE {FlowId(c, k + 1, NextRank(c, r))},
                    c, k)]

\* genAllReduceRingFlowModels: a step to start, N - 1 to reduce and scatter,
\* N - 2 to gather.
AllReduceFlowsGather == RingFlows(N - 2)
AllReduceFlows == RingFlows(1 + (N - 1) + (N - 2))

\* genReduceScatterFlowModels, genAllGatherFlowModels: a step to start, N - 2 more.
ReduceScatterFlows == RingFlows(1 + (N - 2))
AllGatherFlows == RingFlows(1 + (N - 2))

\* genAlltoAllFlowModels: every rank to every other, all in chunk 0 of channel 0.
AlltoAllFlows ==
  [f \in {FlowId(0, dest, r) : dest \in Ranks, r \in Ranks}
           \ {FlowId(0, r, r) : r \in Ranks} |->
     SingleFlow(f.rank, f.step, Ranks \ {f.rank}, {}, {}, 0, 0)]
===============================================================================
