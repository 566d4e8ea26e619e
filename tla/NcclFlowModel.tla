---------------------------- MODULE NcclFlowModel -----------------------------
(***************************************************************************)
(* A collective operation as a graph of flows (NcclFlowModel.cc): each     *)
(* rank holds the flows it sends and receives, a flow goes when the flows  *)
(* it waits for have arrived, and the rank leaves the collective when all  *)
(* of its flows are sent and received.                                     *)
(*                                                                         *)
(* Every rank runs the collective Rounds times: the program keeps the flow *)
(* graph of a layer's operation and uses it, with its flow ids and tags,   *)
(* whenever that operation is issued again.  The network is the front end  *)
(* as FlowMatch has it, for one message to a tag.                          *)
(*                                                                         *)
(* A handler is cut where it leaves a critical section.  With one thread   *)
(* (-t 1, the default) nothing else runs before it ends; with more, the    *)
(* callback of a send runs in the logical process of its rank, the         *)
(* callback of a receive in that of the rank that sent.  Each critical     *)
(* section is taken to exclude the others.                                 *)
(*                                                                         *)
(* A definition that stands right before the one whose name its own name   *)
(* extends is that definition with a plausible fault.                      *)
(***************************************************************************)
EXTENDS Integers, FiniteSets

CONSTANTS
  Ranks,
  Graphs,   \* the flow graphs to start from: functions from flow ids to SingleFlows
  Rounds,   \* bound: how often the collective is run, see Limit
  Threads   \* whether the simulator runs handlers in parallel (NS3_MTP, -t > 1)

\* Every flow is a parent of its children and of no one else; a tag between two
\* ranks belongs to one flow; the flows of chunk 0 are those without a parent, so
\* no flow waits in peer_wating_tasks and init_recv_ready posts nothing.
WellFormed(g) ==
  /\ IsFiniteSet(DOMAIN g)
  /\ \A f \in DOMAIN g :
       /\ g[f].src \in Ranks /\ g[f].dest \in Ranks /\ g[f].prev \subseteq Ranks
       /\ g[f].parent_flow_id \subseteq DOMAIN g
       /\ g[f].child_flow_id = {k \in DOMAIN g : f \in g[k].parent_flow_id}
       /\ \A k \in g[f].child_flow_id :
            g[k].src = g[f].dest /\ g[k].channel_id = g[f].channel_id
       /\ g[f].parent_flow_id = {} <=> g[f].chunk_id = 0
  /\ \A f, k \in DOMAIN g :
       /\ g[f].src = g[k].src /\ g[f].dest = g[k].dest
       /\ g[f].channel_id = g[k].channel_id /\ g[f].chunk_id = g[k].chunk_id
       => f = k
ASSUME GraphsAssumption == \A g \in Graphs : WellFormed(g)
ASSUME BoundsAssumption == Rounds \in Nat \ {0} /\ Threads \in BOOLEAN

\* The flows a flow waits for, directly or not, and itself: the least set that
\* has the parents of each of its flows.
Past(g, f) ==
  {k \in DOMAIN g : \A S \in SUBSET DOMAIN g :
     f \in S /\ (\A i \in S : g[i].parent_flow_id \subseteq S) => k \in S}

\* Whether ready(f) asks for the tag of k.
AsksFor(g, f, k) ==
  /\ g[k].dest = g[f].src /\ g[k].src \in g[f].prev
  /\ g[k].channel_id = g[f].channel_id /\ g[k].chunk_id = g[f].chunk_id

\* What the generators' graphs have beyond that. A receive is posted by one
\* flow, or free_packets tells whether it was served: no other flow counts there.
PostedOnce(g) ==
  \A k \in DOMAIN g :
    \/ \A f, h \in DOMAIN g : AsksFor(g, f, k) /\ AsksFor(g, h, k) => f = h
    \/ \A h \in DOMAIN g :
         g[h].dest = g[k].dest /\ g[h].src = g[k].src /\ g[h].channel_id = g[k].channel_id
         => h = k

\* What a rank receives depends on all ranks.
Gathers(g) ==
  \A r, q \in Ranks : r # q =>
    \E h \in DOMAIN g : g[h].dest = r /\ \E k \in Past(g, h) : g[k].src = q

\* A flow that goes again waits for its destination to be in the new round, or
\* its source did not end the old one before the destination had received it.
ComesBack(g) ==
  \A f \in DOMAIN g :
    \/ \E k \in Past(g, f) : g[k].src = g[f].dest
    \/ \E h \in DOMAIN g : /\ g[h].dest = g[f].src
                           /\ \E k \in Past(g, h) : f \in g[k].parent_flow_id

NoneWaits(g) == \A f \in DOMAIN g : g[f].parent_flow_id = {}

VARIABLES
  Flows,    \* the flow graph of the operation, fixed from the start
  started,  \* per rank: how often StreamInit ran
  exits,    \* per rank: how often exit() ran
  streams,  \* per rank and channel: _stream_count
  free,     \* per rank, channel and previous rank: free_packets
  indegree, \* per flow: indegree_mapping at its source
  send,     \* per flow: how far its source is with it
  expected, \* the flows whose destination has a receive in expeRecvHash
  recv,     \* per flow: the receive handler of its destination
  net       \* per flow: queue pairs not completed, and messages in recvHash

vars == <<Flows, started, exits, streams, free, indegree, send, expected, recv, net>>

\* waiting: for its parents; bundled: inserted, its PacketBundle is on the bus;
\* posting: ready() has posted the receives; sending: sent; iterating: its send
\* handler has counted it.
SendStates == {"waiting", "bundled", "posting", "sending", "iterating", "done"}

\* received: the handler was called; iterating, children: it has counted the
\* packet.
RecvStates == {"none", "received", "iterating", "children"}

FlowIds == DOMAIN Flows
Src(f) == Flows[f].src
Dest(f) == Flows[f].dest
Channels == {Flows[f].channel_id : f \in FlowIds}

\* A rank leaves all-to-all, where no flow waits for another, when its last
\* packets are on the wire: were it run again at once, two messages of a flow
\* would be under way, which this network does not have.  It is run once.
Limit == IF NoneWaits(Flows) THEN 1 ELSE Rounds

OutFlows(r, c) == {f \in FlowIds : Src(f) = r /\ Flows[f].channel_id = c}
InFlows(r, c, p) == {f \in FlowIds : Dest(f) = r /\ Src(f) = p /\ Flows[f].channel_id = c}

-------------------------------------------------------------------------------
\* The counters of the constructor.
StreamsOf(r) == [c \in Channels |-> Cardinality(OutFlows(r, c))]
FreeOf(r) == [c \in Channels |-> [p \in Ranks |-> Cardinality(InFlows(r, c, p))]]
IndegreeOf(f) == Cardinality(Flows[f].parent_flow_id)

Init ==
  /\ Flows \in Graphs
  /\ started = [r \in Ranks |-> 0]
  /\ exits = [r \in Ranks |-> 0]
  /\ streams = [r \in Ranks |-> StreamsOf(r)]
  /\ free = [r \in Ranks |-> FreeOf(r)]
  /\ indegree = [f \in FlowIds |-> IndegreeOf(f)]
  /\ send = [f \in FlowIds |-> "waiting"]
  /\ expected = {}
  /\ recv = [f \in FlowIds |-> "none"]
  /\ net = [f \in FlowIds |-> [live |-> 0, arrived |-> 0]]

SendHandler(f) == send[f] \in {"posting", "iterating"}
RecvHandler(f) == recv[f] # "none"

\* A thread is free to start a handler.
ThreadFree == Threads \/ \A f \in FlowIds : ~SendHandler(f) /\ ~RecvHandler(f)

\* init_indegree_mapping, for the flows of one rank.
ResetIndegreeKept(r) == indegree
ResetIndegree(r) ==
  [f \in FlowIds |-> IF Src(f) = r THEN IndegreeOf(f) ELSE indegree[f]]

\* The object of the round is constructed and run(StreamInit): the flows that wait for nobody go.
StreamInit(r) ==
  /\ ThreadFree
  /\ started[r] = exits[r] /\ started[r] < Limit
  /\ started' = [started EXCEPT ![r] = @ + 1]
  /\ streams' = [streams EXCEPT ![r] = StreamsOf(r)]
  /\ free' = [free EXCEPT ![r] = FreeOf(r)]
  /\ indegree' = ResetIndegree(r)
  /\ send' = [f \in FlowIds |->
                IF Src(f) # r THEN send[f]
                ELSE IF Flows[f].parent_flow_id = {} THEN "bundled" ELSE "waiting"]
  /\ UNCHANGED <<Flows, exits, expected, recv, net>>

\* The flows whose tag ready(f) asks for: of the previous ranks, of its chunk.
Previous(f) == {g \in FlowIds : AsksFor(Flows, f, g)}

\* Those it calls sim_recv for: from ranks with a packet still to come.
AwaitedAlways(f) == Previous(f)
Awaited(f) == {g \in Previous(f) : free[Src(f)][Flows[f].channel_id][Src(g)] > 0}

\* run(General), ready(): sim_recv for the previous ranks.  Where the message is
\* there already its handler runs before the call returns; where a receive is
\* registered already, nothing happens.
Ready(f) ==
  /\ ThreadFree
  /\ send[f] = "bundled" /\ streams[Src(f)][Flows[f].channel_id] # 0
  /\ send' = [send EXCEPT ![f] = "posting"]
  /\ LET here == {g \in Awaited(f) : net[g].arrived > 0}
     IN  /\ recv' = [g \in FlowIds |-> IF g \in here THEN "received" ELSE recv[g]]
         /\ expected' = expected \cup (Awaited(f) \ here)
         /\ net' = [g \in FlowIds |-> IF g \in here THEN [net[g] EXCEPT !.arrived = @ - 1]
                                      ELSE net[g]]
  /\ UNCHANGED <<Flows, started, exits, streams, free, indegree>>

\* The rest of ready(), when the handlers it called have returned: sim_send.
Send(f) ==
  /\ send[f] = "posting" /\ \A g \in Previous(f) : ~RecvHandler(g)
  /\ send' = [send EXCEPT ![f] = "sending"]
  /\ net' = [net EXCEPT ![f].live = @ + 1]
  /\ UNCHANGED <<Flows, started, exits, streams, free, indegree, expected, recv>>

\* qp_finish of the flow's queue pair, which runs where its send_finish did and
\* after it: the receiver's handler starts, or the message waits.
Arrive(f) ==
  /\ ThreadFree
  /\ net[f].live > 0 /\ send[f] \notin {"sending", "iterating"}
  /\ \/ /\ f \in expected
        /\ expected' = expected \ {f}
        /\ recv' = [recv EXCEPT ![f] = "received"]
        /\ net' = [net EXCEPT ![f].live = @ - 1]
     \/ /\ f \notin expected
        /\ net' = [net EXCEPT ![f].live = @ - 1, ![f].arrived = @ + 1]
        /\ UNCHANGED <<Flows, expected, recv>>
  /\ UNCHANGED <<Flows, started, exits, streams, free, indegree, send>>

AllSent(r) == \A c \in Channels : streams[r][c] = 0
AllFreed(r) == \A c \in Channels, p \in Ranks : free[r][c][p] = 0

\* run(PacketReceived), first critical section.  Afterwards it is either the
\* last thing this rank waits for, or its children go.
PacketReceivedLate(f) ==
  /\ recv[f] = "received"
  /\ LET d == Dest(f)
     IN  /\ recv' = [recv EXCEPT ![f] = "children"]
         /\ free' = [free EXCEPT ![d][Flows[f].channel_id][Src(f)] = @ - 1]
  /\ UNCHANGED <<Flows, started, exits, streams, indegree, send, expected, net>>
PacketReceived(f) ==
  /\ recv[f] = "received"
  /\ LET d == Dest(f)
     IN  /\ recv' = [recv EXCEPT ![f] = IF AllSent(d) THEN "iterating" ELSE "children"]
         /\ free' = [free EXCEPT ![d][Flows[f].channel_id][Src(f)] = @ - 1]
  /\ UNCHANGED <<Flows, started, exits, streams, indegree, send, expected, net>>

\* The flows that go when g has arrived: those that waited for it alone.
Released(g) == {f \in Flows[g].child_flow_id : indegree[f] = 1}

\* run(PacketReceived), the loop over next_flow_list; insert_packets.
ReleaseChildren(g) ==
  /\ recv[g] = "children"
  /\ recv' = [recv EXCEPT ![g] = "none"]
  /\ indegree' = [f \in FlowIds |-> IF f \in Flows[g].child_flow_id THEN indegree[f] - 1
                                    ELSE indegree[f]]
  /\ send' = [f \in FlowIds |-> IF f \in Released(g) THEN "bundled" ELSE send[f]]
  /\ UNCHANGED <<Flows, started, exits, streams, free, expected, net>>

\* reduce(), process_stream_count(): one flow of the channel less to send.
ReducedAll(r, c) == 0
Reduced(r, c) == IF streams[r][c] > 0 THEN streams[r][c] - 1 ELSE 0

\* run(PacketSentFinshed)
PacketSentFinished(f) ==
  /\ ThreadFree
  /\ send[f] = "sending"
  /\ LET r == Src(f)
         c == Flows[f].channel_id
     IN  streams' = [streams EXCEPT ![r][c] = Reduced(r, c)]
  /\ send' = [send EXCEPT ![f] = "iterating"]
  /\ UNCHANGED <<Flows, started, exits, free, indegree, expected, recv, net>>

\* iteratable(): exit() when nothing is left to send or to receive.
FinishedSending(r) == AllSent(r)
Finished(r) == AllSent(r) /\ AllFreed(r)

Iterate(r) == exits' = IF Finished(r) THEN [exits EXCEPT ![r] = @ + 1] ELSE exits

IterateSent(f) ==
  /\ send[f] = "iterating"
  /\ send' = [send EXCEPT ![f] = "done"]
  /\ Iterate(Src(f))
  /\ UNCHANGED <<Flows, started, streams, free, indegree, expected, recv, net>>

IterateReceived(f) ==
  /\ recv[f] = "iterating"
  /\ recv' = [recv EXCEPT ![f] = "none"]
  /\ Iterate(Dest(f))
  /\ UNCHANGED <<Flows, started, streams, free, indegree, send, expected, net>>

FlowStep(f) ==
  \/ Ready(f) \/ Send(f) \/ Arrive(f)
  \/ PacketReceived(f) \/ ReleaseChildren(f) \/ IterateReceived(f)
  \/ PacketSentFinished(f) \/ IterateSent(f)

Next ==
  \/ \E r \in Ranks : StreamInit(r)
  \/ \E f \in FlowIds : FlowStep(f)

Spec == Init /\ [][Next]_vars

\* Every rank issues the operation, the bus and the network deliver, and the
\* simulator runs every event it has.
FairSpec ==
  /\ Spec
  /\ \A r \in Ranks : WF_vars(StreamInit(r))
  /\ \A f \in UNION {DOMAIN g : g \in Graphs} : WF_vars(f \in FlowIds /\ FlowStep(f))
-------------------------------------------------------------------------------
Running(r) == started[r] > exits[r]

TypeOK ==
  /\ Flows \in Graphs
  /\ started \in [Ranks -> 0 .. Rounds]
  /\ exits \in [Ranks -> Nat]
  /\ streams \in [Ranks -> [Channels -> Nat]]
  /\ free \in [Ranks -> [Channels -> [Ranks -> Nat]]]
  /\ indegree \in [FlowIds -> Nat]
  /\ send \in [FlowIds -> SendStates]
  /\ expected \subseteq FlowIds
  /\ recv \in [FlowIds -> RecvStates]
  /\ net \in [FlowIds -> [live : Nat, arrived : Nat]]

\* How often the source of a flow has sent it, and how often its destination's
\* handler has counted it.
Sent(f) ==
  IF started[Src(f)] = 0 THEN 0
  ELSE started[Src(f)] - (IF send[f] \in {"sending", "iterating", "done"} THEN 0 ELSE 1)
Counted(f) ==
  Sent(f) - net[f].live - net[f].arrived - (IF recv[f] = "received" THEN 1 ELSE 0)

\* The counters that decide when a rank leaves are those of the network: what a
\* rank still has to send or receive in its round is what the senders have not
\* sent, the network not delivered and its handlers not counted, over all the
\* rounds so far.  (No packet is counted twice or in the wrong round.)
Conservation ==
  \A r \in Ranks, c \in Channels :
    /\ streams[r][c] =
         Cardinality({f \in OutFlows(r, c) : send[f] \notin {"iterating", "done"}})
    /\ \A p \in Ranks : started[r] > 0 =>
         free[r][c][p] = Cardinality({f \in InFlows(r, c, p) : Counted(f) < started[r]})
    /\ \A f \in FlowIds : Dest(f) = r => Counted(f) \in {started[r] - 1, started[r]}

\* A rank does not send a flow again while the queue pair that carried it last
\* is alive: the tables of entry.h that are keyed by the flow id would add the
\* two messages up and hand both to one receive.
NoOverlap == \A f \in FlowIds : net[f].live <= 1

\* When a rank has left, none of its receives is registered any more: the next
\* message on that tag would be handed to a stream that was deleted.
NoStaleReceive == \A f \in expected : Running(Dest(f))

\* A rank leaves a round once: exit() calls proceed_to_next_vnet_baseline, which
\* deletes the stream.
ExitOnce == \A r \in Ranks : exits[r] <= started[r]

Promise == INSTANCE AbstractCollective WITH entered <- started, left <- exits

\* Each rank leaves each round once, and not before every rank has entered it
\* (its result depends on the data of all).
LeavesTogether == Promise!Spec

\* Every rank gets through every round.
AllLeave == <>[](\A r \in Ranks : exits[r] = Limit)
===============================================================================
