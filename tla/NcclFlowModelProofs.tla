-------------------------- MODULE NcclFlowModelProofs --------------------------
(***************************************************************************)
(* What NcclFlowModel's run checks on three graphs holds for any number of *)
(* rounds and any graph of flows whose receives are posted once, which     *)
(* gathers from all ranks and in which every flow comes back, with one     *)
(* thread.  The flow graphs of MockNcclRing are such graphs.               *)
(***************************************************************************)
EXTENDS NcclFlowModel, SumTheorems

\* The simulator without NS3_MTP, the default.
OneThread == ~Threads

\* The flows a rank has still to send on a channel, and those it has still to
\* receive from a rank in its round.
Unsent(r, c) == {f \in OutFlows(r, c) : send[f] \notin {"iterating", "done"}}
Due(r, c, p) == {f \in InFlows(r, c, p) : Counted(f) < started[r]}

\* What a flow waits for: parents that have not come, or are not counted off.
WaitsFor(f) ==
  {g \in Flows[f].parent_flow_id : Counted(g) < started[Src(f)] \/ recv[g] = "children"}

\* g is asked for by f alone.
OnlyAskedBy(g, f) ==
  g \in Previous(f) /\ \A k \in FlowIds : g \in Previous(k) => k = f

-------------------------------------------------------------------------------
\* The inductive invariant.

\* One handler runs, except that ready() runs the receive handlers of messages
\* that are there already.
OneHandler ==
  \A f \in FlowIds : SendHandler(f) =>
    /\ \A k \in FlowIds : SendHandler(k) => f = k
    /\ \A g \in FlowIds : RecvHandler(g) =>
         send[f] = "posting" /\ g \in Previous(f) /\ recv[g] # "iterating"
OneReceive ==
  \A g, h \in FlowIds : RecvHandler(g) /\ RecvHandler(h) /\ g # h =>
    \E f \in FlowIds : send[f] = "posting"

\* A rank is in one round, or has ended it with nothing left to send or receive.
RoundOf(r) ==
  /\ exits[r] <= started[r] /\ started[r] <= exits[r] + 1
  /\ ~Running(r) /\ started[r] > 0 => AllSent(r) /\ AllFreed(r)

\* Handlers run for ranks that are in a round.
HandlersRun ==
  \A f \in FlowIds : /\ SendHandler(f) => Running(Src(f))
                     /\ RecvHandler(f) => Running(Dest(f))

\* A flow is inserted when its parents have come.
WaitingOf(f) ==
  /\ started[Src(f)] = 0 => send[f] = "waiting"
  /\ started[Src(f)] > 0 => /\ send[f] = "waiting" <=> indegree[f] # 0
                            /\ indegree[f] = Cardinality(WaitsFor(f))

\* A registered receive is for a message of the round of its rank, and so is one
\* whose handler runs.
ReceiveOf(g) ==
  /\ Counted(g) \in {started[Dest(g)] - 1, started[Dest(g)]} /\ Counted(g) >= 0
  /\ g \in expected => /\ Counted(g) = started[Dest(g)] - 1
                       /\ net[g].arrived = 0 /\ recv[g] = "none" /\ Running(Dest(g))
  /\ recv[g] = "received" => Counted(g) = started[Dest(g)] - 1
  /\ recv[g] \in {"children", "iterating"} => Counted(g) = started[Dest(g)]

\* A receive is not posted before the one flow that asks for it is ready.
PostedBy(g, f) ==
  OnlyAskedBy(g, f) /\ started[Src(f)] > 0 /\ send[f] \in {"waiting", "bundled"} =>
    Counted(g) = started[Src(f)] - 1 /\ g \notin expected /\ recv[g] = "none"

\* The counters of the ranks are those of the network.
CountersOf(r) ==
  \A c \in Channels :
    /\ streams[r][c] = Cardinality(Unsent(r, c))
    /\ \A p \in Ranks : started[r] > 0 => free[r][c][p] = Cardinality(Due(r, c, p))

Handlers == OneHandler /\ OneReceive /\ HandlersRun
Rounded == \A r \in Ranks : RoundOf(r) /\ CountersOf(r)
Waiting == \A f \in FlowIds : WaitingOf(f)
Receiving == \A g \in FlowIds : ReceiveOf(g)
Posting == \A f, g \in FlowIds : PostedBy(g, f)
IInv == TypeOK /\ Handlers /\ Rounded /\ Waiting /\ Receiving /\ Posting

-------------------------------------------------------------------------------
\* The graph, and what the counters tell.

\* What WellFormed says of the graph of the operation.
LEMMA GraphFacts ==
  ASSUME Flows \in Graphs
  PROVE  /\ IsFiniteSet(FlowIds)
         /\ \A f \in FlowIds :
              /\ Src(f) \in Ranks /\ Dest(f) \in Ranks /\ Flows[f].channel_id \in Channels
              /\ Flows[f].parent_flow_id \in SUBSET FlowIds
              /\ Flows[f].child_flow_id = {k \in FlowIds : f \in Flows[k].parent_flow_id}
              /\ \A p \in Flows[f].parent_flow_id : Dest(p) = Src(f)
<1>1. WellFormed(Flows)
  BY GraphsAssumption
<1>2. /\ IsFiniteSet(FlowIds)
      /\ \A f \in FlowIds :
           /\ Src(f) \in Ranks /\ Dest(f) \in Ranks
           /\ Flows[f].parent_flow_id \in SUBSET FlowIds
           /\ Flows[f].child_flow_id = {k \in FlowIds : f \in Flows[k].parent_flow_id}
           /\ \A k \in Flows[f].child_flow_id : Flows[k].src = Flows[f].dest
  BY <1>1 DEF WellFormed, FlowIds, Src, Dest
<1>3. \A f \in FlowIds : Flows[f].channel_id \in Channels
  BY DEF Channels
<1>4. ASSUME NEW f \in FlowIds, NEW p \in Flows[f].parent_flow_id PROVE Dest(p) = Src(f)
  <2>1. p \in FlowIds /\ f \in Flows[p].child_flow_id
    BY <1>2, <1>4
  <2> QED BY <1>2, <2>1 DEF Src, Dest
<1> QED BY <1>2, <1>3, <1>4

\* Sets of flows are finite.
LEMMA FlowSets ==
  ASSUME Flows \in Graphs, NEW S \in SUBSET FlowIds
  PROVE  /\ Cardinality(S) \in Nat
         /\ Cardinality(S) = 0 <=> S = {}
         /\ \A x \in S : Cardinality(S \ {x}) = Cardinality(S) - 1
<1>1. IsFiniteSet(S)
  BY GraphFacts, FS_Subset
<1> QED BY <1>1, FS_CardinalityType, FS_EmptySet, FS_RemoveElement

\* What is sent and counted are numbers.
LEMMA CountTypes ==
  ASSUME TypeOK, NEW f \in FlowIds
  PROVE  Sent(f) \in Nat /\ Counted(f) \in Int /\ Sent(f) \in {started[Src(f)] - 1, started[Src(f)]} \cup {0}
<1>1. started[Src(f)] \in Nat /\ net[f].live \in Nat /\ net[f].arrived \in Nat
  BY GraphFacts, BoundsAssumption DEF TypeOK
<1>2. Sent(f) \in Nat /\ Sent(f) \in {started[Src(f)] - 1, started[Src(f)]} \cup {0}
  BY <1>1 DEF Sent
<1> QED BY <1>1, <1>2 DEF Counted
\* A step leaves the graph, and what is defined by it, alone.
LEMMA GraphKept ==
  ASSUME Flows' = Flows
  PROVE  /\ FlowIds' = FlowIds /\ Channels' = Channels /\ Limit' = Limit
         /\ \A f : Src(f)' = Src(f) /\ Dest(f)' = Dest(f) /\ Previous(f)' = Previous(f)
         /\ \A f : IndegreeOf(f)' = IndegreeOf(f)
         /\ \A r, c : OutFlows(r, c)' = OutFlows(r, c)
         /\ \A r, c, p : InFlows(r, c, p)' = InFlows(r, c, p)
         /\ \A g, f : OnlyAskedBy(g, f)' = OnlyAskedBy(g, f)
<1>1. FlowIds' = FlowIds /\ Channels' = Channels /\ \A f : Src(f)' = Src(f) /\ Dest(f)' = Dest(f)
  BY DEF FlowIds, Channels, Src, Dest
<1>2. \A f : Previous(f)' = Previous(f)
  BY <1>1 DEF Previous, AsksFor
<1>3. \A f : IndegreeOf(f)' = IndegreeOf(f)
  BY DEF IndegreeOf
<1>4. Limit' = Limit
  BY DEF Limit, NoneWaits
<1>5. \A r, c : OutFlows(r, c)' = OutFlows(r, c)
  BY <1>1 DEF OutFlows
<1>6. \A r, c, p : InFlows(r, c, p)' = InFlows(r, c, p)
  BY <1>1 DEF InFlows
<1>7. \A g, f : OnlyAskedBy(g, f)' = OnlyAskedBy(g, f)
  BY <1>1, <1>2 DEF OnlyAskedBy
<1> QED BY <1>1, <1>2, <1>3, <1>4, <1>5, <1>6, <1>7

\* A rank with a flow to send has a stream count, one with a flow to receive has
\* free packets, and either is in a round once it was in one.
LEMMA Remaining ==
  ASSUME IInv, NEW f \in FlowIds
  PROVE  /\ send[f] \notin {"iterating", "done"} =>
              /\ streams[Src(f)][Flows[f].channel_id] > 0 /\ ~AllSent(Src(f))
              /\ started[Src(f)] > 0 => Running(Src(f))
         /\ started[Dest(f)] > 0 /\ Counted(f) < started[Dest(f)] =>
              /\ free[Dest(f)][Flows[f].channel_id][Src(f)] > 0 /\ ~AllFreed(Dest(f))
              /\ Running(Dest(f))
<1> DEFINE c == Flows[f].channel_id
<1>1. Flows \in Graphs
  BY DEF IInv, TypeOK
<1>2. Src(f) \in Ranks /\ Dest(f) \in Ranks /\ c \in Channels
  BY <1>1, GraphFacts
<1>3. ASSUME send[f] \notin {"iterating", "done"}
      PROVE  streams[Src(f)][c] > 0 /\ ~AllSent(Src(f))
  <2>1. f \in Unsent(Src(f), c)
    BY <1>3 DEF Unsent, OutFlows
  <2>2. Unsent(Src(f), c) \in SUBSET FlowIds
    BY DEF Unsent, OutFlows
  <2>3. Cardinality(Unsent(Src(f), c)) > 0
    BY <1>1, <2>1, <2>2, FlowSets
  <2>4. streams[Src(f)][c] > 0
    BY <1>2, <2>3 DEF IInv, Rounded, CountersOf
  <2> QED BY <1>2, <2>4 DEF AllSent
<1>4. ASSUME started[Dest(f)] > 0, Counted(f) < started[Dest(f)]
      PROVE  free[Dest(f)][c][Src(f)] > 0 /\ ~AllFreed(Dest(f))
  <2>1. f \in Due(Dest(f), c, Src(f))
    BY <1>4 DEF Due, InFlows
  <2>2. Due(Dest(f), c, Src(f)) \in SUBSET FlowIds
    BY DEF Due, InFlows
  <2>3. Cardinality(Due(Dest(f), c, Src(f))) > 0
    BY <1>1, <2>1, <2>2, FlowSets
  <2>4. free[Dest(f)][c][Src(f)] > 0
    BY <1>2, <1>4, <2>3 DEF IInv, Rounded, CountersOf
  <2> QED BY <1>2, <2>4 DEF AllFreed
<1>5. \A r \in Ranks : ~Running(r) /\ started[r] > 0 => AllSent(r) /\ AllFreed(r)
  BY DEF IInv, Rounded, RoundOf
<1> QED BY <1>2, <1>3, <1>4, <1>5

\* A rank without stream counts has sent all, one without free packets in a
\* round has received all.
LEMMA NothingLeft ==
  ASSUME IInv, NEW r \in Ranks, NEW f \in FlowIds
  PROVE  /\ AllSent(r) /\ Src(f) = r => send[f] \in {"iterating", "done"}
         /\ AllFreed(r) /\ Dest(f) = r /\ started[r] > 0 => Counted(f) = started[r]
<1>1. AllSent(r) /\ Src(f) = r => send[f] \in {"iterating", "done"}
  BY Remaining
<1>2. ASSUME AllFreed(r), Dest(f) = r, started[r] > 0 PROVE Counted(f) = started[r]
  <2>1. Counted(f) \in {started[r] - 1, started[r]} /\ started[r] \in Nat
    BY <1>2, BoundsAssumption DEF IInv, Receiving, ReceiveOf, TypeOK
  <2>2. ~(Counted(f) < started[r])
    BY <1>2, Remaining
  <2> QED BY <2>1, <2>2
<1> QED BY <1>1, <1>2

-------------------------------------------------------------------------------
\* What keeps the parts of the invariant.

\* A step that leaves a rank's counters and what they count alone.
LEMMA CountersKept ==
  ASSUME Flows' = Flows, NEW r \in Ranks, CountersOf(r),
         streams'[r] = streams[r], free'[r] = free[r], started'[r] = started[r],
         \A f \in FlowIds : Src(f) = r =>
           (send'[f] \in {"iterating", "done"} <=> send[f] \in {"iterating", "done"}),
         \A f \in FlowIds : Dest(f) = r => Counted(f)' = Counted(f)
  PROVE  CountersOf(r)'
<1>1. \A c : Unsent(r, c)' = Unsent(r, c)
  BY GraphKept DEF Unsent, OutFlows
<1>2. \A c, p : Due(r, c, p)' = Due(r, c, p)
  BY GraphKept DEF Due, InFlows
<1> QED BY <1>1, <1>2, GraphKept DEF CountersOf

\* A step that leaves a flow's count of parents and those parents alone.
LEMMA WaitingKept ==
  ASSUME Flows' = Flows, Flows \in Graphs, NEW f \in FlowIds, WaitingOf(f),
         started'[Src(f)] = started[Src(f)], indegree'[f] = indegree[f],
         send'[f] = "waiting" <=> send[f] = "waiting",
         \A g \in FlowIds : f \in Flows[g].child_flow_id =>
           Counted(g)' = Counted(g) /\ (recv'[g] = "children" <=> recv[g] = "children")
  PROVE  WaitingOf(f)'
<1>1. WaitsFor(f)' = WaitsFor(f)
  BY GraphKept, GraphFacts DEF WaitsFor
<1> QED BY <1>1, GraphKept DEF WaitingOf

\* A step that leaves a rank's round alone, and its counters when it is in none.
LEMMA RoundKept ==
  ASSUME Flows' = Flows, NEW r \in Ranks, RoundOf(r),
         started'[r] = started[r], exits'[r] = exits[r],
         Running(r) \/ (streams'[r] = streams[r] /\ free'[r] = free[r])
  PROVE  RoundOf(r)'
<1>1. Running(r)' <=> Running(r)
  BY DEF Running
<1>2. CASE Running(r)
  BY <1>1, <1>2 DEF RoundOf
<1>3. CASE streams'[r] = streams[r] /\ free'[r] = free[r]
  <2>1. (AllSent(r)' <=> AllSent(r)) /\ (AllFreed(r)' <=> AllFreed(r))
    BY <1>3, GraphKept DEF AllSent, AllFreed
  <2> QED BY <1>1, <2>1 DEF RoundOf
<1> QED BY <1>2, <1>3

\* Where no thread is taken, no handler runs.
LEMMA NoHandler ==
  ASSUME OneThread, ThreadFree, NEW f \in FlowIds
  PROVE  send[f] \notin {"posting", "iterating"} /\ recv[f] = "none"
BY DEF OneThread, ThreadFree, SendHandler, RecvHandler

-------------------------------------------------------------------------------
\* Every step keeps the invariant.

\* Nothing has happened: all flows are to be sent and received.
LEMMA InitInv == Init => IInv
<1> SUFFICES ASSUME Init PROVE IInv
  OBVIOUS
<1>1. Flows \in Graphs
  BY DEF Init
<1>2. \A r, c, p : OutFlows(r, c) \in SUBSET FlowIds /\ InFlows(r, c, p) \in SUBSET FlowIds
  BY DEF OutFlows, InFlows
<1>3. /\ streams \in [Ranks -> [Channels -> Nat]]
      /\ free \in [Ranks -> [Channels -> [Ranks -> Nat]]]
  BY <1>1, <1>2, FlowSets DEF Init, StreamsOf, FreeOf
<1>4. indegree \in [FlowIds -> Nat]
  BY <1>1, GraphFacts, FlowSets DEF Init, IndegreeOf
<1>5. /\ send \in [FlowIds -> SendStates] /\ recv \in [FlowIds -> RecvStates]
      /\ net \in [FlowIds -> [live : Nat, arrived : Nat]]
  BY DEF Init, SendStates, RecvStates
<1>6. TypeOK
  BY <1>1, <1>3, <1>4, <1>5, BoundsAssumption DEF Init, TypeOK
<1>7. \A f \in FlowIds : /\ send[f] = "waiting" /\ recv[f] = "none"
                         /\ net[f].live = 0 /\ net[f].arrived = 0
                         /\ started[Src(f)] = 0 /\ started[Dest(f)] = 0
  BY <1>1, GraphFacts DEF Init
<1>8. Handlers
  BY <1>7 DEF Handlers, OneHandler, OneReceive, HandlersRun, SendHandler, RecvHandler
<1>9. \A r \in Ranks : RoundOf(r)
  BY DEF RoundOf, Init
<1>10. \A r \in Ranks : CountersOf(r)
  <2>1. \A r, c : Unsent(r, c) = OutFlows(r, c)
    BY <1>7 DEF Unsent, OutFlows
  <2> QED BY <2>1 DEF CountersOf, Init, StreamsOf
<1>11. \A f \in FlowIds : Counted(f) = 0
  BY <1>7 DEF Counted, Sent
<1>12. Receiving
  BY <1>7, <1>11 DEF Receiving, ReceiveOf, Init
<1>13. Waiting
  BY <1>7 DEF Waiting, WaitingOf
<1>14. Posting
  BY <1>7 DEF Posting, PostedBy
<1> QED BY <1>6, <1>8, <1>9, <1>10, <1>12, <1>13, <1>14 DEF IInv, Rounded

\* The bound is a bound on the rounds.
LEMMA LimitType == Limit \in 1 .. Rounds
BY BoundsAssumption DEF Limit

\* A rank that is in no round has counted all its messages so far, none is
\* registered, and it sends nothing.
LEMMA Between ==
  ASSUME IInv, NEW r \in Ranks, ~Running(r), NEW f \in FlowIds
  PROVE  /\ Dest(f) = r => Counted(f) = started[r] /\ f \notin expected
         /\ Src(f) = r /\ started[r] = 0 => send[f] = "waiting"
         /\ Src(f) = r /\ started[r] > 0 => send[f] \in {"iterating", "done"}
<1>1. started[r] \in Nat
  BY BoundsAssumption DEF IInv, TypeOK
<1>2. started[r] > 0 => AllSent(r) /\ AllFreed(r)
  BY DEF IInv, Rounded, RoundOf
<1>3. Dest(f) = r => f \notin expected /\ Counted(f) >= 0 /\ Counted(f) \in {started[r] - 1, started[r]}
  BY DEF IInv, Receiving, ReceiveOf
<1>4. Dest(f) = r => Counted(f) = started[r]
  BY <1>1, <1>2, <1>3, NothingLeft
<1>5. Src(f) = r /\ started[r] > 0 => send[f] \in {"iterating", "done"}
  BY <1>2, NothingLeft
<1>6. Src(f) = r /\ started[r] = 0 => send[f] = "waiting"
  BY DEF IInv, Waiting, WaitingOf
<1> QED BY <1>3, <1>4, <1>5, <1>6

\* The rank has ended its last round: its counters start anew, its flows wait again.
LEMMA StreamInitInv ==
  ASSUME OneThread, IInv, NEW r \in Ranks, StreamInit(r)
  PROVE  IInv'
<1>1. /\ Flows' = Flows /\ Flows \in Graphs /\ exits' = exits /\ expected' = expected
      /\ recv' = recv /\ net' = net /\ started[r] = exits[r] /\ started[r] < Limit
      /\ started' = [started EXCEPT ![r] = @ + 1]
      /\ streams' = [streams EXCEPT ![r] = StreamsOf(r)]
      /\ free' = [free EXCEPT ![r] = FreeOf(r)]
      /\ indegree' = ResetIndegree(r)
      /\ send' = [f \in FlowIds |->
                    IF Src(f) # r THEN send[f]
                    ELSE IF Flows[f].parent_flow_id = {} THEN "bundled" ELSE "waiting"]
  BY DEF StreamInit, IInv, TypeOK
<1>2. TypeOK /\ started \in [Ranks -> 0 .. Rounds] /\ started[r] \in Nat
  BY BoundsAssumption DEF IInv, TypeOK
<1>3. /\ started'[r] = started[r] + 1
      /\ \A q \in Ranks : q # r => started'[q] = started[q]
  BY <1>1, <1>2
<1>4. ~Running(r) /\ Running(r)' /\ \A q \in Ranks : q # r => (Running(q)' <=> Running(q))
  BY <1>1, <1>2, <1>3 DEF Running, TypeOK
<1>5. \A f \in FlowIds : send[f] \notin {"posting", "iterating"} /\ recv[f] = "none"
  BY NoHandler DEF StreamInit
<1>6. \A f \in FlowIds :
        /\ Src(f) \in Ranks /\ Dest(f) \in Ranks
        /\ Src(f) # r => send'[f] = send[f] /\ indegree'[f] = indegree[f]
        /\ Src(f) = r => /\ send'[f] = IF Flows[f].parent_flow_id = {} THEN "bundled" ELSE "waiting"
                         /\ indegree'[f] = IndegreeOf(f)
  BY <1>1, GraphFacts DEF ResetIndegree
<1>7. \A f \in FlowIds : Sent(f)' = Sent(f)
  <2> SUFFICES ASSUME NEW f \in FlowIds PROVE Sent(f)' = Sent(f)
    OBVIOUS
  <2>1. CASE Src(f) = r
    <3>1. Sent(f)' = started[r]
      BY <1>1, <1>2, <1>3, <1>6, <2>1, GraphKept DEF Sent
    <3>2. Sent(f) = started[r]
      BY <1>2, <1>4, <1>5, <2>1, Between DEF Sent
    <3> QED BY <3>1, <3>2
  <2>2. CASE Src(f) # r
    BY <1>1, <1>3, <1>6, <2>2, GraphKept DEF Sent
  <2> QED BY <2>1, <2>2
<1>8. \A f \in FlowIds : Counted(f)' = Counted(f)
  BY <1>1, <1>7 DEF Counted
<1>9. \A f \in FlowIds : Dest(f) = r => Counted(f) = started[r] /\ f \notin expected
  BY <1>4, Between
<1>10. TypeOK'
  <2>1. \A c, p : OutFlows(r, c) \in SUBSET FlowIds /\ InFlows(r, c, p) \in SUBSET FlowIds
    BY DEF OutFlows, InFlows
  <2>2. /\ StreamsOf(r) \in [Channels -> Nat]
        /\ FreeOf(r) \in [Channels -> [Ranks -> Nat]]
    BY <1>1, <2>1, FlowSets DEF StreamsOf, FreeOf
  <2>3. \A f \in FlowIds : IndegreeOf(f) \in Nat
    BY <1>1, GraphFacts, FlowSets DEF IndegreeOf
  <2>4. indegree' \in [FlowIds -> Nat] /\ send' \in [FlowIds -> SendStates]
    BY <1>1, <1>2, <2>3 DEF ResetIndegree, TypeOK, SendStates
  <2>5. started' \in [Ranks -> 0 .. Rounds]
    BY <1>1, <1>2, LimitType, BoundsAssumption
  <2> QED BY <1>1, <1>2, <2>2, <2>4, <2>5, GraphKept DEF TypeOK
<1>11. Handlers'
  <2>1. \A f \in FlowIds : send'[f] \notin {"posting", "iterating"} /\ recv'[f] = "none"
    BY <1>1, <1>5, <1>6
  <2> QED BY <1>1, <2>1, GraphKept DEF Handlers, OneHandler, OneReceive, HandlersRun, SendHandler, RecvHandler
<1>12. Rounded'
  <2> SUFFICES ASSUME NEW q \in Ranks PROVE RoundOf(q)' /\ CountersOf(q)'
    BY DEF Rounded
  <2>1. RoundOf(q) /\ CountersOf(q)
    BY DEF IInv, Rounded
  <2>2. CASE q # r
    <3>1. streams'[q] = streams[q] /\ free'[q] = free[q] /\ started'[q] = started[q] /\ exits'[q] = exits[q]
      BY <1>1, <1>2, <1>3, <2>2 DEF TypeOK
    <3> QED BY <1>1, <1>6, <1>8, <2>1, <2>2, <3>1, CountersKept, RoundKept
  <2>3. CASE q = r
    <3>1. RoundOf(r)'
      BY <1>1, <1>2, <1>3, <1>4 DEF RoundOf, TypeOK
    <3>2. \A c : Unsent(r, c)' = OutFlows(r, c)
      BY <1>1, <1>6, GraphKept DEF Unsent, OutFlows
    <3>3. \A c, p : Due(r, c, p)' = InFlows(r, c, p)
      BY <1>1, <1>2, <1>3, <1>8, <1>9, GraphKept DEF Due, InFlows
    <3>4. streams'[r] = StreamsOf(r) /\ free'[r] = FreeOf(r)
      BY <1>1, <1>2 DEF TypeOK
    <3> QED BY <1>1, <2>3, <3>1, <3>2, <3>3, <3>4, GraphKept DEF CountersOf, StreamsOf, FreeOf
  <2> QED BY <2>2, <2>3
<1>13. Waiting'
  <2> SUFFICES ASSUME NEW f \in FlowIds PROVE WaitingOf(f)'
    BY <1>1, GraphKept DEF Waiting
  <2>1. CASE Src(f) # r
    <3>1. WaitingOf(f)
      BY DEF IInv, Waiting
    <3> QED BY <1>1, <1>3, <1>6, <1>8, <2>1, <3>1, WaitingKept
  <2>2. CASE Src(f) = r
    <3>1. \A g \in Flows[f].parent_flow_id : g \in FlowIds /\ Dest(g) = r
      BY <1>1, <2>2, GraphFacts
    <3>2. WaitsFor(f)' = Flows[f].parent_flow_id
      BY <1>1, <1>2, <1>3, <1>8, <1>9, <2>2, <3>1, GraphKept DEF WaitsFor
    <3>3. indegree'[f] = Cardinality(Flows[f].parent_flow_id)
      BY <1>6, <2>2 DEF IndegreeOf
    <3>4. indegree'[f] = 0 <=> Flows[f].parent_flow_id = {}
      BY <1>1, <3>3, GraphFacts, FlowSets
    <3> QED BY <1>1, <1>2, <1>3, <1>6, <2>2, <3>2, <3>3, <3>4, GraphKept DEF WaitingOf
  <2> QED BY <2>1, <2>2
<1>14. Receiving'
  <2> SUFFICES ASSUME NEW g \in FlowIds PROVE ReceiveOf(g)'
    BY <1>1, GraphKept DEF Receiving
  <2>1. ReceiveOf(g)
    BY DEF IInv, Receiving
  <2>2. CASE Dest(g) # r
    BY <1>1, <1>3, <1>4, <1>5, <1>6, <1>8, <2>1, <2>2, GraphKept DEF ReceiveOf
  <2>3. CASE Dest(g) = r
    BY <1>1, <1>2, <1>3, <1>5, <1>8, <1>9, <2>3, GraphKept DEF ReceiveOf
  <2> QED BY <2>2, <2>3
<1>15. Posting'
  <2> SUFFICES ASSUME NEW f \in FlowIds, NEW g \in FlowIds PROVE PostedBy(g, f)'
    BY <1>1, GraphKept DEF Posting
  <2>1. PostedBy(g, f)
    BY DEF IInv, Posting
  <2>2. CASE Src(f) # r
    BY <1>1, <1>3, <1>6, <1>8, <2>1, <2>2, GraphKept DEF PostedBy
  <2>3. CASE Src(f) = r
    <3>1. OnlyAskedBy(g, f) => Dest(g) = r
      BY <2>3 DEF OnlyAskedBy, Previous, AsksFor, Src, Dest
    <3> QED BY <1>1, <1>2, <1>3, <1>5, <1>8, <1>9, <2>3, <3>1, GraphKept DEF PostedBy
  <2> QED BY <2>2, <2>3
<1> QED BY <1>10, <1>11, <1>12, <1>13, <1>14, <1>15 DEF IInv

\* A flow that was inserted is of a round of its source.
LEMMA Inserted ==
  ASSUME IInv, NEW f \in FlowIds, send[f] \notin {"waiting", "iterating", "done"}
  PROVE  started[Src(f)] > 0 /\ Running(Src(f))
<1>1. started[Src(f)] \in Nat
  BY GraphFacts, BoundsAssumption DEF IInv, TypeOK
<1>2. started[Src(f)] > 0
  BY <1>1 DEF IInv, Waiting, WaitingOf
<1> QED BY <1>2, Remaining

\* What ready() asks for is a message of the round that has not been counted.
LEMMA Asked ==
  ASSUME IInv, NEW f \in FlowIds, send[f] = "bundled", PostedOnce(Flows), NEW g \in Awaited(f)
  PROVE  /\ g \in FlowIds /\ Dest(g) = Src(f)
         /\ Counted(g) = started[Dest(g)] - 1
<1>1. /\ g \in FlowIds /\ g \in Previous(f) /\ AsksFor(Flows, f, g) /\ Dest(g) = Src(f)
      /\ free[Src(f)][Flows[f].channel_id][Src(g)] > 0
      /\ Flows[g].channel_id = Flows[f].channel_id
  BY DEF Awaited, Previous, AsksFor, Src, Dest
<1>2. Flows \in Graphs
  BY DEF IInv, TypeOK
<1>3. Src(f) \in Ranks /\ Src(g) \in Ranks /\ Flows[f].channel_id \in Channels
  BY <1>1, <1>2, GraphFacts
<1>4. started[Src(f)] > 0
  BY Inserted
<1>5. CASE \A i, h \in FlowIds : AsksFor(Flows, i, g) /\ AsksFor(Flows, h, g) => i = h
  <2>1. OnlyAskedBy(g, f)
    BY <1>1, <1>5 DEF OnlyAskedBy, Previous
  <2> QED BY <1>1, <1>4, <2>1 DEF IInv, Posting, PostedBy
<1>6. CASE \A h \in FlowIds : Dest(h) = Dest(g) /\ Src(h) = Src(g)
                              /\ Flows[h].channel_id = Flows[g].channel_id => h = g
  <2> DEFINE due == Due(Src(f), Flows[f].channel_id, Src(g))
  <2>1. free[Src(f)][Flows[f].channel_id][Src(g)] = Cardinality(due)
    BY <1>3, <1>4 DEF IInv, Rounded, CountersOf
  <2>2. due \in SUBSET FlowIds
    BY DEF Due, InFlows
  <2>3. due # {}
    BY <1>1, <1>2, <2>1, <2>2, FlowSets
  <2>4. g \in due
    BY <1>1, <1>6, <2>3 DEF Due, InFlows
  <2>5. Counted(g) < started[Dest(g)]
    BY <1>1, <2>4 DEF Due
  <2>6. Counted(g) \in {started[Dest(g)] - 1, started[Dest(g)]}
    BY <1>1 DEF IInv, Receiving, ReceiveOf
  <2>7. started[Dest(g)] \in Nat
    BY <1>1, <1>3, BoundsAssumption DEF IInv, TypeOK
  <2> QED BY <1>1, <2>5, <2>6, <2>7
<1> QED BY <1>1, <1>5, <1>6 DEF PostedOnce, FlowIds, Src, Dest

\* The receives that are posted are of packets of this round, and posted once.
LEMMA ReadyInv ==
  ASSUME OneThread, PostedOnce(Flows), IInv, NEW f \in FlowIds, Ready(f)
  PROVE  IInv'
<1> DEFINE here == {g \in Awaited(f) : net[g].arrived > 0}
<1>1. /\ Flows' = Flows /\ Flows \in Graphs /\ started' = started /\ exits' = exits
      /\ streams' = streams /\ free' = free /\ indegree' = indegree
      /\ send[f] = "bundled"
      /\ send' = [send EXCEPT ![f] = "posting"]
      /\ recv' = [g \in FlowIds |-> IF g \in here THEN "received" ELSE recv[g]]
      /\ expected' = expected \cup (Awaited(f) \ here)
      /\ net' = [g \in FlowIds |-> IF g \in here THEN [net[g] EXCEPT !.arrived = @ - 1]
                                   ELSE net[g]]
  BY DEF Ready, IInv, TypeOK
<1>2. TypeOK
  BY DEF IInv
<1>3. \A k \in FlowIds : send[k] \notin {"posting", "iterating"} /\ recv[k] = "none"
  BY NoHandler DEF Ready
<1>4. /\ send'[f] = "posting" /\ \A k \in FlowIds : k # f => send'[k] = send[k]
      /\ \A k \in FlowIds : send'[k] = "posting" => k = f
  BY <1>1, <1>2, <1>3 DEF TypeOK
<1>5. Awaited(f) \subseteq FlowIds /\ Awaited(f) \subseteq Previous(f) /\ here \subseteq Awaited(f)
  BY DEF Awaited, Previous
<1>6. \A g \in FlowIds :
        /\ net[g].live \in Nat /\ net[g].arrived \in Nat
        /\ net'[g].live = net[g].live
        /\ g \in here => recv'[g] = "received" /\ net'[g].arrived = net[g].arrived - 1
        /\ g \notin here => recv'[g] = "none" /\ net'[g].arrived = net[g].arrived
  BY <1>1, <1>2, <1>3 DEF TypeOK
<1>7. \A g \in FlowIds : Sent(g)' = Sent(g)
  BY <1>1, <1>4, GraphKept DEF Sent
<1>8. \A g \in FlowIds : Counted(g)' = Counted(g)
  BY <1>2, <1>3, <1>6, <1>7, CountTypes DEF Counted
<1>9. \A g \in Awaited(f) : Counted(g) = started[Dest(g)] - 1 /\ Running(Dest(g))
  BY <1>1, Asked, Inserted
<1>10. TypeOK'
  <2>1. send' \in [FlowIds -> SendStates] /\ recv' \in [FlowIds -> RecvStates]
    BY <1>1, <1>2 DEF TypeOK, SendStates, RecvStates
  <2>2. net' \in [FlowIds -> [live : Nat, arrived : Nat]]
    BY <1>1, <1>2, <1>5 DEF TypeOK
  <2>3. expected' \subseteq FlowIds
    BY <1>1, <1>2, <1>5 DEF TypeOK
  <2> QED BY <1>1, <1>2, <2>1, <2>2, <2>3, GraphKept DEF TypeOK
<1>11. Running(Src(f)) /\ \A r : Running(r)' <=> Running(r)
  BY <1>1, Inserted DEF Running
<1>12. Handlers'
  <2>1. \A k \in FlowIds : (SendHandler(k)' <=> k = f) /\ (RecvHandler(k)' <=> k \in here)
    BY <1>3, <1>4, <1>6 DEF SendHandler, RecvHandler
  <2>2. \A g \in here : g \in FlowIds /\ Running(Dest(g)) /\ g \in Previous(f) /\ recv'[g] = "received"
    BY <1>5, <1>6, <1>9
  <2>3. OneHandler'
    <3>1. \A k \in FlowIds : SendHandler(k)' => k = f
      BY <2>1
    <3>2. \A g \in FlowIds : RecvHandler(g)' =>
            send'[f] = "posting" /\ g \in Previous(f)' /\ recv'[g] # "iterating"
      BY <1>1, <1>4, <2>1, <2>2, GraphKept
    <3> QED BY <1>1, <3>1, <3>2, GraphKept DEF OneHandler
  <2>4. OneReceive'
    BY <1>1, <1>4, GraphKept DEF OneReceive
  <2>5. HandlersRun'
    BY <1>1, <1>11, <2>1, <2>2, GraphKept DEF HandlersRun
  <2> QED BY <2>3, <2>4, <2>5 DEF Handlers
<1>13. Rounded'
  <2> SUFFICES ASSUME NEW r \in Ranks PROVE RoundOf(r)' /\ CountersOf(r)'
    BY DEF Rounded
  <2>1. RoundOf(r) /\ CountersOf(r)
    BY DEF IInv, Rounded
  <2> QED BY <1>1, <1>4, <1>8, <2>1, CountersKept, RoundKept
<1>14. Waiting'
  <2> SUFFICES ASSUME NEW k \in FlowIds PROVE WaitingOf(k)'
    BY <1>1, GraphKept DEF Waiting
  <2>1. WaitingOf(k)
    BY DEF IInv, Waiting
  <2>2. \A g \in FlowIds : recv[g] # "children" /\ recv'[g] # "children"
    BY <1>3, <1>6
  <2>3. send'[k] = "waiting" <=> send[k] = "waiting"
    BY <1>1, <1>4
  <2> QED BY <1>1, <1>8, <2>1, <2>2, <2>3, WaitingKept
<1>15. Receiving'
  <2> SUFFICES ASSUME NEW g \in FlowIds PROVE ReceiveOf(g)'
    BY <1>1, GraphKept DEF Receiving
  <2>1. ReceiveOf(g)
    BY DEF IInv, Receiving
  <2>2. g \in expected' => /\ Counted(g) = started[Dest(g)] - 1 /\ net'[g].arrived = 0
                           /\ recv'[g] = "none" /\ Running(Dest(g))
    BY <1>1, <1>5, <1>6, <1>9, <2>1 DEF ReceiveOf
  <2>3. recv'[g] \in {"received", "none"} /\ (recv'[g] = "received" => Counted(g) = started[Dest(g)] - 1)
    BY <1>5, <1>6, <1>9
  <2> QED BY <1>1, <1>8, <1>11, <2>1, <2>2, <2>3, GraphKept DEF ReceiveOf
<1>16. Posting'
  <2> SUFFICES ASSUME NEW k \in FlowIds, NEW g \in FlowIds, OnlyAskedBy(g, k),
                      send'[k] \in {"waiting", "bundled"}
               PROVE  PostedBy(g, k)'
    BY <1>1, GraphKept DEF Posting, PostedBy
  <2>1. PostedBy(g, k)
    BY DEF IInv, Posting
  <2>2. k # f /\ send[k] = send'[k]
    BY <1>4
  <2>3. g \notin Awaited(f)
    BY <1>5, <2>2 DEF OnlyAskedBy
  <2> QED BY <1>1, <1>6, <1>8, <2>1, <2>2, <2>3, GraphKept DEF PostedBy
<1> QED BY <1>10, <1>12, <1>13, <1>14, <1>15, <1>16 DEF IInv

\* A flow that is sent counts as sent, and is one more message on the network.
LEMMA SendInv ==
  ASSUME IInv, NEW f \in FlowIds, Send(f)
  PROVE  IInv'
<1>1. /\ Flows' = Flows /\ Flows \in Graphs /\ started' = started /\ exits' = exits
      /\ streams' = streams /\ free' = free /\ indegree' = indegree
      /\ expected' = expected /\ recv' = recv
      /\ send[f] = "posting" /\ \A g \in Previous(f) : ~RecvHandler(g)
      /\ send' = [send EXCEPT ![f] = "sending"]
      /\ net' = [net EXCEPT ![f].live = @ + 1]
  BY DEF Send, IInv, TypeOK
<1>2. TypeOK
  BY DEF IInv
<1>3. \A k \in FlowIds : (SendHandler(k) => k = f) /\ ~RecvHandler(k)
  BY <1>1 DEF IInv, Handlers, OneHandler, SendHandler
<1>4. send'[f] = "sending" /\ \A k \in FlowIds : k # f => send'[k] = send[k]
  BY <1>1, <1>2 DEF TypeOK
<1>5. \A g \in FlowIds :
        /\ net[g].live \in Nat /\ net[g].arrived \in Nat /\ net'[g].arrived = net[g].arrived
        /\ net'[g].live = IF g = f THEN net[g].live + 1 ELSE net[g].live
  BY <1>1, <1>2 DEF TypeOK
<1>6. started[Src(f)] > 0 /\ started[Src(f)] \in Nat
  <2>1. Src(f) \in Ranks
    BY <1>1, GraphFacts
  <2>2. started[Src(f)] \in Nat
    BY <1>2, <2>1, BoundsAssumption DEF TypeOK
  <2> QED BY <1>1, <2>2, Inserted
<1>7. \A g \in FlowIds : Sent(g)' = IF g = f THEN Sent(g) + 1 ELSE Sent(g)
  BY <1>1, <1>4, <1>6, GraphKept DEF Sent
<1>8. \A g \in FlowIds : Counted(g)' = Counted(g)
  BY <1>1, <1>2, <1>5, <1>7, CountTypes DEF Counted
<1>9. TypeOK'
  <2>1. send' \in [FlowIds -> SendStates]
    BY <1>1, <1>2 DEF TypeOK, SendStates
  <2>2. net' \in [FlowIds -> [live : Nat, arrived : Nat]]
    <3>1. [net[f] EXCEPT !.live = @ + 1] \in [live : Nat, arrived : Nat]
      <4>1. net[f] \in [live : Nat, arrived : Nat] /\ net[f].live + 1 \in Nat
        BY <1>2 DEF TypeOK
      <4> QED BY <4>1
    <3> QED BY <1>1, <1>2, <3>1 DEF TypeOK
  <2> QED BY <1>1, <1>2, <2>1, <2>2, GraphKept DEF TypeOK
<1>10. Handlers'
  <2>1. \A k \in FlowIds : ~SendHandler(k)' /\ ~RecvHandler(k)'
    BY <1>1, <1>3, <1>4 DEF SendHandler, RecvHandler
  <2> QED BY <1>1, <2>1, GraphKept DEF Handlers, OneHandler, OneReceive, HandlersRun
<1>11. Rounded'
  <2> SUFFICES ASSUME NEW r \in Ranks PROVE RoundOf(r)' /\ CountersOf(r)'
    BY DEF Rounded
  <2>1. RoundOf(r) /\ CountersOf(r)
    BY DEF IInv, Rounded
  <2> QED BY <1>1, <1>4, <1>8, <2>1, CountersKept, RoundKept
<1>12. Waiting'
  <2> SUFFICES ASSUME NEW k \in FlowIds PROVE WaitingOf(k)'
    BY <1>1, GraphKept DEF Waiting
  <2>1. WaitingOf(k) /\ (send'[k] = "waiting" <=> send[k] = "waiting")
    BY <1>1, <1>4 DEF IInv, Waiting
  <2> QED BY <1>1, <1>8, <2>1, WaitingKept
<1>13. Receiving'
  <2> SUFFICES ASSUME NEW g \in FlowIds PROVE ReceiveOf(g)'
    BY <1>1, GraphKept DEF Receiving
  <2>1. ReceiveOf(g) /\ \A r : Running(r)' <=> Running(r)
    BY <1>1 DEF IInv, Receiving, Running
  <2> QED BY <1>1, <1>5, <1>8, <2>1, GraphKept DEF ReceiveOf
<1>14. Posting'
  <2> SUFFICES ASSUME NEW k \in FlowIds, NEW g \in FlowIds PROVE PostedBy(g, k)'
    BY <1>1, GraphKept DEF Posting
  <2>1. PostedBy(g, k)
    BY DEF IInv, Posting
  <2> QED BY <1>1, <1>4, <1>8, <2>1, GraphKept DEF PostedBy
<1> QED BY <1>9, <1>10, <1>11, <1>12, <1>13, <1>14 DEF IInv

\* A message is handed to the receive that waits for it, or waits itself.
LEMMA ArriveInv ==
  ASSUME OneThread, IInv, NEW f \in FlowIds, Arrive(f)
  PROVE  IInv'
<1>1. /\ Flows' = Flows /\ Flows \in Graphs /\ started' = started /\ exits' = exits
      /\ streams' = streams /\ free' = free /\ indegree' = indegree /\ send' = send
      /\ net[f].live > 0
  BY DEF Arrive, IInv, TypeOK
<1>2. TypeOK
  BY DEF IInv
<1>3. \A k \in FlowIds : send[k] \notin {"posting", "iterating"} /\ recv[k] = "none"
  BY NoHandler DEF Arrive
<1>4. \A g \in FlowIds : net[g].live \in Nat /\ net[g].arrived \in Nat
  BY <1>2 DEF TypeOK
<1>5. \/ /\ f \in expected /\ expected' = expected \ {f}
         /\ recv' = [recv EXCEPT ![f] = "received"]
         /\ net' = [net EXCEPT ![f].live = @ - 1]
      \/ /\ f \notin expected /\ expected' = expected /\ recv' = recv
         /\ net' = [net EXCEPT ![f].live = @ - 1, ![f].arrived = @ + 1]
  BY DEF Arrive
<1>6. \A g \in FlowIds :
        /\ g # f => /\ net'[g] = net[g] /\ recv'[g] = recv[g]
                    /\ g \in expected' <=> g \in expected
        /\ recv'[g] \in {"none", "received"}
  BY <1>2, <1>3, <1>5 DEF TypeOK
<1>7. /\ net'[f].live = net[f].live - 1 /\ f \notin expected'
      /\ \/ f \in expected /\ recv'[f] = "received" /\ net'[f].arrived = net[f].arrived
         \/ f \notin expected /\ recv'[f] = "none" /\ net'[f].arrived = net[f].arrived + 1
  BY <1>2, <1>3, <1>5 DEF TypeOK
<1>8. \A g \in FlowIds : Sent(g)' = Sent(g)
  BY <1>1, GraphKept DEF Sent
<1>9. \A g \in FlowIds : Counted(g)' = Counted(g)
  <2>1. \A g \in FlowIds : g # f => Counted(g)' = Counted(g)
    BY <1>6, <1>8 DEF Counted
  <2>2. Counted(f)' = Counted(f)
    BY <1>2, <1>3, <1>4, <1>7, <1>8, CountTypes DEF Counted
  <2> QED BY <2>1, <2>2
<1>10. f \in expected => Counted(f) = started[Dest(f)] - 1 /\ Running(Dest(f))
  BY DEF IInv, Receiving, ReceiveOf
<1>11. \A r : Running(r)' <=> Running(r)
  BY <1>1 DEF Running
<1>12. TypeOK'
  <2>1. recv' \in [FlowIds -> RecvStates] /\ expected' \subseteq FlowIds
    BY <1>2, <1>5 DEF TypeOK, RecvStates
  <2>2. net' \in [FlowIds -> [live : Nat, arrived : Nat]]
    BY <1>1, <1>2, <1>5 DEF TypeOK
  <2> QED BY <1>1, <1>2, <2>1, <2>2, GraphKept DEF TypeOK
<1>13. Handlers'
  <2>1. \A k \in FlowIds : ~SendHandler(k)' /\ (RecvHandler(k)' => k = f /\ f \in expected)
    BY <1>1, <1>3, <1>6, <1>7 DEF SendHandler, RecvHandler
  <2>2. OneHandler' /\ OneReceive'
    BY <1>1, <2>1, GraphKept DEF OneHandler, OneReceive
  <2>3. HandlersRun'
    BY <1>1, <1>10, <1>11, <2>1, GraphKept DEF HandlersRun
  <2> QED BY <2>2, <2>3 DEF Handlers
<1>14. Rounded'
  <2> SUFFICES ASSUME NEW r \in Ranks PROVE RoundOf(r)' /\ CountersOf(r)'
    BY DEF Rounded
  <2>1. RoundOf(r) /\ CountersOf(r)
    BY DEF IInv, Rounded
  <2> QED BY <1>1, <1>9, <2>1, CountersKept, RoundKept
<1>15. Waiting'
  <2> SUFFICES ASSUME NEW k \in FlowIds PROVE WaitingOf(k)'
    BY <1>1, GraphKept DEF Waiting
  <2>1. WaitingOf(k)
    BY DEF IInv, Waiting
  <2>2. \A g \in FlowIds : recv[g] # "children" /\ recv'[g] # "children"
    BY <1>3, <1>6
  <2> QED BY <1>1, <1>9, <2>1, <2>2, WaitingKept
<1>16. Receiving'
  <2> SUFFICES ASSUME NEW g \in FlowIds PROVE ReceiveOf(g)'
    BY <1>1, GraphKept DEF Receiving
  <2>1. ReceiveOf(g)
    BY DEF IInv, Receiving
  <2>2. CASE g # f
    BY <1>1, <1>6, <1>9, <1>11, <2>1, <2>2, GraphKept DEF ReceiveOf
  <2>3. CASE g = f
    BY <1>1, <1>6, <1>7, <1>9, <1>10, <2>1, <2>3, GraphKept DEF ReceiveOf
  <2> QED BY <2>2, <2>3
<1>17. Posting'
  <2> SUFFICES ASSUME NEW k \in FlowIds, NEW g \in FlowIds PROVE PostedBy(g, k)'
    BY <1>1, GraphKept DEF Posting
  <2>1. PostedBy(g, k)
    BY DEF IInv, Posting
  <2> QED BY <1>1, <1>6, <1>7, <1>9, <2>1, GraphKept DEF PostedBy
<1> QED BY <1>12, <1>13, <1>14, <1>15, <1>16, <1>17 DEF IInv

\* A packet that is counted is one that was due, from a rank with packets to come.
LEMMA PacketReceivedInv ==
  ASSUME IInv, NEW f \in FlowIds, PacketReceived(f)
  PROVE  IInv'
<1> DEFINE d == Dest(f)
           c == Flows[f].channel_id
<1>1. /\ Flows' = Flows /\ Flows \in Graphs /\ started' = started /\ exits' = exits
      /\ streams' = streams /\ indegree' = indegree /\ send' = send
      /\ expected' = expected /\ net' = net
      /\ recv[f] = "received"
      /\ recv' = [recv EXCEPT ![f] = IF AllSent(d) THEN "iterating" ELSE "children"]
      /\ free' = [free EXCEPT ![d][c][Src(f)] = @ - 1]
  BY DEF PacketReceived, IInv, TypeOK
<1>2. TypeOK /\ d \in Ranks /\ c \in Channels /\ Src(f) \in Ranks
  BY <1>1, GraphFacts DEF IInv
<1>3. /\ recv'[f] = IF AllSent(d) THEN "iterating" ELSE "children"
      /\ \A g \in FlowIds : g # f => recv'[g] = recv[g]
  BY <1>1, <1>2 DEF TypeOK
<1>4. Running(d) /\ \A r : Running(r)' <=> Running(r)
  BY <1>1 DEF IInv, Handlers, HandlersRun, RecvHandler, Running
<1>5. started[d] \in Nat /\ started[d] > 0 /\ exits[d] \in Nat
  BY <1>2, <1>4, BoundsAssumption DEF TypeOK, Running
<1>6. Counted(f) = started[d] - 1 /\ Counted(f) < started[d]
  BY <1>1, <1>5 DEF IInv, Receiving, ReceiveOf
<1>7. free[d][c][Src(f)] > 0
  BY <1>5, <1>6, Remaining
<1>8. \A g \in FlowIds : Sent(g)' = Sent(g)
  BY <1>1, GraphKept DEF Sent
<1>9. \A g \in FlowIds : Counted(g)' = IF g = f THEN Counted(g) + 1 ELSE Counted(g)
  <2>1. \A g \in FlowIds : net[g].live \in Nat /\ net[g].arrived \in Nat
    BY <1>2 DEF TypeOK
  <2> QED BY <1>1, <1>2, <1>3, <1>8, <2>1, CountTypes DEF Counted
<1>10. TypeOK'
  <2>1. recv' \in [FlowIds -> RecvStates]
    BY <1>1, <1>2 DEF TypeOK, RecvStates
  <2>2. free' \in [Ranks -> [Channels -> [Ranks -> Nat]]]
    <3>1. free[d][c][Src(f)] - 1 \in Nat
      BY <1>2, <1>7 DEF TypeOK
    <3> QED BY <1>1, <1>2, <3>1 DEF TypeOK
  <2> QED BY <1>1, <1>2, <2>1, <2>2, GraphKept DEF TypeOK
<1>11. Handlers'
  <2>1. \A k \in FlowIds : (SendHandler(k)' <=> SendHandler(k)) /\ (RecvHandler(k)' <=> RecvHandler(k))
    BY <1>1, <1>3 DEF SendHandler, RecvHandler
  <2>2. ASSUME NEW k \in FlowIds, SendHandler(k) PROVE recv'[f] # "iterating"
    <3>1. send[k] = "posting" /\ f \in Previous(k)
      BY <1>1, <2>2 DEF IInv, Handlers, OneHandler, RecvHandler
    <3>2. Src(k) = d
      BY <3>1 DEF Previous, AsksFor, Src, Dest
    <3> QED BY <1>3, <3>1, <3>2, Remaining
  <2>3. OneHandler'
    <3>1. OneHandler
      BY DEF IInv, Handlers
    <3> QED BY <1>1, <1>3, <2>1, <2>2, <3>1, GraphKept DEF OneHandler
  <2>4. OneReceive' /\ HandlersRun'
    BY <1>1, <1>4, <2>1, GraphKept DEF IInv, Handlers, OneReceive, HandlersRun
  <2> QED BY <2>3, <2>4 DEF Handlers
<1>12. Rounded'
  <2> SUFFICES ASSUME NEW r \in Ranks PROVE RoundOf(r)' /\ CountersOf(r)'
    BY DEF Rounded
  <2>1. RoundOf(r) /\ CountersOf(r)
    BY DEF IInv, Rounded
  <2>2. CASE r # d
    <3>1. free'[r] = free[r]
      BY <1>1, <1>2, <2>2 DEF TypeOK
    <3> QED BY <1>1, <1>9, <2>1, <2>2, <3>1, CountersKept, RoundKept
  <2>3. CASE r = d
    <3>1. RoundOf(r)'
      <4>1. Running(r) /\ started'[r] = started[r] /\ exits'[r] = exits[r] /\ Flows' = Flows
        BY <1>1, <1>4, <2>3
      <4> QED BY <2>1, <4>1 DEF RoundOf, Running
    <3>2. \A e : Unsent(r, e)' = Unsent(r, e)
      BY <1>1, GraphKept DEF Unsent, OutFlows
    <3>3. ASSUME NEW e \in Channels, NEW p \in Ranks, e # c \/ p # Src(f)
          PROVE  free'[r][e][p] = free[r][e][p] /\ Due(r, e, p)' = Due(r, e, p)
      <4>1. free'[r][e][p] = free[r][e][p]
        BY <1>1, <1>2, <2>3, <3>3 DEF TypeOK
      <4>2. f \notin InFlows(r, e, p)
        BY <3>3 DEF InFlows
      <4> QED BY <1>1, <1>9, <4>1, <4>2, GraphKept DEF Due, InFlows
    <3>4. free'[r][c][Src(f)] = free[r][c][Src(f)] - 1
      BY <1>1, <1>2, <2>3 DEF TypeOK
    <3>5. f \in Due(r, c, Src(f)) /\ Due(r, c, Src(f)) \in SUBSET FlowIds
      BY <1>6, <2>3 DEF Due, InFlows
    <3>6. Due(r, c, Src(f))' = Due(r, c, Src(f)) \ {f}
      BY <1>1, <1>5, <1>6, <1>9, <2>3, GraphKept DEF Due, InFlows
    <3>7. Cardinality(Due(r, c, Src(f))') = Cardinality(Due(r, c, Src(f))) - 1
      BY <1>1, <3>5, <3>6, FlowSets
    <3>8. CountersOf(r)'
      BY <1>1, <1>2, <2>1, <3>2, <3>3, <3>4, <3>7, GraphKept DEF CountersOf
    <3> QED BY <3>1, <3>8
  <2> QED BY <2>2, <2>3
<1>13. Waiting'
  <2> SUFFICES ASSUME NEW k \in FlowIds PROVE WaitingOf(k)'
    BY <1>1, GraphKept DEF Waiting
  <2>1. WaitingOf(k)
    BY DEF IInv, Waiting
  <2>2. CASE f \notin Flows[k].parent_flow_id
    <3>1. \A g \in FlowIds : k \in Flows[g].child_flow_id => g # f
      BY <1>1, <2>2, GraphFacts
    <3> QED BY <1>1, <1>3, <1>9, <2>1, <3>1, WaitingKept
  <2>3. CASE f \in Flows[k].parent_flow_id
    <3>1. Src(k) = d /\ Flows[k].parent_flow_id \in SUBSET FlowIds
      BY <1>1, <2>3, GraphFacts
    <3>2. f \in WaitsFor(k) /\ WaitsFor(k) \in SUBSET FlowIds
      BY <1>6, <2>3, <3>1 DEF WaitsFor
    <3>3. send[k] = "waiting"
      <4>1. Cardinality(WaitsFor(k)) # 0
        BY <1>1, <3>2, FlowSets
      <4> QED BY <1>5, <2>1, <3>1, <4>1 DEF WaitingOf
    <3>4. recv'[f] = "children"
      BY <1>2, <1>3, <3>1, <3>3, Remaining
    <3>5. WaitsFor(k)' = WaitsFor(k)
      BY <1>1, <1>3, <1>9, <3>1, <3>2, <3>4, GraphKept DEF WaitsFor
    <3> QED BY <1>1, <2>1, <3>5, GraphKept DEF WaitingOf
  <2> QED BY <2>2, <2>3
<1>14. Receiving'
  <2> SUFFICES ASSUME NEW g \in FlowIds PROVE ReceiveOf(g)'
    BY <1>1, GraphKept DEF Receiving
  <2>1. ReceiveOf(g)
    BY DEF IInv, Receiving
  <2>2. CASE g # f
    BY <1>1, <1>3, <1>4, <1>9, <2>1, <2>2, GraphKept DEF ReceiveOf
  <2>3. CASE g = f
    BY <1>1, <1>3, <1>5, <1>6, <1>9, <2>1, <2>3, GraphKept DEF ReceiveOf
  <2> QED BY <2>2, <2>3
<1>15. Posting'
  <2> SUFFICES ASSUME NEW k \in FlowIds, NEW g \in FlowIds PROVE PostedBy(g, k)'
    BY <1>1, GraphKept DEF Posting
  <2>1. PostedBy(g, k)
    BY DEF IInv, Posting
  <2> QED BY <1>1, <1>3, <1>9, <2>1, GraphKept DEF PostedBy
<1> QED BY <1>10, <1>11, <1>12, <1>13, <1>14, <1>15 DEF IInv

\* The parents counted off are those that have come: a child goes after the last.
LEMMA ReleaseChildrenInv ==
  ASSUME IInv, NEW g \in FlowIds, ReleaseChildren(g)
  PROVE  IInv'
<1> DEFINE d == Dest(g)
           children == Flows[g].child_flow_id
<1>1. /\ Flows' = Flows /\ Flows \in Graphs /\ started' = started /\ exits' = exits
      /\ streams' = streams /\ free' = free /\ expected' = expected /\ net' = net
      /\ recv[g] = "children"
      /\ recv' = [recv EXCEPT ![g] = "none"]
      /\ indegree' = [f \in FlowIds |-> IF f \in children THEN indegree[f] - 1 ELSE indegree[f]]
      /\ send' = [f \in FlowIds |-> IF f \in Released(g) THEN "bundled" ELSE send[f]]
  BY DEF ReleaseChildren, IInv, TypeOK
<1>2. TypeOK /\ d \in Ranks
  BY <1>1, GraphFacts DEF IInv
<1>3. recv'[g] = "none" /\ \A k \in FlowIds : k # g => recv'[k] = recv[k]
  BY <1>1, <1>2 DEF TypeOK
<1>4. Running(d) /\ \A r : Running(r)' <=> Running(r)
  BY <1>1 DEF IInv, Handlers, HandlersRun, RecvHandler, Running
<1>5. started[d] \in Nat /\ started[d] > 0
  BY <1>2, <1>4, BoundsAssumption DEF TypeOK, Running
<1>6. Counted(g) = started[d]
  BY <1>1 DEF IInv, Receiving, ReceiveOf
<1>7. \A f \in children : f \in FlowIds /\ g \in Flows[f].parent_flow_id /\ Src(f) = d
  BY <1>1, GraphFacts
<1>8. ASSUME NEW f \in children
      PROVE  /\ indegree[f] \in Nat \ {0} /\ send[f] = "waiting"
             /\ indegree[f] = Cardinality(WaitsFor(f)) /\ g \in WaitsFor(f)
             /\ WaitsFor(f) \in SUBSET FlowIds
  <2>1. f \in FlowIds /\ g \in WaitsFor(f) /\ WaitsFor(f) \in SUBSET FlowIds
    BY <1>1, <1>7, GraphFacts DEF WaitsFor
  <2>2. Cardinality(WaitsFor(f)) # 0
    BY <1>1, <2>1, FlowSets
  <2>3. WaitingOf(f) /\ Src(f) = d
    BY <1>7, <2>1 DEF IInv, Waiting
  <2>4. indegree[f] = Cardinality(WaitsFor(f)) /\ indegree[f] # 0 /\ send[f] = "waiting"
    BY <1>5, <2>2, <2>3 DEF WaitingOf
  <2> QED BY <1>2, <2>1, <2>4 DEF TypeOK
<1>9. \A f \in FlowIds :
        /\ f \notin children => send'[f] = send[f] /\ indegree'[f] = indegree[f]
        /\ f \in children => /\ indegree'[f] = indegree[f] - 1
                             /\ send'[f] = IF indegree[f] = 1 THEN "bundled" ELSE "waiting"
  BY <1>1, <1>8 DEF Released
<1>10. \A f \in FlowIds : send'[f] # send[f] => send[f] = "waiting" /\ send'[f] = "bundled"
  BY <1>8, <1>9
<1>11. \A f \in FlowIds : Sent(f)' = Sent(f)
  BY <1>1, <1>10, GraphKept DEF Sent
<1>12. \A f \in FlowIds : Counted(f)' = Counted(f)
  BY <1>1, <1>3, <1>11 DEF Counted
<1>13. TypeOK'
  <2>1. recv' \in [FlowIds -> RecvStates] /\ send' \in [FlowIds -> SendStates]
    BY <1>1, <1>2 DEF TypeOK, RecvStates, SendStates
  <2>2. indegree' \in [FlowIds -> Nat]
    <3>1. \A f \in children : indegree[f] - 1 \in Nat
      BY <1>8
    <3>2. \A f \in FlowIds : indegree[f] \in Nat
      BY <1>2 DEF TypeOK
    <3> QED BY <1>1, <3>1, <3>2
  <2> QED BY <1>1, <1>2, <2>1, <2>2, GraphKept DEF TypeOK
<1>14. Handlers'
  <2>1. \A k \in FlowIds : (SendHandler(k)' <=> SendHandler(k))
                           /\ (RecvHandler(k)' => RecvHandler(k) /\ recv'[k] = recv[k])
    BY <1>3, <1>10 DEF SendHandler, RecvHandler
  <2>2. \A k \in FlowIds : send[k] = "posting" => send'[k] = "posting"
    BY <1>10
  <2>3. OneHandler /\ OneReceive /\ HandlersRun
    BY DEF IInv, Handlers
  <2>4. OneHandler' /\ OneReceive'
    BY <1>1, <2>1, <2>2, <2>3, GraphKept DEF OneHandler, OneReceive
  <2>5. HandlersRun'
    BY <1>1, <1>4, <2>1, <2>3, GraphKept DEF HandlersRun
  <2> QED BY <2>4, <2>5 DEF Handlers
<1>15. Rounded'
  <2> SUFFICES ASSUME NEW r \in Ranks PROVE RoundOf(r)' /\ CountersOf(r)'
    BY DEF Rounded
  <2>1. RoundOf(r) /\ CountersOf(r)
    BY DEF IInv, Rounded
  <2> QED BY <1>1, <1>10, <1>12, <2>1, CountersKept, RoundKept
<1>16. Waiting'
  <2> SUFFICES ASSUME NEW f \in FlowIds PROVE WaitingOf(f)'
    BY <1>1, GraphKept DEF Waiting
  <2>1. WaitingOf(f)
    BY DEF IInv, Waiting
  <2>2. CASE f \notin children
    <3>1. \A k \in FlowIds : f \in Flows[k].child_flow_id => recv'[k] = recv[k]
      BY <1>3, <2>2
    <3> QED BY <1>1, <1>9, <1>12, <2>1, <2>2, <3>1, WaitingKept
  <2>3. CASE f \in children
    <3>1. WaitsFor(f)' = WaitsFor(f) \ {g}
      BY <1>1, <1>3, <1>5, <1>6, <1>7, <1>12, <2>3, GraphKept, GraphFacts DEF WaitsFor
    <3>2. Cardinality(WaitsFor(f)') = indegree[f] - 1
      BY <1>1, <1>8, <2>3, <3>1, FlowSets
    <3>3. indegree'[f] = Cardinality(WaitsFor(f)') /\ (send'[f] = "waiting" <=> indegree'[f] # 0)
      BY <1>8, <1>9, <2>3, <3>2
    <3>4. started'[Src(f)] = started[d]
      BY <1>1, <1>7, <2>3
    <3> QED BY <1>1, <1>5, <3>3, <3>4, GraphKept DEF WaitingOf
  <2> QED BY <2>2, <2>3
<1>17. Receiving'
  <2> SUFFICES ASSUME NEW k \in FlowIds PROVE ReceiveOf(k)'
    BY <1>1, GraphKept DEF Receiving
  <2>1. ReceiveOf(k)
    BY DEF IInv, Receiving
  <2> QED BY <1>1, <1>3, <1>4, <1>12, <2>1, GraphKept DEF ReceiveOf
<1>18. Posting'
  <2> SUFFICES ASSUME NEW f \in FlowIds, NEW k \in FlowIds PROVE PostedBy(k, f)'
    BY <1>1, GraphKept DEF Posting
  <2>1. PostedBy(k, f)
    BY DEF IInv, Posting
  <2> QED BY <1>1, <1>3, <1>10, <1>12, <2>1, GraphKept DEF PostedBy
<1> QED BY <1>13, <1>14, <1>15, <1>16, <1>17, <1>18 DEF IInv

\* A flow counted off a channel is one the channel had still to send.
LEMMA PacketSentFinishedInv ==
  ASSUME OneThread, IInv, NEW f \in FlowIds, PacketSentFinished(f)
  PROVE  IInv'
<1> DEFINE s == Src(f)
           c == Flows[f].channel_id
<1>1. /\ Flows' = Flows /\ Flows \in Graphs /\ started' = started /\ exits' = exits
      /\ free' = free /\ indegree' = indegree
      /\ expected' = expected /\ recv' = recv /\ net' = net
      /\ send[f] = "sending"
      /\ send' = [send EXCEPT ![f] = "iterating"]
      /\ streams' = [streams EXCEPT ![s][c] = Reduced(s, c)]
  BY DEF PacketSentFinished, IInv, TypeOK
<1>2. TypeOK /\ s \in Ranks /\ c \in Channels
  BY <1>1, GraphFacts DEF IInv
<1>3. \A k \in FlowIds : send[k] \notin {"posting", "iterating"} /\ recv[k] = "none"
  BY NoHandler DEF PacketSentFinished
<1>4. send'[f] = "iterating" /\ \A k \in FlowIds : k # f => send'[k] = send[k]
  BY <1>1, <1>2 DEF TypeOK
<1>5. Running(s) /\ \A r : Running(r)' <=> Running(r)
  BY <1>1, Inserted DEF Running
<1>6. streams[s][c] > 0 /\ streams[s][c] \in Nat /\ Reduced(s, c) = streams[s][c] - 1
  BY <1>1, <1>2, Remaining DEF Reduced, TypeOK
<1>7. \A g \in FlowIds : Sent(g)' = Sent(g)
  BY <1>1, <1>4, GraphKept DEF Sent
<1>8. \A g \in FlowIds : Counted(g)' = Counted(g)
  BY <1>1, <1>7 DEF Counted
<1>9. TypeOK'
  <2>1. send' \in [FlowIds -> SendStates]
    BY <1>1, <1>2 DEF TypeOK, SendStates
  <2>2. streams' \in [Ranks -> [Channels -> Nat]]
    <3>1. Reduced(s, c) \in Nat
      BY <1>6
    <3> QED BY <1>1, <1>2, <3>1 DEF TypeOK
  <2> QED BY <1>1, <1>2, <2>1, <2>2, GraphKept DEF TypeOK
<1>10. Handlers'
  <2>1. \A k \in FlowIds : (SendHandler(k)' => k = f) /\ ~RecvHandler(k)'
    BY <1>1, <1>3, <1>4 DEF SendHandler, RecvHandler
  <2>2. OneHandler' /\ OneReceive'
    BY <1>1, <2>1, GraphKept DEF OneHandler, OneReceive
  <2>3. HandlersRun'
    BY <1>1, <1>5, <2>1, GraphKept DEF HandlersRun
  <2> QED BY <2>2, <2>3 DEF Handlers
<1>11. Rounded'
  <2> SUFFICES ASSUME NEW r \in Ranks PROVE RoundOf(r)' /\ CountersOf(r)'
    BY DEF Rounded
  <2>1. RoundOf(r) /\ CountersOf(r)
    BY DEF IInv, Rounded
  <2>2. CASE r # s
    <3>1. streams'[r] = streams[r]
      BY <1>1, <1>2, <2>2 DEF TypeOK
    <3> QED BY <1>1, <1>4, <1>8, <2>1, <2>2, <3>1, CountersKept, RoundKept
  <2>3. CASE r = s
    <3>1. RoundOf(r)'
      <4>1. Running(r)
        BY <1>5, <2>3
      <4> QED BY <1>1, <2>1, <4>1, RoundKept
    <3>2. \A e, p : Due(r, e, p)' = Due(r, e, p)
      BY <1>1, <1>8, GraphKept DEF Due, InFlows
    <3>3. ASSUME NEW e \in Channels, e # c
          PROVE  streams'[r][e] = streams[r][e] /\ Unsent(r, e)' = Unsent(r, e)
      <4>1. streams'[r][e] = streams[r][e]
        BY <1>1, <1>2, <2>3, <3>3 DEF TypeOK
      <4>2. f \notin OutFlows(r, e)
        BY <3>3 DEF OutFlows
      <4> QED BY <1>1, <1>4, <4>1, <4>2, GraphKept DEF Unsent, OutFlows
    <3>4. streams'[r][c] = streams[r][c] - 1
      BY <1>1, <1>2, <1>6, <2>3 DEF TypeOK
    <3>5. f \in Unsent(r, c) /\ Unsent(r, c) \in SUBSET FlowIds
      BY <1>1, <2>3 DEF Unsent, OutFlows
    <3>6. Unsent(r, c)' = Unsent(r, c) \ {f}
      BY <1>1, <1>4, <2>3, GraphKept DEF Unsent, OutFlows
    <3>7. Cardinality(Unsent(r, c)') = Cardinality(Unsent(r, c)) - 1
      BY <1>1, <3>5, <3>6, FlowSets
    <3>8. CountersOf(r)'
      BY <1>1, <1>2, <2>1, <3>2, <3>3, <3>4, <3>7, GraphKept DEF CountersOf
    <3> QED BY <3>1, <3>8
  <2> QED BY <2>2, <2>3
<1>12. Waiting'
  <2> SUFFICES ASSUME NEW k \in FlowIds PROVE WaitingOf(k)'
    BY <1>1, GraphKept DEF Waiting
  <2>1. WaitingOf(k) /\ (send'[k] = "waiting" <=> send[k] = "waiting")
    BY <1>1, <1>4 DEF IInv, Waiting
  <2> QED BY <1>1, <1>8, <2>1, WaitingKept
<1>13. Receiving'
  <2> SUFFICES ASSUME NEW g \in FlowIds PROVE ReceiveOf(g)'
    BY <1>1, GraphKept DEF Receiving
  <2>1. ReceiveOf(g)
    BY DEF IInv, Receiving
  <2> QED BY <1>1, <1>5, <1>8, <2>1, GraphKept DEF ReceiveOf
<1>14. Posting'
  <2> SUFFICES ASSUME NEW k \in FlowIds, NEW g \in FlowIds PROVE PostedBy(g, k)'
    BY <1>1, GraphKept DEF Posting
  <2>1. PostedBy(g, k)
    BY DEF IInv, Posting
  <2> QED BY <1>1, <1>4, <1>8, <2>1, GraphKept DEF PostedBy
<1> QED BY <1>9, <1>10, <1>11, <1>12, <1>13, <1>14 DEF IInv

\* iteratable(): the rank leaves its round when nothing is left in it, and then
\* none of its receives is registered.
LEMMA IterateKeeps ==
  ASSUME IInv, NEW r \in Ranks, Running(r), Iterate(r), Flows' = Flows,
         started' = started, streams' = streams, free' = free
  PROVE  /\ exits' \in [Ranks -> Nat]
         /\ \A q \in Ranks : RoundOf(q)' /\ (q # r => (Running(q)' <=> Running(q)))
         /\ Finished(r) => exits'[r] = started[r]
         /\ ~Finished(r) => exits' = exits
         /\ \A g \in expected : g \in FlowIds /\ Running(Dest(g))'
<1>1. TypeOK /\ started[r] \in Nat /\ exits \in [Ranks -> Nat] /\ \A q \in Ranks : RoundOf(q)
  BY BoundsAssumption DEF IInv, TypeOK, Rounded
<1>2. started[r] = exits[r] + 1 /\ started[r] > 0
  BY <1>1 DEF Running, RoundOf
<1>3. (AllSent(r)' <=> AllSent(r)) /\ (AllFreed(r)' <=> AllFreed(r))
  BY GraphKept DEF AllSent, AllFreed
<1>4. \A g \in expected : /\ g \in FlowIds /\ Dest(g) \in Ranks /\ Running(Dest(g))
                          /\ Counted(g) = started[Dest(g)] - 1
  BY <1>1, GraphFacts DEF IInv, TypeOK, Receiving, ReceiveOf
<1>5. CASE Finished(r)
  <2>1. exits' = [exits EXCEPT ![r] = @ + 1]
    BY <1>5 DEF Iterate
  <2>2. exits' \in [Ranks -> Nat] /\ exits'[r] = started[r] /\ \A q \in Ranks : q # r => exits'[q] = exits[q]
    BY <1>1, <1>2, <2>1
  <2>3. RoundOf(r)'
    BY <1>1, <1>3, <1>5, <2>2 DEF RoundOf, Finished
  <2>4. \A q \in Ranks : q # r => RoundOf(q)' /\ (Running(q)' <=> Running(q))
    <3> SUFFICES ASSUME NEW q \in Ranks, q # r PROVE RoundOf(q)' /\ (Running(q)' <=> Running(q))
      OBVIOUS
    <3>1. exits'[q] = exits[q] /\ RoundOf(q)
      BY <1>1, <2>2
    <3> QED BY <3>1, RoundKept DEF Running
  <2>5. \A g \in expected : Dest(g) # r
    BY <1>1, <1>2, <1>4, <1>5, NothingLeft DEF Finished
  <2> QED BY <1>4, <1>5, <2>2, <2>3, <2>4, <2>5, GraphKept
<1>6. CASE ~Finished(r)
  <2>1. exits' = exits
    BY <1>6 DEF Iterate
  <2>2. \A q \in Ranks : RoundOf(q)' /\ (Running(q)' <=> Running(q))
    BY <1>1, <2>1, RoundKept DEF Running
  <2> QED BY <1>1, <1>4, <1>6, <2>1, <2>2, GraphKept
<1> QED BY <1>5, <1>6

\* When the handler has iterated, none runs.
LEMMA IterateSentInv ==
  ASSUME IInv, NEW f \in FlowIds, IterateSent(f)
  PROVE  IInv'
<1>1. /\ Flows' = Flows /\ Flows \in Graphs /\ started' = started /\ streams' = streams
      /\ free' = free /\ indegree' = indegree
      /\ expected' = expected /\ recv' = recv /\ net' = net
      /\ send[f] = "iterating" /\ send' = [send EXCEPT ![f] = "done"] /\ Iterate(Src(f))
  BY DEF IterateSent, IInv, TypeOK
<1>2. TypeOK /\ Src(f) \in Ranks
  BY <1>1, GraphFacts DEF IInv
<1>3. \A k \in FlowIds : (SendHandler(k) => k = f) /\ ~RecvHandler(k)
  BY <1>1 DEF IInv, Handlers, OneHandler, SendHandler
<1>4. Running(Src(f))
  BY <1>1 DEF IInv, Handlers, HandlersRun, SendHandler
<1>5. /\ exits' \in [Ranks -> Nat] /\ \A q \in Ranks : RoundOf(q)'
      /\ \A g \in expected : Running(Dest(g))'
  BY <1>1, <1>2, <1>4, IterateKeeps
<1>6. send'[f] = "done" /\ \A k \in FlowIds : k # f => send'[k] = send[k]
  BY <1>1, <1>2 DEF TypeOK
<1>7. \A g \in FlowIds : Sent(g)' = Sent(g)
  BY <1>1, <1>6, GraphKept DEF Sent
<1>8. \A g \in FlowIds : Counted(g)' = Counted(g)
  BY <1>1, <1>7 DEF Counted
<1>9. TypeOK'
  <2>1. send' \in [FlowIds -> SendStates]
    BY <1>1, <1>2 DEF TypeOK, SendStates
  <2> QED BY <1>1, <1>2, <1>5, <2>1, GraphKept DEF TypeOK
<1>10. Handlers'
  <2>1. \A k \in FlowIds : ~SendHandler(k)' /\ ~RecvHandler(k)'
    BY <1>1, <1>3, <1>6 DEF SendHandler, RecvHandler
  <2> QED BY <1>1, <2>1, GraphKept DEF Handlers, OneHandler, OneReceive, HandlersRun
<1>11. Rounded'
  <2> SUFFICES ASSUME NEW r \in Ranks PROVE CountersOf(r)'
    BY <1>5 DEF Rounded
  <2>1. CountersOf(r)
    BY DEF IInv, Rounded
  <2> QED BY <1>1, <1>6, <1>8, <2>1, CountersKept
<1>12. Waiting'
  <2> SUFFICES ASSUME NEW k \in FlowIds PROVE WaitingOf(k)'
    BY <1>1, GraphKept DEF Waiting
  <2>1. WaitingOf(k) /\ (send'[k] = "waiting" <=> send[k] = "waiting")
    BY <1>1, <1>6 DEF IInv, Waiting
  <2> QED BY <1>1, <1>8, <2>1, WaitingKept
<1>13. Receiving'
  <2> SUFFICES ASSUME NEW g \in FlowIds PROVE ReceiveOf(g)'
    BY <1>1, GraphKept DEF Receiving
  <2>1. ReceiveOf(g)
    BY DEF IInv, Receiving
  <2> QED BY <1>1, <1>5, <1>8, <2>1, GraphKept DEF ReceiveOf
<1>14. Posting'
  <2> SUFFICES ASSUME NEW k \in FlowIds, NEW g \in FlowIds PROVE PostedBy(g, k)'
    BY <1>1, GraphKept DEF Posting
  <2>1. PostedBy(g, k)
    BY DEF IInv, Posting
  <2> QED BY <1>1, <1>6, <1>8, <2>1, GraphKept DEF PostedBy
<1> QED BY <1>9, <1>10, <1>11, <1>12, <1>13, <1>14 DEF IInv

\* The last packet of a round ends it when nothing is left to send or receive.
LEMMA IterateReceivedInv ==
  ASSUME IInv, NEW f \in FlowIds, IterateReceived(f)
  PROVE  IInv'
<1>1. /\ Flows' = Flows /\ Flows \in Graphs /\ started' = started /\ streams' = streams
      /\ free' = free /\ indegree' = indegree
      /\ expected' = expected /\ send' = send /\ net' = net
      /\ recv[f] = "iterating" /\ recv' = [recv EXCEPT ![f] = "none"] /\ Iterate(Dest(f))
  BY DEF IterateReceived, IInv, TypeOK
<1>2. TypeOK /\ Dest(f) \in Ranks
  BY <1>1, GraphFacts DEF IInv
<1>3. \A k \in FlowIds : ~SendHandler(k) /\ (RecvHandler(k) => k = f)
  <2>1. \A k \in FlowIds : ~SendHandler(k)
    BY <1>1 DEF IInv, Handlers, OneHandler, RecvHandler
  <2> QED BY <1>1, <2>1 DEF IInv, Handlers, OneReceive, SendHandler, RecvHandler
<1>4. Running(Dest(f))
  BY <1>1 DEF IInv, Handlers, HandlersRun, RecvHandler
<1>5. /\ exits' \in [Ranks -> Nat] /\ \A q \in Ranks : RoundOf(q)'
      /\ \A g \in expected : Running(Dest(g))'
  BY <1>1, <1>2, <1>4, IterateKeeps
<1>6. recv'[f] = "none" /\ \A k \in FlowIds : k # f => recv'[k] = recv[k]
  BY <1>1, <1>2 DEF TypeOK
<1>7. \A g \in FlowIds : Sent(g)' = Sent(g)
  BY <1>1, GraphKept DEF Sent
<1>8. \A g \in FlowIds : Counted(g)' = Counted(g)
  BY <1>1, <1>6, <1>7 DEF Counted
<1>9. TypeOK'
  <2>1. recv' \in [FlowIds -> RecvStates]
    BY <1>1, <1>2 DEF TypeOK, RecvStates
  <2> QED BY <1>1, <1>2, <1>5, <2>1, GraphKept DEF TypeOK
<1>10. Handlers'
  <2>1. \A k \in FlowIds : ~SendHandler(k)' /\ ~RecvHandler(k)'
    BY <1>1, <1>3, <1>6 DEF SendHandler, RecvHandler
  <2> QED BY <1>1, <2>1, GraphKept DEF Handlers, OneHandler, OneReceive, HandlersRun
<1>11. Rounded'
  <2> SUFFICES ASSUME NEW r \in Ranks PROVE CountersOf(r)'
    BY <1>5 DEF Rounded
  <2>1. CountersOf(r)
    BY DEF IInv, Rounded
  <2> QED BY <1>1, <1>8, <2>1, CountersKept
<1>12. Waiting'
  <2> SUFFICES ASSUME NEW k \in FlowIds PROVE WaitingOf(k)'
    BY <1>1, GraphKept DEF Waiting
  <2>1. WaitingOf(k) /\ \A g \in FlowIds : recv'[g] = "children" <=> recv[g] = "children"
    BY <1>1, <1>6 DEF IInv, Waiting
  <2> QED BY <1>1, <1>8, <2>1, WaitingKept
<1>13. Receiving'
  <2> SUFFICES ASSUME NEW g \in FlowIds PROVE ReceiveOf(g)'
    BY <1>1, GraphKept DEF Receiving
  <2>1. ReceiveOf(g)
    BY DEF IInv, Receiving
  <2> QED BY <1>1, <1>5, <1>6, <1>8, <2>1, GraphKept DEF ReceiveOf
<1>14. Posting'
  <2> SUFFICES ASSUME NEW k \in FlowIds, NEW g \in FlowIds PROVE PostedBy(g, k)'
    BY <1>1, GraphKept DEF Posting
  <2>1. PostedBy(g, k)
    BY DEF IInv, Posting
  <2> QED BY <1>1, <1>6, <1>8, <2>1, GraphKept DEF PostedBy
<1> QED BY <1>9, <1>10, <1>11, <1>12, <1>13, <1>14 DEF IInv

\* A step that changes nothing.
LEMMA StutterInv == IInv /\ UNCHANGED vars => IInv'
<1> SUFFICES ASSUME IInv, UNCHANGED vars PROVE IInv'
  OBVIOUS
<1>1. /\ Flows' = Flows /\ started' = started /\ exits' = exits /\ streams' = streams
      /\ free' = free /\ indegree' = indegree /\ send' = send /\ expected' = expected
      /\ recv' = recv /\ net' = net
  BY DEF vars
<1>2. /\ FlowIds' = FlowIds /\ Channels' = Channels /\ \A r : Running(r)' <=> Running(r)
      /\ \A r : (AllSent(r)' <=> AllSent(r)) /\ (AllFreed(r)' <=> AllFreed(r))
      /\ \A f : Src(f)' = Src(f) /\ Dest(f)' = Dest(f) /\ Previous(f)' = Previous(f)
      /\ \A f : (SendHandler(f)' <=> SendHandler(f)) /\ (RecvHandler(f)' <=> RecvHandler(f))
  BY <1>1, GraphKept DEF Running, AllSent, AllFreed, SendHandler, RecvHandler
<1>3. \A f : Counted(f)' = Counted(f)
  BY <1>1, <1>2 DEF Counted, Sent
<1>4. TypeOK'
  BY <1>1, <1>2 DEF IInv, TypeOK
<1>5. Handlers'
  <2>1. OneHandler' /\ OneReceive'
    BY <1>1, <1>2 DEF IInv, Handlers, OneHandler, OneReceive
  <2>2. HandlersRun'
    BY <1>1, <1>2 DEF IInv, Handlers, HandlersRun
  <2> QED BY <2>1, <2>2 DEF Handlers
<1>6. Rounded'
  <2>1. \A r \in Ranks : RoundOf(r)'
    BY <1>1, <1>2 DEF IInv, Rounded, RoundOf
  <2>2. \A r \in Ranks : CountersOf(r)'
    BY <1>1, <1>3, CountersKept DEF IInv, Rounded
  <2> QED BY <2>1, <2>2 DEF Rounded
<1>7. Waiting'
  <2>1. \A f \in FlowIds : WaitingOf(f)'
    BY <1>1, <1>3, WaitingKept DEF IInv, TypeOK, Waiting
  <2> QED BY <1>2, <2>1 DEF Waiting
<1>8. Receiving'
  <2>1. \A g \in FlowIds : ReceiveOf(g)'
    BY <1>1, <1>2, <1>3 DEF IInv, Receiving, ReceiveOf
  <2> QED BY <1>2, <2>1 DEF Receiving
<1>9. Posting'
  <2>1. \A f, g \in FlowIds : PostedBy(g, f)'
    BY <1>1, <1>2, <1>3, GraphKept DEF IInv, Posting, PostedBy
  <2> QED BY <1>2, <2>1 DEF Posting
<1> QED BY <1>4, <1>5, <1>6, <1>7, <1>8, <1>9 DEF IInv

\* Every graph's receives are posted once.
AllPostedOnce == \A g \in Graphs : PostedOnce(g)

\* Every step keeps the invariant.
LEMMA NextInv ==
  ASSUME OneThread, AllPostedOnce, IInv, [Next]_vars
  PROVE  IInv'
<1>1. PostedOnce(Flows)
  BY DEF AllPostedOnce, IInv, TypeOK
<1>2. CASE UNCHANGED vars
  BY <1>2, StutterInv
<1>3. ASSUME NEW r \in Ranks, StreamInit(r) PROVE IInv'
  BY <1>3, StreamInitInv
<1>4. ASSUME NEW f \in FlowIds, FlowStep(f) PROVE IInv'
  <2>1. CASE Ready(f)
    BY <1>1, <2>1, ReadyInv
  <2>2. CASE Send(f)
    BY <2>2, SendInv
  <2>3. CASE Arrive(f)
    BY <2>3, ArriveInv
  <2>4. CASE PacketReceived(f)
    BY <2>4, PacketReceivedInv
  <2>5. CASE ReleaseChildren(f)
    BY <2>5, ReleaseChildrenInv
  <2>6. CASE IterateReceived(f)
    BY <2>6, IterateReceivedInv
  <2>7. CASE PacketSentFinished(f)
    BY <2>7, PacketSentFinishedInv
  <2>8. CASE IterateSent(f)
    BY <2>8, IterateSentInv
  <2> QED BY <1>4, <2>1, <2>2, <2>3, <2>4, <2>5, <2>6, <2>7, <2>8 DEF FlowStep
<1> QED BY <1>2, <1>3, <1>4 DEF Next

\* With one thread and receives that are posted once, the counters of all ranks
\* stay those of the network in every round, and handlers run for ranks in a round.
THEOREM InvariantCorrect == ASSUME OneThread, AllPostedOnce PROVE Spec => []IInv
<1>1. Init => IInv
  BY InitInv
<1>2. IInv /\ [Next]_vars => IInv'
  BY NextInv
<1> QED BY <1>1, <1>2, PTL DEF Spec

\* No count of streams, free packets or parents goes below 0, and no rank runs
\* more rounds than there are.
THEOREM TypeCorrect == ASSUME OneThread, AllPostedOnce PROVE Spec => []TypeOK
<1>1. IInv => TypeOK
  BY DEF IInv
<1> QED BY <1>1, InvariantCorrect, PTL

\* The counters by which a rank decides to leave (_stream_count, free_packets)
\* are what the senders have not sent and the handlers not counted in its round,
\* and no packet is counted twice or in another round.
THEOREM ConservationCorrect == ASSUME OneThread, AllPostedOnce PROVE Spec => []Conservation
<1>1. ASSUME IInv PROVE Conservation
  <2> SUFFICES ASSUME NEW r \in Ranks, NEW c \in Channels
               PROVE  /\ streams[r][c] = Cardinality({f \in OutFlows(r, c) : send[f] \notin {"iterating", "done"}})
                      /\ \A p \in Ranks : started[r] > 0 =>
                           free[r][c][p] = Cardinality({f \in InFlows(r, c, p) : Counted(f) < started[r]})
                      /\ \A f \in FlowIds : Dest(f) = r => Counted(f) \in {started[r] - 1, started[r]}
    BY DEF Conservation
  <2>1. CountersOf(r)
    BY <1>1 DEF IInv, Rounded
  <2>2. \A f \in FlowIds : Dest(f) = r => Counted(f) \in {started[r] - 1, started[r]}
    BY <1>1 DEF IInv, Receiving, ReceiveOf
  <2> QED BY <2>1, <2>2 DEF CountersOf, Unsent, Due
<1> QED BY <1>1, InvariantCorrect, PTL

\* When exit() deletes the stream of a rank, no receive is registered for it
\* that a later message could be handed to.
THEOREM NoStaleReceiveCorrect == ASSUME OneThread, AllPostedOnce PROVE Spec => []NoStaleReceive
<1>1. ASSUME IInv PROVE NoStaleReceive
  BY <1>1 DEF IInv, TypeOK, Receiving, ReceiveOf, NoStaleReceive
<1> QED BY <1>1, InvariantCorrect, PTL

\* With one thread exit() runs once in a round: the handlers of a send and of a
\* receive do not both find the rank finished.
THEOREM ExitOnceCorrect == ASSUME OneThread, AllPostedOnce PROVE Spec => []ExitOnce
<1>1. IInv => ExitOnce
  BY DEF IInv, TypeOK, Rounded, RoundOf, ExitOnce
<1> QED BY <1>1, InvariantCorrect, PTL

-------------------------------------------------------------------------------
\* Rounds: what a rank receives depends on all.

\* A flow is sent when its parents have been counted in the round.
LEMMA ParentsCounted ==
  ASSUME IInv, NEW f \in FlowIds, NEW n \in Nat \ {0}, Sent(f) >= n,
         NEW g \in Flows[f].parent_flow_id
  PROVE  g \in FlowIds /\ Counted(g) >= n /\ Sent(g) >= n
<1>1. /\ g \in FlowIds /\ Dest(g) = Src(f) /\ Src(f) \in Ranks
      /\ WaitsFor(f) \in SUBSET FlowIds
  BY GraphFacts DEF IInv, TypeOK, WaitsFor
<1>2. started[Src(f)] \in Nat /\ net[g].live \in Nat /\ net[g].arrived \in Nat
  BY <1>1, BoundsAssumption DEF IInv, TypeOK
<1>3. Counted(g) \in Int /\ Sent(g) \in Nat
  BY <1>1, CountTypes DEF IInv
<1>4. Counted(g) >= n
  <2>1. CASE started[Src(f)] > n
    BY <1>1, <1>2, <1>3, <2>1 DEF IInv, Receiving, ReceiveOf
  <2>2. CASE started[Src(f)] <= n
    <3>1. send[f] \in {"sending", "iterating", "done"} /\ started[Src(f)] = n
      BY <1>2, <2>2 DEF Sent
    <3>2. indegree[f] = 0 /\ indegree[f] = Cardinality(WaitsFor(f))
      BY <3>1 DEF IInv, Waiting, WaitingOf
    <3>3. WaitsFor(f) = {}
      BY <1>1, <3>2, FlowSets DEF IInv, TypeOK
    <3> QED BY <1>2, <1>3, <3>1, <3>3 DEF WaitsFor
  <2> QED BY <1>2, <2>1, <2>2
<1>5. Sent(g) >= Counted(g)
  BY <1>2, <1>3 DEF Counted
<1> QED BY <1>1, <1>3, <1>4, <1>5

\* All that a flow depends on was sent in its round.
LEMMA PastSent ==
  ASSUME IInv, NEW f \in FlowIds, NEW n \in Nat \ {0}, Sent(f) >= n
  PROVE  \A k \in Past(Flows, f) : k \in FlowIds /\ Sent(k) >= n
<1> DEFINE S == {k \in FlowIds : Sent(k) >= n}
<1>1. S \in SUBSET DOMAIN Flows /\ f \in S
  BY DEF FlowIds
<1>2. \A k \in S : Flows[k].parent_flow_id \subseteq S
  BY ParentsCounted
<1> QED BY <1>1, <1>2 DEF Past

\* What a rank has received in a round was sent in it.
LEMMA ReceivedSent ==
  ASSUME IInv, NEW h \in FlowIds, NEW n \in Nat, Counted(h) >= n
  PROVE  Sent(h) >= n
<1>1. net[h].live \in Nat /\ net[h].arrived \in Nat /\ Sent(h) \in Nat
  BY CountTypes DEF IInv, TypeOK
<1> QED BY <1>1 DEF Counted

AllGather == \A g \in Graphs : Gathers(g)

\* A rank that has received all in its round knows that all ranks are in it.
LEMMA AllEntered ==
  ASSUME AllGather, IInv, NEW r \in Ranks, Running(r), AllFreed(r), NEW q \in Ranks
  PROVE  started[q] >= started[r]
<1>1. started[r] \in Nat \ {0} /\ started[q] \in Nat
  BY BoundsAssumption DEF IInv, TypeOK, Running
<1>2. CASE q = r
  BY <1>1, <1>2
<1>3. CASE q # r
  <2>1. PICK h \in FlowIds : Dest(h) = r /\ \E k \in Past(Flows, h) : Flows[k].src = q
    BY <1>3 DEF AllGather, Gathers, IInv, TypeOK, FlowIds, Dest
  <2>2. PICK k \in Past(Flows, h) : Flows[k].src = q
    BY <2>1
  <2>3. Counted(h) = started[r]
    BY <1>1, <2>1, NothingLeft
  <2>4. Sent(h) >= started[r]
    BY <1>1, <2>3, ReceivedSent
  <2>5. k \in FlowIds /\ Sent(k) >= started[r]
    BY <1>1, <2>4, PastSent
  <2>6. Sent(k) \in {started[q] - 1, started[q]} \cup {0}
    BY <2>2, <2>5, CountTypes DEF IInv, Src
  <2> QED BY <1>1, <2>5, <2>6
<1> QED BY <1>2, <1>3

\* Each rank leaves each round once (exit() deletes the stream), and not before
\* every rank has entered it: the graph of flows implements AbstractCollective.
THEOREM LeavesTogetherCorrect ==
  ASSUME OneThread, AllPostedOnce, AllGather
  PROVE  Spec => LeavesTogether
<1>1. Init => Promise!Init
  BY DEF Init, Promise!Init
<1>2. ASSUME IInv, [Next]_vars PROVE [Promise!Next]_(Promise!vars)
  <2>1. ASSUME NEW r \in Ranks, Running(r), Iterate(r), started' = started
        PROVE  [Promise!Next]_(Promise!vars)
    <3>1. CASE Finished(r)
      <4>1. exits' = [exits EXCEPT ![r] = @ + 1] /\ AllFreed(r)
        BY <2>1, <3>1 DEF Iterate, Finished
      <4>2. exits[r] < started[r]
        BY <1>2, <2>1, BoundsAssumption DEF Running, IInv, TypeOK
      <4>3. \A q \in Ranks : started[q] >= started[r]
        BY <1>2, <2>1, <4>1, AllEntered
      <4>4. Promise!Leave(r)
        BY <2>1, <4>1, <4>2, <4>3 DEF Promise!Leave
      <4> QED BY <4>4 DEF Promise!Next
    <3>2. CASE ~Finished(r)
      BY <2>1, <3>2 DEF Iterate, Promise!vars
    <3> QED BY <3>1, <3>2
  <2>2. CASE UNCHANGED vars
    BY <2>2 DEF vars, Promise!vars
  <2>3. ASSUME NEW r \in Ranks, StreamInit(r) PROVE [Promise!Next]_(Promise!vars)
    <3>1. started[r] \in Nat /\ started[r] < Rounds
      BY <1>2, <2>3, LimitType, BoundsAssumption DEF StreamInit, IInv, TypeOK
    <3>2. Promise!Enter(r)
      BY <2>3, <3>1 DEF StreamInit, Promise!Enter
    <3> QED BY <3>2 DEF Promise!Next
  <2>4. ASSUME NEW f \in FlowIds, FlowStep(f) PROVE [Promise!Next]_(Promise!vars)
    <3>1. Src(f) \in Ranks /\ Dest(f) \in Ranks
      BY <1>2, GraphFacts DEF IInv, TypeOK
    <3>2. CASE IterateSent(f)
      BY <1>2, <2>1, <3>1, <3>2 DEF IterateSent, IInv, Handlers, HandlersRun, SendHandler
    <3>3. CASE IterateReceived(f)
      BY <1>2, <2>1, <3>1, <3>3 DEF IterateReceived, IInv, Handlers, HandlersRun, RecvHandler
    <3>4. CASE started' = started /\ exits' = exits
      BY <3>4 DEF Promise!vars
    <3> QED BY <2>4, <3>2, <3>3, <3>4 DEF FlowStep, Ready, Send, Arrive, PacketReceived,
      ReleaseChildren, PacketSentFinished
  <2> QED BY <1>2, <2>2, <2>3, <2>4 DEF Next
<1> QED BY <1>1, <1>2, InvariantCorrect, PTL DEF Spec, LeavesTogether, Promise!Spec

-------------------------------------------------------------------------------
\* One message of a flow at a time.

\* Every graph's flows come back, or the collective is run once.
AllComeBack == \A g \in Graphs : NoneWaits(g) \/ ComesBack(g)

\* The messages of a flow that are under way, or that no handler has counted.
OnTheWay(f) == net[f].live + net[f].arrived + (IF recv[f] = "received" THEN 1 ELSE 0)

OneMessage ==
  /\ \A r \in Ranks : started[r] <= Limit
  /\ \A f \in FlowIds : OnTheWay(f) <= 1

\* When a flow is sent its last message has been counted.
LEMMA LastCounted ==
  ASSUME AllComeBack, IInv, OneMessage, NEW f \in FlowIds, send[f] = "posting"
  PROVE  OnTheWay(f) = 0
<1> DEFINE n == started[Src(f)]
<1>1. Flows \in Graphs /\ Src(f) \in Ranks /\ Dest(f) \in Ranks
  BY GraphFacts DEF IInv, TypeOK
<1>2. n \in Nat \ {0} /\ started[Dest(f)] \in Nat
  <2>1. n \in Nat /\ started[Dest(f)] \in Nat
    BY <1>1, BoundsAssumption DEF IInv, TypeOK
  <2>2. n > 0
    BY Inserted
  <2> QED BY <2>1, <2>2
<1>3. Sent(f) = n - 1 /\ OnTheWay(f) \in Nat /\ Counted(f) = Sent(f) - OnTheWay(f)
  <2>1. net[f].live \in Nat /\ net[f].arrived \in Nat
    BY DEF IInv, TypeOK
  <2>2. Sent(f) = n - 1
    BY <1>2 DEF Sent
  <2> QED BY <1>2, <2>1, <2>2 DEF Counted, OnTheWay
<1>4. Counted(f) >= 0 /\ Counted(f) >= started[Dest(f)] - 1
  BY <1>2 DEF IInv, Receiving, ReceiveOf
<1>5. Counted(f) >= n - 1
  <2>1. CASE n = 1
    BY <1>4, <2>1
  <2>2. CASE \E k \in Past(Flows, f) : Flows[k].src = Flows[f].dest
    <3>1. PICK k \in Past(Flows, f) : Src(k) = Dest(f)
      BY <2>2 DEF Src, Dest
    <3> DEFINE S == {i \in FlowIds : Sent(i) >= n} \cup {f}
    <3>2. Flows[f].parent_flow_id \subseteq {i \in FlowIds : Sent(i) >= n}
      <4> SUFFICES ASSUME NEW p \in Flows[f].parent_flow_id PROVE p \in FlowIds /\ Sent(p) >= n
        OBVIOUS
      <4>1. p \in FlowIds /\ WaitsFor(f) \in SUBSET FlowIds
        BY <1>1, GraphFacts DEF WaitsFor
      <4>2. WaitsFor(f) = {}
        <5>1. indegree[f] = 0 /\ indegree[f] = Cardinality(WaitsFor(f))
          BY <1>2 DEF IInv, Waiting, WaitingOf
        <5> QED BY <1>1, <4>1, <5>1, FlowSets
      <4>3. ~(Counted(p) < n) /\ Counted(p) \in Int
        BY <4>1, <4>2, CountTypes DEF WaitsFor, IInv
      <4> QED BY <1>2, <4>1, <4>3, ReceivedSent
    <3>3. \A i \in S : Flows[i].parent_flow_id \subseteq S
      BY <1>2, <3>2, ParentsCounted
    <3>4. k \in S
      BY <3>1, <3>3 DEF Past, FlowIds
    <3>5. started[Dest(f)] >= n
      <4>1. CASE k = f
        BY <1>2, <3>1, <4>1
      <4>2. CASE k \in FlowIds /\ Sent(k) >= n
        <5>1. Sent(k) \in {started[Dest(f)] - 1, started[Dest(f)]} \cup {0}
          BY <3>1, <4>2, CountTypes DEF IInv
        <5> QED BY <1>2, <4>2, <5>1
      <4> QED BY <3>4, <4>1, <4>2
    <3> QED BY <1>2, <1>3, <1>4, <3>5
  <2>3. CASE n > 1 /\ \E h \in FlowIds : /\ Dest(h) = Src(f)
                                         /\ \E k \in Past(Flows, h) : f \in Flows[k].parent_flow_id
    <3>1. PICK h \in FlowIds : /\ Dest(h) = Src(f)
                               /\ \E k \in Past(Flows, h) : f \in Flows[k].parent_flow_id
      BY <2>3
    <3>2. PICK k \in Past(Flows, h) : f \in Flows[k].parent_flow_id
      BY <3>1
    <3>3. n - 1 \in Nat \ {0}
      BY <1>2, <2>3
    <3>4. Counted(h) >= n - 1
      BY <1>2, <3>1 DEF IInv, Receiving, ReceiveOf
    <3>5. Sent(h) >= n - 1
      BY <3>3, <3>4, ReceivedSent
    <3>6. k \in FlowIds /\ Sent(k) >= n - 1
      BY <3>3, <3>5, PastSent
    <3> QED BY <3>2, <3>3, <3>6, ParentsCounted
  <2>4. NoneWaits(Flows) => n = 1
    BY <1>1, <1>2 DEF OneMessage, Limit
  <2>5. n = 1 \/ n > 1
    BY <1>2
  <2> QED BY <1>1, <2>1, <2>2, <2>3, <2>4, <2>5 DEF AllComeBack, ComesBack, FlowIds, Src, Dest
<1> QED BY <1>2, <1>3, <1>5

\* A message is sent when the one before it was counted: all before it are.
LEMMA OneMessageKept ==
  ASSUME OneThread, AllComeBack, IInv, OneMessage, [Next]_vars
  PROVE  OneMessage'
<1>1. Flows' = Flows /\ Flows \in Graphs /\ TypeOK
  BY DEF IInv, TypeOK, Next, vars, FlowStep, StreamInit, Ready, Send, Arrive, PacketReceived,
    ReleaseChildren, PacketSentFinished, IterateSent, IterateReceived
<1>2. \A f \in FlowIds : net[f].live \in Nat /\ net[f].arrived \in Nat
  BY <1>1 DEF TypeOK
<1>3. \A f \in FlowIds : OnTheWay(f) \in 0 .. 1
  BY <1>2 DEF OnTheWay, OneMessage
<1>4. ASSUME started' = started, \A g \in FlowIds : OnTheWay(g)' \in 0 .. 1 PROVE OneMessage'
  BY <1>1, <1>4, GraphKept DEF OneMessage
<1>5. ASSUME started' = started, net' = net,
             \A g \in FlowIds : recv'[g] = "received" => recv[g] = "received"
      PROVE  OneMessage'
  <2>1. \A g \in FlowIds : OnTheWay(g)' \in 0 .. 1
    BY <1>2, <1>3, <1>5 DEF OnTheWay
  <2> QED BY <1>4, <1>5, <2>1
<1>6. CASE UNCHANGED vars
  BY <1>5, <1>6 DEF vars
<1>7. ASSUME NEW r \in Ranks, StreamInit(r) PROVE OneMessage'
  <2>1. \A g \in FlowIds : OnTheWay(g)' = OnTheWay(g)
    BY <1>7 DEF StreamInit, OnTheWay
  <2>2. /\ started' = [started EXCEPT ![r] = @ + 1] /\ started[r] < Limit
        /\ started[r] \in Nat /\ started \in [Ranks -> 0 .. Rounds] /\ Limit \in Nat
    BY <1>1, <1>7, LimitType, BoundsAssumption DEF StreamInit, TypeOK
  <2>3. \A q \in Ranks : started'[q] <= Limit
    BY <2>2 DEF OneMessage
  <2> QED BY <1>1, <1>3, <2>1, <2>3, GraphKept DEF OneMessage
<1>8. ASSUME NEW f \in FlowIds, FlowStep(f) PROVE OneMessage'
  <2>1. CASE Ready(f)
    <3> DEFINE here == {g \in Awaited(f) : net[g].arrived > 0}
    <3>1. /\ started' = started
          /\ recv' = [g \in FlowIds |-> IF g \in here THEN "received" ELSE recv[g]]
          /\ net' = [g \in FlowIds |-> IF g \in here THEN [net[g] EXCEPT !.arrived = @ - 1]
                                       ELSE net[g]]
          /\ \A g \in FlowIds : recv[g] = "none"
      BY <2>1, NoHandler DEF Ready
    <3>2. \A g \in FlowIds : OnTheWay(g)' \in 0 .. 1
      <4> SUFFICES ASSUME NEW g \in FlowIds PROVE OnTheWay(g)' \in 0 .. 1
        OBVIOUS
      <4>1. CASE g \in here
        <5>1. /\ net'[g].live = net[g].live /\ net'[g].arrived = net[g].arrived - 1
              /\ recv'[g] = "received" /\ recv[g] = "none"
          BY <1>1, <3>1, <4>1 DEF TypeOK
        <5> QED BY <1>2, <1>3, <5>1 DEF OnTheWay
      <4>2. CASE g \notin here
        <5>1. net'[g] = net[g] /\ recv'[g] = recv[g]
          BY <3>1, <4>2
        <5> QED BY <1>3, <5>1 DEF OnTheWay
      <4> QED BY <4>1, <4>2
    <3> QED BY <1>4, <3>1, <3>2
  <2>2. CASE Send(f)
    <3>1. OnTheWay(f) = 0
      BY <2>2, LastCounted DEF Send
    <3>2. /\ \A g \in FlowIds : g # f => net'[g] = net[g]
          /\ net'[f].live = net[f].live + 1 /\ net'[f].arrived = net[f].arrived
      BY <1>1, <2>2 DEF Send, TypeOK
    <3>3. OnTheWay(f)' = 1
      BY <1>2, <2>2, <3>1, <3>2 DEF Send, OnTheWay
    <3>4. \A g \in FlowIds : OnTheWay(g)' \in 0 .. 1
      BY <1>3, <2>2, <3>2, <3>3 DEF Send, OnTheWay
    <3> QED BY <1>4, <2>2, <3>4 DEF Send
  <2>3. CASE Arrive(f)
    <3>1. \A g \in FlowIds : recv[g] = "none"
      BY <2>3, NoHandler DEF Arrive
    <3>2. /\ \A g \in FlowIds : g # f => net'[g] = net[g] /\ recv'[g] = recv[g]
          /\ net'[f].live = net[f].live - 1
          /\ \/ recv'[f] = "received" /\ net'[f].arrived = net[f].arrived
             \/ recv'[f] = recv[f] /\ net'[f].arrived = net[f].arrived + 1
      BY <1>1, <2>3 DEF Arrive, TypeOK
    <3>3. OnTheWay(f)' = OnTheWay(f)
      BY <1>2, <3>1, <3>2 DEF OnTheWay
    <3>4. \A g \in FlowIds : OnTheWay(g)' \in 0 .. 1
      BY <1>3, <3>2, <3>3 DEF OnTheWay
    <3> QED BY <1>4, <2>3, <3>4 DEF Arrive
  <2>4. CASE PacketReceived(f)
    BY <1>1, <1>5, <2>4 DEF PacketReceived, TypeOK
  <2>5. CASE ReleaseChildren(f)
    BY <1>1, <1>5, <2>5 DEF ReleaseChildren, TypeOK
  <2>6. CASE IterateReceived(f)
    BY <1>1, <1>5, <2>6 DEF IterateReceived, TypeOK
  <2>7. CASE PacketSentFinished(f)
    BY <1>5, <2>7 DEF PacketSentFinished
  <2>8. CASE IterateSent(f)
    BY <1>5, <2>8 DEF IterateSent
  <2> QED BY <1>8, <2>1, <2>2, <2>3, <2>4, <2>5, <2>6, <2>7, <2>8 DEF FlowStep
<1> QED BY <1>6, <1>7, <1>8 DEF Next

\* A rank never sends a flow again while the queue pair that carried it last
\* lives: the tables of entry.h that are keyed by the flow id never hold two
\* messages in one entry.
THEOREM NoOverlapCorrect ==
  ASSUME OneThread, AllPostedOnce, AllComeBack
  PROVE  Spec => []NoOverlap
<1>1. Init => OneMessage
  <2> SUFFICES ASSUME Init PROVE OneMessage
    OBVIOUS
  <2>1. \A f \in FlowIds : OnTheWay(f) = 0
    BY DEF Init, OnTheWay
  <2>2. \A r \in Ranks : started[r] <= Limit
    BY LimitType, BoundsAssumption DEF Init
  <2> QED BY <2>1, <2>2 DEF OneMessage
<1>2. IInv /\ OneMessage /\ [Next]_vars => OneMessage'
  BY OneMessageKept
<1>3. IInv /\ OneMessage => NoOverlap
  <2> SUFFICES ASSUME IInv, OneMessage, NEW f \in FlowIds PROVE net[f].live <= 1
    BY DEF NoOverlap
  <2>1. net[f].live \in Nat /\ net[f].arrived \in Nat /\ OnTheWay(f) <= 1
    BY DEF IInv, TypeOK, OneMessage
  <2> QED BY <2>1 DEF OnTheWay
<1> QED BY <1>1, <1>2, <1>3, InvariantCorrect, PTL DEF Spec

-------------------------------------------------------------------------------
\* The flow graphs of MockNcclRing have what the theorems above ask of a graph,
\* whatever the number of ranks, rings and their order: so those theorems hold
\* of the collectives that are run.

CONSTANT RingChannels
INSTANCE MockNcclRing

\* The ranks of a ring, one after the other.
IsOrder(c, order) ==
  /\ order \in [0 .. N - 1 -> Ranks]
  /\ \A r \in Ranks : \E i \in 0 .. N - 1 : order[i] = r
  /\ \A i, j \in 0 .. N - 1 : order[i] = order[j] => i = j
  /\ \A i \in 0 .. N - 1 :
       NextRank(c, order[i]) = order[IF i = N - 1 THEN 0 ELSE i + 1]

\* The place j places before i on a ring.
Before(i, j) == IF j <= i THEN i - j ELSE i - j + N

-------------------------------------------------------------------------------
\* Rings.

\* A channel's ranks are in an order.
LEMMA HasOrder ==
  ASSUME AreRings, NEW c \in DOMAIN RingChannels
  PROVE  \E order : IsOrder(c, order)
<1> QED BY DEF AreRings, IsOrder, N

\* The size of the group.
LEMMA GroupSize == ASSUME AreRings PROVE N \in Nat
<1> QED BY FS_CardinalityType DEF AreRings, N

\* The next rank is a rank, the previous rank is the one it is next to.
LEMMA PrevNext ==
  ASSUME AreRings, NEW c \in DOMAIN RingChannels, NEW r \in Ranks
  PROVE  /\ NextRank(c, r) \in Ranks
         /\ PrevRank(c, r) \in Ranks
         /\ \A p \in Ranks : NextRank(c, p) = r <=> p = PrevRank(c, r)
<1>1. PICK order : IsOrder(c, order)
  BY HasOrder
<1>2. N \in Nat
  BY GroupSize
<1>3. PICK i \in 0 .. N - 1 : order[i] = r
  BY <1>1 DEF IsOrder
<1>4. NextRank(c, r) \in Ranks
  <2>1. (IF i = N - 1 THEN 0 ELSE i + 1) \in 0 .. N - 1
    BY <1>2
  <2> QED BY <1>1, <1>3, <2>1 DEF IsOrder
<1>5. \A p, q \in Ranks : NextRank(c, p) = NextRank(c, q) => p = q
  <2> SUFFICES ASSUME NEW p \in Ranks, NEW q \in Ranks, NextRank(c, p) = NextRank(c, q)
               PROVE  p = q
    OBVIOUS
  <2>1. PICK a \in 0 .. N - 1 : order[a] = p
    BY <1>1 DEF IsOrder
  <2>2. PICK b \in 0 .. N - 1 : order[b] = q
    BY <1>1 DEF IsOrder
  <2> DEFINE na == IF a = N - 1 THEN 0 ELSE a + 1
             nb == IF b = N - 1 THEN 0 ELSE b + 1
  <2>3. na \in 0 .. N - 1 /\ nb \in 0 .. N - 1
    BY <1>2
  <2>4. order[na] = order[nb]
    BY <1>1, <2>1, <2>2 DEF IsOrder
  <2>5. na = nb
    BY <1>1, <2>3, <2>4 DEF IsOrder
  <2>6. a = b
    BY <1>2, <2>5
  <2> QED BY <2>1, <2>2, <2>6
<1>6. \E p \in Ranks : NextRank(c, p) = r
  <2> DEFINE a == Before(i, 1)
  <2>1. a \in 0 .. N - 1 /\ i = (IF a = N - 1 THEN 0 ELSE a + 1)
    BY <1>2 DEF Before
  <2> HIDE DEF a
  <2>2. order[a] \in Ranks /\ NextRank(c, order[a]) = order[i]
    BY <1>1, <2>1 DEF IsOrder
  <2> QED BY <2>2, <1>3
<1>7. \A p \in Ranks : RingChannels[c][p] = NextRank(c, p)
  BY DEF NextRank
<1>8. PrevRank(c, r) \in Ranks /\ NextRank(c, PrevRank(c, r)) = r
  BY <1>6, <1>7 DEF PrevRank
<1> QED BY <1>4, <1>5, <1>8

\* Going back along a ring.
LEMMA PrevInOrder ==
  ASSUME AreRings, NEW c \in DOMAIN RingChannels, NEW order, IsOrder(c, order),
         NEW i \in 0 .. N - 1, NEW j \in 0 .. N - 1, j + 1 <= N - 1
  PROVE  /\ Before(i, j) \in 0 .. N - 1 /\ Before(i, j + 1) \in 0 .. N - 1
         /\ PrevRank(c, order[Before(i, j)]) = order[Before(i, j + 1)]
<1>1. N \in Nat
  BY GroupSize
<1> DEFINE a == Before(i, j)
           b == Before(i, j + 1)
<1>2. a \in 0 .. N - 1 /\ b \in 0 .. N - 1 /\ a = (IF b = N - 1 THEN 0 ELSE b + 1)
  BY <1>1 DEF Before
<1> HIDE DEF a, b
<1>3. order[a] \in Ranks /\ order[b] \in Ranks /\ NextRank(c, order[b]) = order[a]
  BY <1>2 DEF IsOrder
<1>4. order[b] = PrevRank(c, order[a])
  BY <1>3, PrevNext
<1> QED BY <1>2, <1>4 DEF a, b

\* Every other rank is reached in less than N steps back.
LEMMA AllBefore ==
  ASSUME AreRings, NEW i \in 0 .. N - 1, NEW k \in 0 .. N - 1, i # k
  PROVE  \E j \in 1 .. N - 1 : Before(i, j) = k
<1>1. N \in Nat
  BY GroupSize
<1>2. CASE k < i
  <2>1. i - k \in 1 .. N - 1 /\ Before(i, i - k) = k
    BY <1>1, <1>2 DEF Before
  <2> QED BY <2>1
<1>3. CASE k > i
  <2>1. i - k + N \in 1 .. N - 1 /\ Before(i, i - k + N) = k
    BY <1>1, <1>3 DEF Before
  <2> QED BY <2>1
<1> QED BY <1>1, <1>2, <1>3

\* A step back, and the others.
LEMMA OneStepBack ==
  ASSUME AreRings, NEW i \in 0 .. N - 1, NEW j \in 1 .. N - 1
  PROVE  /\ Before(i, 1) \in 0 .. N - 1 /\ j - 1 \in 0 .. N - 1
         /\ Before(Before(i, 1), j - 1) = Before(i, j)
<1>1. N \in Nat
  BY GroupSize
<1> QED BY <1>1 DEF Before

-------------------------------------------------------------------------------
\* The flows of a ring algorithm of some number of steps.
RingIds(steps) == [channel : DOMAIN RingChannels, step : 0 .. steps - 1, rank : Ranks]

\* What a flow is, field by field.
LEMMA FlowFields ==
  ASSUME NEW steps
  PROVE  /\ DOMAIN RingFlows(steps) = RingIds(steps)
         /\ \A f \in RingIds(steps) :
              /\ RingFlows(steps)[f].src = f.rank
              /\ RingFlows(steps)[f].dest = NextRank(f.channel, f.rank)
              /\ RingFlows(steps)[f].prev = {PrevRank(f.channel, f.rank)}
              /\ RingFlows(steps)[f].channel_id = f.channel
              /\ RingFlows(steps)[f].chunk_id = f.step
<1> QED BY DEF RingFlows, RingIds, SingleFlow

\* What a flow waits for, and what waits for it.
LEMMA FlowLinks ==
  ASSUME NEW steps, NEW f \in RingIds(steps)
  PROVE  /\ RingFlows(steps)[f].parent_flow_id =
              IF f.step = 0 THEN {}
              ELSE {FlowId(f.channel, f.step - 1, PrevRank(f.channel, f.rank))}
         /\ RingFlows(steps)[f].child_flow_id =
              IF f.step = steps - 1 THEN {}
              ELSE {FlowId(f.channel, f.step + 1, NextRank(f.channel, f.rank))}
<1> QED BY DEF RingFlows, RingIds, SingleFlow

\* A flow's identity is its channel, step and rank.
LEMMA Identity ==
  ASSUME NEW steps
  PROVE  /\ \A f \in RingIds(steps) :
              /\ f.channel \in DOMAIN RingChannels
              /\ f.step \in 0 .. steps - 1
              /\ f.rank \in Ranks
              /\ f = FlowId(f.channel, f.step, f.rank)
         /\ \A c \in DOMAIN RingChannels, k \in 0 .. steps - 1, r \in Ranks :
              /\ FlowId(c, k, r) \in RingIds(steps)
              /\ FlowId(c, k, r).channel = c
              /\ FlowId(c, k, r).step = k
              /\ FlowId(c, k, r).rank = r
<1> QED BY DEF RingIds, FlowId

\* There are finitely many flows.
LEMMA FiniteIds ==
  ASSUME AreRings, NEW steps \in Int
  PROVE  IsFiniteSet(RingIds(steps))
<1> DEFINE Triples == ((DOMAIN RingChannels) \X (0 .. steps - 1)) \X Ranks
           h == [t \in Triples |-> FlowId(t[1][1], t[1][2], t[2])]
<1>1. IsFiniteSet(0 .. steps - 1)
  <2>1. 0 \in Int /\ steps - 1 \in Int
    OBVIOUS
  <2> QED BY <2>1, FS_Interval
<1>2. IsFiniteSet((DOMAIN RingChannels) \X (0 .. steps - 1))
  BY <1>1, FS_Product DEF AreRings
<1>3. IsFiniteSet(Triples)
  BY <1>2, FS_Product DEF AreRings
<1>4. h \in [Triples -> RingIds(steps)]
  <2>1. \A t \in Triples : FlowId(t[1][1], t[1][2], t[2]) \in RingIds(steps)
    BY Identity
  <2> QED BY <2>1
<1>5. \A f \in RingIds(steps) : \E t \in Triples : h[t] = f
  <2> TAKE f \in RingIds(steps)
  <2>1. <<<<f.channel, f.step>>, f.rank>> \in Triples
    BY Identity
  <2>2. h[<<<<f.channel, f.step>>, f.rank>>] = f
    BY <2>1, Identity
  <2> QED BY <2>1, <2>2
<1> HIDE DEF h, Triples
<1>6. h \in Surjection(Triples, RingIds(steps))
  BY <1>4, <1>5 DEF Surjection
<1> QED BY <1>3, <1>6, FS_Surjection

\* The flow that follows f is the one that waits for it.
LEMMA ChildParent ==
  ASSUME AreRings, NEW steps \in Int, NEW f \in RingIds(steps), NEW k \in RingIds(steps)
  PROVE  f \in RingFlows(steps)[k].parent_flow_id <=>
           /\ k.channel = f.channel
           /\ k.step = f.step + 1
           /\ k.rank = NextRank(f.channel, f.rank)
<1>1. /\ f.step \in Int /\ k.step \in Int /\ f.step >= 0 /\ k.step >= 0
      /\ f.rank \in Ranks /\ k.rank \in Ranks /\ k.channel \in DOMAIN RingChannels
  BY Identity
<1>2. f \in RingFlows(steps)[k].parent_flow_id <=>
        k.step # 0 /\ f = FlowId(k.channel, k.step - 1, PrevRank(k.channel, k.rank))
  <2>1. RingFlows(steps)[k].parent_flow_id =
          IF k.step = 0 THEN {} ELSE {FlowId(k.channel, k.step - 1, PrevRank(k.channel, k.rank))}
    BY FlowLinks
  <2> QED BY <2>1
<1>3. f = FlowId(k.channel, k.step - 1, PrevRank(k.channel, k.rank)) <=>
        f.channel = k.channel /\ f.step = k.step - 1 /\ f.rank = PrevRank(k.channel, k.rank)
  BY Identity DEF FlowId
<1>4. NextRank(k.channel, f.rank) = k.rank <=> f.rank = PrevRank(k.channel, k.rank)
  BY <1>1, PrevNext
<1> QED BY <1>1, <1>2, <1>3, <1>4

\* A ring algorithm's flows are a flow graph.
LEMMA RingWellFormed ==
  ASSUME AreRings, NEW steps \in Int
  PROVE  WellFormed(RingFlows(steps))
<1> DEFINE g == RingFlows(steps)
<1>1. DOMAIN g = RingIds(steps)
  BY FlowFields
<1>2. ASSUME NEW f \in RingIds(steps)
      PROVE  /\ g[f].src \in Ranks /\ g[f].dest \in Ranks /\ g[f].prev \subseteq Ranks
             /\ g[f].parent_flow_id \subseteq RingIds(steps)
             /\ g[f].child_flow_id = {k \in RingIds(steps) : f \in g[k].parent_flow_id}
             /\ \A k \in g[f].child_flow_id :
                  g[k].src = g[f].dest /\ g[k].channel_id = g[f].channel_id
             /\ g[f].parent_flow_id = {} <=> g[f].chunk_id = 0
  <2>1. /\ f.channel \in DOMAIN RingChannels /\ f.step \in 0 .. steps - 1 /\ f.rank \in Ranks
    BY Identity
  <2>2. NextRank(f.channel, f.rank) \in Ranks /\ PrevRank(f.channel, f.rank) \in Ranks
    BY <2>1, PrevNext
  <2>3. g[f].src \in Ranks /\ g[f].dest \in Ranks /\ g[f].prev \subseteq Ranks
    <3>1. /\ g[f].src = f.rank /\ g[f].dest = NextRank(f.channel, f.rank)
          /\ g[f].prev = {PrevRank(f.channel, f.rank)}
      BY FlowFields
    <3> HIDE DEF g
    <3> QED BY <2>1, <2>2, <3>1
  <2>4. g[f].parent_flow_id \subseteq RingIds(steps)
    <3>1. CASE f.step = 0
      BY <3>1, FlowLinks
    <3>2. CASE f.step # 0
      <4>1. f.step - 1 \in 0 .. steps - 1
        BY <2>1, <3>2
      <4>2. FlowId(f.channel, f.step - 1, PrevRank(f.channel, f.rank)) \in RingIds(steps)
        BY <2>1, <2>2, <4>1, Identity
      <4>3. g[f].parent_flow_id = {FlowId(f.channel, f.step - 1, PrevRank(f.channel, f.rank))}
        BY <3>2, FlowLinks
      <4> HIDE DEF g
      <4> QED BY <4>2, <4>3
    <3> QED BY <3>1, <3>2
  <2>5. g[f].child_flow_id = {k \in RingIds(steps) : f \in g[k].parent_flow_id}
    <3> DEFINE next == FlowId(f.channel, f.step + 1, NextRank(f.channel, f.rank))
    <3>1. \A k \in RingIds(steps) : f \in g[k].parent_flow_id <=> k = next
      <4> TAKE k \in RingIds(steps)
      <4>1. f \in g[k].parent_flow_id <=>
              k.channel = f.channel /\ k.step = f.step + 1 /\ k.rank = NextRank(f.channel, f.rank)
        BY ChildParent
      <4>2. k = next <=>
              k.channel = f.channel /\ k.step = f.step + 1 /\ k.rank = NextRank(f.channel, f.rank)
        BY Identity DEF FlowId
      <4> QED BY <4>1, <4>2
    <3>2. CASE f.step = steps - 1
      <4>1. next \notin RingIds(steps)
        <5>1. next.step = f.step + 1
          BY DEF FlowId
        <5>2. f.step + 1 \notin 0 .. steps - 1
          BY <2>1, <3>2
        <5> QED BY <5>1, <5>2, Identity
      <4>2. g[f].child_flow_id = {}
        BY <3>2, FlowLinks
      <4> HIDE DEF next, g
      <4> QED BY <3>1, <4>1, <4>2
    <3>3. CASE f.step # steps - 1
      <4>1. f.step + 1 \in 0 .. steps - 1
        BY <2>1, <3>3
      <4>2. next \in RingIds(steps)
        BY <2>1, <2>2, <4>1, Identity
      <4>3. g[f].child_flow_id = {next}
        BY <3>3, FlowLinks
      <4> HIDE DEF next, g
      <4> QED BY <3>1, <4>2, <4>3
    <3> QED BY <3>2, <3>3
  <2>6. ASSUME NEW k \in g[f].child_flow_id
        PROVE  g[k].src = g[f].dest /\ g[k].channel_id = g[f].channel_id
    <3>1. k \in RingIds(steps) /\ f \in g[k].parent_flow_id
      BY <2>5, <2>6
    <3>2. k.channel = f.channel /\ k.rank = NextRank(f.channel, f.rank)
      BY <3>1, ChildParent
    <3> QED BY <3>1, <3>2, FlowFields
  <2>7. g[f].parent_flow_id = {} <=> g[f].chunk_id = 0
    <3>1. g[f].parent_flow_id =
            IF f.step = 0 THEN {}
            ELSE {FlowId(f.channel, f.step - 1, PrevRank(f.channel, f.rank))}
      BY FlowLinks
    <3>2. g[f].chunk_id = f.step
      BY FlowFields
    <3> HIDE DEF g
    <3> QED BY <3>1, <3>2
  <2> QED BY <2>3, <2>4, <2>5, <2>6, <2>7
<1>3. ASSUME NEW f \in RingIds(steps), NEW k \in RingIds(steps),
             g[f].src = g[k].src, g[f].channel_id = g[k].channel_id, g[f].chunk_id = g[k].chunk_id
      PROVE  f = k
  <2>1. f.rank = k.rank /\ f.channel = k.channel /\ f.step = k.step
    BY <1>3, FlowFields
  <2>2. f = FlowId(f.channel, f.step, f.rank) /\ k = FlowId(k.channel, k.step, k.rank)
    BY Identity
  <2> QED BY <2>1, <2>2
<1>4. IsFiniteSet(RingIds(steps))
  BY FiniteIds
<1> HIDE DEF g
<1>5. WellFormed(g)
  BY <1>1, <1>2, <1>3, <1>4 DEF WellFormed
<1> QED BY <1>5 DEF g

\* A message of a ring is waited for by the flow of its step that leaves its
\* destination, and by no other.
LEMMA RingPostedOnce ==
  ASSUME AreRings, NEW steps \in Int
  PROVE  PostedOnce(RingFlows(steps))
<1> DEFINE g == RingFlows(steps)
<1>1. DOMAIN g = RingIds(steps)
  BY FlowFields
<1>2. ASSUME NEW k \in RingIds(steps), NEW f \in RingIds(steps), AsksFor(g, f, k)
      PROVE  f = FlowId(k.channel, k.step, NextRank(k.channel, k.rank))
  <2>1. f.rank = NextRank(k.channel, k.rank) /\ f.channel = k.channel /\ f.step = k.step
    BY <1>2, FlowFields DEF AsksFor
  <2> QED BY <2>1, Identity
<1> HIDE DEF g
<1>3. \A k \in DOMAIN g : \A f, h \in DOMAIN g : AsksFor(g, f, k) /\ AsksFor(g, h, k) => f = h
  BY <1>1, <1>2
<1>4. PostedOnce(g)
  BY <1>3 DEF PostedOnce
<1> QED BY <1>4 DEF g

\* The flow j steps before another on its ring: what it waits for, at the rank j
\* places before its own.
Earlier(order, f, i, j) == FlowId(f.channel, f.step - j, order[Before(i, j)])

\* A flow waits for the flows of all earlier steps.
LEMMA PastOfRing ==
  ASSUME AreRings, NEW steps \in Int, NEW f \in RingIds(steps),
         NEW order, IsOrder(f.channel, order),
         NEW i \in 0 .. N - 1, order[i] = f.rank,
         NEW m \in 0 .. N - 1, m <= f.step
  PROVE  LET k == Earlier(order, f, i, m)
         IN  /\ k \in Past(RingFlows(steps), f) /\ k \in RingIds(steps)
             /\ k.channel = f.channel /\ k.step = f.step - m /\ k.rank = order[Before(i, m)]
<1> DEFINE g == RingFlows(steps)
           Place(j) == Earlier(order, f, i, j)
<1>1. N \in Nat
  BY GroupSize
<1>2. DOMAIN g = RingIds(steps)
  BY FlowFields
<1>3. f.channel \in DOMAIN RingChannels /\ f.step \in 0 .. steps - 1
  BY Identity
<1>4. ASSUME NEW j \in 0 .. N - 1, j <= f.step
      PROVE  /\ Place(j) \in RingIds(steps)
             /\ Place(j).channel = f.channel /\ Place(j).step = f.step - j
             /\ Place(j).rank = order[Before(i, j)]
  <2>1. Before(i, j) \in 0 .. N - 1
    BY <1>1 DEF Before
  <2>2. order[Before(i, j)] \in Ranks
    BY <2>1 DEF IsOrder
  <2>3. f.step - j \in 0 .. steps - 1
    BY <1>3, <1>4
  <2> QED BY <1>3, <2>2, <2>3, Identity DEF Earlier
<1>5. Place(0) = f
  <2>1. Before(i, 0) = i /\ f.step - 0 = f.step
    BY <1>1, <1>3 DEF Before
  <2> QED BY <2>1, Identity DEF Earlier
<1>6. ASSUME NEW j \in 0 .. N - 1, j + 1 <= N - 1, j + 1 <= f.step
      PROVE  g[Place(j)].parent_flow_id = {Place(j + 1)}
  <2>1. j <= f.step
    BY <1>3, <1>6
  <2>2. PrevRank(f.channel, order[Before(i, j)]) = order[Before(i, j + 1)]
    BY <1>3, <1>6, PrevInOrder
  <2>3. f.step - j # 0 /\ f.step - j - 1 = f.step - (j + 1)
    BY <1>3, <1>6
  <2>4. /\ Place(j) \in RingIds(steps) /\ Place(j).channel = f.channel
        /\ Place(j).step = f.step - j /\ Place(j).rank = order[Before(i, j)]
    BY <1>4, <2>1
  <2> HIDE DEF Place
  <2>5. g[Place(j)].parent_flow_id =
          {FlowId(f.channel, f.step - j - 1, PrevRank(f.channel, order[Before(i, j)]))}
    <3> DEFINE p == Place(j)
    <3>1. g[p].parent_flow_id =
            IF p.step = 0 THEN {} ELSE {FlowId(p.channel, p.step - 1, PrevRank(p.channel, p.rank))}
      BY <2>4, FlowLinks DEF g
    <3> HIDE DEF p
    <3>2. g[p].parent_flow_id = {FlowId(p.channel, p.step - 1, PrevRank(p.channel, p.rank))}
      BY <2>3, <2>4, <3>1 DEF p
    <3> QED BY <2>4, <3>2 DEF p
  <2>6. g[Place(j)].parent_flow_id =
          {FlowId(f.channel, f.step - (j + 1), order[Before(i, j + 1)])}
    BY <2>2, <2>3, <2>5
  <2>7. Place(j + 1) = FlowId(f.channel, f.step - (j + 1), order[Before(i, j + 1)])
    BY DEF Place, Earlier
  <2> QED BY <2>6, <2>7
<1> HIDE DEF g, Place
<1>7. ASSUME NEW S \in SUBSET DOMAIN g, f \in S, \A k \in S : g[k].parent_flow_id \subseteq S
      PROVE  Place(m) \in S
  <2> DEFINE Missed == {j \in 0 .. m : Place(j) \notin S}
  <2> SUFFICES ASSUME Place(m) \notin S PROVE FALSE
    OBVIOUS
  <2>1. m \in Missed
    BY <1>1
  <2>2. PICK j \in Missed : \A k \in Missed : j <= k
    <3>1. m \in Nat /\ Missed \in SUBSET (0 .. m) /\ Missed # {}
      BY <2>1, <1>1
    <3> HIDE DEF Missed
    <3> QED BY <3>1, LeastNatural
  <2>3. j # 0
    BY <1>5, <1>7
  <2>4. j - 1 \in 0 .. m /\ j - 1 \notin Missed
    BY <2>2, <2>3, <1>1
  <2>5. Place(j - 1) \in S
    BY <2>4
  <2>6. /\ j - 1 \in 0 .. N - 1 /\ (j - 1) + 1 <= N - 1 /\ (j - 1) + 1 <= f.step
        /\ (j - 1) + 1 = j
    BY <1>1, <1>3, <2>4
  <2>7. g[Place(j - 1)].parent_flow_id = {Place(j)}
    BY <2>6, <1>6
  <2> QED BY <1>7, <2>5, <2>7, <2>2
<1>8. Place(m) \in DOMAIN g
  BY <1>2, <1>4
<1>9. Place(m) \in Past(g, f)
  BY <1>7, <1>8 DEF Past
<1> QED BY <1>4, <1>9 DEF g, Place

\* A flow of step m goes to the rank at i, and waits for one of the rank j places
\* before that.
Reached(steps, c, order, i, j, m) ==
  \E h \in RingIds(steps) :
    /\ h.channel = c /\ h.step = m /\ NextRank(c, h.rank) = order[i]
    /\ \E k \in Past(RingFlows(steps), h) :
         /\ k \in RingIds(steps)
         /\ k.channel = c /\ k.step = m - (j - 1) /\ k.rank = order[Before(i, j)]

\* That is so when m is at least j - 1.
LEMMA Reaches ==
  ASSUME AreRings, NEW steps \in Int, NEW c \in DOMAIN RingChannels,
         NEW order, IsOrder(c, order), NEW i \in 0 .. N - 1, NEW j \in 1 .. N - 1,
         NEW m \in 0 .. steps - 1, j - 1 <= m
  PROVE  Reached(steps, c, order, i, j, m)
<1>1. N \in Nat
  BY GroupSize
<1> DEFINE a == Before(i, 1)
           h == FlowId(c, m, order[a])
           k == Earlier(order, h, a, j - 1)
<1>2. a \in 0 .. N - 1 /\ j - 1 \in 0 .. N - 1 /\ Before(a, j - 1) = Before(i, j)
  BY OneStepBack
<1>3. i = IF a = N - 1 THEN 0 ELSE a + 1
  BY <1>1 DEF Before
<1> HIDE DEF a
<1>4. order[a] \in Ranks /\ NextRank(c, order[a]) = order[i]
  BY <1>2, <1>3 DEF IsOrder
<1>5. h \in RingIds(steps) /\ h.channel = c /\ h.step = m /\ h.rank = order[a]
  BY <1>4, Identity
<1> HIDE DEF h
<1>6. /\ k \in Past(RingFlows(steps), h) /\ k \in RingIds(steps)
      /\ k.channel = h.channel /\ k.step = h.step - (j - 1) /\ k.rank = order[Before(a, j - 1)]
  <2>1. IsOrder(h.channel, order) /\ order[a] = h.rank /\ j - 1 <= h.step
    BY <1>5
  <2> QED BY <1>2, <1>5, <2>1, PastOfRing
<1> HIDE DEF k
<1> QED BY <1>2, <1>4, <1>5, <1>6 DEF Reached

\* After N - 1 steps, the flows of the last step have waited for a flow of every rank.
LEMMA RingGathers ==
  ASSUME AreRings, NEW steps \in Int, steps >= N - 1
  PROVE  Gathers(RingFlows(steps))
<1> DEFINE g == RingFlows(steps)
<1>1. N \in Nat /\ steps \in Int
  BY GroupSize
<1>2. DOMAIN g = RingIds(steps)
  BY FlowFields
<1>3. ASSUME NEW r \in Ranks, NEW q \in Ranks, r # q
      PROVE  \E h \in DOMAIN g : g[h].dest = r /\ \E k \in Past(g, h) : g[k].src = q
  <2>1. PICK c \in DOMAIN RingChannels : TRUE
    BY DEF AreRings
  <2>2. PICK order : IsOrder(c, order)
    BY HasOrder
  <2>3. PICK i \in 0 .. N - 1 : order[i] = r
    BY <2>2 DEF IsOrder
  <2>4. PICK b \in 0 .. N - 1 : order[b] = q
    BY <2>2 DEF IsOrder
  <2>5. PICK j \in 1 .. N - 1 : Before(i, j) = b
    BY <1>3, <2>3, <2>4, AllBefore
  <2>6. steps - 1 \in 0 .. steps - 1 /\ j - 1 <= steps - 1
    BY <1>1
  <2>7. PICK h \in RingIds(steps) :
          /\ h.channel = c /\ NextRank(c, h.rank) = order[i]
          /\ \E k \in Past(g, h) : k \in RingIds(steps) /\ k.rank = order[Before(i, j)]
    <3>1. Reached(steps, c, order, i, j, steps - 1)
      BY <1>1, <2>2, <2>6, Reaches
    <3> QED BY <3>1 DEF Reached
  <2>8. PICK k \in Past(g, h) : k \in RingIds(steps) /\ k.rank = q
    BY <2>4, <2>5, <2>7
  <2>9. g[h].dest = r /\ g[k].src = q
    BY <2>3, <2>7, <2>8, FlowFields
  <2> QED BY <1>2, <2>8, <2>9
<1> HIDE DEF g
<1>4. Gathers(g)
  BY <1>3 DEF Gathers
<1> QED BY <1>4 DEF g

\* Every flow has waited for its destination, when N - 1 steps have been made,
\* or there are N - 1 steps left: what its source receives last has waited for
\* the flow that its destination sent on.
LEMMA RingComesBack ==
  ASSUME AreRings
  PROVE  ComesBack(AllReduceFlows)
<1> DEFINE steps == 1 + (N - 1) + (N - 2)
           g == RingFlows(steps)
<1>1. N \in Nat /\ steps \in Int
  BY GroupSize
<1>2. DOMAIN g = RingIds(steps)
  BY FlowFields
<1>3. ASSUME NEW f \in RingIds(steps)
      PROVE  \/ \E k \in Past(g, f) : g[k].src = g[f].dest
             \/ \E h \in DOMAIN g : /\ g[h].dest = g[f].src
                                    /\ \E k \in Past(g, h) : f \in g[k].parent_flow_id
  <2> DEFINE c == f.channel
  <2>1. c \in DOMAIN RingChannels /\ f.step \in 0 .. steps - 1 /\ f.rank \in Ranks
    BY Identity
  <2>2. PICK order : IsOrder(c, order)
    BY <2>1, HasOrder
  <2>3. PICK i \in 0 .. N - 1 : order[i] = f.rank
    BY <2>1, <2>2 DEF IsOrder
  <2> DEFINE b == IF i = N - 1 THEN 0 ELSE i + 1
  <2>4. b \in 0 .. N - 1 /\ i # b
    BY <1>1, <2>1
  <2>5. NextRank(c, f.rank) = order[b]
    BY <2>2, <2>3 DEF IsOrder
  <2> HIDE DEF b
  <2>6. PICK j \in 1 .. N - 1 : Before(i, j) = b
    BY <2>4, AllBefore
  <2>7. g[f].dest = order[b] /\ g[f].src = order[i]
    BY <2>3, <2>5, FlowFields
  <2>8. CASE j <= f.step
    <3> DEFINE k == Earlier(order, f, i, j)
    <3>1. j \in 0 .. N - 1
      BY <1>1
    <3> HIDE DEF steps
    <3>2. k \in Past(g, f) /\ k \in RingIds(steps) /\ k.rank = order[Before(i, j)]
      BY <1>1, <2>2, <2>3, <2>8, <3>1, PastOfRing
    <3> HIDE DEF k
    <3>3. g[k].src = order[b]
      BY <2>6, <3>2, FlowFields
    <3> QED BY <2>7, <3>2, <3>3
  <2>9. CASE ~(j <= f.step)
    <3> DEFINE m == f.step + j
    <3>1. m \in 0 .. steps - 1 /\ j - 1 <= m /\ m - (j - 1) = f.step + 1
      BY <1>1, <2>1, <2>9
    <3> HIDE DEF steps, m
    <3>2. PICK h \in RingIds(steps) :
            /\ h.channel = c /\ NextRank(c, h.rank) = order[i]
            /\ \E k \in Past(g, h) :
                 /\ k \in RingIds(steps)
                 /\ k.channel = c /\ k.step = m - (j - 1) /\ k.rank = order[Before(i, j)]
      <4>1. Reached(steps, c, order, i, j, m)
        BY <1>1, <2>1, <2>2, <3>1, Reaches
      <4> QED BY <4>1 DEF Reached
    <3>3. PICK k \in Past(g, h) :
            /\ k \in RingIds(steps)
            /\ k.channel = c /\ k.step = f.step + 1 /\ k.rank = NextRank(c, f.rank)
      BY <3>1, <3>2, <2>5, <2>6
    <3>4. f \in g[k].parent_flow_id
      BY <1>1, <3>3, ChildParent
    <3>5. g[h].dest = g[f].src
      BY <3>2, <2>7, FlowFields
    <3> QED BY <1>2, <3>3, <3>4, <3>5
  <2> QED BY <2>8, <2>9
<1> HIDE DEF g, steps
<1>4. ComesBack(g)
  BY <1>2, <1>3 DEF ComesBack
<1> QED BY <1>4 DEF AllReduceFlows, g, steps

-------------------------------------------------------------------------------
\* The flows of all-to-all.
PairIds == {FlowId(0, dest, r) : dest \in Ranks, r \in Ranks} \ {FlowId(0, r, r) : r \in Ranks}

\* What a flow of all-to-all is: it has a source, another rank to go to, and
\* waits for nothing.
LEMMA PairFields ==
  /\ DOMAIN AlltoAllFlows = PairIds
  /\ \A f \in PairIds :
       /\ f.rank \in Ranks /\ f.step \in Ranks /\ f.rank # f.step
       /\ f = FlowId(0, f.step, f.rank)
       /\ AlltoAllFlows[f].src = f.rank
       /\ AlltoAllFlows[f].dest = f.step
       /\ AlltoAllFlows[f].prev = Ranks \ {f.rank}
       /\ AlltoAllFlows[f].parent_flow_id = {}
       /\ AlltoAllFlows[f].child_flow_id = {}
       /\ AlltoAllFlows[f].channel_id = 0
       /\ AlltoAllFlows[f].chunk_id = 0
<1>1. DOMAIN AlltoAllFlows = PairIds
  BY DEF AlltoAllFlows, PairIds
<1>2. ASSUME NEW f \in PairIds
      PROVE  /\ f.rank \in Ranks /\ f.step \in Ranks /\ f.rank # f.step
             /\ f = FlowId(0, f.step, f.rank)
  <2>1. PICK d \in Ranks, r \in Ranks : f = FlowId(0, d, r)
    BY DEF PairIds
  <2>2. d # r
    BY <2>1 DEF PairIds
  <2>3. f.rank = r /\ f.step = d
    BY <2>1 DEF FlowId
  <2> QED BY <2>1, <2>2, <2>3
<1>3. ASSUME NEW f \in PairIds
      PROVE  AlltoAllFlows[f] = SingleFlow(f.rank, f.step, Ranks \ {f.rank}, {}, {}, 0, 0)
  BY DEF AlltoAllFlows, PairIds
<1>4. ASSUME NEW f \in PairIds
      PROVE  /\ AlltoAllFlows[f].src = f.rank
             /\ AlltoAllFlows[f].dest = f.step
             /\ AlltoAllFlows[f].prev = Ranks \ {f.rank}
             /\ AlltoAllFlows[f].parent_flow_id = {}
             /\ AlltoAllFlows[f].child_flow_id = {}
             /\ AlltoAllFlows[f].channel_id = 0
             /\ AlltoAllFlows[f].chunk_id = 0
  <2> DEFINE others == Ranks \ {f.rank}
             g == AlltoAllFlows[f]
  <2>1. g = SingleFlow(f.rank, f.step, others, {}, {}, 0, 0)
    BY <1>3
  <2> HIDE DEF others, g
  <2>2. /\ g.src = f.rank /\ g.dest = f.step /\ g.prev = others
        /\ g.parent_flow_id = {} /\ g.child_flow_id = {}
        /\ g.channel_id = 0 /\ g.chunk_id = 0
    BY <2>1 DEF SingleFlow
  <2> QED BY <2>2 DEF others, g
<1> QED BY <1>1, <1>2, <1>4

\* There is a flow from each rank to each other.
LEMMA PairFlow ==
  ASSUME NEW r \in Ranks, NEW q \in Ranks, r # q
  PROVE  FlowId(0, r, q) \in PairIds /\ FlowId(0, r, q).rank = q /\ FlowId(0, r, q).step = r
<1>1. FlowId(0, r, q).rank = q /\ FlowId(0, r, q).step = r
  BY DEF FlowId
<1>2. \A p \in Ranks : FlowId(0, p, p).rank = p /\ FlowId(0, p, p).step = p
  BY DEF FlowId
<1>3. FlowId(0, r, q) \notin {FlowId(0, p, p) : p \in Ranks}
  BY <1>1, <1>2
<1>4. FlowId(0, r, q) \in {FlowId(0, dest, p) : dest \in Ranks, p \in Ranks}
  OBVIOUS
<1> QED BY <1>1, <1>3, <1>4 DEF PairIds

\* There are finitely many.
LEMMA FinitePairs == ASSUME IsFiniteSet(Ranks) PROVE IsFiniteSet(PairIds)
<1> DEFINE Pairs == Ranks \X Ranks
           All == {FlowId(0, dest, r) : dest \in Ranks, r \in Ranks}
           h == [t \in Pairs |-> FlowId(0, t[1], t[2])]
<1>1. IsFiniteSet(Pairs)
  BY FS_Product
<1>2. h \in [Pairs -> All]
  <2>1. \A t \in Pairs : FlowId(0, t[1], t[2]) \in All
    OBVIOUS
  <2> HIDE DEF All
  <2> QED BY <2>1
<1>3. \A f \in All : \E t \in Pairs : h[t] = f
  <2> TAKE f \in All
  <2>1. PICK d \in Ranks, r \in Ranks : f = FlowId(0, d, r)
    OBVIOUS
  <2>2. <<d, r>> \in Pairs /\ h[<<d, r>>] = f
    BY <2>1
  <2> HIDE DEF h, Pairs
  <2> QED BY <2>2
<1>4. PairIds \subseteq All
  BY DEF PairIds
<1> HIDE DEF h, Pairs, All
<1>5. h \in Surjection(Pairs, All)
  BY <1>2, <1>3 DEF Surjection
<1>6. IsFiniteSet(All)
  BY <1>1, <1>5, FS_Surjection
<1> QED BY <1>4, <1>6, FS_Subset

\* A flow is in its own past.
LEMMA OwnPast == ASSUME NEW g, NEW f \in DOMAIN g PROVE f \in Past(g, f)
<1> QED BY DEF Past

\* The flow graphs that the generator makes are flow graphs as the theorems
\* about NcclFlowModel ask for them. In a ring all-reduce, for any number of ranks
\* and rings, what a rank receives last depends on all, and each flow comes back.
THEOREM AllReduceFlowsCorrect ==
  ASSUME AreRings
  PROVE  /\ WellFormed(AllReduceFlows) /\ PostedOnce(AllReduceFlows)
         /\ Gathers(AllReduceFlows) /\ ComesBack(AllReduceFlows)
<1> DEFINE steps == 1 + (N - 1) + (N - 2)
<1>1. steps \in Int /\ (Ranks # {} => N - 1 >= 0)
  <2>1. N \in Nat
    BY GroupSize
  <2>2. Ranks # {} => N # 0
    BY FS_EmptySet DEF N, AreRings
  <2> QED BY <2>1, <2>2
<1>2. WellFormed(AllReduceFlows) /\ PostedOnce(AllReduceFlows)
  BY <1>1, RingWellFormed, RingPostedOnce DEF AllReduceFlows
<1>3. CASE Ranks = {}
  BY <1>3, <1>2, RingComesBack DEF Gathers
<1>4. CASE Ranks # {}
  <2>1. N \in Nat /\ steps >= N - 1
    BY <1>1, <1>4, GroupSize
  <2>2. Gathers(AllReduceFlows)
    BY <1>1, <2>1, RingGathers DEF AllReduceFlows
  <2> QED BY <1>2, <2>2, RingComesBack
<1> QED BY <1>3, <1>4

\* So are those of a reduce-scatter and an all-gather, but for one thing: their
\* flows do not come back.
THEOREM HalfRingFlowsCorrect ==
  ASSUME AreRings, NEW g \in {ReduceScatterFlows, AllGatherFlows}
  PROVE  WellFormed(g) /\ PostedOnce(g) /\ Gathers(g)
<1> DEFINE steps == 1 + (N - 2)
<1>1. steps \in Int /\ steps >= N - 1
  BY GroupSize
<1>2. g = RingFlows(steps)
  BY DEF ReduceScatterFlows, AllGatherFlows
<1> HIDE DEF steps
<1> QED BY <1>1, <1>2, RingWellFormed, RingPostedOnce, RingGathers

\* The flows of all-to-all wait for nothing, a rank receives from all others, and
\* a receive, which all flows of the rank post, is the only one of its two ranks.
THEOREM AlltoAllFlowsCorrect ==
  ASSUME IsFiniteSet(Ranks)
  PROVE  /\ WellFormed(AlltoAllFlows) /\ PostedOnce(AlltoAllFlows)
         /\ Gathers(AlltoAllFlows) /\ NoneWaits(AlltoAllFlows)
<1> DEFINE g == AlltoAllFlows
<1>1. DOMAIN g = PairIds /\ IsFiniteSet(PairIds)
  BY PairFields, FinitePairs
<1>2. ASSUME NEW f \in PairIds
      PROVE  /\ g[f].src \in Ranks /\ g[f].dest \in Ranks /\ g[f].prev \subseteq Ranks
             /\ g[f].parent_flow_id = {} /\ g[f].child_flow_id = {} /\ g[f].chunk_id = 0
  <2>1. f.rank \in Ranks /\ f.step \in Ranks
    BY PairFields
  <2>2. /\ g[f].src = f.rank /\ g[f].dest = f.step /\ g[f].prev = Ranks \ {f.rank}
        /\ g[f].parent_flow_id = {} /\ g[f].child_flow_id = {} /\ g[f].chunk_id = 0
    BY PairFields
  <2> HIDE DEF g
  <2> QED BY <2>1, <2>2
<1>3. ASSUME NEW f \in PairIds, NEW k \in PairIds, g[f].src = g[k].src, g[f].dest = g[k].dest
      PROVE  f = k
  <2>1. f.rank = k.rank /\ f.step = k.step
    BY <1>3, PairFields
  <2>2. f = FlowId(0, f.step, f.rank) /\ k = FlowId(0, k.step, k.rank)
    BY PairFields
  <2> QED BY <2>1, <2>2
<1>4. \A r, q \in Ranks : r # q => \E h \in PairIds : g[h].dest = r /\ g[h].src = q
  <2> SUFFICES ASSUME NEW r \in Ranks, NEW q \in Ranks, r # q
               PROVE  \E h \in PairIds : g[h].dest = r /\ g[h].src = q
    OBVIOUS
  <2>1. /\ FlowId(0, r, q) \in PairIds /\ FlowId(0, r, q).rank = q
        /\ FlowId(0, r, q).step = r
    BY PairFlow
  <2>2. g[FlowId(0, r, q)].dest = r /\ g[FlowId(0, r, q)].src = q
    BY <2>1, PairFields
  <2> QED BY <2>1, <2>2
<1> HIDE DEF g
<1>5. WellFormed(g)
  <2>1. \A f \in PairIds : g[f].child_flow_id = {k \in PairIds : f \in g[k].parent_flow_id}
    BY <1>2
  <2> QED BY <1>1, <1>2, <1>3, <2>1 DEF WellFormed
<1>6. PostedOnce(g)
  BY <1>1, <1>3 DEF PostedOnce
<1>7. NoneWaits(g)
  BY <1>1, <1>2 DEF NoneWaits
<1>8. Gathers(g)
  BY <1>1, <1>4, OwnPast DEF Gathers
<1> QED BY <1>5, <1>6, <1>7, <1>8 DEF g

\* With one thread, any of these collectives, issued any number of times by any
\* group on any rings: a rank leaves each round once and not before all ranks are
\* in it, its counters are those of the network, and no receive outlives the
\* stream that posted it.
THEOREM CollectivesCorrect ==
  ASSUME OneThread, AreRings,
         Graphs \subseteq {AllReduceFlows, ReduceScatterFlows, AllGatherFlows, AlltoAllFlows}
  PROVE  Spec => [](TypeOK /\ Conservation /\ NoStaleReceive) /\ LeavesTogether
<1>1. AllPostedOnce /\ AllGather
  BY AllReduceFlowsCorrect, HalfRingFlowsCorrect, AlltoAllFlowsCorrect
     DEF AllPostedOnce, AllGather, AreRings
<1>2. Spec => []TypeOK
  BY <1>1, TypeCorrect
<1>3. Spec => []Conservation
  BY <1>1, ConservationCorrect
<1>4. Spec => []NoStaleReceive
  BY <1>1, NoStaleReceiveCorrect
<1>5. Spec => LeavesTogether
  BY <1>1, LeavesTogetherCorrect
<1> QED BY <1>2, <1>3, <1>4, <1>5, PTL

\* In a ring all-reduce and an all-to-all no flow has two messages under way
\* either. (In an all-gather one may have: the first rank that is through with a
\* round can send again before its last message has arrived.)
THEOREM MessagesApart ==
  ASSUME OneThread, AreRings, Graphs \subseteq {AllReduceFlows, AlltoAllFlows}
  PROVE  Spec => []NoOverlap
<1>1. AllPostedOnce /\ AllComeBack
  BY AllReduceFlowsCorrect, AlltoAllFlowsCorrect DEF AllPostedOnce, AllComeBack, AreRings
<1> QED BY <1>1, NoOverlapCorrect
===============================================================================
