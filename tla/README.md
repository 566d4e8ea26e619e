# SimAI in TLA+

A verification development for SimAI, the simulator of distributed training: TLA+
modules for the parts of the ns-3 simulation path that interact and for the inference
simulator vidur, configurations that
model-check them with TLC on small instances, and proofs, checked by TLAPS, of what holds
for every instance. `PROJECT.json` is the index: components, runs, the source lines of
each definition, faults each property detects, findings, hazards and theorems.

## 1. The system

A run of `SimAI_simulator` reads a workload, has one `Sys` object per rank step through
it, asks SimCCL for the flow graph of each collective, and carries the flows over a
simulated RDMA network. A call goes down this stack, and a callback comes up it:

    Workload / Layer -> Sys (streams, event queue) -> NcclFlowModel  <- SimCCL flow graphs
         -> ASTRASimNetwork / entry.h (sim_send, sim_recv, hash tables)
         -> RdmaHw / RdmaQueuePair -> QbbNetDevice -> SwitchNode / SwitchMmu

Everything is driven by the ns-3 event queue. With `-t 1` handlers run one at a time; with
`--enable-mtp` and `-t > 1` the logical processes of ns-3 run in parallel and the
SimAI code protects its tables with critical sections.

vidur, the simulator of inference clusters that comes with SimAI, is a second program, in
Python and single-threaded: a heap of events, each of whose handlers returns new events.

    RequestArrival -> GlobalSchedule (which replica) -> ReplicaSchedule (make batches)
         -> BatchStageArrival -> ReplicaStageSchedule -> BatchStageEnd (per pipeline stage)
         -> BatchEnd (free or keep the requests; with Splitwise, hand them to a decode replica)

| Component | State | Operations | Talks to | Hard behaviour |
|---|---|---|---|---|
| Queue pair (`rdma-hw.cc`, `rdma-queue-pair.cc`) | `snd_nxt`, `snd_una`, rate and window; `ReceiverNextExpectedSeq`, NACK timer, last NACK | cut a packet, receive data, receive ACK/NACK, complete, rate timers | NIC, and the front end through two callbacks | loss with no retransmission timer, rewinds crossing ACKs, suppressed NACKs, unsigned differences |
| NIC egress (`qbb-net-device.cc`) | packet on the wire, pauses, queue-pair group | dequeue, transmit, pause, resume | queue pairs, link | recognising the last packet, stale indices, wake-up |
| Switch (`switch-mmu.cc`, `switch-node.cc`, `broadcom-egress-queue.cc`) | shared pool, ingress/headroom/egress bytes, `paused`, egress queues | admit, account, enqueue, dequeue, pause, resume | neighbours on its links | three different comparisons against a moving threshold, frames in flight, headroom |
| Front end (`entry.h`, `AstraSimNetwork.cc`) | eight hash tables keyed by rank pair and tag or flow id | `sim_send`, `sim_recv`, `send_finish`, `qp_finish` | collectives above, queue pairs below | message before receive, receive before message, sizes that differ, repeated callbacks |
| Collective (`NcclFlowModel.cc`) | `_stream_count`, `free_packets`, `indegree_mapping` per rank | start, ready, send, received, sent, exit | front end, `Sys` | who sees the end, early neighbours of the next round, deletion inside a handler, threads |
| SimCCL (`MockNcclGroup.cc`) | group tables, flow graphs | generate a graph per operation | collective | ids and tags reused by every issue of an operation |
| `Sys`, scheduler, streams | event queue, ready list, active streams | schedule, start, proceed, finish | collective, workload | streams deleted by their own callbacks |
| Workload, layers | loop state per rank | iterate passes, issue and await collectives | `Sys` | blocking collectives across ranks |
| Analytical and physical front ends | - / NIC contexts, threads | formulas / ibverbs, MPI | `Sys` | polling threads |
| vidur: events (`simulator.py`, `events/`) | event heap, requests | one handler per kind of event | all of vidur | order of events of one time, wake-ups that come too soon |
| vidur: replica schedulers (`replica_scheduler/`) | `_request_queue`, `_preempted_requests`, `_allocation_map`, `_num_allocated_blocks`, `_num_running_batches` | make a batch, end a batch, allocate, free, preempt, restart | requests, stages | requests that move between lists inside a loop, a pool at its limit, admission by estimate |
| vidur: pipeline stages | `_batch_queue`, `_is_busy` | arrive, start, end | replica scheduler | redundant wake-ups, overtaking |
| vidur: global schedulers, Splitwise | queue, counters, decode replica of a request | map requests to replicas, move a request from prefill to decode | replica schedulers | a request between two replicas |
| aicb | scripts | workload generation | - | - |

What makes each correct, in a sentence: a queue pair delivers in order and completes once,
never early, or stops for a known reason; a switch counts every byte once, drops nothing
and lifts every pause; the front end runs every handler once, when its bytes are there,
with the right flow tag; a collective is left once by each rank and by none before all have
entered; a graph connects every rank's flows so that this is possible; a workload ends. In
vidur a request is in exactly one place from its arrival to its completion and is completed,
every block of a pool is some request's, no assertion fails, and the stages are a FIFO.

## 2. Modules

| Module | Models | Variables and what they are in the code |
|---|---|---|
| `AbstractTransfer` | what a flow promises | prefix delivered, reported complete |
| `RdmaQp` | one queue pair, both ends, and its path | `qp` = `RdmaQueuePair`, `nic` = `m_currentPkt`, `triggered` = a call of `DequeueAndTransmit` the queue pair's own events still owe it, `rx` = `RdmaRxQueuePair`, `data`/`acks` = the two directions of the path, `sent` = calls of the send-complete callback, `hist` = what was lost (history) |
| `RdmaQpProofs` | theorems about `RdmaQp`: what it promises while it runs; how it comes to rest | |
| `NicEgress`, `MCNicEgress` | the sending side of a host NIC with several queue pairs | `qp` = `RdmaQueuePair` as the device sees it, `grp` = `m_qpGrp`, `rrlast` = `m_rrlast`, `cur`/`tx` = `m_currentPkt` and its `TransmitComplete`, `wake` = `m_nextSend`, `paused` = `m_paused`, `crashed` = the program died in `Resume`, `cc` = `m_cc_mode` (HPCC, or one that leaves `m_nextAvail` alone), `over` (history) |
| `NicEgressProofs` | theorems about `NicEgress` | |
| `PfcSwitch`, `MCPfcSwitch` | a switch and what its neighbours do with its PAUSE frames | `mmu` = `SwitchMmu`, `outq` = `BEgressQueue`, `sent` = ports a packet has left by, `held` = `m_paused` of its devices, `wire`/`pfc` = links, `stopped` = `m_paused` of the neighbours, `crashed` = the program died in somebody's `Resume`, `drops` |
| `PfcSwitchProofs` | theorems about `PfcSwitch` | |
| `FlowMatch`, `MCFlowMatch` | the message matching of one rank pair | `flows` = tables keyed by flow id, `tags` = tables keyed by tag, `qp` = queue pairs, `called` = handlers run, `tally` = `nodeHash`, `errors` |
| `FlowMatchProofs` | theorems about `FlowMatch` | |
| `SumTheorems` | what the library's sums over sets and sequences compute | |
| `AbstractCollective` | what a collective promises | rounds entered and left per rank |
| `NcclFlowModel`, `MCNcclFlowModel` | a collective over a flow graph, with its rounds | `streams` = `_stream_count`, `free` = `free_packets`, `indegree` = `indegree_mapping`, `send`/`recv` = program counters of the handlers, `expected`, `net` = front end and network as `FlowMatch` has them, `started`, `exits` |
| `NcclFlowModelProofs` | theorems about `NcclFlowModel`, for flow graphs with stated properties; that the graphs of `MockNcclRing` have those, and what follows for the collectives | |
| `MockNcclRing` | SimCCL's rings and its ring all-reduce, reduce-scatter, all-gather and all-to-all graphs | (operators only) |
| `VidurRequest` | `entities/request.py` | (a request is a record of token counts and flags) |
| `BaseReplicaScheduler` | what the replica schedulers share: pool, queue, batch under construction | (a scheduler is a record with the fields of the class) |
| `VLLMReplicaScheduler`, `SarathiReplicaScheduler`, `OrcaReplicaScheduler`, `LightLLMReplicaScheduler` | the batch policies; the Orca module also has FasterTransformer and Splitwise, which reserve whole sequences too | (operators only: a loop of the code is a fold of its turns) |
| `AbstractPipeline` | what the stages of a replica promise | batches inside, oldest first |
| `VidurSimulator`, `MCVidurSimulator` | event loop, events, global schedulers, stages | `now`/`future` = `_event_queue`, `requestQueue`, `counter`, `decodeOn` = global scheduler, `request`, `sched` = replica schedulers, `stage` = stage schedulers, `failed` = an assertion or exception |
| `LoopTheorems` | what a loop of a scheduler keeps when its body keeps it; body and property are parameters | |
| `VidurSimulatorProofs` | theorems about `VidurSimulator`: its pipelines | |

One action is one handler, or, in `NcclFlowModel`, one handler up to the point where it
leaves a critical section, since that is where another thread can come in. A definition
that stands right before the one whose name its own name extends (`IsTailUpTo` before
`IsTail`) is that definition with a plausible fault; no specification uses it, and
`PROJECT.json` names the property that detects it.

How the models meet: `NicEgress` says when the packets come that `RdmaQp` may cut at any
time, and that they come; its pauses are those of a `PfcSwitch`, and
what its `Resume` may do to the program is what the hosts of `PfcSwitch` do on a RESUME (`MayCrash`). `RdmaQp` implements `AbstractTransfer`, whose two facts (the callback
of the last packet precedes completion; completion comes once) `FlowMatch` builds on;
`NcclFlowModel` uses the front end as `FlowMatch` shows it to be for one message to a tag,
and shows in return what `FlowMatch` takes for granted of its caller: that a flow is not
sent again while its queue pair lives (`NoOverlap`). It takes its graphs from `MockNcclRing`
and implements `AbstractCollective`. `VidurSimulator` composes the vidur modules: each replica
scheduler is a pure function from a record to a record, the events are the actions, and the
pipeline that results implements `AbstractPipeline`.

## 3. Runs

| Run | Instance | What it shows |
|---|---|---|
| `rdma_lossy` | 7 bytes in packets of 2, window 1 or 6, 2 losses | no false acknowledgement; in-order transfer implemented; silence after completion; the flow completes unless something is lost, and otherwise comes to rest for one of four reasons; send-complete reported once without loss |
| `rdma_window` | the instance of `rdma_lossy` | finding, see section 6 |
| `nic_egress` | 3 queue pairs with 2, 2 and 1 packets, a window of one, two rates, both kinds of rate control, pauses while packets are under way, priority 1 | nobody is overtaken by more than a packet of each other; the device never sleeps over somebody who may send; all is sent unless the program dies in `Resume` |
| `pfc_switch` | two hosts sending to a switch, buffer 23, headroom 4, packets of 2, different `pfc_a_shift` | exact accounting, limits kept, pause with a cause, PAUSE/RESUME alternate, no loss, pauses lifted unless the program dies in `Resume` |
| `flow_match` | 5 messages, 5 receives on 3 tags | matching by the byte, each handler once with the right tag, everything served |
| `flow_match_resend` | the same with a repeated callback | finding |
| `nccl_flows` | 3 ranks: ring all-reduce, 2 rounds; all-to-all, 1 round, where receives are posted many times over | counters exact across rounds, no overlap, no stale receive, barrier refined, termination |
| `nccl_threads` | 2 ranks, 2 rings, threads | finding |
| `vidur_clusters` | nine clusters, 3 or 4 requests each: vLLM (alone, with a pipeline, two replicas by least load), Sarathi (pipeline; two replicas at random), Orca, LightLLM, Splitwise (one prefill and two decode replicas; one each with pipelines) | every request in one place, memory accounted for, no assertion fails, nothing left at the end, FIFO pipeline refined, the oldest request keeps its blocks, all are completed |
| `vidur_leak`, `vidur_early_decode`, `vidur_restart` | FasterTransformer; Splitwise; Sarathi | findings |

Bounds, and why they suffice. In `RdmaQp` four packets are the least with which a first
packet can be acknowledged, a second lost, a third cause a NACK and a fourth be suppressed;
two losses let data and its repetition, or data and an ACK, both be lost; the windows 1 and
6 are one smaller than a packet and one of three packets, so that the flow is both window-bound and
not; 7 is no multiple of 2 or 4. `SentOnce` needs that the flow is no whole number of MTUs: the
send-complete callback recognises the last packet by being shorter than a full one, and without
a shorter one it never comes. `U64` = 64 leaves room for the flow as
2^64 does, while a negative difference still wraps. `U32` = 4 does not, as 2^32 does not for a flow of more than 4 GiB: beyond it `m_lastNACK`
never equals the expected number and no NACK is suppressed. The run is go-back-N; go-back-to-zero,
under which a flow completes only if it is a whole number of chunks, is left to the theorems (`NoFalseAckCorrect`, `ReliableTransferCorrect`). In `NicEgress` three queue pairs are the least with which a stale `m_rrlast` could skip one; a window of one closes while
others may send; two packets let a queue pair come round again and one lets it finish first; the slow rate makes a packet
available after the link is free, which is when only `m_nextSend` is left. `Pg` is the priority of the
data, which `Resume` takes for the index of a queue pair: 1 is in range for groups of two and three and out of range for
smaller ones, as 3 is for four and more. In `PfcSwitch` two inputs compete
for a pool in which each can use headroom, one threshold is half of the other's, and the
the third is the link to another switch, the only neighbour that sends PAUSE frames, and only for packets it was sent (`sent`); the
headroom holds exactly the packet on the wire and the one started while the frame is on its
way (`WireCap`, `PfcLag`). A packet in the switch is 2 bytes; different sizes were tried and leave the
state space too large for a routine run. In `FlowMatch` a tag is used twice, a message serves two receives, and two messages serve one. In
`NcclFlowModel` two rounds let a fast rank begin the second while a slow one is in the first,
and three ranks have a neighbour that is neither source nor destination. `Limit` runs a graph
in which no flow waits for another only once: a rank leaves an all-to-all when its last packets are on
the wire, and would overlap with itself if it were run again at once.

In `VidurSimulator` no pool (4 to 9 blocks) holds all requests at once, so that requests wait, are
preempted and restart in vLLM and Sarathi (`vidur_restart` is a trace of it), two stages let a batch be
under way while the next is made, and three or four requests are the least with an oldest, a victim and one
that waits. Any subset of the events under way may be due next, at once or with an arrival, which
covers every execution and transfer time above 0. `Fits` says of the workloads that
a replica with nothing else to do can finish each request; without it a request can wait at the
head of the queue for ever, and no code tests for it. `WellFormed` leaves out requests with
a single token to decode, whose `decode_time` of 0 fails an assertion of `Request.on_batch_end`. FasterTransformer is not among the clusters because it leaks (section 6).

`CHECK_DEADLOCK FALSE` everywhere: the simulations end, the program may die in `Resume`, and a stalled flow is a result that
`StallCauses` explains rather than an error of the model. `PausedIsResumed`, `Completes`,
`Settles`, `AllSent`, `AllServed`, `AllLeave` and `AllComplete` are what rules out stopping too soon.

## 4. Fairness

Weak fairness of the handlers is the event queue: ns-3 runs every scheduled event, and a packet
that left a device arrives unless it is lost. The NACK timer, losses, CNPs and changes of the rate are
never owed.

A call of `DequeueAndTransmit` is owed to a queue pair only after an event that makes one: its start, the end of a
transmission, an ACK or NACK that finds it (`triggered` in `RdmaQp`). The rate timers (`RateIncEventTimerMlx` and its
helpers) write `m_rate` and call nobody: a lone queue pair whose window was reduced and whose packets were lost sleeps on when the window is
open again. `RdmaQp` therefore does not owe it a call after `IncreaseWindow`, nor `IncreaseWindow` itself, and counts that state as `Stalled`. Such a
flow rests for a cause that `StallCauses` names, for its last packet or acknowledgement was lost. Calls that the events
of other queue pairs make may come (the action is enabled) and are not owed either, as when a queue pair is alone on its device.
That an owed call is made in the end takes for granted that pauses end and that the program survives `Resume`. `NicEgress` shows the first half of it with a clock: there
only the end of a transmission, ACKs, RESUMEs and `m_nextSend` call `DequeueAndTransmit`, time goes on,
and what is due happens before it does.

`Resume` may end the program (end of section 6), so `AllSent` and `PausedIsResumed` say "or the program has died". They still have content:
fairness makes `Resume` happen, but never makes it crash where it can go on, and every behaviour that goes on must
send everything and lift every pause. In `PfcSwitch` the
neighbour that pauses a port is a switch, whose RESUME always ends the program; so a port is paused at most once
and weak fairness of `Dequeue` is enough. That a neighbour ends its pauses is an
assumption on that neighbour, which `PausedIsResumed` discharges for this switch in turn: it
holds for a network of switches without a cycle of routes. `VidurSimulator` has weak fairness of
`Next` only: the loop of `Simulator.run` never stops while an event is queued.

## 5. Proofs

A run shows a property on one instance; a theorem shows it for every value of the constants
that the `ASSUME`s of the module allow. Every safety property the passing runs check of the queue pair, the NIC, the switch and
the front end has a theorem, and so has every one of the collectives; of vidur the pipelines have.
Where a theorem has a hypothesis of its own, it is one that the code needs: TLC finds a
counterexample in an instance without it. Those on flow graphs are in turn proved of the
graphs that the generator makes.

### Queue pair (`RdmaQpProofs`)

For every flow size, MTU, set of windows, ACK interval, chunk size, go-back rule, word width and
bound on losses:

* `InvariantCorrect`: `Spec => []IInv`, with `IInv == TypeOK /\ NoFalseAck /\ CompletedAcked`;
* `TypeCorrect`, `NoFalseAckCorrect`: its parts;
* `ReliableTransferCorrect`: `Spec => Transfer!Spec`, the queue pair implements the abstract transfer;
* `QuietAfterCompletionCorrect`: a completed queue pair that has a window cuts no packet.

What the sender has counted and what is on its way back are both bounded by
`GoBack(rx.next)`, what the receiver vouches for under either rewind rule. `ReceiveUdp` never lowers
that bound (rounding down is monotone and a projection: `GoBackProperties`) and puts exactly it, or
less, into an acknowledgement; `ReceiveAck` takes at most that out of one. Hence `snd_una` can
reach the end of the flow only when the receiver holds it, which makes completion map to
`Transfer!Complete`. `CompletedAcked` is the strengthening needed for silence: a completed queue
pair has `snd_una = Size`, so either nothing is left or the wrapped difference closes the window.
The bound needs `TypeOK` in the induction (the arithmetic is over naturals), which is why the three
are proved together.

Assumptions used: positive sizes and chunk, a largest window, windows plus flow size below
2^64. The chunk's is not the code's: `L2ChunkSize` 0 is its default and divides by zero.

### Queue pair at rest (`RdmaQpProofs`, second part)

* `SentOnceCorrect`, under `TailRecognised`: the last packet, and it alone, has a size for which
  `QbbNetDevice::TransmitStart` schedules the callback. Otherwise the callback comes for every packet or for none. The
  invariant is `Orderly`: while nothing is lost the packets in flight continue each other from what the
  receiver holds to what the sender has cut, no NACK exists, and the callback has run exactly when
  the last packet has left.
* `StallCausesCorrect`, under `EveryPacketAcked`: go-back-N, with an ACK interval no longer than the first packet.
  With a longer interval a flow with a small window may wait for an ACK that is not due; go-back-to-zero can
  rewind below what was acknowledged. The invariant `RestInv` says where packets
  begin and end (`Aligned`), what became of the last packet (`LastPacket`) and of the last
  acknowledgement (`LastAck`), and with `Asleep` that a queue pair to which no call is owed has
  cut everything or had something on the fly when the device last looked. In a stalled state nothing is in flight in either direction, so
  one of the named causes is all that is left: had the last packet and its acknowledgement arrived, nothing would be on the fly
  (`NothingOnTheFly`) and the call after that acknowledgement would have cut a packet.

### NIC egress (`NicEgressProofs`)

For any queue pairs, packets, window and paces:

* `TypeCorrect`. The invariant is `TypeInv == TypeOK /\ Paced(qp) /\ Group(grp)`: under HPCC no
  `m_nextAvail` is later than a packet at the queue pair's pace, and the group holds a queue pair once. The attempt to prove it
  found `NicEgress` too loose: it let one simulation use both ways to change a rate, with which `m_nextAvail` drifts beyond
  the slowest pace (paces 1 and 3). `m_cc_mode` is one for all queue pairs and excludes that, so the model now has it as `cc`.
* `NotForgottenCorrect`: inductive together with the types, while the program lives.
* `BoundedOvertakingCorrect`. The bound is not inductive. `InTurn` is: the packets that overtook
  `i`, plus the queue pairs that can still come before it (those between `m_rrlast` and `i`, and
  those not yet started), are fewer than all. A served queue pair
  leaves that set, and neither the removal of finished queue pairs (`AheadPicks`) nor
  a new one at the end (`AheadAppend`) lets another one in. `CleanedPicks` shows that the clean-up keeps an order-preserving
  selection of the group.

### Switch (`PfcSwitchProofs`)

For any ports, routes, priorities, packet sizes, thresholds, headrooms and delays, in a stack in which each level uses those below it:

1. `TypedCorrect`, a lemma: machine words, and egress counters that equal the bytes in the egress queues, so that none is below 0.
2. `PauseChainCorrect`: PAUSE and RESUME frames of a priority alternate on a link (`ChainOn`, about the positions of frames in a queue).
3. `AccountingCorrect` and `WithinLimitsCorrect`, by `Counted`: headroom plus ingress of a priority is what it has queued, and the shared
   counter is the sum of what each has above its reserve. Admission, `UpdateIngressAdmission` and dequeue
   each charge in another way; `Sound` is what they all keep. From it `TypeCorrect`: an ingress counter, which is a word and would wrap
   unnoticed, stays within the reserve and the pool.
4. `PauseHasCauseCorrect`: headroom in use implies a pause, a pause implies a packet.
5. `LosslessCorrect`, by `HeadroomClaimed`: headroom in use, plus what is on the link, plus what the
   neighbour may still start until the last PAUSE frame reaches it, never exceeds the headroom.

`BufferFits` (the buffer holds the headrooms and reserves, and no sum wraps) and `HeadroomSuffices` stand in the
properties themselves: they are what an operator has to configure, and nothing in the code tests them. The sizes are any,
although the run has packets of one size.

### Message matching (`FlowMatchProofs`)

For any lists of messages and receives:

* `TypeCorrect`, `NeverBothCorrect`: without further hypothesis.
* `HandlersOnceCorrect`, under `OwnCallbacks`: the send-complete callback of a queue pair runs once, or no
  flow starts a message while its last queue pair lives. The callback is found by flow id, so otherwise a
  repeated one is taken for the next message's. The invariant is `RecvOnce /\ SendInv`; `SendInv` follows a message
  from `SendFlow` through its registered handler to the call (`PendingEntries`, `ToSent`, `Reported`), and needs that messages of a flow start in order.
* `ServedByTheByteCorrect`, under `~Overlap`, which is what `NcclFlowModel` guarantees (`NoOverlap`): the invariant adds `ToNotify`, that
  `waiting_to_notify_receiver` counts the flow's one live message and no bytes are left between two.
* `RightFlowTagCorrect`, under `~Overlap` and `OneFlow`: where the messages and receives of a tag all have one size, the messages are
  of one flow. A tag is a layer, a channel and a chunk, and a ring has one flow of these between two ranks. By
  `WholeMessages` the bytes of such a tag are so many per finished message and per served receive, so the invariant `AllTagged` is about
  whole messages: at most one waits in `recvHash`, with its flow in `receiver_pending_queue`. That a second one cannot come
  before it is taken follows from the order in which receives are posted (`RecvOrder`) and in which
  they let the flow's next message start (`PostedBefore`).

### Collectives (`NcclFlowModelProofs`)

For any ranks, rounds and well-formed flow graphs, under `OneThread`: with more, `nccl_threads` shows that a rank may leave twice.

* `InvariantCorrect`, where no receive is posted twice in a round with packets still to come (`PostedOnce`: one flow asks for it,
  or it is the only one between its two ranks on the channel, and `free_packets` tells). The invariant is `IInv`:
  - `Rounded`: a rank is in one round, or has ended it with nothing left to send or receive, and its counters are the
    cardinalities that `Conservation` states;
  - `Handlers`: one handler runs, except that `ready()` runs those of messages that are there already;
  - `Waiting`: the indegree of a flow is the number of its parents that have not come in the round of its source, and while
    it is positive the flow waits;
  - `Receiving`: a destination has counted each flow in its round or is one behind, and a registered or running receive is of the round it is in;
  - `Posting`: a receive that one flow alone asks for is not posted before that flow is ready.
* `TypeCorrect`, `ConservationCorrect`, `NoStaleReceiveCorrect`, `ExitOnceCorrect`: from it.
* `LeavesTogetherCorrect`, where what a rank receives depends on all (`Gathers`): the refinement of `AbstractCollective`. A flow that was counted `n` times
  was sent `n` times, so its parents were counted `n` times; hence so was all of its `Past`, and their sources have entered `n` rounds.
* `NoOverlapCorrect`, where a flow comes back before it goes again (`ComesBack`): with its second invariant `OneMessage`, that a
  flow's earlier message was counted before the next is sent. Either the destination is in the flow's own past, or
  what the source received before it could leave the last round had waited for the flow.

`Past` is the least set closed under parents, rather than the transitive closure by recursion: what all of it has in common
follows from the definition, without an induction.

### Generated graphs (`NcclFlowModelProofs`, second part)

For any finite group and any rings on which the ranks stand in some order (`AreRings`, as `genringchannels` makes them):

* `AllReduceFlowsCorrect`, `HalfRingFlowsCorrect`, `AlltoAllFlowsCorrect`: the graphs are well-formed, their receives are posted
  once, and they gather; the flows of the all-reduce come back, those of all-to-all wait for nothing and are run once.
  In `2N - 2` steps either `N - 1` lie before a flow, and its destination is among those it waited for, or `N - 1` lie after it, and what its
  source receives then has waited for it (`RingComesBack`). That a rank is reached in `j` steps is about a place in an order (`Before`).
* `CollectivesCorrect`, `MessagesApart`: the theorems about `NcclFlowModel` without their hypotheses on graphs.

Reduce-scatter and all-gather have `N - 1` steps, and their flows do not come back: with three ranks TLC finds two messages
of a flow under way when an all-gather is issued again at once, while all other properties hold. So `MessagesApart` leaves them out.

### vidur's pipelines (`VidurSimulatorProofs`, `LoopTheorems`)

For any set of configurations that `ConfigsAssumption` admits: any requests, replicas and stages, each of the six replica schedulers and
every global one.

* `PipelineInvariant`: `Spec => []Inv`, with `Inv == Typed /\ Counted`;
* `PipelineFIFOCorrect`: `Spec => PipelineFIFO`, the refinement of `AbstractPipeline`. A batch leaves a replica only when
  it is the oldest there, none is lost, doubled or overtaken, and there are never more than stages.

`PipelineFIFO` is not inductive. `Typed` says that events, queues and stages hold known requests and batches of them, and which kinds of events wait
for a later time. `Counted` says the two things the order rests on: `_num_running_batches` is the number of batches in the pipeline and
at most the number of stages, and a stage is busy exactly when one event that ends a batch on it is still to come. The first bounds what
`on_schedule` may add; the second is why a stage that takes a batch has none under way, and why events that become due in
any order cannot change the order of the batches on a stage (`SplitBatches`, `FlowAdvance`).

A pipeline is seen as a `Row` of sequences, one for each stage from the last to the first, after the batches that are done. What a
handler does to it is one of five lemmas: nothing (`FlowApart`), a batch comes in (`FlowEnter`), moves from the queue of a stage to its execution (`FlowTake`),
goes on to the next stage or to its end (`FlowEnd`, `FlatMove`), or leaves (`FlowLeave`).

What a scheduler does to its own lists enters by `Fit`: a handler under way has known requests in all of them, and has counted so many batches.
Every turn of every loop keeps it, and `ForEachKeeps` of `LoopTheorems` makes a statement about the loop out of that. The loop is a fold of the
community modules, over an operator; the module takes the turn, and what it keeps, as constants, and each loop is an instance of it.

### Sums (`SumTheorems`)

`PfcSwitch` and `FlowMatch` count bytes with the sums of the community modules, and the library states nothing of them.
`SumRemove` (any element can be split off) and the rest are proved from the definition by taking a minimal
counterexample among the subsets of a finite set (`LeastException`), because the library's induction
theorems take an operator that the provers cannot instantiate.

### What is only model-checked, and why

* All liveness: `Completes`, `Settles`, `AllSent`, `PausedIsResumed`, `AllServed`, `AllLeave`, `AllComplete`. Fairness and
  `ENABLED` are beyond the prover.
* Of `VidurSimulator`, `TypeOK`, `OnePlace`, `MemoryAccounted`, `AssertionsHold`, `Drained` and `OldestKeepsBlocks`. `PipelineInvariant` gives
  the part of `TypeOK` about queues and running batches. The rest (the blocks of a pool, the tokens of a request) and the other properties are one induction: a request is
  in one place because its blocks are, and no assertion fails because of both, under each of six admission rules. It needs what each turn of each loop does to
  the sum of blocks and to the place of a request, where `Fit` says only what it leaves in the lists.
* The properties that runs show to be violated, and `ExitOnce` with threads.

## 6. Findings

1. `rdma_window`: after a late rewind `snd_nxt` can be behind `snd_una`; `GetOnTheFly` wraps.
   The stall this causes is one of the causes in `StallCauses`; that it also silences a completed
   queue pair is proved.
2. `flow_match_resend`: a repeated send-complete callback leaves bytes behind that spoil the next
   message of the flow.
3. `nccl_threads`: with threads, two handlers can both find a collective finished and both leave it.
4. `vidur_leak`: FasterTransformer frees the last batch only; requests that ended earlier keep their
   blocks, and the simulator's final assertion fails.
5. `vidur_early_decode`: a decode replica may start a request before its key-value cache has arrived:
   the request is in its queue, and the check of the time is commented out.
6. `vidur_restart`: a restart in the middle of a prompt, which only Sarathi makes, cuts the prompt.

One more disagreement has no run of its own, since the models contain it as an outcome of an action. `QbbNetDevice::Resume` (`qbb-net-device.cc:463`) takes the
priority of the RESUME, 3 for all data, for the index of a queue pair of the device, and looks into what it finds before it
transmits, where `qbb-net-device.h:154` says "Resume a paused queue and call DequeueAndTransmit()". A host with three queue pairs or fewer reads behind the end of its group,
and may die of it. On a switch the line follows a null pointer, since only `RdmaHw::Setup` sets `m_qpGrp` and
no `RdmaHw` is installed there (`common.h:902`): the first RESUME that one switch sends another ends the program. Every variable `crashed` is this.

## 7. Not modelled

Congestion-control arithmetic (rates are floats; only the window they leave is kept); ECN, INT
and PINT headers; ECMP; the high-priority queue of ACKs in a host; NVLS, PXN, tree and PAT graphs; network
set-up and routing tables; `Sys`, scheduler and workload loop; LogGP and memory bus delays; the analytical
front end (formulas); the physical front end (ibverbs and MPI); stock ns-3; aicb; of vidur the memory
planner, execution-time prediction, request generators, metrics and the time limit. The
reasons are with the components in `PROJECT.json`.

Only `NicEgress` has a clock, in ticks of a packet's time on the link. The others leave out real time: a pacing delay, a pause or another queue pair only
delays a transmission, so every order the timing could produce is an order of the model, and
some of the model's are orders that particular delays exclude.

## 8. Plan

Model, in this order:

1. `FlowCritical`: the lock of `FlowCriticalSection` with its double release; mutual exclusion.
2. `SysStreams`: ready list, active streams, `proceed_to_next_vnet_baseline`, the event queue;
   composed with `NcclFlowModel` in place of its `started`/`exits`.
3. `LayerLoop`: the training loop per rank on top of it; every rank finishes every pass.
4. The waiting list and `init_recv_ready` in `NcclFlowModel`, with the tree, PXN, NVLS and PAT graphs.
5. `FlowMatch` over `RdmaQp` (several messages with a loss) as one composition.
6. DCQCN timers of `RdmaHw` as a state machine; the end of all timers after completion.
7. aicb's pipeline schedules (1F1B), as an order of sends and receives between stages that cannot block.

Prove, in this order: `MemoryAccounted` with `OnePlace`, by a stronger `Fit` that follows blocks and places through a loop; then `AssertionsHold`, scheduler by
scheduler; `SysStreams` as it is written.
