------------------------------- MODULE PfcSwitch ------------------------------
(***************************************************************************)
(* A switch of the ns-3 back end: the shared buffer (SwitchMmu), admission *)
(* and priority flow control (SwitchNode), the egress queues of its        *)
(* devices, and what the neighbours on the other end of its links do with  *)
(* the PAUSE frames they are sent (QbbNetDevice::Receive, Resume).         *)
(*                                                                         *)
(* Queue 0 (PFC, and ACKs when they have priority) bypasses the buffer     *)
(* accounting and is never paused, so only the lossless queues are kept,   *)
(* and the PAUSE frames of a port are a FIFO of their own.  A device sends *)
(* at some time after it has something to send; which unpaused queue comes *)
(* next is left open (the code goes round them).  ECN marking changes a    *)
(* header only.                                                            *)
(*                                                                         *)
(* A definition that stands right before the one whose name its own name   *)
(* extends is that definition with a plausible fault.                      *)
(***************************************************************************)
EXTENDS Integers, Sequences, FiniteSetsExt

CONSTANTS
  Ports,        \* the devices of the switch, 1 .. n in the code
  Queues,       \* priorities other than 0
  Hosts,        \* the ports whose neighbour is a host; the others' is a switch
  Routes,       \* <<in, out>> pairs of ports the traffic takes
  Sizes,        \* packet sizes, bytes
  BufferSize,   \* buffer_size
  Reserve,      \* reserve
  ResumeOffset, \* resume_offset
  Headroom,     \* headroom[port]
  Shift,        \* pfc_a_shift[port]
  U32,          \* 2^32 in the code
  WireCap,      \* bound: packets on the wire of one port
  PfcLag        \* bound: packets a neighbour still starts while a frame is on its way

ASSUME PortsAssumption ==
  /\ IsFiniteSet(Ports) /\ Ports # {} /\ Routes \subseteq Ports \X Ports
  /\ Hosts \subseteq Ports
  /\ IsFiniteSet(Queues)
ASSUME SizesAssumption ==
  /\ Sizes \subseteq Nat \ {0}
  /\ \E size \in Sizes : \A other \in Sizes : other <= size
ASSUME BufferAssumption ==
  /\ U32 \in Nat \ {0}
  /\ {BufferSize, Reserve, ResumeOffset} \subseteq 0 .. U32 - 1
  /\ Headroom \in [Ports -> 0 .. U32 - 1]
  /\ Shift \in [Ports -> Nat]
ASSUME LinkAssumption == WireCap \in Nat /\ PfcLag \in Nat

VARIABLES
  mmu,     \* shared_used_bytes; ingress_bytes, hdrm_bytes, egress_bytes, paused
  outq,    \* the egress queues of each port
  sent,    \* ports and queues a packet has left by
  held,    \* m_paused of each port: what its neighbour has paused
  wire,    \* packets on their way into each port
  pfc,     \* PAUSE and RESUME frames on their way to each port's neighbour
  stopped, \* m_paused of each port's neighbour
  crashed, \* the program has died in QbbNetDevice::Resume
  drops    \* packets CheckIngressAdmission refused

vars == <<mmu, outq, sent, held, wire, pfc, stopped, crashed, drops>>

PQ == Ports \X Queues

-------------------------------------------------------------------------------
\* SwitchMmu.  All its counters are uint32_t.

Plus(a, b) == (a + b) % U32
Minus(a, b) == (a - b) % U32
Least(a, b) == IF a <= b THEN a ELSE b

\* ConfigNPort
TotalHdrm == SumFunction(Headroom) % U32
TotalRsrv == (Cardinality(Ports) * Reserve) % U32

GetSharedUsed(m, i) ==
  IF m.ingress[i] > Reserve THEN m.ingress[i] - Reserve ELSE 0

GetPfcThreshold(m, p) ==
  Minus(Minus(Minus(BufferSize, TotalHdrm), TotalRsrv), m.shared) \div 2 ^ Shift[p]

CheckIngressAdmission(m, i, psize) ==
  \/ Plus(psize, m.hdrm[i]) <= Headroom[i[1]]
  \/ Plus(psize, GetSharedUsed(m, i)) <= GetPfcThreshold(m, i[1])

UpdateIngressAdmissionOwn(m, i, psize) ==
  LET new == Plus(m.ingress[i], psize)
  IN  IF new <= Reserve THEN [m EXCEPT !.ingress[i] = new]
      ELSE IF new - Reserve > GetPfcThreshold([m EXCEPT !.shared = 0], i[1])
      THEN [m EXCEPT !.hdrm[i] = Plus(@, psize)]
      ELSE [m EXCEPT !.ingress[i] = new,
                     !.shared = Plus(@, Least(psize, new - Reserve))]
UpdateIngressAdmission(m, i, psize) ==
  LET new == Plus(m.ingress[i], psize)
  IN  IF new <= Reserve THEN [m EXCEPT !.ingress[i] = new]
      ELSE IF new - Reserve > GetPfcThreshold(m, i[1])
      THEN [m EXCEPT !.hdrm[i] = Plus(@, psize)]
      ELSE [m EXCEPT !.ingress[i] = new,
                     !.shared = Plus(@, Least(psize, new - Reserve))]

UpdateEgressAdmission(m, i, psize) == [m EXCEPT !.egress[i] = @ + psize]

RemoveFromIngressAdmissionPooled(m, i, psize) ==
  LET fromHdrm == Least(m.hdrm[i], psize)
      fromShared == Least(psize, GetSharedUsed(m, i))
  IN  [m EXCEPT !.hdrm[i] = Minus(@, fromHdrm),
                !.ingress[i] = Minus(@, psize - fromHdrm),
                !.shared = Minus(@, fromShared)]
RemoveFromIngressAdmissionWhole(m, i, psize) ==
  LET fromHdrm == Least(m.hdrm[i], psize)
      fromShared == Least(psize - fromHdrm, GetSharedUsed(m, i))
  IN  [m EXCEPT !.hdrm[i] = Minus(@, fromHdrm),
                !.ingress[i] = Minus(@, psize),
                !.shared = Minus(@, fromShared)]
RemoveFromIngressAdmission(m, i, psize) ==
  LET fromHdrm == Least(m.hdrm[i], psize)
      fromShared == Least(psize - fromHdrm, GetSharedUsed(m, i))
  IN  [m EXCEPT !.hdrm[i] = Minus(@, fromHdrm),
                !.ingress[i] = Minus(@, psize - fromHdrm),
                !.shared = Minus(@, fromShared)]

RemoveFromEgressAdmission(m, i, psize) == [m EXCEPT !.egress[i] = @ - psize]

CheckShouldPauseAlways(m, i) ==
  m.hdrm[i] > 0 \/ GetSharedUsed(m, i) >= GetPfcThreshold(m, i[1])
CheckShouldPauseLate(m, i) == ~m.paused[i] /\ m.hdrm[i] > Headroom[i[1]] \div 2
CheckShouldPause(m, i) ==
  /\ ~m.paused[i]
  /\ m.hdrm[i] > 0 \/ GetSharedUsed(m, i) >= GetPfcThreshold(m, i[1])

CheckShouldResumeBelow(m, i) ==
  /\ m.paused[i]
  /\ m.hdrm[i] = 0
  /\ Plus(GetSharedUsed(m, i), ResumeOffset) <= GetPfcThreshold(m, i[1])
CheckShouldResume(m, i) ==
  /\ m.paused[i]
  /\ m.hdrm[i] = 0
  /\ \/ GetSharedUsed(m, i) = 0
     \/ Plus(GetSharedUsed(m, i), ResumeOffset) <= GetPfcThreshold(m, i[1])

-------------------------------------------------------------------------------
Init ==
  /\ mmu = [shared |-> 0,
            ingress |-> [i \in PQ |-> 0], hdrm |-> [i \in PQ |-> 0],
            egress |-> [i \in PQ |-> 0], paused |-> [i \in PQ |-> FALSE]]
  /\ outq = [i \in PQ |-> <<>>]
  /\ sent = {}
  /\ held = [i \in PQ |-> FALSE]
  /\ wire = [p \in Ports |-> <<>>]
  /\ pfc = [p \in Ports |-> <<>>]
  /\ stopped = [i \in PQ |-> FALSE]
  /\ crashed = FALSE
  /\ drops = 0

\* QbbNetDevice::SendPfc puts the frame in queue 0 of the device.
SendPfc(i, pause) ==
  pfc' = [pfc EXCEPT ![i[1]] = Append(@, [q |-> i[2], pause |-> pause, age |-> 0])]

\* The neighbour on port p starts a packet of a queue it has not been told to
\* stop (RdmaEgressQueue::GetNextQindex, BEgressQueue::DequeueRR).  The link
\* holds WireCap packets, and a frame reaches the neighbour before it has
\* started more than PfcLag of them.
NeighbourSends(p) ==
  /\ Len(wire[p]) < WireCap
  /\ \A k \in DOMAIN pfc[p] : pfc[p][k].age < PfcLag
  /\ \E q \in Queues, size \in Sizes, r \in Routes :
       /\ r[1] = p
       /\ ~stopped[p, q]
       /\ wire' = [wire EXCEPT ![p] = Append(@, [q |-> q, size |-> size, out |-> r[2]])]
  /\ LET aged == [k \in DOMAIN pfc[p] |-> [pfc[p][k] EXCEPT !.age = @ + 1]]
     IN  pfc' = [pfc EXCEPT ![p] = aged]
  /\ UNCHANGED <<mmu, outq, sent, held, stopped, crashed, drops>>

\* SwitchNode::SendToDev: admission, accounting, CheckAndSendPfc, enqueue.
SendToDev(p) ==
  /\ wire[p] # <<>>
  /\ wire' = [wire EXCEPT ![p] = Tail(@)]
  /\ LET pkt == Head(wire[p])
         i == <<p, pkt.q>>
         o == <<pkt.out, pkt.q>>
         m == UpdateEgressAdmission(UpdateIngressAdmission(mmu, i, pkt.size), o, pkt.size)
     IN  IF CheckIngressAdmission(mmu, i, pkt.size)
         THEN /\ outq' = [outq EXCEPT ![o] = Append(@, [in |-> p, size |-> pkt.size])]
              /\ IF CheckShouldPause(m, i)
                 THEN SendPfc(i, TRUE) /\ mmu' = [m EXCEPT !.paused[i] = TRUE]
                 ELSE mmu' = m /\ UNCHANGED pfc
              /\ UNCHANGED drops
         ELSE drops' = 1 /\ UNCHANGED <<mmu, outq, pfc>>
  /\ UNCHANGED <<sent, held, stopped, crashed>>

\* BEgressQueue::DequeueRR takes a packet, and SwitchNode::SwitchNotifyDequeue
\* gives its bytes back and may let the neighbour it came from go on.
Dequeue(o) ==
  /\ outq[o] # <<>>
  /\ ~held[o]
  /\ outq' = [outq EXCEPT ![o] = Tail(@)]
  /\ sent' = sent \cup {o}
  /\ LET pkt == Head(outq[o])
         i == <<pkt.in, o[2]>>
         m == RemoveFromEgressAdmission(RemoveFromIngressAdmission(mmu, i, pkt.size), o, pkt.size)
     IN  IF CheckShouldResume(m, i)
         THEN SendPfc(i, FALSE) /\ mmu' = [m EXCEPT !.paused[i] = FALSE]
         ELSE mmu' = m /\ UNCHANGED pfc
  /\ UNCHANGED <<held, wire, stopped, crashed, drops>>

\* What QbbNetDevice::Resume may leave behind.  It takes the priority for the
\* index of a queue pair of its device.  A host may have too few queue pairs,
\* and dies of that or goes on (NicEgress); the devices of a switch have no
\* group of queue pairs at all, and the null pointer ends the program.
MayCrash(host) == IF host THEN BOOLEAN ELSE {TRUE}

\* QbbNetDevice::Receive of the neighbour: a PAUSE sets m_paused whatever its
\* duration says (there is no timer), a RESUME clears it and calls Resume.
NeighbourReceivesPfc(p) ==
  /\ pfc[p] # <<>>
  /\ pfc' = [pfc EXCEPT ![p] = Tail(@)]
  /\ LET frame == Head(pfc[p])
     IN  /\ stopped' = [stopped EXCEPT ![<<p, frame.q>>] = frame.pause]
         /\ crashed' \in IF frame.pause THEN {FALSE} ELSE MayCrash(p \in Hosts)
  /\ UNCHANGED <<mmu, outq, sent, held, wire, drops>>

\* The neighbour a port sends to pauses it, or lets it go on.  Only a switch
\* sends PFC frames, and only for what it was sent.
ReceivePause(o) ==
  /\ ~held[o]
  /\ o[1] \notin Hosts
  /\ o \in sent
  /\ held' = [held EXCEPT ![o] = TRUE]
  /\ UNCHANGED <<mmu, outq, sent, wire, pfc, stopped, crashed, drops>>

Resume(o) ==
  /\ held[o]
  /\ held' = [held EXCEPT ![o] = FALSE]
  /\ crashed' \in MayCrash(FALSE)
  /\ UNCHANGED <<mmu, outq, sent, wire, pfc, stopped, drops>>

Next ==
  /\ ~crashed
  /\ \/ \E p \in Ports : NeighbourSends(p) \/ SendToDev(p) \/ NeighbourReceivesPfc(p)
     \/ \E o \in PQ : Dequeue(o) \/ ReceivePause(o) \/ Resume(o)

Spec == Init /\ [][Next]_vars

\* Packets and frames on a link arrive, a device that may send does, and a
\* neighbour that pauses this switch sends it a RESUME in the end.
FairSpec ==
  /\ Spec
  /\ \A p \in Ports : /\ WF_vars(~crashed /\ SendToDev(p))
                      /\ WF_vars(~crashed /\ NeighbourReceivesPfc(p))
  /\ \A o \in PQ : WF_vars(~crashed /\ Dequeue(o)) /\ WF_vars(~crashed /\ Resume(o))

-------------------------------------------------------------------------------
Bytes(s) == SumFunction([k \in DOMAIN s |-> s[k].size])

BytesFrom(s, p) == SumFunction([k \in DOMAIN s |-> IF s[k].in = p THEN s[k].size ELSE 0])

QueuedFrom(i) == SumFunction([p \in Ports |-> BytesFrom(outq[p, i[2]], i[1])])

Pool == BufferSize - TotalHdrm - TotalRsrv

\* The buffer holds every port's headroom and reserve, and no sum of a counter
\* and a packet wraps.  No code tests it; the sizes are configured.
BufferFits ==
  /\ SumFunction(Headroom) + Cardinality(Ports) * Reserve <= BufferSize
  /\ \A size \in Sizes : BufferSize + size < U32

Typed ==
  /\ mmu \in [shared : 0 .. U32 - 1,
              ingress : [PQ -> 0 .. U32 - 1], hdrm : [PQ -> 0 .. U32 - 1],
              egress : [PQ -> Nat], paused : [PQ -> BOOLEAN]]
  /\ outq \in [PQ -> Seq([in : Ports, size : Sizes])]
  /\ sent \subseteq PQ
  /\ held \in [PQ -> BOOLEAN]
  /\ wire \in [Ports -> Seq([q : Queues, size : Sizes, out : Ports])]
  /\ pfc \in [Ports -> Seq([q : Queues, pause : BOOLEAN, age : 0 .. PfcLag])]
  /\ stopped \in [PQ -> BOOLEAN]
  /\ crashed \in BOOLEAN
  /\ drops \in {0, 1}

\* The variables have their types, with the counters of SwitchMmu as machine
\* words, and no egress counter goes below 0.  That ingress_bytes, which several
\* calls add to and take from, stays within the reserve and the pool says that
\* it never wraps: what it wraps to is beyond the buffer.
TypeOK ==
  /\ Typed
  /\ BufferFits => \A i \in PQ : mmu.ingress[i] <= Reserve + Pool

\* SwitchMmu's counters say what is in the queues: every byte of a port and
\* queue is counted once, as headroom or as ingress, every byte of an egress
\* queue once, and the shared pool holds exactly what the ports use beyond
\* their reserve.  A dequeue gives back headroom first, whatever the packet was
\* charged to, so no single call keeps this.
Accounting ==
  /\ \A o \in PQ : mmu.egress[o] = Bytes(outq[o])
  /\ BufferFits =>
       /\ \A i \in PQ : mmu.hdrm[i] + mmu.ingress[i] = QueuedFrom(i)
       /\ mmu.shared = SumFunction([i \in PQ |-> GetSharedUsed(mmu, i)])

\* Neither the shared pool nor a headroom is ever overdrawn, although the three
\* tests of admission, of UpdateIngressAdmission and of the pause compare
\* different sums; and the unsigned threshold never wraps.
WithinLimits ==
  BufferFits =>
    /\ mmu.shared <= Pool
    /\ \A i \in PQ : mmu.hdrm[i] <= Headroom[i[1]]

\* A port whose headroom is in use is paused, and a paused port has a packet in
\* the switch: the resume is looked for only when a packet leaves
\* (SwitchNode::SwitchNotifyDequeue), so without one it would never come.
PauseHasCause ==
  \A i \in PQ :
    /\ mmu.hdrm[i] > 0 => mmu.paused[i]
    /\ BufferFits /\ mmu.paused[i] => QueuedFrom(i) > 0

\* The frames of a queue that are on the way to its neighbour.
Frames(i) == {k \in DOMAIN pfc[i[1]] : pfc[i[1]][k].q = i[2]}

\* What the neighbour will have been told when the frames on the way have
\* arrived is what the switch thinks it told it, and PAUSE and RESUME alternate:
\* QbbNetDevice::Resume asserts "Must be PAUSEd".
PauseChain ==
  \A i \in PQ :
    LET says(k) == pfc[i[1]][k].pause
    IN  /\ Frames(i) = {} => mmu.paused[i] = stopped[i]
        /\ \A k \in Frames(i) :
             LET earlier == {j \in Frames(i) : j < k}
                 later == {j \in Frames(i) : j > k}
             IN  /\ earlier = {} => says(k) # stopped[i]
                 /\ later = {} => says(k) = mmu.paused[i]
                 /\ \A j \in earlier :
                      (\A l \in earlier : l <= j) => says(k) # says(j)

\* A headroom that takes the packet that triggers the pause, those behind it on
\* the link and those the neighbour starts before the frame reaches it is enough:
\* the switch drops nothing, however the shared pool is used by other ports.
HeadroomSuffices ==
  \A r \in Routes : \A size \in Sizes : (WireCap + PfcLag) * size <= Headroom[r[1]]

Lossless == HeadroomSuffices => drops = 0

\* A neighbour that was told to stop is let go on, unless the program dies in
\* somebody's Resume: the RESUME is decided when a packet leaves and is never
\* forgotten.
PausedIsResumed == \A i \in PQ : stopped[i] ~> ~stopped[i] \/ crashed
===============================================================================
