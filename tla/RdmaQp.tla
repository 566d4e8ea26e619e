-------------------------------- MODULE RdmaQp --------------------------------
(***************************************************************************)
(* One RDMA queue pair of the ns-3 back end: the go-back-N sender          *)
(* (RdmaQueuePair, RdmaHw, the egress side of QbbNetDevice), the receiver  *)
(* (RdmaRxQueuePair, RdmaHw::ReceiveUdp) and the two directions of the     *)
(* path between them.                                                      *)
(*                                                                         *)
(* A flow has one path (ECMP hashes the five-tuple), so each direction is  *)
(* a FIFO.  The error model drops a packet at the device that receives it; *)
(* on a FIFO a drop anywhere on the path is a drop at the head.            *)
(*                                                                         *)
(* Time is abstract: m_nextAvail pacing and a PFC pause only delay a call  *)
(* of DequeueAndTransmit (see NicEgress), and the NACK timer runs out at   *)
(* any moment after it was set.  The events of other queue pairs of the    *)
(* NIC call the device too, so this one may transmit at any time; what its *)
(* own events owe it is kept in triggered.  Of the congestion control only *)
(* the window it leaves is kept: an ACK may carry a CNP, a decrease timer  *)
(* that finds one lowers the rate, and it may rise again.                  *)
(*                                                                         *)
(* A definition that stands right before the one whose name its own name   *)
(* extends (IsTailUpTo before IsTail) is that definition with a plausible  *)
(* fault; no specification uses it, PROJECT.json lists what it breaks.     *)
(***************************************************************************)
EXTENDS Integers, Sequences

CONSTANTS
  Size,        \* m_size, bytes of the flow
  Mtu,         \* m_mtu, PACKET_PAYLOAD_SIZE
  Windows,     \* values GetWin() takes as m_rate moves; {0} with HAS_WIN 0
  AckInterval, \* m_ack_interval
  Chunk,       \* m_chunk
  BackTo0,     \* m_backto0
  TailMin,     \* the send-complete callback is scheduled for payloads strictly
  TailMax,     \*   between these (60 and 9000 less the headers)
  U32, U64,    \* 2^32 and 2^64 in the code
  MaxLoss      \* bound: packets the links drop in one behaviour

ASSUME SizeAssumption == Size \in Nat \ {0}
ASSUME MtuAssumption == Mtu \in Nat \ {0}
ASSUME WindowsAssumption ==
  /\ Windows \subseteq Nat
  /\ \E w \in Windows : \A v \in Windows : v <= w
ASSUME ReceiverAssumption ==
  /\ AckInterval \in Nat
  /\ Chunk \in Nat \ {0}
  /\ BackTo0 \in BOOLEAN
ASSUME TailAssumption == TailMin \in Nat /\ TailMax \in Nat
ASSUME WidthAssumption ==
  /\ U32 \in Nat \ {0}
  /\ U64 \in Nat
  /\ \A w \in Windows : w + Size < U64
ASSUME LossAssumption == MaxLoss \in Nat

VARIABLES
  qp,     \* sender: snd_nxt, snd_una, GetWin(), m_decrease_cnp_arrived, and
          \*   whether it is in m_qpMap (live) or has completed
  nic,    \* the packet m_currentPkt being serialised, or Idle (READY)
  triggered, \* the queue pair's own events still owe it a call of
          \*   DequeueAndTransmit that its pace and a pause no longer hold up
  rx,     \* receiver: ReceiverNextExpectedSeq, m_nackTimer running, m_lastNACK
  data,   \* packets on the way to the receiver
  acks,   \* ACKs and NACKs on the way to the sender
  sent,   \* calls of m_sendCompleteCallback
  hist    \* history: losses, what became of the last packet of each direction

vars == <<qp, nic, triggered, rx, data, acks, sent, hist>>

Idle == [seq |-> 0, len |-> 0]

Verdicts == {"None", "Ack", "Nack", "Duplicate", "Suppressed", "NoAckYet"}
Fates == {"None", "Arrived", "Lost"}

\* A receiver queue pair as GetRxQp creates it.  RdmaHw::DeleteRxQp and a
\* later GetRxQp(create) lead back to it, so no entry and a fresh entry are
\* one state here.
FreshRx == [next |-> 0, timer |-> FALSE, lastNack |-> 0]

-------------------------------------------------------------------------------
\* RdmaQueuePair

\* m_rate starts at m_max_rate.
MaxWindow == CHOOSE w \in Windows : \A v \in Windows : v <= w

GetBytesLeft(q) == IF Size >= q.nxt THEN Size - q.nxt ELSE 0

\* The next packet carries a full MTU, the last one what is left.
PayloadSizeUncut(q) == Mtu
PayloadSize(q) == IF Mtu < GetBytesLeft(q) THEN Mtu ELSE GetBytesLeft(q)

\* uint64_t: a snd_una beyond snd_nxt wraps.
GetOnTheFlySaturated(q) == IF q.nxt > q.una THEN q.nxt - q.una ELSE 0
GetOnTheFly(q) == (q.nxt - q.una) % U64

IsWinBound(q) == q.win # 0 /\ GetOnTheFly(q) >= q.win

IsFinishedWhenSent(q) == q.nxt >= Size
IsFinishedBeyond(q) == q.una > Size
IsFinished(q) == q.una >= Size

Acknowledge(q, ack) == IF ack > q.una THEN [q EXCEPT !.una = ack] ELSE q

RecoverQueuePastIt(q) == [q EXCEPT !.nxt = q.una + Mtu]
RecoverQueue(q) == [q EXCEPT !.nxt = q.una]

\* seq / m_chunk * m_chunk under go-back-to-zero.
GoBack(seq) == IF BackTo0 THEN (seq \div Chunk) * Chunk ELSE seq

\* What the sender takes from an acknowledgement that says seq: under
\* go-back-to-zero a flow completes only if its size is a multiple of m_chunk.
AckedSeq(seq) == GoBack(seq)

-------------------------------------------------------------------------------
\* RdmaHw::ReceiverCheckSeq.  m_milestone_rx is set to m_ack_interval before
\* every call, so the milestone is always m_ack_interval itself.

AckDueOnChunks(next) == next % Chunk = 0
AckDue(next) == next >= AckInterval \/ next % Chunk = 0

NackDue(r) == ~r.timer \/ r.lastNack # r.next

CheckVerdict(r, p) ==
  IF p.seq = r.next
  THEN IF AckDue(r.next + p.len) THEN "Ack" ELSE "NoAckYet"
  ELSE IF p.seq < r.next THEN "Duplicate"
  ELSE IF NackDue(r) THEN "Nack" ELSE "Suppressed"

CheckRxFallsBack(r, p) ==
  CASE p.seq = r.next -> [r EXCEPT !.next = @ + p.len]
    [] p.seq > r.next /\ NackDue(r) ->
         [next |-> (r.next \div Chunk) * Chunk, timer |-> TRUE, lastNack |-> r.next % U32]
    [] OTHER -> r
CheckRx(r, p) ==
  CASE p.seq = r.next -> [r EXCEPT !.next = @ + p.len]
    [] p.seq > r.next /\ NackDue(r) ->
         [next |-> GoBack(r.next), timer |-> TRUE, lastNack |-> r.next % U32]
    [] OTHER -> r

-------------------------------------------------------------------------------
Init ==
  /\ qp = [nxt |-> 0, una |-> 0, live |-> TRUE, win |-> MaxWindow, cnp |-> FALSE]
  /\ nic = Idle
  /\ triggered = TRUE
  /\ rx = FreshRx
  /\ data = <<>>
  /\ acks = <<>>
  /\ sent = 0
  /\ hist = [lost |-> 0, data |-> "None", ctl |-> "None", verdict |-> "None"]

\* What GetNextQindex asks of a queue pair; m_qpMap plays no part, the NIC holds
\* the queue pair in its own group.
Sendable == GetBytesLeft(qp) > 0 /\ ~IsWinBound(qp)

\* The device picks this queue pair and RdmaHw::GetNxtPacket cuts its next packet.
GetNxtPacket ==
  /\ Sendable
  /\ nic' = [seq |-> qp.nxt, len |-> PayloadSize(qp)]
  /\ qp' = [qp EXCEPT !.nxt = @ + PayloadSize(qp)]

\* A call that finds the queue pair without bytes or window is over: the device
\* sets no event for it.  (It also removes a finished queue pair it finds so.)
NoPacketToSend ==
  /\ triggered /\ ~Sendable
  /\ UNCHANGED <<qp, nic>>

\* QbbNetDevice::DequeueAndTransmit on a device that is READY.
DequeueAndTransmit ==
  /\ nic = Idle
  /\ GetNxtPacket \/ NoPacketToSend
  /\ triggered' = FALSE
  /\ UNCHANGED <<rx, data, acks, sent, hist>>

\* QbbNetDevice::TransmitStart takes a packet of this size for the last one of
\* its queue pair.
IsTailUpTo(p) == p.len > TailMin /\ p.len <= TailMax
IsTail(p) == p.len > TailMin /\ p.len < TailMax

\* The packet has left the device: QbbNetDevice::SendCallback reaches
\* RdmaHw::SendPacketComplete (which looks the queue pair up in m_qpMap), then
\* TransmitComplete makes the device READY and calls DequeueAndTransmit.
TransmitComplete ==
  /\ nic # Idle
  /\ data' = Append(data, nic)
  /\ nic' = Idle
  /\ sent' = IF IsTail(nic) /\ qp.live THEN sent + 1 ELSE sent
  /\ triggered' = TRUE
  /\ UNCHANGED <<qp, rx, acks, hist>>

\* RdmaHw::ReceiveUdp: the check, and an ACK or NACK for ReceiverNextExpectedSeq
\* as the check leaves it.
ReceiveUdp ==
  /\ data # <<>>
  /\ data' = Tail(data)
  /\ LET p == Head(data)
         verdict == CheckVerdict(rx, p)
         r == CheckRx(rx, p)
     IN  /\ rx' = r
         /\ acks' = IF verdict \in {"Ack", "Nack"}
                    THEN Append(acks, [kind |-> verdict, seq |-> r.next])
                    ELSE acks
         /\ hist' = [hist EXCEPT !.data = "Arrived", !.verdict = verdict]
  /\ UNCHANGED <<qp, nic, triggered, sent>>

\* RdmaHw::ReceiveAck.  With m_ack_interval 0 the acknowledgement is refused,
\* but a NACK still rewinds.  When the last byte is acknowledged QpComplete
\* runs the completion callback (qp_finish deletes the receiver's queue pair)
\* and DeleteQueuePair, after which GetQp finds nothing.  An acknowledgement of
\* a queue pair that is found ends in TriggerTransmit.
ReceiveAck ==
  /\ acks # <<>>
  /\ acks' = Tail(acks)
  /\ hist' = [hist EXCEPT !.ctl = "Arrived"]
  /\ LET a == Head(acks)
         acked == IF AckInterval = 0 THEN qp ELSE Acknowledge(qp, AckedSeq(a.seq))
         finish == AckInterval # 0 /\ IsFinished(acked)
         rewound == IF a.kind = "Nack" THEN RecoverQueue(acked) ELSE acked
     IN  IF qp.live
         THEN /\ \E cnp \in {qp.cnp, TRUE} :
                   qp' = [rewound EXCEPT !.live = ~finish, !.cnp = cnp]
              /\ rx' = IF finish THEN FreshRx ELSE rx
              /\ triggered' = TRUE
         ELSE UNCHANGED <<qp, rx, triggered>>
  /\ UNCHANGED <<nic, data, sent>>

\* Simulator::Now() passes m_nackTimer.
NackTimerExpires ==
  /\ rx.timer
  /\ rx' = [rx EXCEPT !.timer = FALSE]
  /\ UNCHANGED <<qp, nic, triggered, data, acks, sent, hist>>

\* RdmaHw::CheckRateDecreaseMlx finds a CNP and lowers m_rate.  A first CNP on
\* the last ACK is handled after QpComplete cancelled the timers and starts them
\* again, so the rate of a completed queue pair may still move.
DecreaseWindow ==
  /\ qp.cnp
  /\ \E w \in Windows :
       /\ w <= qp.win
       /\ qp' = [qp EXCEPT !.win = w, !.cnp = FALSE]
  /\ UNCHANGED <<nic, triggered, rx, data, acks, sent, hist>>

\* RdmaHw::RateIncEventTimerMlx and its helpers raise it.  They write m_rate and
\* do not call the device, which may sleep on with the window open again.
IncreaseWindow ==
  /\ \E w \in Windows :
       /\ w > qp.win
       /\ qp' = [qp EXCEPT !.win = w]
  /\ UNCHANGED <<nic, triggered, rx, data, acks, sent, hist>>

\* QbbNetDevice::Receive drops a corrupted packet.
LoseData ==
  /\ data # <<>>
  /\ hist.lost < MaxLoss
  /\ data' = Tail(data)
  /\ hist' = [hist EXCEPT !.lost = @ + 1, !.data = "Lost"]
  /\ UNCHANGED <<qp, nic, triggered, rx, acks, sent>>

LoseAck ==
  /\ acks # <<>>
  /\ hist.lost < MaxLoss
  /\ acks' = Tail(acks)
  /\ hist' = [hist EXCEPT !.lost = @ + 1, !.ctl = "Lost"]
  /\ UNCHANGED <<qp, nic, triggered, rx, data, sent>>

Next ==
  \/ DequeueAndTransmit
  \/ TransmitComplete
  \/ ReceiveUdp
  \/ ReceiveAck
  \/ NackTimerExpires
  \/ DecreaseWindow
  \/ IncreaseWindow
  \/ LoseData
  \/ LoseAck

Spec == Init /\ [][Next]_vars

\* The event queue runs every scheduled event: a packet that left arrives, and
\* a call the queue pair's own events owe it is made once pace and pause allow.
\* Nothing else is owed, as when the queue pair is alone on its device: neither
\* a call after the rate rose (the timers do not make one), nor the rise itself
\* (only DCQCN has a timer for it), nor an event of another queue pair.
FairSpec ==
  /\ Spec
  /\ WF_vars(triggered /\ DequeueAndTransmit)
  /\ WF_vars(TransmitComplete)
  /\ WF_vars(ReceiveUdp)
  /\ WF_vars(ReceiveAck)

-------------------------------------------------------------------------------
Packets == {p \in [seq : 0 .. Size, len : 1 .. Mtu] : p.seq + p.len <= Size}

TypeOK ==
  /\ qp \in [nxt : 0 .. Size, una : 0 .. Size, live : BOOLEAN, win : Windows,
            cnp : BOOLEAN]
  /\ nic \in Packets \cup {Idle}
  /\ triggered \in BOOLEAN
  /\ rx \in [next : 0 .. Size, timer : BOOLEAN, lastNack : Nat]
  /\ data \in Seq(Packets)
  /\ acks \in Seq([kind : {"Ack", "Nack"}, seq : 0 .. Size])
  /\ sent \in Nat
  /\ hist \in [lost : 0 .. MaxLoss, data : Fates, ctl : Fates, verdict : Verdicts]

\* The sender never counts as acknowledged a byte the receiver does not hold,
\* and no acknowledgement on the way says more than the receiver can vouch for:
\* the NACKs, repeats and rewinds of RdmaHw::ReceiverCheckSeq and
\* RdmaHw::ReceiveAck keep the cumulative acknowledgement honest.
NoFalseAck ==
  qp.live =>
    /\ qp.una <= GoBack(rx.next)
    /\ \A i \in 1 .. Len(acks) : GoBack(acks[i].seq) <= GoBack(rx.next)

\* What completion leaves behind: everything acknowledged.
CompletedAcked == ~qp.live => qp.una = Size

\* The invariant the proofs carry: TypeOK and NoFalseAck are what is wanted of
\* it, CompletedAcked is what a completed queue pair's silence rests on.
IInv == TypeOK /\ NoFalseAck /\ CompletedAcked

\* The queue pair has not completed, nothing of it is under way, and no call of
\* the device is owed to it: left alone, it rests for good.
Stalled ==
  /\ qp.live
  /\ nic = Idle /\ data = <<>> /\ acks = <<>>
  /\ ~triggered

\* There is no retransmission timer, so a flow can stop for good; these are all
\* the ways it can: the last packet or the last acknowledgement was lost, the
\* receiver kept a NACK back because of its timer, or a late rewind left
\* snd_nxt behind snd_una.
StallCauses ==
  Stalled =>
    \/ hist.data = "Lost"
    \/ hist.ctl = "Lost"
    \/ hist.verdict = "Suppressed"
    \/ qp.nxt < qp.una

\* RdmaHw implements reliable in-order transfer: the receiver's prefix only
\* grows (or falls back by part of a chunk), and QpComplete runs once, when the
\* receiver holds every byte.  After QpComplete the receiver's entry is gone.
Transfer == INSTANCE AbstractTransfer WITH
  delivered <- IF qp.live THEN rx.next ELSE Size,
  done <- ~qp.live

ReliableTransfer == Transfer!Spec

\* After QpComplete the NIC, which still has the queue pair in its group, cuts
\* no further packet from it (RdmaEgressQueue::GetNextQindex), even if a late
\* rewind left bytes to send: the window, where there is one, is then closed.
QuietAfterCompletion ==
  [][0 \notin Windows /\ ~qp.live => nic' \in {nic, Idle}]_vars

\* A flow whose packets are not lost completes (RdmaHw::QpComplete).
Completes == <>(~qp.live \/ hist.lost > 0)

\* Every flow completes or comes to rest in a stall that StallCauses explains.
Settles == <>[](~qp.live \/ Stalled)

\* While nothing is lost, the send-complete callback that
\* QbbNetDevice::TransmitStart schedules for "the last packet that the queue
\* pair is to send" runs once: not before that packet, and before completion.
SentOnce ==
  hist.lost = 0 =>
    /\ sent <= 1
    /\ sent = 1 => qp.nxt = Size
    /\ ~qp.live => sent = 1

\* rdma-queue-pair.h calls m_win the "bound of on-the-fly packets".  The window
\* is tested before a packet is cut, so the last one may reach past it.
OnTheFlyBounded == MaxWindow # 0 => GetOnTheFly(qp) < MaxWindow + Mtu
===============================================================================
