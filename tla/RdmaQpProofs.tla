----------------------------- MODULE RdmaQpProofs -----------------------------
(***************************************************************************)
(* What holds of a queue pair for every flow size, MTU, window, loss       *)
(* pattern and timer behaviour.  The argument is one inductive invariant,  *)
(* IInv: types, the honesty of acknowledgements, and that completion left  *)
(* everything acknowledged.                                                *)
(***************************************************************************)
EXTENDS RdmaQp, SequenceTheorems, TLAPS

USE SizeAssumption, MtuAssumption, WindowsAssumption, ReceiverAssumption,
    TailAssumption, WidthAssumption, LossAssumption

-------------------------------------------------------------------------------
\* Arithmetic of chunks and of machine words.

\* Rounding down to whole chunks: never up, and a projection.
LEMMA DivTimes ==
  ASSUME NEW c \in Nat \ {0}, NEW a \in Nat
  PROVE  /\ (a \div c) * c \in Nat
         /\ (a \div c) * c <= a
         /\ ((a \div c) * c) \div c = a \div c
OBVIOUS

\* Rounding down to whole chunks keeps the order.
LEMMA DivTimesMonotone ==
  ASSUME NEW c \in Nat \ {0}, NEW a \in Nat, NEW b \in Nat, a <= b
  PROVE  (a \div c) * c <= (b \div c) * c
OBVIOUS

\* What subtraction of uint64 makes of a negative difference.
LEMMA ModOfNegative ==
  ASSUME NEW m \in Nat \ {0}, NEW a \in Int, -m <= a, a < 0
  PROVE  a % m = a + m
OBVIOUS

\* Falling back never moves forward, is monotone, and is a projection.
LEMMA GoBackProperties ==
  ASSUME NEW a \in Nat
  PROVE  /\ GoBack(a) \in Nat
         /\ GoBack(a) <= a
         /\ GoBack(GoBack(a)) = GoBack(a)
         /\ \A b \in Nat : a <= b => GoBack(a) <= GoBack(b)
BY DivTimes, DivTimesMonotone DEF GoBack

\* The largest window is one of those the rate control may set.
LEMMA MaxWindowIsWindow ==
  /\ MaxWindow \in Windows
  /\ \A w \in Windows : w <= MaxWindow
BY DEF MaxWindow

\* A step of the receiver keeps its prefix within the flow and never loses a
\* byte that GoBack vouched for.
LEMMA CheckRxProperties ==
  ASSUME NEW r \in [next : 0 .. Size, timer : BOOLEAN, lastNack : Nat],
         NEW p \in Packets
  PROVE  /\ CheckRx(r, p) \in [next : 0 .. Size, timer : BOOLEAN, lastNack : Nat]
         /\ GoBack(r.next) <= GoBack(CheckRx(r, p).next)
<1>1. CASE p.seq = r.next
  <2>1. CheckRx(r, p) = [r EXCEPT !.next = @ + p.len]
    BY <1>1 DEF CheckRx
  <2>2. p.len \in Nat /\ r.next + p.len <= Size
    BY <1>1 DEF Packets
  <2> QED
    BY <2>1, <2>2, GoBackProperties
<1>2. CASE p.seq # r.next /\ p.seq > r.next /\ NackDue(r)
  <2>1. CheckRx(r, p) = [next |-> GoBack(r.next), timer |-> TRUE,
                         lastNack |-> r.next % U32]
    BY <1>2 DEF CheckRx
  <2>2. r.next % U32 \in Nat
    OBVIOUS
  <2> QED
    BY <2>1, <2>2, GoBackProperties
<1>3. CASE p.seq # r.next /\ ~(p.seq > r.next /\ NackDue(r))
  <2>1. CheckRx(r, p) = r
    BY <1>3 DEF CheckRx
  <2> QED
    BY <2>1, GoBackProperties
<1> QED
  BY <1>1, <1>2, <1>3

-------------------------------------------------------------------------------
\* The inductive invariant.  What the sender has counted (snd_una) and what is
\* still on the way back (acks) are both bounded by what the receiver vouches
\* for, GoBack(next): ReceiveUdp puts exactly that into an acknowledgement and
\* never lowers it, ReceiveAck takes at most that out of one.

\* A call of the device cuts a packet, or finds nothing to send and leaves
\* everything but the call itself alone.
CutPacket == DequeueAndTransmit /\ GetNxtPacket
FindNothing == DequeueAndTransmit /\ NoPacketToSend

LEMMA TwoCalls ==
  /\ DequeueAndTransmit <=> CutPacket \/ FindNothing
  /\ FindNothing => triggered' = FALSE /\ UNCHANGED <<qp, nic, rx, data, acks, sent, hist>>
BY DEF CutPacket, FindNothing, DequeueAndTransmit, NoPacketToSend

\* A queue pair that was just added satisfies the invariant.
LEMMA InitIInv == Init => IInv
<1> SUFFICES ASSUME Init PROVE IInv
  OBVIOUS
<1>1. TypeOK
  BY MaxWindowIsWindow DEF Init, TypeOK, FreshRx, Fates, Verdicts
<1>2. NoFalseAck
  BY GoBackProperties DEF Init, NoFalseAck, FreshRx
<1>3. CompletedAcked
  BY DEF Init, CompletedAcked
<1> QED
  BY <1>1, <1>2, <1>3 DEF IInv

\* GetNxtPacket and the NIC keep it: a cut packet lies within the flow.
LEMMA TransmitStepIInv == IInv /\ CutPacket => IInv'
<1> SUFFICES ASSUME IInv, CutPacket PROVE IInv'
  OBVIOUS
<1> USE DEF IInv
<1> DEFINE len == PayloadSize(qp)
<1>1. /\ len \in 1 .. Mtu
      /\ qp.nxt + len \in 0 .. Size
      /\ qp.nxt \in 0 .. Size
  <2>1. qp.nxt \in 0 .. Size
    BY DEF TypeOK
  <2>2. GetBytesLeft(qp) = Size - qp.nxt /\ GetBytesLeft(qp) > 0
    BY <2>1 DEF GetBytesLeft, CutPacket, DequeueAndTransmit, GetNxtPacket, Sendable
  <2> QED
    BY <2>1, <2>2 DEF PayloadSize
<1>2. /\ qp' = [qp EXCEPT !.nxt = @ + len]
      /\ nic' = [seq |-> qp.nxt, len |-> len]
  BY DEF CutPacket, DequeueAndTransmit, GetNxtPacket, Sendable
<1> HIDE DEF len
<1>3. nic' \in Packets
  BY <1>1, <1>2 DEF Packets
<1>4. TypeOK'
  BY <1>1, <1>2, <1>3 DEF TypeOK, CutPacket, DequeueAndTransmit, GetNxtPacket, Sendable
<1>5. NoFalseAck' /\ CompletedAcked'
  BY <1>2 DEF NoFalseAck, CompletedAcked, CutPacket, DequeueAndTransmit, GetNxtPacket, Sendable, TypeOK
<1> QED
  BY <1>4, <1>5

\* The receiver keeps it: what it acknowledges is what it holds.
LEMMA ReceiveUdpStepIInv == IInv /\ ReceiveUdp => IInv'
<1> SUFFICES ASSUME IInv, ReceiveUdp PROVE IInv'
  OBVIOUS
<1> USE DEF IInv
<1> DEFINE p == Head(data)
           r == CheckRx(rx, p)
           verdict == CheckVerdict(rx, p)
<1>1. p \in Packets /\ data' \in Seq(Packets)
  BY HeadTailProperties DEF ReceiveUdp, TypeOK
<1>2. /\ rx' = r
      /\ r \in [next : 0 .. Size, timer : BOOLEAN, lastNack : Nat]
      /\ GoBack(rx.next) <= GoBack(r.next)
  BY <1>1, CheckRxProperties DEF ReceiveUdp, TypeOK
<1>3. verdict \in Verdicts
  BY DEF CheckVerdict, Verdicts
<1>4. acks' = IF verdict \in {"Ack", "Nack"}
              THEN Append(acks, [kind |-> verdict, seq |-> r.next])
              ELSE acks
  BY DEF ReceiveUdp
<1>5. hist' = [hist EXCEPT !.data = "Arrived", !.verdict = verdict]
  BY DEF ReceiveUdp
<1> HIDE DEF p, r, verdict
<1>6. acks' \in Seq([kind : {"Ack", "Nack"}, seq : 0 .. Size])
  <2>1. acks \in Seq([kind : {"Ack", "Nack"}, seq : 0 .. Size])
    BY DEF TypeOK
  <2>2. CASE verdict \in {"Ack", "Nack"}
    <3>1. [kind |-> verdict, seq |-> r.next] \in [kind : {"Ack", "Nack"}, seq : 0 .. Size]
      BY <1>2, <2>2
    <3> QED
      BY <1>4, <2>1, <2>2, <3>1, AppendProperties
  <2>3. CASE verdict \notin {"Ack", "Nack"}
    BY <1>4, <2>1, <2>3
  <2> QED
    BY <2>2, <2>3
<1>7. TypeOK'
  BY <1>1, <1>2, <1>3, <1>5, <1>6 DEF TypeOK, ReceiveUdp, Fates
<1>8. NoFalseAck'
  <2> SUFFICES ASSUME qp.live
               PROVE  /\ qp.una <= GoBack(r.next)
                      /\ \A i \in 1 .. Len(acks') : GoBack(acks'[i].seq) <= GoBack(r.next)
    BY <1>2 DEF NoFalseAck, ReceiveUdp
  <2>1. /\ GoBack(rx.next) \in Nat
        /\ GoBack(r.next) \in Nat
        /\ \A i \in 1 .. Len(acks) : GoBack(acks[i].seq) \in Nat
    <3>1. rx.next \in Nat /\ r.next \in Nat
      BY <1>2 DEF TypeOK
    <3>2. ASSUME NEW i \in 1 .. Len(acks) PROVE acks[i].seq \in Nat
      <4>1. acks[i] \in [kind : {"Ack", "Nack"}, seq : 0 .. Size]
        BY ElementOfSeq DEF TypeOK
      <4> QED
        BY <4>1
    <3> QED
      BY <3>1, <3>2, GoBackProperties
  <2>2. qp.una <= GoBack(r.next)
    BY <1>2, <2>1 DEF NoFalseAck, TypeOK
  <2>3. \A i \in 1 .. Len(acks) : GoBack(acks[i].seq) <= GoBack(r.next)
    BY <1>2, <2>1 DEF NoFalseAck
  <2>4. CASE verdict \in {"Ack", "Nack"}
    <3>1. /\ Len(acks') = Len(acks) + 1
          /\ \A i \in 1 .. Len(acks) : acks'[i] = acks[i]
          /\ acks'[Len(acks) + 1].seq = r.next
      BY <1>4, <2>4 DEF TypeOK
    <3>2. Len(acks) \in Nat
      BY DEF TypeOK
    <3> QED
      BY <2>1, <2>2, <2>3, <3>1, <3>2
  <2>5. CASE verdict \notin {"Ack", "Nack"}
    BY <1>4, <2>2, <2>3, <2>5
  <2> QED
    BY <2>4, <2>5
<1>9. CompletedAcked'
  BY DEF CompletedAcked, ReceiveUdp
<1> QED
  BY <1>7, <1>8, <1>9

\* What is left of the acknowledgements when the first has gone is still honest.
LEMMA TailOfAcks ==
  ASSUME IInv, acks # <<>>
  PROVE  /\ Head(acks) \in [kind : {"Ack", "Nack"}, seq : 0 .. Size]
         /\ Tail(acks) \in Seq([kind : {"Ack", "Nack"}, seq : 0 .. Size])
         /\ qp.live =>
              /\ GoBack(Head(acks).seq) <= GoBack(rx.next)
              /\ \A i \in 1 .. Len(Tail(acks)) :
                   GoBack(Tail(acks)[i].seq) <= GoBack(rx.next)
<1>1. acks \in Seq([kind : {"Ack", "Nack"}, seq : 0 .. Size])
  BY DEF IInv, TypeOK
<1>2. /\ Head(acks) \in [kind : {"Ack", "Nack"}, seq : 0 .. Size]
      /\ Tail(acks) \in Seq([kind : {"Ack", "Nack"}, seq : 0 .. Size])
      /\ Len(Tail(acks)) = Len(acks) - 1
      /\ \A i \in 1 .. Len(Tail(acks)) : Tail(acks)[i] = acks[i + 1]
  BY <1>1, HeadTailProperties
<1>3. Head(acks) = acks[1] /\ Len(acks) \in Nat \ {0}
  BY <1>1
<1> QED
  BY <1>2, <1>3 DEF IInv, NoFalseAck

\* The sender keeps it: it believes an acknowledgement, and no more.
LEMMA ReceiveAckStepIInv == IInv /\ ReceiveAck => IInv'
<1> SUFFICES ASSUME IInv, ReceiveAck PROVE IInv'
  OBVIOUS
<1> DEFINE a == Head(acks)
           acked == IF AckInterval = 0 THEN qp ELSE Acknowledge(qp, AckedSeq(a.seq))
           finish == AckInterval # 0 /\ IsFinished(acked)
           rewound == IF a.kind = "Nack" THEN RecoverQueue(acked) ELSE acked
<1>1. /\ acks # <<>> /\ acks' = Tail(acks)
      /\ UNCHANGED <<nic, data, sent>>
      /\ hist' = [hist EXCEPT !.ctl = "Arrived"]
  BY DEF ReceiveAck
<1>2. /\ a \in [kind : {"Ack", "Nack"}, seq : 0 .. Size]
      /\ acks' \in Seq([kind : {"Ack", "Nack"}, seq : 0 .. Size])
      /\ qp.live =>
           /\ GoBack(a.seq) <= GoBack(rx.next)
           /\ \A i \in 1 .. Len(acks') : GoBack(acks'[i].seq) <= GoBack(rx.next)
  BY <1>1, TailOfAcks
<1>3. CASE ~qp.live
  <2>1. UNCHANGED <<qp, rx, triggered>>
    BY <1>3 DEF ReceiveAck
  <2> QED
    BY <1>1, <1>2, <1>3, <2>1
    DEF IInv, TypeOK, NoFalseAck, CompletedAcked, Fates
<1>4. CASE qp.live
  <2>1. PICK cnp \in {qp.cnp, TRUE} :
          qp' = [rewound EXCEPT !.live = ~finish, !.cnp = cnp]
    BY <1>4 DEF ReceiveAck
  <2>2. rx' = IF finish THEN FreshRx ELSE rx
    BY <1>4 DEF ReceiveAck
  <2>3. /\ GoBack(a.seq) \in 0 .. Size
        /\ GoBack(rx.next) \in Nat
        /\ qp.una \in 0 .. Size
        /\ qp.una <= GoBack(rx.next)
        /\ GoBack(a.seq) <= GoBack(rx.next)
    <3>1. a.seq \in 0 .. Size /\ a.seq \in Nat /\ rx.next \in Nat
      BY <1>2 DEF IInv, TypeOK
    <3>2. qp.una \in 0 .. Size /\ qp.una <= GoBack(rx.next)
      BY <1>4 DEF IInv, TypeOK, NoFalseAck
    <3> HIDE DEF a
    <3> QED
      BY <1>2, <1>4, <3>1, <3>2, GoBackProperties
  <2>4. /\ acked \in [nxt : 0 .. Size, una : 0 .. Size, live : BOOLEAN,
                      win : Windows, cnp : BOOLEAN]
        /\ acked.una <= GoBack(rx.next)
    BY <2>3 DEF IInv, TypeOK, Acknowledge, AckedSeq
  <2> HIDE DEF a, acked
  <2>5. /\ rewound \in [nxt : 0 .. Size, una : 0 .. Size, live : BOOLEAN,
                        win : Windows, cnp : BOOLEAN]
        /\ rewound.una = acked.una
    BY <2>4 DEF RecoverQueue
  <2>6. finish => rewound.una = Size
    BY <2>4, <2>5 DEF IsFinished
  <2>7. finish \in BOOLEAN
    OBVIOUS
  <2> HIDE DEF rewound, finish
  <2>8. /\ qp' \in [nxt : 0 .. Size, una : 0 .. Size, live : BOOLEAN,
                    win : Windows, cnp : BOOLEAN]
        /\ qp'.una = rewound.una
        /\ qp'.live = ~finish
    BY <2>1, <2>5, <2>7 DEF IInv, TypeOK
  <2>9. rx' \in [next : 0 .. Size, timer : BOOLEAN, lastNack : Nat]
    BY <2>2 DEF IInv, TypeOK, FreshRx
  <2>10. TypeOK'
    <3>1. triggered' \in BOOLEAN
      BY <1>4 DEF ReceiveAck
    <3> QED
      BY <1>1, <1>2, <2>8, <2>9, <3>1 DEF IInv, TypeOK, Fates
  <2>11. NoFalseAck'
    BY <1>2, <1>4, <2>2, <2>4, <2>5, <2>8 DEF NoFalseAck
  <2>12. CompletedAcked'
    BY <2>6, <2>8 DEF CompletedAcked
  <2> QED
    BY <2>10, <2>11, <2>12 DEF IInv
<1> QED
  BY <1>3, <1>4

\* The count of losses stays within its bound.
LEMMA LossCounted ==
  ASSUME IInv, hist.lost < MaxLoss
  PROVE  hist.lost + 1 \in 0 .. MaxLoss
<1>1. hist.lost \in 0 .. MaxLoss
  BY DEF IInv, TypeOK
<1> QED
  BY <1>1

\* Every step keeps the invariant.
LEMMA NextIInv == IInv /\ [Next]_vars => IInv'
<1> SUFFICES ASSUME IInv, [Next]_vars PROVE IInv'
  OBVIOUS
<1>1. CASE CutPacket
  BY <1>1, TransmitStepIInv
<1>11. CASE FindNothing
  BY <1>11, TwoCalls DEF IInv, TypeOK, NoFalseAck, CompletedAcked
<1>2. CASE TransmitComplete
  <2>1. nic \in Packets /\ data' \in Seq(Packets)
    BY <1>2, AppendProperties DEF IInv, TypeOK, TransmitComplete
  <2>2. sent' \in Nat
    BY <1>2 DEF IInv, TypeOK, TransmitComplete
  <2> QED
    BY <1>2, <2>1, <2>2
    DEF TransmitComplete, IInv, TypeOK, NoFalseAck, CompletedAcked
<1>3. CASE ReceiveUdp
  BY <1>3, ReceiveUdpStepIInv
<1>4. CASE ReceiveAck
  BY <1>4, ReceiveAckStepIInv
<1>5. CASE NackTimerExpires
  BY <1>5 DEF NackTimerExpires, IInv, TypeOK, NoFalseAck, CompletedAcked
<1>6. CASE DecreaseWindow
  BY <1>6 DEF DecreaseWindow, IInv, TypeOK, NoFalseAck, CompletedAcked
<1>7. CASE IncreaseWindow
  BY <1>7 DEF IncreaseWindow, IInv, TypeOK, NoFalseAck, CompletedAcked
<1>8. CASE LoseData
  <2>1. data' \in Seq(Packets)
    BY <1>8, HeadTailProperties DEF IInv, TypeOK, LoseData
  <2>2. hist' = [hist EXCEPT !.lost = hist.lost + 1, !.data = "Lost"]
    BY <1>8 DEF LoseData
  <2>3. hist.lost + 1 \in 0 .. MaxLoss
    BY <1>8, LossCounted DEF LoseData
  <2>4. UNCHANGED <<qp, nic, triggered, rx, acks, sent>>
    BY <1>8 DEF LoseData
  <2>5. hist' \in [lost : 0 .. MaxLoss, data : Fates, ctl : Fates, verdict : Verdicts]
    BY <2>2, <2>3 DEF IInv, TypeOK, Fates
  <2> QED
    BY <2>1, <2>4, <2>5 DEF IInv, TypeOK, NoFalseAck, CompletedAcked
<1>9. CASE LoseAck
  <2>1. hist' = [hist EXCEPT !.lost = hist.lost + 1, !.ctl = "Lost"]
    BY <1>9 DEF LoseAck
  <2>2. hist.lost + 1 \in 0 .. MaxLoss
    BY <1>9, LossCounted DEF LoseAck
  <2>3. hist' \in [lost : 0 .. MaxLoss, data : Fates, ctl : Fates, verdict : Verdicts]
    BY <2>1, <2>2 DEF IInv, TypeOK, Fates
  <2>4. acks # <<>> /\ acks' = Tail(acks) /\ UNCHANGED <<qp, nic, triggered, rx, data, sent>>
    BY <1>9 DEF LoseAck
  <2> QED
    BY <2>3, <2>4, TailOfAcks DEF IInv, TypeOK, NoFalseAck, CompletedAcked
<1>10. CASE UNCHANGED vars
  BY <1>10 DEF vars, IInv, TypeOK, NoFalseAck, CompletedAcked
<1> QED
  BY <1>1, <1>2, <1>3, <1>4, <1>5, <1>6, <1>7, <1>8, <1>9, <1>10, <1>11, TwoCalls DEF Next

\* The inductive invariant holds in every reachable state.
THEOREM InvariantCorrect == Spec => []IInv
  BY InitIInv, NextIInv, PTL DEF Spec

\* Type correctness of the queue pair: in particular no sequence number leaves
\* the flow, snd_nxt and snd_una included, whatever is lost or rewound.
THEOREM TypeCorrect == Spec => []TypeOK
<1>1. IInv => TypeOK
  BY DEF IInv
<1> QED
  BY <1>1, InvariantCorrect, PTL

\* RdmaHw::ReceiveAck never counts a byte the receiver does not hold.
THEOREM NoFalseAckCorrect == Spec => []NoFalseAck
<1>1. IInv => NoFalseAck
  BY DEF IInv
<1> QED
  BY <1>1, InvariantCorrect, PTL

-------------------------------------------------------------------------------
\* RdmaHw implements the abstract transfer.

\* A queue pair that was just added is a transfer that has not begun.
LEMMA InitTransfer == Init => Transfer!Init
BY DEF Init, FreshRx, Transfer!Init

\* A data packet delivers, falls back, or changes nothing that is visible.
LEMMA ReceiveUdpTransfer ==
  IInv /\ ReceiveUdp => Transfer!Next \/ UNCHANGED Transfer!vars
<1> SUFFICES ASSUME IInv, ReceiveUdp
             PROVE  Transfer!Next \/ UNCHANGED Transfer!vars
  OBVIOUS
<1> DEFINE p == Head(data)
<1>1. p \in Packets
  BY HeadTailProperties DEF ReceiveUdp, IInv, TypeOK
<1>2. rx' = CheckRx(rx, p) /\ qp' = qp
  BY DEF ReceiveUdp
<1> HIDE DEF p
<1>3. rx \in [next : 0 .. Size, timer : BOOLEAN, lastNack : Nat] /\ qp.live \in BOOLEAN
  BY DEF IInv, TypeOK
<1>4. CASE ~qp.live
  BY <1>2, <1>4 DEF Transfer!vars
<1>5. CASE qp.live /\ p.seq = rx.next
  <2>1. rx'.next = rx.next + p.len
    BY <1>2, <1>3, <1>5 DEF CheckRx
  <2>2. p.len \in 1 .. Mtu /\ rx.next + p.len <= Size
    BY <1>1, <1>5 DEF Packets
  <2>3. Transfer!Deliver
    BY <1>2, <1>3, <1>5, <2>1, <2>2 DEF Transfer!Deliver
  <2> QED
    BY <2>3 DEF Transfer!Next
<1>6. CASE qp.live /\ p.seq # rx.next /\ p.seq > rx.next /\ NackDue(rx)
  <2>1. rx'.next = GoBack(rx.next)
    BY <1>2, <1>6 DEF CheckRx
  <2>2. CASE BackTo0
    BY <1>2, <1>6, <2>1, <2>2 DEF GoBack, Transfer!FallBack, Transfer!Next
  <2>3. CASE ~BackTo0
    BY <1>2, <2>1, <2>3 DEF GoBack, Transfer!vars
  <2> QED
    BY <2>2, <2>3
<1>7. CASE p.seq # rx.next /\ ~(p.seq > rx.next /\ NackDue(rx))
  <2>1. rx' = rx
    BY <1>2, <1>7 DEF CheckRx
  <2> QED
    BY <1>2, <2>1 DEF Transfer!vars
<1> QED
  BY <1>4, <1>5, <1>6, <1>7

\* An acknowledgement completes the flow or changes nothing that is visible:
\* snd_una can reach the end of the flow only when the receiver has.
LEMMA ReceiveAckTransfer ==
  IInv /\ ReceiveAck => Transfer!Next \/ UNCHANGED Transfer!vars
<1> SUFFICES ASSUME IInv, ReceiveAck
             PROVE  Transfer!Next \/ UNCHANGED Transfer!vars
  OBVIOUS
<1> DEFINE a == Head(acks)
           acked == IF AckInterval = 0 THEN qp ELSE Acknowledge(qp, AckedSeq(a.seq))
           finish == AckInterval # 0 /\ IsFinished(acked)
           rewound == IF a.kind = "Nack" THEN RecoverQueue(acked) ELSE acked
<1>1. CASE ~qp.live
  BY <1>1 DEF ReceiveAck, Transfer!vars
<1>2. CASE qp.live
  <2>1. PICK cnp \in {qp.cnp, TRUE} :
          qp' = [rewound EXCEPT !.live = ~finish, !.cnp = cnp]
    BY <1>2 DEF ReceiveAck
  <2>2. rx' = IF finish THEN FreshRx ELSE rx
    BY <1>2 DEF ReceiveAck
  <2>3. acked \in [nxt : 0 .. Size, una : Int, live : BOOLEAN, win : Windows,
                   cnp : BOOLEAN]
        /\ acked.una <= GoBack(rx.next)
    <3>1. a \in [kind : {"Ack", "Nack"}, seq : 0 .. Size]
          /\ GoBack(a.seq) <= GoBack(rx.next)
      BY <1>2, TailOfAcks DEF ReceiveAck
    <3>2. a.seq \in Nat
      BY <3>1
    <3> HIDE DEF a
    <3>3. GoBack(a.seq) \in Nat
      BY <3>2, GoBackProperties
    <3>4. qp \in [nxt : 0 .. Size, una : 0 .. Size, live : BOOLEAN, win : Windows,
                  cnp : BOOLEAN]
          /\ qp.una <= GoBack(rx.next)
      BY <1>2 DEF IInv, TypeOK, NoFalseAck
    <3> QED
      BY <3>1, <3>3, <3>4 DEF Acknowledge, AckedSeq
  <2> HIDE DEF a, acked
  <2>4. rewound \in [nxt : Int, una : Int, live : BOOLEAN, win : Windows,
                     cnp : BOOLEAN]
    BY <2>3 DEF RecoverQueue
  <2>5. finish \in BOOLEAN
    OBVIOUS
  <2>6. finish => rx.next = Size
    <3>1. rx.next \in 0 .. Size /\ GoBack(rx.next) \in Nat /\ GoBack(rx.next) <= rx.next
      BY GoBackProperties DEF IInv, TypeOK
    <3> QED
      BY <2>3, <3>1 DEF IsFinished
  <2> HIDE DEF rewound, finish
  <2>7. qp'.live = ~finish
    BY <2>1, <2>4, <2>5
  <2>8. CASE finish
    BY <1>2, <2>6, <2>7, <2>8 DEF Transfer!Complete, Transfer!Next
  <2>9. CASE ~finish
    BY <1>2, <2>2, <2>7, <2>9 DEF Transfer!vars
  <2> QED
    BY <2>8, <2>9
<1> QED
  BY <1>1, <1>2

\* Every other step leaves the prefix and the completion alone.
LEMMA NextTransfer == IInv /\ [Next]_vars => [Transfer!Next]_(Transfer!vars)
<1> SUFFICES ASSUME IInv, [Next]_vars
             PROVE  Transfer!Next \/ UNCHANGED Transfer!vars
  OBVIOUS
<1>1. qp \in [nxt : 0 .. Size, una : 0 .. Size, live : BOOLEAN, win : Windows,
              cnp : BOOLEAN]
      /\ rx \in [next : 0 .. Size, timer : BOOLEAN, lastNack : Nat]
  BY DEF IInv, TypeOK
<1>2. CASE ReceiveUdp
  BY <1>2, ReceiveUdpTransfer
<1>3. CASE ReceiveAck
  BY <1>3, ReceiveAckTransfer
<1>4. CASE DequeueAndTransmit
  BY <1>1, <1>4 DEF DequeueAndTransmit, GetNxtPacket, NoPacketToSend, Transfer!vars
<1>5. CASE NackTimerExpires
  BY <1>1, <1>5 DEF NackTimerExpires, Transfer!vars
<1>6. CASE DecreaseWindow
  BY <1>1, <1>6 DEF DecreaseWindow, Transfer!vars
<1>7. CASE IncreaseWindow
  BY <1>1, <1>7 DEF IncreaseWindow, Transfer!vars
<1>8. CASE TransmitComplete \/ LoseData \/ LoseAck \/ UNCHANGED vars
  BY <1>8 DEF TransmitComplete, LoseData, LoseAck, vars, Transfer!vars
<1> QED
  BY <1>2, <1>3, <1>4, <1>5, <1>6, <1>7, <1>8 DEF Next

\* The queue pair is a reliable in-order transfer that completes once and never
\* early, whatever the links lose (RdmaHw::ReceiveUdp, ReceiveAck, QpComplete).
THEOREM ReliableTransferCorrect == Spec => ReliableTransfer
BY InvariantCorrect, InitTransfer, NextTransfer, PTL
DEF ReliableTransfer, Transfer!Spec, Spec

-------------------------------------------------------------------------------
\* A completed queue pair has snd_una at the end of the flow, so whatever a late
\* rewind did to snd_nxt, GetOnTheFly is 0 or has wrapped: either there is
\* nothing to send or the window is closed.
LEMMA CompletedIsClosed ==
  ASSUME IInv, ~qp.live, 0 \notin Windows, GetBytesLeft(qp) > 0
  PROVE  IsWinBound(qp)
<1>1. qp.una = Size /\ qp.nxt \in 0 .. Size /\ qp.win \in Windows
  BY DEF IInv, TypeOK, CompletedAcked
<1>2. qp.nxt < Size
  BY <1>1 DEF GetBytesLeft
<1>3. qp.win \in Nat /\ qp.win # 0 /\ qp.win + Size < U64
  BY <1>1
<1>4. GetOnTheFly(qp) = qp.nxt - Size + U64
  <2> DEFINE d == qp.nxt - Size
  <2>1. U64 \in Nat \ {0} /\ d \in Int /\ -U64 <= d /\ d < 0
    BY <1>1, <1>2, <1>3
  <2>2. GetOnTheFly(qp) = d % U64
    BY <1>1 DEF GetOnTheFly
  <2> HIDE DEF d
  <2>3. d % U64 = d + U64
    BY <2>1, ModOfNegative
  <2> QED
    BY <2>2, <2>3 DEF d
<1> QED
  BY <1>1, <1>3, <1>4 DEF IsWinBound

\* The NIC cuts no packet from a completed queue pair that has a window, although
\* it never takes the queue pair out of its group.
THEOREM QuietAfterCompletionCorrect == Spec => QuietAfterCompletion
<1>1. IInv /\ [Next]_vars
        => [0 \notin Windows /\ ~qp.live => nic' \in {nic, Idle}]_vars
  <2> SUFFICES ASSUME IInv, Next, 0 \notin Windows, ~qp.live
               PROVE  nic' \in {nic, Idle}
    OBVIOUS
  <2>1. ~CutPacket
    BY CompletedIsClosed DEF CutPacket, GetNxtPacket, Sendable
  <2> QED
    BY <2>1, TwoCalls DEF Next, TransmitComplete, ReceiveUdp, ReceiveAck, NackTimerExpires,
                DecreaseWindow, IncreaseWindow, LoseData, LoseAck
<1> QED
  BY <1>1, InvariantCorrect, PTL DEF Spec, QuietAfterCompletion

-------------------------------------------------------------------------------
\* How a queue pair comes to rest: what a flow that loses nothing reports to the
\* front end (SentOnce), and why a flow that stops has stopped (StallCauses).
\* Both rest on where the packets of a flow begin and end, which no
\* retransmission changes.

-------------------------------------------------------------------------------
\* The packet that begins at an offset: a full one, or the last.
LengthAt(seq) == IF Mtu < Size - seq THEN Mtu ELSE Size - seq
Whole(p) == p.seq % Mtu = 0 /\ p.seq < Size /\ p.len = LengthAt(p.seq)
Boundary(n) == n = Size \/ n % Mtu = 0

End(p) == p.seq + p.len

\* The packets between the sender and the receiver, the oldest first.
Flight == IF nic = Idle THEN data ELSE Append(data, nic)

\* The packets under way are packets of the flow, and both views of them agree.
LEMMA FlightType ==
  ASSUME IInv
  PROVE  /\ Flight \in Seq(Packets) /\ data \in Seq(Packets)
         /\ Len(Flight) \in Nat /\ DOMAIN Flight = 1 .. Len(Flight)
         /\ \A i \in 1 .. Len(Flight) : Flight[i] \in Packets
         /\ data # <<>> => Flight # <<>> /\ Flight[1] = Head(data)
         /\ Flight = <<>> <=> data = <<>> /\ nic = Idle
         /\ nic # Idle => nic \in Packets /\ Flight # <<>> /\ Flight[Len(Flight)] = nic
<1>1. data \in Seq(Packets) /\ nic \in Packets \cup {Idle}
  BY DEF IInv, TypeOK
<1>2. CASE nic = Idle
  <2>1. Flight = data
    BY <1>2 DEF Flight
  <2> QED
    BY <1>1, <1>2, <2>1, ElementOfSeq, LenProperties, HeadTailProperties
<1>3. CASE nic # Idle
  <2>1. Flight = Append(data, nic) /\ nic \in Packets
    BY <1>1, <1>3 DEF Flight
  <2>2. /\ Flight \in Seq(Packets) /\ Len(Flight) = Len(data) + 1
        /\ Flight[Len(data) + 1] = nic
        /\ \A i \in 1 .. Len(data) : Flight[i] = data[i]
    BY <1>1, <2>1, AppendProperties
  <2>3. Len(data) \in Nat /\ (data # <<>> => Head(data) = data[1] /\ Len(data) >= 1)
    BY <1>1, LenProperties
  <2> HIDE DEF Flight
  <2>4. Flight # <<>> /\ Len(Flight) \in Nat /\ DOMAIN Flight = 1 .. Len(Flight)
    BY <2>2, <2>3, LenProperties
  <2>5. \A i \in 1 .. Len(Flight) : Flight[i] \in Packets
    BY <2>2, ElementOfSeq
  <2> QED
    BY <1>1, <1>3, <2>1, <2>2, <2>3, <2>4, <2>5
<1> QED
  BY <1>2, <1>3

\* What a step does to the packets under way.
LEMMA FlightStep ==
  ASSUME IInv, [Next]_vars
  PROVE  /\ CutPacket =>
              /\ nic' # Idle /\ Flight' = Append(Flight, nic')
         /\ ReceiveUdp \/ LoseData =>
              Flight # <<>> /\ Flight[1] = Head(data) /\ Flight' = Tail(Flight)
         /\ ~(CutPacket \/ ReceiveUdp \/ LoseData) => Flight' = Flight
<1>1. data \in Seq(Packets) /\ nic \in Packets \cup {Idle}
  BY DEF IInv, TypeOK
<1>2. Idle \notin Packets
  BY DEF Packets, Idle
<1>3. CutPacket => nic' # Idle /\ Flight' = Append(Flight, nic')
  <2>1. SUFFICES ASSUME CutPacket PROVE nic' # Idle /\ Flight' = Append(Flight, nic')
    OBVIOUS
  <2>2. nic = Idle /\ data' = data /\ nic'.len = PayloadSize(qp)
    BY <2>1 DEF CutPacket, DequeueAndTransmit, GetNxtPacket, Sendable
  <2>3. PayloadSize(qp) # 0
    <3>1. GetBytesLeft(qp) > 0
      BY <2>1 DEF CutPacket, DequeueAndTransmit, GetNxtPacket, Sendable
    <3> QED
      BY <3>1 DEF PayloadSize
  <2> QED
    BY <2>2, <2>3 DEF Flight, Idle
<1>4. ReceiveUdp \/ LoseData =>
        Flight # <<>> /\ Flight[1] = Head(data) /\ Flight' = Tail(Flight)
  <2>1. SUFFICES ASSUME ReceiveUdp \/ LoseData
                 PROVE  Flight # <<>> /\ Flight[1] = Head(data) /\ Flight' = Tail(Flight)
    OBVIOUS
  <2>2. data # <<>> /\ data' = Tail(data) /\ nic' = nic
    BY <2>1 DEF ReceiveUdp, LoseData
  <2>3. Flight # <<>> /\ Flight[1] = Head(data)
    BY <2>2, FlightType
  <2>4. CASE nic = Idle
    BY <2>2, <2>3, <2>4 DEF Flight
  <2>5. CASE nic # Idle
    <3>1. nic \in Packets
      BY <1>1, <2>5
    <3>2. Tail(Append(data, nic)) = Append(Tail(data), nic)
      BY <1>1, <2>2, <3>1
    <3> QED
      BY <2>2, <2>3, <2>5, <3>2 DEF Flight
  <2> QED
    BY <2>4, <2>5
<1>5. ~(CutPacket \/ ReceiveUdp \/ LoseData) => Flight' = Flight
  <2>1. CASE TransmitComplete
    BY <2>1 DEF TransmitComplete, Flight
  <2> QED
    BY <2>1, TwoCalls DEF Next, vars, ReceiveAck, NackTimerExpires, DecreaseWindow,
                          IncreaseWindow, LoseAck, Flight
<1> QED
  BY <1>3, <1>4, <1>5

-------------------------------------------------------------------------------
\* Arithmetic of packets.

\* A number of bytes in whole packets, and what is left over.
LEMMA WholePackets ==
  ASSUME NEW c \in Nat \ {0}, NEW a \in Nat
  PROVE  a \div c \in Nat /\ a % c \in 0 .. c - 1 /\ a = (a \div c) * c + (a % c)
OBVIOUS

\* What is left over when whole packets are taken away.
LEMMA LeftOver ==
  ASSUME NEW c \in Nat \ {0}, NEW k \in Nat, NEW r \in 0 .. c - 1
  PROVE  (k * c + r) % c = r
OBVIOUS

\* A packet more leaves the rest as it was.
LEMMA OneMore ==
  ASSUME NEW c \in Nat \ {0}, NEW a \in Nat, NEW r \in 0 .. c - 1, a % c = 0
  PROVE  (a + c) % c = 0 /\ (a + r) % c = r
<1> DEFINE k == a \div c
<1>1. k \in Nat /\ a = k * c
  BY WholePackets
<1> HIDE DEF k
<1>2. a + c = (k + 1) * c + 0 /\ k + 1 \in Nat /\ 0 \in 0 .. c - 1
  BY <1>1
<1>3. ((k + 1) * c + 0) % c = 0
  BY <1>2, LeftOver
<1>4. (k * c + r) % c = r
  BY <1>1, LeftOver
<1> QED
  BY <1>1, <1>2, <1>3, <1>4

\* Multiples of a packet are a packet apart.
LEMMA Apart ==
  ASSUME NEW c \in Nat \ {0}, NEW a \in Nat, NEW b \in Nat, a % c = 0, b % c = 0, a < b
  PROVE  a + c <= b
<1> DEFINE k == a \div c
           m == b \div c
<1>1. k \in Nat /\ m \in Nat /\ a = k * c /\ b = m * c
  BY WholePackets
<1> HIDE DEF k, m
<1>2. k < m
  <2>1. m <= k => m * c <= k * c
    BY <1>1
  <2> QED
    BY <1>1, <2>1
<1>3. PICK d \in Nat : m = k + 1 + d
  <2>1. m - k - 1 \in Nat /\ m = k + 1 + (m - k - 1)
    BY <1>1, <1>2
  <2> QED
    BY <2>1
<1>4. m * c = k * c + c + d * c /\ d * c \in Nat
  BY <1>1, <1>3
<1> QED
  BY <1>1, <1>4

\* From a boundary the next packet leads to the next boundary.
LEMMA NextBoundary ==
  ASSUME NEW a \in Nat, a < Size, a % Mtu = 0
  PROVE  /\ LengthAt(a) \in 1 .. Mtu /\ a + LengthAt(a) \in 1 .. Size
         /\ Boundary(a + LengthAt(a))
<1>1. (a + Mtu) % Mtu = 0
  <2>1. 0 \in 0 .. Mtu - 1
    OBVIOUS
  <2> QED
    BY <2>1, OneMore
<1> QED
  BY <1>1 DEF LengthAt, Boundary

\* No boundary lies within a packet.
LEMMA BoundaryGap ==
  ASSUME NEW a \in Nat, a < Size, a % Mtu = 0,
         NEW b \in Nat, b <= Size, Boundary(b), a < b
  PROVE  a + LengthAt(a) <= b
<1>1. CASE b = Size
  BY <1>1 DEF LengthAt
<1>2. CASE b % Mtu = 0
  <2>1. a + Mtu <= b
    BY <1>2, Apart
  <2> QED
    BY <2>1 DEF LengthAt
<1> QED
  BY <1>1, <1>2 DEF Boundary

\* The last packet has the size of what is left over of the flow.
LEMMA LastLength ==
  ASSUME NEW a \in Nat, a < Size, a % Mtu = 0, Size % Mtu # 0
  PROVE  IF a + LengthAt(a) = Size THEN LengthAt(a) = Size % Mtu ELSE LengthAt(a) = Mtu
<1>1. CASE Mtu < Size - a
  BY <1>1 DEF LengthAt
<1>2. CASE Mtu = Size - a
  <2>1. 0 \in 0 .. Mtu - 1 /\ Size = a + Mtu
    BY <1>2
  <2>2. (a + Mtu) % Mtu = 0
    BY <2>1, OneMore
  <2> QED
    BY <2>1, <2>2
<1>3. CASE Mtu > Size - a
  <2> DEFINE r == Size - a
  <2>1. r \in 0 .. Mtu - 1 /\ Size = a + r
    BY <1>3
  <2> HIDE DEF r
  <2>2. (a + r) % Mtu = r
    BY <2>1, OneMore
  <2>3. LengthAt(a) = r
    BY <1>3 DEF LengthAt, r
  <2> QED
    BY <2>1, <2>2, <2>3
<1> QED
  BY <1>1, <1>2, <1>3

-------------------------------------------------------------------------------
\* Without loss.

\* The last packet, and it alone, is shorter than a full one and within the
\* sizes for which QbbNetDevice::TransmitStart schedules the callback.
TailRecognised ==
  /\ Size % Mtu # 0
  /\ TailMin < Size % Mtu /\ Size % Mtu < TailMax
  /\ ~(TailMin < Mtu /\ Mtu < TailMax)

\* The packets under way continue each other from what the receiver holds to
\* what the sender has cut.
InSequence ==
  /\ \A i \in DOMAIN Flight :
       Flight[i].seq = IF i = 1 THEN rx.next ELSE End(Flight[i - 1])
  /\ qp.nxt = IF Flight = <<>> THEN rx.next ELSE End(Flight[Len(Flight)])

\* While nothing is lost nothing is asked for again, and the callback has run
\* just when the last packet has left.
Orderly ==
  hist.lost = 0 =>
    /\ \A i \in DOMAIN acks : acks[i].kind = "Ack"
    /\ \A i \in DOMAIN Flight : Whole(Flight[i])
    /\ Boundary(qp.nxt)
    /\ IF qp.live THEN InSequence ELSE Flight = <<>> /\ qp.nxt = Size
    /\ sent = IF qp.nxt = Size /\ nic = Idle THEN 1 ELSE 0

\* Nothing is under way at first.
LEMMA InitOrderly == Init => Orderly
<1> SUFFICES ASSUME Init PROVE Orderly
  OBVIOUS
<1>1. Flight = <<>> /\ acks = <<>> /\ rx.next = 0
  BY DEF Init, Flight, FreshRx
<1>2. 0 % Mtu = 0
  BY WholePackets
<1> QED
  BY <1>1, <1>2 DEF Init, Orderly, InSequence, Boundary

\* A packet that is cut continues the sequence.
LEMMA TransmitOrderly == IInv /\ Orderly /\ TailRecognised /\ CutPacket => Orderly'
<1> SUFFICES ASSUME IInv, Orderly, TailRecognised, CutPacket, hist.lost = 0
             PROVE  Orderly'
  BY DEF Orderly, CutPacket, DequeueAndTransmit, GetNxtPacket, Sendable
<1>1. /\ Flight \in Seq(Packets) /\ Len(Flight) \in Nat /\ DOMAIN Flight = 1 .. Len(Flight)
      /\ nic' # Idle /\ Flight' = Append(Flight, nic')
  BY FlightType, FlightStep, TwoCalls DEF Next
<1>2. qp.nxt \in Nat /\ qp.nxt < Size /\ PayloadSize(qp) = LengthAt(qp.nxt)
  BY SMTT(40) DEF IInv, TypeOK, CutPacket, DequeueAndTransmit, GetNxtPacket, Sendable, GetBytesLeft, PayloadSize, LengthAt
<1>3. nic'.seq = qp.nxt /\ nic'.len = LengthAt(qp.nxt) /\ qp.nxt % Mtu = 0
  BY <1>2 DEF CutPacket, DequeueAndTransmit, GetNxtPacket, Sendable, Orderly, Boundary
<1>4. qp'.nxt = qp.nxt + LengthAt(qp.nxt) /\ qp'.live = qp.live /\ qp.live
  BY <1>2 DEF CutPacket, DequeueAndTransmit, GetNxtPacket, Sendable, IInv, TypeOK, Orderly
<1>5. Boundary(qp'.nxt) /\ Whole(nic') /\ qp'.nxt = End(nic')
  BY <1>2, <1>3, <1>4, NextBoundary DEF Whole, End
<1>6. nic' \in Packets
  BY NextIInv, TwoCalls, <1>1 DEF IInv, TypeOK, Next
<1>7. /\ Len(Flight') = Len(Flight) + 1 /\ DOMAIN Flight' = 1 .. Len(Flight) + 1
      /\ Flight'[Len(Flight) + 1] = nic'
      /\ \A i \in 1 .. Len(Flight) : Flight'[i] = Flight[i]
  BY <1>1, <1>6, AppendProperties
<1> DEFINE F == Flight
           G == Flight'
<1>8. /\ \A i \in DOMAIN F : Whole(F[i])
      /\ \A i \in DOMAIN F : F[i].seq = IF i = 1 THEN rx.next ELSE End(F[i - 1])
      /\ qp.nxt = IF F = <<>> THEN rx.next ELSE End(F[Len(F)])
  BY <1>4 DEF Orderly, InSequence
<1>9. F = <<>> <=> Len(F) = 0
  BY <1>1
<1>10. sent' = 0 /\ sent = 0
  BY <1>2 DEF Orderly, CutPacket, DequeueAndTransmit, GetNxtPacket, Sendable
<1>11. acks' = acks /\ rx' = rx
  BY DEF CutPacket, DequeueAndTransmit, GetNxtPacket, Sendable
<1>12. Len(F) \in Nat /\ DOMAIN F = 1 .. Len(F)
  BY <1>1
<1> HIDE DEF F, G
<1>13. \A i \in DOMAIN G : Whole(G[i])
  BY <1>5, <1>7, <1>8, <1>12 DEF F, G
<1>14. \A i \in DOMAIN G : G[i].seq = IF i = 1 THEN rx.next ELSE End(G[i - 1])
  <2>1. SUFFICES ASSUME NEW i \in DOMAIN G
                 PROVE  G[i].seq = IF i = 1 THEN rx.next ELSE End(G[i - 1])
    OBVIOUS
  <2>2. i \in 1 .. Len(F) + 1
    BY <1>7 DEF F, G
  <2>3. CASE i <= Len(F)
    <3>1. i \in DOMAIN F /\ (i # 1 => i - 1 \in 1 .. Len(F))
      BY <1>12, <2>2, <2>3
    <3>2. G[i] = F[i] /\ (i # 1 => G[i - 1] = F[i - 1])
      BY <1>7, <1>12, <3>1 DEF F, G
    <3> QED
      BY <1>8, <3>1, <3>2
  <2>4. CASE i = Len(F) + 1
    <3>1. G[i] = nic' /\ (Len(F) # 0 => i # 1 /\ G[i - 1] = F[Len(F)])
      BY <1>7, <1>12, <2>4 DEF F, G
    <3>2. Len(F) = 0 => i = 1
      BY <2>4
    <3> QED
      BY <1>3, <1>8, <1>9, <3>1, <3>2
  <2> QED
    BY <1>12, <2>2, <2>3, <2>4
<1>15. G # <<>> /\ End(G[Len(G)]) = qp'.nxt
  BY <1>5, <1>7, <1>12 DEF F, G
<1>16. \A i \in DOMAIN acks : acks[i].kind = "Ack"
  BY DEF Orderly
<1> QED
  BY SMTT(40), <1>1, <1>4, <1>5, <1>10, <1>11, <1>13, <1>14, <1>15, <1>16 DEF Orderly, InSequence, G

\* A packet that leaves runs the callback when it is the last.
LEMMA SentOrderly == IInv /\ Orderly /\ TailRecognised /\ TransmitComplete => Orderly'
<1> SUFFICES ASSUME IInv, Orderly, TailRecognised, TransmitComplete, hist.lost = 0
             PROVE  Orderly'
  BY DEF Orderly, TransmitComplete
<1>1. /\ nic \in Packets /\ Flight # <<>> /\ Flight[Len(Flight)] = nic
      /\ Len(Flight) \in DOMAIN Flight
  BY FlightType DEF TransmitComplete
<1>2. ~CutPacket
  BY DEF TransmitComplete, CutPacket, DequeueAndTransmit, GetNxtPacket, Sendable
<1>3. Flight' = Flight
  BY DEF TransmitComplete, Flight
<1>4. qp.live /\ qp.nxt = End(nic) /\ Whole(nic)
  BY <1>1 DEF Orderly, InSequence
<1>5. /\ nic.seq \in Nat /\ nic.len = LengthAt(nic.seq) /\ nic.seq < Size
      /\ nic.seq % Mtu = 0
  BY <1>1, <1>4 DEF Packets, Whole
<1>6. IsTail(nic) <=> qp.nxt = Size
  <2>1. IF nic.seq + nic.len = Size THEN nic.len = Size % Mtu ELSE nic.len = Mtu
    BY <1>5, LastLength DEF TailRecognised
  <2> QED
    BY <1>4, <2>1 DEF TailRecognised, IsTail, End
<1>7. sent = 0 /\ nic' = Idle /\ qp' = qp /\ rx' = rx /\ acks' = acks /\ hist' = hist
  BY DEF TransmitComplete, Orderly
<1>8. sent' = IF qp'.nxt = Size /\ nic' = Idle THEN 1 ELSE 0
  BY <1>4, <1>6, <1>7 DEF TransmitComplete
<1>9. InSequence => InSequence'
  BY <1>3, <1>7 DEF InSequence
<1> QED
  BY <1>3, <1>4, <1>7, <1>8, <1>9 DEF Orderly

\* What arrives in sequence is received, and nothing is asked for again.
LEMMA ReceiveOrderly == IInv /\ Orderly /\ ReceiveUdp => Orderly'
<1> SUFFICES ASSUME IInv, Orderly, ReceiveUdp, hist'.lost = 0 PROVE Orderly'
  BY DEF Orderly
<1>1. hist.lost = 0 /\ qp' = qp /\ nic' = nic /\ sent' = sent
  BY SMTT(40) DEF ReceiveUdp, IInv, TypeOK
<1> DEFINE F == Flight
           G == Flight'
           p == Head(data)
<1>2. /\ F \in Seq(Packets) /\ F # <<>> /\ F[1] = p /\ G = Tail(F)
  BY FlightType, FlightStep, TwoCalls DEF Next
<1>3. p \in Packets
  BY <1>2, ElementOfSeq, LenProperties
<1>4. qp.live /\ InSequence
  BY <1>1, <1>2 DEF Orderly
<1>5. /\ Len(F) \in Nat \ {0} /\ DOMAIN F = 1 .. Len(F)
      /\ G \in Seq(Packets) /\ Len(G) = Len(F) - 1 /\ DOMAIN G = 1 .. Len(F) - 1
      /\ \A i \in 1 .. Len(F) - 1 : G[i] = F[i + 1]
  <2> HIDE DEF F, G
  <2> QED
    BY <1>2, HeadTailProperties, LenProperties
<1>6. /\ \A i \in DOMAIN F : Whole(F[i])
      /\ \A i \in DOMAIN F : F[i].seq = IF i = 1 THEN rx.next ELSE End(F[i - 1])
      /\ qp.nxt = End(F[Len(F)])
  BY <1>1, <1>2, <1>4 DEF Orderly, InSequence
<1>7. p.seq = rx.next
  BY <1>2, <1>5, <1>6
<1>8. rx'.next = rx.next + p.len
  <2>1. rx' = CheckRx(rx, p)
    BY DEF ReceiveUdp
  <2>2. rx \in [next : 0 .. Size, timer : BOOLEAN, lastNack : Nat]
    BY DEF IInv, TypeOK
  <2> HIDE DEF p
  <2>3. CheckRx(rx, p) = [rx EXCEPT !.next = @ + p.len]
    <3>1. p.seq = rx.next /\ rx.next \in Nat
      BY <1>7, <2>2
    <3> QED
      BY <3>1 DEF CheckRx
  <2> QED
    BY <2>1, <2>2, <2>3
<1>9. CheckVerdict(rx, p) # "Nack"
  BY <1>7 DEF CheckVerdict
<1>10. \A i \in DOMAIN acks' : acks'[i].kind = "Ack"
  <2> DEFINE a == [kind |-> CheckVerdict(rx, p), seq |-> CheckRx(rx, p).next]
  <2>1. \/ acks' = acks
        \/ acks' = Append(acks, a) /\ a.kind = "Ack"
    BY <1>9 DEF ReceiveUdp
  <2> HIDE DEF a
  <2>2. acks \in Seq([kind : {"Ack", "Nack"}, seq : 0 .. Size])
        /\ \A i \in DOMAIN acks : acks[i].kind = "Ack"
    BY <1>1 DEF IInv, TypeOK, Orderly
  <2>3. CASE acks' = Append(acks, a) /\ a.kind = "Ack"
    <3>1. DOMAIN acks' = 1 .. Len(acks) + 1 /\ DOMAIN acks = 1 .. Len(acks)
      BY <2>2, <2>3
    <3>2. acks'[Len(acks) + 1] = a /\ \A i \in 1 .. Len(acks) : acks'[i] = acks[i]
      BY <2>2, <2>3
    <3>3. Len(acks) \in Nat
      BY <2>2
    <3> QED
      BY <2>2, <2>3, <3>1, <3>2, <3>3
  <2> QED
    BY <2>1, <2>2, <2>3
<1>11. End(p) = rx'.next
  BY <1>7, <1>8 DEF End
<1> HIDE DEF F, G, p
<1>12. \A i \in DOMAIN G : Whole(G[i])
  <2>1. \A i \in 1 .. Len(F) - 1 : i + 1 \in DOMAIN F
    BY <1>5
  <2> QED
    BY <1>5, <1>6, <2>1
<1>13. \A i \in DOMAIN G : G[i].seq = IF i = 1 THEN rx'.next ELSE End(G[i - 1])
  <2>1. SUFFICES ASSUME NEW i \in 1 .. Len(F) - 1
                 PROVE  G[i].seq = IF i = 1 THEN rx'.next ELSE End(G[i - 1])
    BY <1>5
  <2>2. G[i] = F[i + 1] /\ i + 1 \in DOMAIN F /\ i + 1 # 1 /\ (i + 1) - 1 = i
    BY <1>5
  <2>3. G[i].seq = End(F[i])
    BY <1>6, <2>2
  <2>4. CASE i = 1
    BY <1>2, <1>11, <2>3, <2>4
  <2>5. CASE i # 1
    <3>1. i - 1 \in 1 .. Len(F) - 1 /\ (i - 1) + 1 = i
      BY <2>5, <1>5
    <3>2. G[i - 1] = F[i]
      BY <1>5, <3>1
    <3> QED
      BY <2>3, <2>5, <3>2
  <2> QED
    BY <2>4, <2>5
<1>14. qp.nxt = IF G = <<>> THEN rx'.next ELSE End(G[Len(G)])
  <2>1. CASE G = <<>>
    <3>1. Len(F) = 1
      <4>1. Len(G) = 0
        BY <2>1
      <4>2. Len(G) = Len(F) - 1
        BY <1>5
      <4>3. Len(F) \in Int
        BY <1>5
      <4> QED
        BY <4>1, <4>2, <4>3
    <3> QED
      BY <1>2, <1>6, <1>11, <2>1, <3>1
  <2>2. CASE G # <<>>
    <3>1. Len(F) - 1 \in 1 .. Len(F) - 1 /\ (Len(F) - 1) + 1 = Len(F)
      BY <1>5, <2>2
    <3>2. G[Len(G)] = F[Len(F)]
      BY <1>5, <3>1
    <3> QED
      BY <1>6, <2>2, <3>2
  <2> QED
    BY <2>1, <2>2
<1> QED
  BY <1>1, <1>4, <1>10, <1>12, <1>13, <1>14 DEF Orderly, InSequence, G

\* Acknowledgements rewind nothing, and complete a flow that is all received.
LEMMA AckOrderly == IInv /\ Orderly /\ ReceiveAck => Orderly'
<1> SUFFICES ASSUME IInv, Orderly, ReceiveAck, hist'.lost = 0 PROVE Orderly'
  BY DEF Orderly
<1>1. /\ hist.lost = 0 /\ nic' = nic /\ data' = data /\ sent' = sent
      /\ acks # <<>> /\ acks' = Tail(acks) /\ Flight' = Flight
  BY DEF ReceiveAck, IInv, TypeOK, Flight
<1>2. acks \in Seq([kind : {"Ack", "Nack"}, seq : 0 .. Size])
      /\ \A i \in DOMAIN acks : acks[i].kind = "Ack"
  BY <1>1 DEF IInv, TypeOK, Orderly
<1>3. Head(acks).kind = "Ack" /\ Head(acks).kind # "Nack"
  BY <1>1, <1>2
<1>4. \A i \in DOMAIN acks' : acks'[i].kind = "Ack"
  <2>1. /\ Len(acks) \in Nat \ {0} /\ DOMAIN acks = 1 .. Len(acks)
        /\ DOMAIN acks' = 1 .. Len(acks) - 1
        /\ \A i \in 1 .. Len(acks) - 1 : acks'[i] = acks[i + 1]
    BY <1>1, <1>2, HeadTailProperties, LenProperties
  <2>2. SUFFICES ASSUME NEW i \in 1 .. Len(acks) - 1 PROVE acks'[i].kind = "Ack"
    BY <2>1
  <2>3. acks'[i] = acks[i + 1] /\ i + 1 \in DOMAIN acks
    BY <2>1
  <2> QED
    BY <1>2, <2>3
<1>5. CASE UNCHANGED <<qp, rx>>
  BY <1>1, <1>4, <1>5 DEF Orderly, InSequence
<1>6. CASE ~UNCHANGED <<qp, rx>>
  <2> DEFINE acked == IF AckInterval = 0 THEN qp
                      ELSE Acknowledge(qp, AckedSeq(Head(acks).seq))
             finish == AckInterval # 0 /\ IsFinished(acked)
  <2>1. /\ qp.live
        /\ \E cnp \in {qp.cnp, TRUE} : qp' = [acked EXCEPT !.live = ~finish, !.cnp = cnp]
        /\ rx' = IF finish THEN FreshRx ELSE rx
    BY <1>3, <1>6 DEF ReceiveAck
  <2>2. qp \in [nxt : 0 .. Size, una : 0 .. Size, live : BOOLEAN, win : Windows, cnp : BOOLEAN]
    BY DEF IInv, TypeOK
  <2>3. acked.nxt = qp.nxt
    BY <2>2 DEF Acknowledge
  <2>4. DOMAIN acked = DOMAIN qp
    BY <2>2 DEF Acknowledge
  <2>5. finish \in BOOLEAN
    OBVIOUS
  <2>6. finish => qp'.una >= Size
    BY <2>1, <2>2 DEF IsFinished, Acknowledge
  <2> HIDE DEF acked, finish
  <2>7. qp'.nxt = qp.nxt /\ qp'.live = ~finish
    BY <2>1, <2>2, <2>3, <2>4, <2>5
  <2>8. CASE ~finish
    BY <1>1, <1>4, <2>1, <2>7, <2>8 DEF Orderly, InSequence
  <2>9. CASE finish
    <3>1. rx.next = Size
      <4>1. Transfer!Next \/ UNCHANGED Transfer!vars
        BY ReceiveAckTransfer
      <4>2. qp.live /\ ~qp'.live /\ rx.next \in 0 .. Size
        BY <2>1, <2>7, <2>9 DEF IInv, TypeOK
      <4> QED
        BY <4>1, <4>2 DEF Transfer!Next, Transfer!vars, Transfer!Deliver, Transfer!FallBack,
                          Transfer!Complete
    <3>2. Flight = <<>>
      <4>1. SUFFICES ASSUME Flight # <<>> PROVE FALSE
        OBVIOUS
      <4>2. 1 \in DOMAIN Flight
        BY <4>1, FlightType
      <4>3. Flight[1].seq = rx.next /\ Whole(Flight[1])
        BY <1>1, <2>1, <4>2 DEF Orderly, InSequence
      <4> QED
        BY <3>1, <4>3 DEF Whole
    <3>3. qp.nxt = Size
      BY <1>1, <2>1, <3>1, <3>2 DEF Orderly, InSequence
    <3> QED
      BY <1>1, <1>4, <2>7, <2>9, <3>2, <3>3 DEF Orderly
  <2> QED
    BY <2>5, <2>8, <2>9
<1> QED
  BY <1>5, <1>6

\* Every step keeps the order.
LEMMA NextOrderly == TailRecognised /\ IInv /\ Orderly /\ [Next]_vars => Orderly'
<1> SUFFICES ASSUME TailRecognised, IInv, Orderly, [Next]_vars PROVE Orderly'
  OBVIOUS
<1>1. CASE CutPacket
  BY <1>1, TransmitOrderly
<1>9. CASE FindNothing
  BY <1>9, TwoCalls DEF Orderly, InSequence, Flight
<1>2. CASE TransmitComplete
  BY <1>2, SentOrderly
<1>3. CASE ReceiveUdp
  BY <1>3, ReceiveOrderly
<1>4. CASE ReceiveAck
  BY <1>4, AckOrderly
<1>5. CASE LoseData \/ LoseAck
  <2>1. hist'.lost # 0
    <3>1. hist \in [lost : 0 .. MaxLoss, data : Fates, ctl : Fates, verdict : Verdicts]
      BY DEF IInv, TypeOK
    <3>2. \/ hist' = [hist EXCEPT !.lost = hist.lost + 1, !.data = "Lost"]
          \/ hist' = [hist EXCEPT !.lost = hist.lost + 1, !.ctl = "Lost"]
      BY <1>5 DEF LoseData, LoseAck
    <3>3. hist.lost \in Nat
      BY <3>1
    <3>4. hist'.lost = hist.lost + 1
      BY <3>1, <3>2
    <3> QED
      BY <3>3, <3>4
  <2> QED
    BY <2>1 DEF Orderly
<1>6. CASE NackTimerExpires
  <2>1. rx'.next = rx.next /\ UNCHANGED <<qp, nic, data, acks, sent, hist>>
    BY <1>6 DEF NackTimerExpires, IInv, TypeOK
  <2> QED
    BY <2>1 DEF Orderly, InSequence, Flight
<1>7. CASE DecreaseWindow \/ IncreaseWindow
  <2>1. qp'.nxt = qp.nxt /\ qp'.live = qp.live /\ UNCHANGED <<nic, rx, data, acks, sent, hist>>
    BY <1>7 DEF DecreaseWindow, IncreaseWindow, IInv, TypeOK
  <2> QED
    BY <2>1 DEF Orderly, InSequence, Flight
<1>8. CASE UNCHANGED vars
  BY <1>8 DEF vars, Orderly, InSequence, Flight
<1> QED
  BY <1>1, <1>2, <1>3, <1>4, <1>5, <1>6, <1>7, <1>8, <1>9, TwoCalls DEF Next

\* Where the last packet can be told by its size, QbbNetDevice::TransmitStart
\* reports a flow that loses nothing as sent exactly once, with its last packet
\* and before it completes, whatever the windows and the timers do.
THEOREM SentOnceCorrect ==
  ASSUME TailRecognised
  PROVE  Spec => []SentOnce
<1>1. IInv /\ Orderly => SentOnce
  BY FlightType DEF Orderly, SentOnce
<1>2. TailRecognised /\ IInv /\ Orderly /\ [Next]_vars => Orderly'
  BY NextOrderly
<1>3. IInv /\ Orderly /\ [Next]_vars => Orderly'
  BY <1>2
<1> QED
  BY <1>1, <1>3, InitOrderly, InvariantCorrect, PTL DEF Spec

-------------------------------------------------------------------------------
\* At rest.

\* Go-back-N with an acknowledgement for every packet that arrives in sequence.
EveryPacketAcked == ~BackTo0 /\ AckInterval \in 1 .. LengthAt(0)

\* Where packets begin and end, sender and receiver agree.
Aligned ==
  /\ \A i \in DOMAIN Flight : Whole(Flight[i])
  /\ Boundary(qp.nxt) /\ Boundary(qp.una) /\ Boundary(rx.next)
  /\ \A i \in DOMAIN acks : Boundary(acks[i].seq)

\* What became of the last packet: it is under way, or a rewind came after it,
\* or it was lost, kept back, received, or answered by a NACK.
LastPacket ==
  qp.live =>
    \/ qp.nxt <= qp.una
    \/ Flight # <<>> /\ End(Flight[Len(Flight)]) = qp.nxt
    \/ /\ Flight = <<>>
       /\ \/ hist.data = "Lost"
          \/ hist.verdict = "Suppressed"
          \/ rx.next >= qp.nxt
          \/ acks # <<>> /\ acks[Len(acks)].kind = "Nack"
          \/ acks = <<>> /\ hist.ctl = "Lost"

\* What became of the last acknowledgement, which says all the receiver holds.
LastAck ==
  qp.live =>
    \/ acks # <<>> /\ acks[Len(acks)].seq = rx.next
    \/ acks = <<>> /\ (hist.ctl = "Lost" \/ qp.una >= rx.next)

NotYetComplete == qp.live => qp.una < Size

RestInv == Aligned /\ LastPacket /\ LastAck /\ NotYetComplete

AckRecords == [kind : {"Ack", "Nack"}, seq : 0 .. Size]

\* The last element outlives the first.
LEMMA TailLast ==
  ASSUME NEW S, NEW s \in Seq(S), s # <<>>
  PROVE  /\ Tail(s) # <<>> => Tail(s)[Len(Tail(s))] = s[Len(s)]
         /\ Tail(s) = <<>> => s[Len(s)] = Head(s)
         /\ \A i \in DOMAIN Tail(s) : \E j \in DOMAIN s : Tail(s)[i] = s[j]
<1>1. /\ Len(s) \in Nat \ {0} /\ DOMAIN s = 1 .. Len(s) /\ Head(s) = s[1]
      /\ Len(Tail(s)) = Len(s) - 1 /\ DOMAIN Tail(s) = 1 .. Len(s) - 1
      /\ \A i \in 1 .. Len(s) - 1 : Tail(s)[i] = s[i + 1]
  BY HeadTailProperties, LenProperties
<1>2. ASSUME Tail(s) # <<>> PROVE Tail(s)[Len(Tail(s))] = s[Len(s)]
  <2>1. Len(s) - 1 \in 1 .. Len(s) - 1 /\ (Len(s) - 1) + 1 = Len(s)
    BY <1>1, <1>2
  <2> QED
    BY <1>1, <2>1
<1>3. ASSUME Tail(s) = <<>> PROVE s[Len(s)] = Head(s)
  <2> DEFINE t == Tail(s)
  <2>1. t = <<>> /\ Len(t) = Len(s) - 1 /\ Len(s) \in Nat
    BY <1>1, <1>3
  <2> HIDE DEF t
  <2>2. Len(s) = 1
    BY <2>1
  <2> QED
    BY <1>1, <2>2
<1>4. \A i \in DOMAIN Tail(s) : i + 1 \in DOMAIN s /\ Tail(s)[i] = s[i + 1]
  BY <1>1
<1> QED
  BY <1>2, <1>3, <1>4

\* What is appended is the last element.
LEMMA AppendLast ==
  ASSUME NEW S, NEW s \in Seq(S), NEW e \in S
  PROVE  LET t == Append(s, e)
         IN  /\ t # <<>> /\ t[Len(t)] = e
             /\ \A i \in DOMAIN t : t[i] = e \/ \E j \in DOMAIN s : t[i] = s[j]
<1> DEFINE t == Append(s, e)
<1>1. /\ Len(s) \in Nat /\ DOMAIN s = 1 .. Len(s)
      /\ Len(t) = Len(s) + 1 /\ DOMAIN t = 1 .. Len(s) + 1 /\ t[Len(s) + 1] = e
      /\ \A i \in 1 .. Len(s) : t[i] = s[i]
  BY AppendProperties, LenProperties
<1> HIDE DEF t
<1>2. t # <<>>
  BY <1>1
<1>3. \A i \in DOMAIN t : i = Len(s) + 1 \/ i \in DOMAIN s
  BY <1>1
<1> QED
  BY <1>1, <1>2, <1>3 DEF t

\* Nothing has been cut and nothing acknowledged.
LEMMA InitRest == Init => RestInv
<1> SUFFICES ASSUME Init PROVE RestInv
  OBVIOUS
<1>1. /\ Flight = <<>> /\ acks = <<>> /\ rx.next = 0
      /\ qp.nxt = 0 /\ qp.una = 0
  BY DEF Init, Flight, FreshRx
<1>2. 0 % Mtu = 0
  BY WholePackets
<1> QED
  BY <1>1, <1>2 DEF RestInv, Aligned, LastPacket, LastAck, NotYetComplete, Boundary

\* A packet that is cut is the last one.
LEMMA TransmitRest == IInv /\ RestInv /\ CutPacket => RestInv'
<1> SUFFICES ASSUME IInv, RestInv, CutPacket PROVE RestInv'
  BY SMTT(40)
<1>1. /\ Flight \in Seq(Packets) /\ nic' # Idle /\ Flight' = Append(Flight, nic')
  BY FlightType, FlightStep, TwoCalls DEF Next
<1>2. qp.nxt \in Nat /\ qp.nxt < Size /\ PayloadSize(qp) = LengthAt(qp.nxt)
  BY SMTT(40) DEF IInv, TypeOK, CutPacket, DequeueAndTransmit, GetNxtPacket, Sendable, GetBytesLeft, PayloadSize, LengthAt
<1>3. nic'.seq = qp.nxt /\ nic'.len = LengthAt(qp.nxt) /\ qp.nxt % Mtu = 0
  BY <1>2 DEF CutPacket, DequeueAndTransmit, GetNxtPacket, Sendable, RestInv, Aligned, Boundary
<1>4. qp'.nxt = qp.nxt + LengthAt(qp.nxt) /\ qp'.live = qp.live /\ qp'.una = qp.una
  BY <1>2 DEF CutPacket, DequeueAndTransmit, GetNxtPacket, Sendable, IInv, TypeOK
<1>5. Boundary(qp'.nxt) /\ Whole(nic') /\ qp'.nxt = End(nic')
  BY <1>2, <1>3, <1>4, NextBoundary DEF Whole, End
<1>6. nic' \in Packets
  BY NextIInv, TwoCalls, <1>1 DEF IInv, TypeOK, Next
<1> DEFINE F == Flight
           G == Flight'
<1>7. /\ G # <<>> /\ G[Len(G)] = nic'
      /\ \A i \in DOMAIN G : G[i] = nic' \/ \E j \in DOMAIN F : G[i] = F[j]
  BY <1>1, <1>6, AppendLast
<1>8. \A i \in DOMAIN F : Whole(F[i])
  BY DEF RestInv, Aligned
<1> HIDE DEF F, G
<1>9. \A i \in DOMAIN G : Whole(G[i])
  BY <1>5, <1>7, <1>8
<1>10. acks' = acks /\ rx' = rx /\ hist' = hist
  BY DEF CutPacket, DequeueAndTransmit, GetNxtPacket, Sendable
<1>11. Aligned'
  BY <1>4, <1>5, <1>9, <1>10 DEF RestInv, Aligned, G
<1>12. LastPacket'
  BY <1>5, <1>7 DEF LastPacket, G
<1>13. LastAck' /\ NotYetComplete'
  BY <1>4, <1>10 DEF RestInv, LastAck, NotYetComplete
<1> QED
  BY <1>11, <1>12, <1>13 DEF RestInv

\* What the receiver makes of a packet, with go-back-N and an acknowledgement for
\* every packet: it takes it and says so, asks again, or leaves all as it was.
LEMMA Received ==
  ASSUME EveryPacketAcked, IInv, RestInv, ReceiveUdp
  PROVE  LET p == Head(data)
             a == [kind |-> CheckVerdict(rx, p), seq |-> rx'.next]
         IN  /\ p \in Packets /\ Whole(p) /\ Boundary(rx'.next)
             /\ \/ /\ acks' = Append(acks, a) /\ a \in AckRecords
                   /\ a.kind = "Nack" \/ rx'.next = End(p)
                \/ /\ acks' = acks /\ rx'.next = rx.next
                   /\ hist'.verdict = "Suppressed" \/ p.seq < rx.next
<1> DEFINE p == Head(data)
           verdict == CheckVerdict(rx, p)
           a == [kind |-> verdict, seq |-> rx'.next]
<1>1. Flight # <<>> /\ Flight[1] = p
  BY FlightStep, TwoCalls DEF Next
<1>2. p \in Packets /\ Whole(p)
  <2>1. 1 \in DOMAIN Flight
    BY <1>1, FlightType
  <2> QED
    BY <1>1, <2>1, FlightType DEF RestInv, Aligned
<1>3. /\ rx \in [next : 0 .. Size, timer : BOOLEAN, lastNack : Nat]
      /\ rx' = CheckRx(rx, p) /\ Boundary(rx.next)
      /\ hist' = [hist EXCEPT !.data = "Arrived", !.verdict = verdict]
      /\ acks' = IF verdict \in {"Ack", "Nack"} THEN Append(acks, a) ELSE acks
  BY DEF ReceiveUdp, IInv, TypeOK, RestInv, Aligned
<1>4. hist'.verdict = verdict
  <2>1. hist \in [lost : 0 .. MaxLoss, data : Fates, ctl : Fates, verdict : Verdicts]
    BY DEF IInv, TypeOK
  <2> HIDE DEF verdict
  <2> QED
    BY <1>3, <2>1
<1>5. rx'.next \in 0 .. Size
  BY NextIInv DEF IInv, TypeOK, Next
<1>6. p.seq \in Nat /\ p.len \in Nat /\ p.len = LengthAt(p.seq) /\ p.seq < Size /\ p.seq % Mtu = 0
  BY <1>2 DEF Packets, Whole
<1> HIDE DEF p
<1>7. CASE p.seq = rx.next
  <2>1. CheckRx(rx, p) = [rx EXCEPT !.next = @ + p.len]
    BY <1>3, <1>7 DEF CheckRx
  <2>2. rx'.next = End(p) /\ Boundary(rx'.next)
    BY <1>3, <1>6, <1>7, <2>1, NextBoundary DEF End
  <2>3. AckInterval <= rx.next + p.len
    BY SMTT(40), <1>3, <1>6, <1>7 DEF EveryPacketAcked, LengthAt
  <2>4. verdict = "Ack"
    BY <1>3, <1>6, <1>7, <2>3 DEF CheckVerdict, AckDue
  <2>5. a \in AckRecords
    BY <1>5, <2>4 DEF AckRecords
  <2> QED
    BY <1>2, <1>3, <2>2, <2>4, <2>5 DEF p
<1>8. CASE p.seq > rx.next /\ NackDue(rx)
  <2>1. CheckRx(rx, p) = [next |-> GoBack(rx.next), timer |-> TRUE, lastNack |-> rx.next % U32]
    BY <1>3, <1>6, <1>8 DEF CheckRx
  <2>2. rx'.next = rx.next
    BY <1>3, <2>1 DEF GoBack, EveryPacketAcked
  <2>3. verdict = "Nack"
    BY SMTT(40), <1>3, <1>6, <1>8 DEF CheckVerdict
  <2>4. a \in AckRecords
    BY <1>5, <2>3 DEF AckRecords
  <2> QED
    BY <1>2, <1>3, <2>2, <2>3, <2>4 DEF p
<1>9. CASE p.seq # rx.next /\ ~(p.seq > rx.next /\ NackDue(rx))
  <2>1. rx' = rx
    BY <1>3, <1>6, <1>9 DEF CheckRx
  <2>2. \/ verdict = "Suppressed"
        \/ verdict = "Duplicate" /\ p.seq < rx.next
    BY SMTT(40), <1>3, <1>6, <1>9 DEF CheckVerdict
  <2> QED
    BY <1>2, <1>3, <1>4, <2>1, <2>2 DEF p
<1> QED
  BY <1>3, <1>6, <1>7, <1>8, <1>9

\* The receiver answers the last packet, or has it already, or keeps a NACK back.
LEMMA ReceiveRest == EveryPacketAcked /\ IInv /\ RestInv /\ ReceiveUdp => RestInv'
<1> SUFFICES ASSUME EveryPacketAcked, IInv, RestInv, ReceiveUdp PROVE RestInv'
  OBVIOUS
<1> DEFINE F == Flight
           G == Flight'
           p == Head(data)
           a == [kind |-> CheckVerdict(rx, p), seq |-> rx'.next]
<1>1. /\ F \in Seq(Packets) /\ F # <<>> /\ F[1] = p /\ G = Tail(F) /\ Head(F) = F[1]
  <2>1. F \in Seq(Packets) /\ F # <<>> /\ F[1] = p /\ G = Tail(F)
    BY FlightType, FlightStep, TwoCalls DEF Next
  <2> HIDE DEF F, G, p
  <2> QED
    BY <2>1
<1>2. /\ G # <<>> => G[Len(G)] = F[Len(F)]
      /\ G = <<>> => F[Len(F)] = p
      /\ \A i \in DOMAIN G : \E j \in DOMAIN F : G[i] = F[j]
  <2> HIDE DEF F, G
  <2> QED
    BY <1>1, TailLast
<1>3. \A i \in DOMAIN F : Whole(F[i])
  BY DEF RestInv, Aligned
<1>4. /\ p \in Packets /\ Whole(p) /\ Boundary(rx'.next)
      /\ \/ /\ acks' = Append(acks, a) /\ a \in AckRecords
            /\ a.kind = "Nack" \/ rx'.next = End(p)
         \/ /\ acks' = acks /\ rx'.next = rx.next
            /\ hist'.verdict = "Suppressed" \/ p.seq < rx.next
  BY Received
<1>5. /\ acks \in Seq(AckRecords)
      /\ \A i \in DOMAIN acks : Boundary(acks[i].seq)
      /\ rx.next \in 0 .. Size /\ Boundary(rx.next) /\ qp.nxt \in 0 .. Size
      /\ rx'.next \in 0 .. Size
  BY NextIInv DEF IInv, TypeOK, RestInv, Aligned, AckRecords, Next
<1>6. a.seq = rx'.next
  OBVIOUS
<1>7. qp' = qp /\ hist'.ctl = hist.ctl
  <2>1. hist \in [lost : 0 .. MaxLoss, data : Fates, ctl : Fates, verdict : Verdicts]
    BY DEF IInv, TypeOK
  <2>2. hist' = [hist EXCEPT !.data = "Arrived", !.verdict = CheckVerdict(rx, p)]
    BY DEF ReceiveUdp
  <2> QED
    BY <2>1, <2>2 DEF ReceiveUdp
<1>8. p.seq \in Nat /\ p.len = LengthAt(p.seq) /\ p.seq < Size /\ p.seq % Mtu = 0
  BY <1>4 DEF Packets, Whole
<1> HIDE DEF F, G, p, a
<1>9. \A i \in DOMAIN G : Whole(G[i])
  BY <1>2, <1>3
<1>10. acks' # acks => /\ acks' # <<>> /\ acks'[Len(acks')] = a
                       /\ \A i \in DOMAIN acks' :
                            acks'[i] = a \/ \E j \in DOMAIN acks : acks'[i] = acks[j]
  <2>1. SUFFICES ASSUME acks' = Append(acks, a), a \in AckRecords
                 PROVE  /\ acks' # <<>> /\ acks'[Len(acks')] = a
                        /\ \A i \in DOMAIN acks' :
                             acks'[i] = a \/ \E j \in DOMAIN acks : acks'[i] = acks[j]
    BY <1>4
  <2> DEFINE t == Append(acks, a)
  <2>2. /\ t # <<>> /\ t[Len(t)] = a
        /\ \A i \in DOMAIN t : t[i] = a \/ \E j \in DOMAIN acks : t[i] = acks[j]
    BY <1>5, <2>1, AppendLast
  <2> QED
    BY <2>1, <2>2
<1>11. \A i \in DOMAIN acks' : Boundary(acks'[i].seq)
  BY <1>4, <1>5, <1>6, <1>10
<1>12. Aligned'
  BY <1>4, <1>7, <1>9, <1>11 DEF RestInv, Aligned, G
<1>13. LastPacket'
  <2>1. SUFFICES ASSUME qp.live, ~(qp.nxt <= qp.una), G = <<>>
                 PROVE  \/ hist'.verdict = "Suppressed"
                        \/ rx'.next >= qp.nxt
                        \/ acks' # <<>> /\ acks'[Len(acks')].kind = "Nack"
    <3>1. qp.live /\ ~(qp.nxt <= qp.una) => End(F[Len(F)]) = qp.nxt
      BY <1>1 DEF RestInv, LastPacket, F
    <3> QED
      BY <1>2, <1>7, <3>1 DEF LastPacket, G
  <2>2. End(p) = qp.nxt
    BY <1>1, <1>2, <2>1 DEF RestInv, LastPacket, F
  <2>3. CASE acks' # acks
    BY <1>4, <1>5, <1>10, <2>2, <2>3
  <2>4. CASE p.seq < rx.next /\ rx'.next = rx.next
    <3>1. p.seq + p.len <= rx.next
      BY <1>5, <1>8, <2>4, BoundaryGap
    <3> QED
      BY <2>2, <2>4, <3>1 DEF End
  <2>5. acks' = acks => acks' # Append(acks, a)
    <3>1. acks' = Append(acks, a) /\ a \in AckRecords => Len(acks') = Len(acks) + 1
      BY <1>5, AppendProperties
    <3>2. Len(acks) \in Nat
      BY <1>5, LenProperties
    <3> QED
      BY <1>4, <1>5, <3>1, <3>2
  <2> QED
    BY <1>4, <2>3, <2>4, <2>5
<1>14. LastAck'
  <2>1. CASE acks' # acks
    BY <1>6, <1>10, <2>1 DEF LastAck
  <2>2. CASE acks' = acks
    <3>1. rx'.next = rx.next
      <4>1. acks' = Append(acks, a) /\ a \in AckRecords => Len(acks') = Len(acks) + 1
        BY <1>5, AppendProperties
      <4>2. Len(acks) \in Nat
        BY <1>5, LenProperties
      <4> QED
        BY <1>4, <2>2, <4>1, <4>2
    <3> QED
      BY <1>7, <2>2, <3>1 DEF RestInv, LastAck
  <2> QED
    BY <2>1, <2>2
<1>15. NotYetComplete'
  BY <1>7 DEF RestInv, NotYetComplete
<1> QED
  BY <1>12, <1>13, <1>14, <1>15 DEF RestInv

\* What the sender makes of an acknowledgement, with go-back-N: it counts what is
\* new in it, and a NACK sends it back there.
LEMMA Acked ==
  ASSUME EveryPacketAcked, IInv, RestInv, ReceiveAck, qp'.live
  PROVE  LET a == Head(acks)
         IN  /\ rx' = rx /\ qp.live
             /\ qp'.una \in 0 .. Size /\ qp'.nxt \in 0 .. Size
             /\ qp'.una < Size
             /\ qp'.una \in {qp.una, a.seq} /\ qp.una <= qp'.una /\ a.seq <= qp'.una
             /\ IF a.kind = "Nack" THEN qp'.nxt = qp'.una ELSE qp'.nxt = qp.nxt
<1> DEFINE a == Head(acks)
           acked == IF AckInterval = 0 THEN qp ELSE Acknowledge(qp, AckedSeq(a.seq))
           finish == AckInterval # 0 /\ IsFinished(acked)
           rewound == IF a.kind = "Nack" THEN RecoverQueue(acked) ELSE acked
           Qp == [nxt : 0 .. Size, una : 0 .. Size, live : BOOLEAN, win : Windows, cnp : BOOLEAN]
<1>1. a \in AckRecords /\ qp \in Qp
  BY TailOfAcks DEF ReceiveAck, IInv, TypeOK, AckRecords
<1>2. a.seq \in 0 .. Size
  BY <1>1 DEF AckRecords
<1>3. qp.live
  <2>1. ~qp.live => qp' = qp
    BY DEF ReceiveAck
  <2> QED
    BY <2>1
<1>4. PICK cnp \in {qp.cnp, TRUE} : qp' = [rewound EXCEPT !.live = ~finish, !.cnp = cnp]
  BY <1>3 DEF ReceiveAck
<1>5. rx' = IF finish THEN FreshRx ELSE rx
  BY <1>3 DEF ReceiveAck
<1>6. AckInterval # 0 /\ AckedSeq(a.seq) = a.seq
  BY DEF EveryPacketAcked, LengthAt, AckedSeq, GoBack
<1> HIDE DEF a
<1>7. /\ acked \in Qp /\ acked.nxt = qp.nxt
      /\ acked.una \in {qp.una, a.seq} /\ qp.una <= acked.una /\ a.seq <= acked.una
  <2>1. acked = IF a.seq > qp.una THEN [qp EXCEPT !.una = a.seq] ELSE qp
    BY <1>6 DEF Acknowledge
  <2>2. CASE a.seq > qp.una
    <3>1. acked = [qp EXCEPT !.una = a.seq]
      BY <2>1, <2>2
    <3> HIDE DEF acked
    <3> QED
      BY <1>1, <1>2, <2>2, <3>1
  <2>3. CASE ~(a.seq > qp.una)
    <3>1. acked = qp
      BY <2>1, <2>3
    <3> HIDE DEF acked
    <3> QED
      BY <1>1, <1>2, <2>3, <3>1
  <2> QED
    BY <2>2, <2>3
<1> HIDE DEF acked
<1>8. /\ rewound \in Qp /\ rewound.una = acked.una
      /\ rewound.nxt = IF a.kind = "Nack" THEN acked.una ELSE qp.nxt
  BY <1>7 DEF RecoverQueue
<1>9. finish \in BOOLEAN /\ (~finish => acked.una < Size)
  BY <1>6, <1>7 DEF IsFinished
<1> HIDE DEF rewound, finish
<1>10. qp'.live = ~finish /\ qp'.una = rewound.una /\ qp'.nxt = rewound.nxt
  BY <1>4, <1>8, <1>9
<1> HIDE DEF Qp
<1>11. rx' = rx /\ qp'.una = acked.una /\ acked.una < Size
  BY <1>5, <1>8, <1>9, <1>10
<1>12. acked.una \in 0 .. Size /\ qp.nxt \in 0 .. Size
  BY <1>1, <1>7 DEF Qp
<1> QED
  BY <1>3, <1>7, <1>8, <1>10, <1>11, <1>12 DEF a

\* A NACK sends the sender back to what it has counted; an acknowledgement that is
\* the last brings all that the receiver holds.
LEMMA AckRest == EveryPacketAcked /\ IInv /\ RestInv /\ ReceiveAck => RestInv'
<1> SUFFICES ASSUME EveryPacketAcked, IInv, RestInv, ReceiveAck PROVE RestInv'
  OBVIOUS
<1> DEFINE a == Head(acks)
           rest == Tail(acks)
<1>1. /\ acks # <<>> /\ acks' = rest /\ Flight' = Flight
      /\ acks \in Seq(AckRecords)
  BY DEF ReceiveAck, IInv, TypeOK, AckRecords, Flight
<1>2. hist'.data = hist.data /\ hist'.verdict = hist.verdict
  BY DEF ReceiveAck, IInv, TypeOK
<1>3. /\ rest # <<>> => rest[Len(rest)] = acks[Len(acks)]
      /\ rest = <<>> => acks[Len(acks)] = a
      /\ \A i \in DOMAIN rest : \E j \in DOMAIN acks : rest[i] = acks[j]
  BY <1>1, TailLast
<1>4. \A i \in DOMAIN acks : Boundary(acks[i].seq)
  BY DEF RestInv, Aligned
<1>5. Boundary(a.seq)
  <2>1. 1 \in DOMAIN acks /\ a = acks[1]
    BY <1>1
  <2> QED
    BY <1>4, <2>1
<1>6. \A i \in DOMAIN acks' : Boundary(acks'[i].seq)
  BY <1>1, <1>3, <1>4
<1> HIDE DEF a, rest
<1>7. CASE qp'.live
  <2>1. /\ rx' = rx /\ qp.live
        /\ qp'.una \in 0 .. Size /\ qp'.nxt \in 0 .. Size
        /\ qp'.una < Size
        /\ qp'.una \in {qp.una, a.seq} /\ qp.una <= qp'.una /\ a.seq <= qp'.una
        /\ IF a.kind = "Nack" THEN qp'.nxt = qp'.una ELSE qp'.nxt = qp.nxt
    BY <1>7, Acked DEF a
  <2>2. Boundary(qp.nxt) /\ Boundary(qp.una) /\ Boundary(rx.next)
    BY DEF RestInv, Aligned
  <2>3. Boundary(qp'.una)
    BY <1>5, <2>1, <2>2
  <2>4. Boundary(qp'.nxt)
    BY <2>1, <2>2, <2>3
  <2>5. Aligned'
    BY <1>1, <1>6, <2>1, <2>2, <2>3, <2>4 DEF RestInv, Aligned
  <2>6. LastPacket'
    <3>1. CASE a.kind = "Nack"
      BY <2>1, <3>1 DEF LastPacket
    <3>2. CASE a.kind # "Nack"
      <4>1. qp'.nxt = qp.nxt /\ qp.una \in Nat /\ qp.nxt \in Nat
        BY <2>1, <3>2 DEF IInv, TypeOK
      <4>2. CASE qp.nxt <= qp.una
        BY <2>1, <4>1, <4>2 DEF LastPacket
      <4>3. CASE Flight # <<>> /\ End(Flight[Len(Flight)]) = qp.nxt
        BY <1>1, <4>1, <4>3 DEF LastPacket
      <4>4. CASE /\ Flight = <<>>
                 /\ \/ hist.data = "Lost"
                    \/ hist.verdict = "Suppressed"
                    \/ rx.next >= qp.nxt
                    \/ acks[Len(acks)].kind = "Nack"
        <5>1. acks[Len(acks)].kind = "Nack" => acks' # <<>> /\ acks'[Len(acks')].kind = "Nack"
          BY <1>1, <1>3, <3>2
        <5> QED
          BY <1>1, <1>2, <2>1, <4>1, <4>4, <5>1 DEF LastPacket
      <4> QED
        BY <1>1, <2>1, <4>2, <4>3, <4>4 DEF RestInv, LastPacket
    <3> QED
      BY <3>1, <3>2
  <2>7. LastAck'
    <3>1. acks[Len(acks)].seq = rx.next
      BY <1>1, <2>1 DEF RestInv, LastAck
    <3>2. CASE rest = <<>>
      BY <1>1, <1>3, <2>1, <3>1, <3>2 DEF LastAck
    <3>3. CASE rest # <<>>
      BY <1>1, <1>3, <2>1, <3>1, <3>3 DEF LastAck
    <3> QED
      BY <3>2, <3>3
  <2>8. NotYetComplete'
    BY <2>1 DEF NotYetComplete
  <2> QED
    BY <2>5, <2>6, <2>7, <2>8 DEF RestInv
<1>8. CASE ~qp'.live
  <2>1. LastPacket' /\ LastAck' /\ NotYetComplete'
    BY <1>8 DEF LastPacket, LastAck, NotYetComplete
  <2>2. CASE UNCHANGED <<qp, rx>>
    <3>1. Aligned'
      BY <1>1, <1>6, <2>2 DEF RestInv, Aligned
    <3> QED
      BY <2>1, <3>1 DEF RestInv
  <2>3. CASE ~UNCHANGED <<qp, rx>>
    <3> DEFINE acked == IF AckInterval = 0 THEN qp ELSE Acknowledge(qp, AckedSeq(a.seq))
               finish == AckInterval # 0 /\ IsFinished(acked)
               rewound == IF a.kind = "Nack" THEN RecoverQueue(acked) ELSE acked
               Qp == [nxt : 0 .. Size, una : 0 .. Size, live : BOOLEAN, win : Windows,
                      cnp : BOOLEAN]
    <3>1. /\ \E cnp \in {qp.cnp, TRUE} : qp' = [rewound EXCEPT !.live = ~finish, !.cnp = cnp]
          /\ rx' = IF finish THEN FreshRx ELSE rx
      BY <2>3 DEF ReceiveAck, a
    <3>2. qp \in Qp /\ qp'.una = Size
      BY <1>8, NextIInv DEF IInv, TypeOK, CompletedAcked, Next
    <3>3. acked.nxt = qp.nxt /\ acked.una \in {qp.una, a.seq} /\ DOMAIN acked = DOMAIN qp
      BY <3>2 DEF Acknowledge, AckedSeq, GoBack, EveryPacketAcked
    <3> HIDE DEF acked
    <3>4. /\ rewound.nxt \in {qp.nxt, qp.una, a.seq}
          /\ DOMAIN rewound = DOMAIN qp
      BY <3>2, <3>3 DEF RecoverQueue
    <3> HIDE DEF rewound, finish
    <3>5. qp'.nxt = rewound.nxt
      BY <3>1, <3>2, <3>4
    <3>6. Boundary(qp'.nxt) /\ Boundary(qp'.una)
      BY <1>5, <3>2, <3>4, <3>5 DEF RestInv, Aligned, Boundary
    <3>7. Boundary(rx'.next)
      <4>1. 0 % Mtu = 0
        BY WholePackets
      <4> QED
        BY <3>1, <4>1 DEF FreshRx, RestInv, Aligned, Boundary
    <3>8. Aligned'
      BY <1>1, <1>6, <3>6, <3>7 DEF RestInv, Aligned
    <3> QED
      BY <2>1, <3>8 DEF RestInv
  <2> QED
    BY <2>2, <2>3
<1> QED
  BY <1>7, <1>8

\* A loss at the head of either direction is remembered if it was the last.
LEMMA LossRest == IInv /\ RestInv /\ (LoseData \/ LoseAck) => RestInv'
<1> SUFFICES ASSUME IInv, RestInv, LoseData \/ LoseAck PROVE RestInv'
  OBVIOUS
<1>1. hist \in [lost : 0 .. MaxLoss, data : Fates, ctl : Fates, verdict : Verdicts]
  BY DEF IInv, TypeOK
<1>2. qp' = qp /\ rx' = rx
  BY DEF LoseData, LoseAck
<1>3. NotYetComplete'
  BY <1>2 DEF RestInv, NotYetComplete
<1>4. CASE LoseData
  <2> DEFINE F == Flight
             G == Flight'
  <2>1. acks' = acks /\ hist'.data = "Lost" /\ hist'.ctl = hist.ctl
    <3>1. hist' = [hist EXCEPT !.lost = @ + 1, !.data = "Lost"]
      BY SMTT(40), <1>4 DEF LoseData
    <3> QED
      BY <1>1, <1>4, <3>1 DEF LoseData
  <2>2. F \in Seq(Packets) /\ F # <<>> /\ G = Tail(F)
    BY <1>4, FlightType, FlightStep, TwoCalls DEF Next
  <2>3. \A i \in DOMAIN F : Whole(F[i])
    BY DEF RestInv, Aligned
  <2>4. F # <<>> /\ qp.live => qp.nxt <= qp.una \/ End(F[Len(F)]) = qp.nxt
    BY DEF RestInv, LastPacket
  <2> HIDE DEF F, G
  <2>5. /\ G # <<>> => G[Len(G)] = F[Len(F)]
        /\ \A i \in DOMAIN G : \E j \in DOMAIN F : G[i] = F[j]
    BY <2>2, TailLast
  <2>6. \A i \in DOMAIN G : Whole(G[i])
    BY <2>3, <2>5
  <2>7. Aligned'
    BY <1>2, <2>1, <2>6 DEF RestInv, Aligned, G
  <2>8. LastPacket'
    BY <1>2, <2>1, <2>2, <2>4, <2>5 DEF LastPacket, G
  <2>9. LastAck'
    BY <1>2, <2>1 DEF RestInv, LastAck
  <2> QED
    BY <1>3, <2>7, <2>8, <2>9 DEF RestInv
<1>5. CASE LoseAck
  <2> DEFINE rest == Tail(acks)
  <2>1. /\ hist'.ctl = "Lost" /\ hist'.data = hist.data /\ hist'.verdict = hist.verdict
        /\ acks # <<>> /\ acks' = rest
    <3>1. hist' = [hist EXCEPT !.lost = @ + 1, !.ctl = "Lost"]
      BY <1>5 DEF LoseAck
    <3> QED
      BY <1>1, <1>5, <3>1 DEF LoseAck
  <2>2. Flight' = Flight /\ acks \in Seq(AckRecords)
    BY <1>5 DEF LoseAck, Flight, IInv, TypeOK, AckRecords
  <2>3. /\ rest # <<>> => rest[Len(rest)] = acks[Len(acks)]
        /\ \A i \in DOMAIN rest : \E j \in DOMAIN acks : rest[i] = acks[j]
    BY <2>1, <2>2, TailLast
  <2> HIDE DEF rest
  <2>4. Aligned'
    BY <1>2, <2>1, <2>2, <2>3 DEF RestInv, Aligned
  <2>5. LastPacket'
    BY <1>2, <2>1, <2>2, <2>3 DEF RestInv, LastPacket
  <2>6. LastAck'
    BY <1>2, <2>1, <2>3 DEF RestInv, LastAck
  <2> QED
    BY <1>3, <2>4, <2>5, <2>6 DEF RestInv
<1> QED
  BY <1>4, <1>5

\* Every step keeps the account of the last packet and the last acknowledgement.
LEMMA NextRest == EveryPacketAcked /\ IInv /\ RestInv /\ [Next]_vars => RestInv'
<1> SUFFICES ASSUME EveryPacketAcked, IInv, RestInv, [Next]_vars PROVE RestInv'
  OBVIOUS
<1>1. CASE CutPacket
  BY <1>1, TransmitRest
<1>9. CASE FindNothing
  BY <1>9, TwoCalls DEF RestInv, Aligned, LastPacket, LastAck, NotYetComplete, Flight
<1>2. CASE TransmitComplete
  <2>1. Flight' = Flight /\ UNCHANGED <<qp, rx, acks, hist>>
    BY <1>2 DEF TransmitComplete, Flight
  <2> QED
    BY <2>1 DEF RestInv, Aligned, LastPacket, LastAck, NotYetComplete
<1>3. CASE ReceiveUdp
  BY <1>3, ReceiveRest
<1>4. CASE ReceiveAck
  BY <1>4, AckRest
<1>5. CASE LoseData \/ LoseAck
  BY <1>5, LossRest
<1>6. CASE NackTimerExpires
  <2>1. rx'.next = rx.next /\ UNCHANGED <<qp, acks, hist>> /\ Flight' = Flight
    BY <1>6 DEF NackTimerExpires, IInv, TypeOK, Flight
  <2> QED
    BY <2>1 DEF RestInv, Aligned, LastPacket, LastAck, NotYetComplete
<1>7. CASE DecreaseWindow \/ IncreaseWindow
  <2>1. /\ qp'.nxt = qp.nxt /\ qp'.live = qp.live /\ qp'.una = qp.una
        /\ UNCHANGED <<rx, acks, hist>> /\ Flight' = Flight
    BY <1>7 DEF DecreaseWindow, IncreaseWindow, IInv, TypeOK, Flight
  <2> QED
    BY <2>1 DEF RestInv, Aligned, LastPacket, LastAck, NotYetComplete
<1>8. CASE UNCHANGED vars
  BY <1>8 DEF vars, RestInv, Aligned, LastPacket, LastAck, NotYetComplete, Flight
<1> QED
  BY <1>1, <1>2, <1>3, <1>4, <1>5, <1>6, <1>7, <1>8, <1>9, TwoCalls DEF Next

\* What the last call of the device left behind: no bytes, or a window that was
\* full.  Only an acknowledgement makes room in it, and that calls again.
Asleep ==
  nic = Idle /\ ~triggered =>
    \/ GetBytesLeft(qp) = 0
    \/ \E w \in Windows : w # 0 /\ GetOnTheFly(qp) >= w

\* Every step keeps that.
LEMMA NextAsleep == IInv /\ Asleep /\ [Next]_vars => Asleep'
<1> SUFFICES ASSUME IInv, Asleep, [Next]_vars PROVE Asleep'
  OBVIOUS
<1>1. qp \in [nxt : 0 .. Size, una : 0 .. Size, live : BOOLEAN, win : Windows, cnp : BOOLEAN]
  BY DEF IInv, TypeOK
<1>2. CASE CutPacket
  <2>1. nic' # Idle
    BY <1>2, FlightStep
  <2> QED
    BY <2>1 DEF Asleep
<1>3. CASE FindNothing
  <2>1. ~Sendable /\ UNCHANGED <<qp, nic>>
    BY <1>3, TwoCalls DEF FindNothing, NoPacketToSend
  <2>2. GetBytesLeft(qp) \in Nat /\ qp.win \in Windows
    BY <1>1 DEF GetBytesLeft
  <2>3. GetBytesLeft(qp) = 0 \/ (qp.win # 0 /\ GetOnTheFly(qp) >= qp.win)
    BY <2>1, <2>2 DEF Sendable, IsWinBound
  <2> QED
    BY <2>1, <2>2, <2>3 DEF Asleep
<1>4. CASE TransmitComplete
  BY <1>4 DEF TransmitComplete, Asleep
<1>5. CASE ReceiveAck
  BY <1>5 DEF ReceiveAck, Asleep
<1>6. CASE ReceiveUdp \/ NackTimerExpires \/ LoseData \/ LoseAck \/ UNCHANGED vars
  BY <1>6 DEF ReceiveUdp, NackTimerExpires, LoseData, LoseAck, vars, Asleep
<1>7. CASE DecreaseWindow \/ IncreaseWindow
  <2>1. /\ qp'.nxt = qp.nxt /\ qp'.una = qp.una
        /\ UNCHANGED <<nic, triggered>>
    BY <1>1, <1>7 DEF DecreaseWindow, IncreaseWindow
  <2> QED
    BY <2>1 DEF Asleep, GetBytesLeft, GetOnTheFly
<1> QED
  BY <1>2, <1>3, <1>4, <1>5, <1>6, <1>7, TwoCalls DEF Next

\* A sender with nothing on the fly was not left so by its window.
LEMMA NothingOnTheFly ==
  ASSUME IInv, qp.nxt = qp.una
  PROVE  ~ \E w \in Windows : w # 0 /\ GetOnTheFly(qp) >= w
<1>1. qp.nxt - qp.una = 0
  BY DEF IInv, TypeOK
<1>2. U64 \in Nat \ {0}
  BY MaxWindowIsWindow
<1>3. 0 % U64 = 0
  BY <1>2, WholePackets
<1>4. GetOnTheFly(qp) = 0
  BY <1>1, <1>3 DEF GetOnTheFly
<1>5. \A w \in Windows : w \in Nat
  BY WindowsAssumption
<1> QED
  BY <1>4, <1>5

\* Where go-back-N acknowledges every packet, a queue pair that stands still does so
\* for one of the four reasons: there is no other way for a flow of any size, with
\* any windows, losses and timers, to stop before RdmaHw::QpComplete.
THEOREM StallCausesCorrect ==
  ASSUME EveryPacketAcked
  PROVE  Spec => []StallCauses
<1>1. IInv /\ RestInv /\ Asleep => StallCauses
  <2>1. SUFFICES ASSUME IInv, RestInv, Asleep, Stalled, hist.data # "Lost", hist.ctl # "Lost",
                        hist.verdict # "Suppressed", ~(qp.nxt < qp.una)
                 PROVE  FALSE
    BY DEF StallCauses
  <2>2. qp.live /\ Flight = <<>> /\ acks = <<>>
    BY <2>1, FlightType DEF Stalled
  <2>3. qp.una \in Nat /\ qp.nxt \in Nat /\ rx.next \in Nat /\ qp.nxt <= Size
    BY <2>1 DEF IInv, TypeOK
  <2>4. qp.una >= rx.next /\ qp.una < Size
    BY <2>1, <2>2 DEF RestInv, LastAck, NotYetComplete
  <2>5. qp.nxt <= qp.una \/ rx.next >= qp.nxt
    BY <2>1, <2>2 DEF RestInv, LastPacket
  <2>6. qp.nxt = qp.una
    BY <2>1, <2>3, <2>4, <2>5
  <2>7. GetBytesLeft(qp) > 0
    BY <2>3, <2>4, <2>6 DEF GetBytesLeft
  <2> QED
    BY <2>1, <2>6, <2>7, NothingOnTheFly DEF Stalled, Asleep
<1>2. IInv /\ RestInv /\ [Next]_vars => RestInv'
  BY NextRest
<1>3. Init => Asleep
  BY DEF Init, Asleep
<1> QED
  BY <1>1, <1>2, <1>3, NextAsleep, InitRest, InvariantCorrect, PTL DEF Spec
===============================================================================
