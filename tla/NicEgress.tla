------------------------------- MODULE NicEgress -------------------------------
(***************************************************************************)
(* The sending side of a host NIC (QbbNetDevice, RdmaEgressQueue) with the *)
(* queue pairs that share it: a round robin over those that may send, the  *)
(* removal of finished ones from the group, pacing by m_nextAvail, PAUSE   *)
(* and RESUME, and the one timer, m_nextSend, that wakes the device when   *)
(* nothing else does.                                                      *)
(*                                                                         *)
(* Time is in ticks.  An event that is due happens before the clock goes   *)
(* on; the device is served only by the events that call                   *)
(* DequeueAndTransmit, which is why a forgotten timer matters.             *)
(*                                                                         *)
(* Sizes are in packets, one tick each on the link, which loses none: what *)
(* a loss does to one queue pair is RdmaQp's.  All data has one priority.  *)
(* The window is that of HAS_WIN without VAR_WIN.                          *)
(* The ACKs this node sends come before its data and only add calls of     *)
(* DequeueAndTransmit; they are left out.                                  *)
(*                                                                         *)
(* A definition that stands right before the one whose name its own name   *)
(* extends is that definition with a plausible fault.                      *)
(***************************************************************************)
EXTENDS Integers, SequencesExt, FiniteSetsExt

CONSTANTS
  Qps,      \* the queue pairs
  Packets,  \* per queue pair, the packets of its flow
  Window,   \* GetWin() in packets; 0 with HAS_WIN 0
  Paces,    \* ticks between two packets at the rates there are; 1 is the line rate
  Pg        \* the priority of all data, which PAUSE and RESUME frames name; 3 there

ASSUME QpsAssumption ==
  IsFiniteSet(Qps) /\ Qps \subseteq Nat \ {0} /\ Packets \in [Qps -> Nat \ {0}]
ASSUME PacesAssumption ==
  Window \in Nat /\ IsFiniteSet(Paces) /\ Paces \subseteq Nat \ {0} /\ 1 \in Paces
ASSUME PgAssumption == Pg \in Nat

VARIABLES
  cc,      \* m_cc_mode: one that changes rates by ChangeRate (HPCC), or Other
  qp,      \* per queue pair: packets left to cut, packets on the fly, m_nextAvail
           \*   less the time, m_rate as a pace
  grp,     \* m_qpGrp, the queue pairs of this device
  rrlast,  \* m_rrlast
  cur,     \* the queue pair of m_currentPkt, or NoQp (READY)
  tx,      \* ticks until TransmitComplete
  wake,    \* ticks until m_nextSend, or None when it has expired
  paused,  \* m_paused of the data priority
  crashed, \* the program has died in Resume
  over     \* history: packets of others sent while a queue pair was due

vars == <<cc, qp, grp, rrlast, cur, tx, wake, paused, crashed, over>>

None == -1
NoQp == 0
MaxPace == Max(Paces)

-------------------------------------------------------------------------------
IsWinBoundLate(q) == Window # 0 /\ q.flying > Window
IsWinBound(q) == Window # 0 /\ q.flying >= Window
IsFinished(q) == q.left = 0 /\ q.flying = 0

\* A packet of the queue pair may be cut, now or when it is available.
MaySend(q, pause) == ~pause /\ q.left > 0 /\ ~IsWinBound(q)

\* RdmaEgressQueue::GetNextQindex looks at the group from behind m_rrlast on.
OrderFromStart(n) == [k \in 1 .. n |-> k]
Order(n) == [k \in 1 .. n |-> ((k + rrlast) % n) + 1]

\* How many it looks at to find one that may send now; one more than there are
\* if it finds none.
Found(q, g, pause) ==
  LET order == Order(Len(g))
      ready == {k \in DOMAIN g : MaySend(q[g[order[k]]], pause) /\ q[g[order[k]]].avail <= 0}
  IN  IF ready = {} THEN Len(g) + 1 ELSE Min(ready)

\* The finished queue pairs among them, from the first of which on the group is
\* rid of finished ones.
Cleared(q, g, found) ==
  LET order == Order(Len(g))
      looked == {order[k] : k \in {k \in DOMAIN g : k <= found}}
  IN  {i \in looked : IsFinished(q[g[i]])}

\* The rest of the group, and with it the positions below the first of them.
Kept(q, g, cleared) ==
  {k \in DOMAIN g : (\A c \in cleared : k < c) \/ ~IsFinished(q[g[k]])}

\* How many of the positions come up to k.
Rank(kept, k) == Cardinality({j \in kept : j <= k})

CleanedNot(q, g, cleared) == g
Cleaned(q, g, cleared) ==
  LET kept == Kept(q, g, cleared)
  IN  IF cleared = {} THEN g
      ELSE [n \in 1 .. Cardinality(kept) |-> g[CHOOSE k \in kept : Rank(kept, k) = n]]

\* DequeueAndTransmit has nothing to send: m_nextSend is set to the earliest
\* m_nextAvail of the group, if it is not running and that is still to come.
NextSendNot(q, g, w) == w
NextSend(q, g, w) ==
  LET earliest == Min({q[g[k]].avail : k \in DOMAIN g})
  IN  IF w = None /\ g # <<>> /\ earliest > 0 THEN earliest ELSE w

\* QbbNetDevice::DequeueAndTransmit, and RdmaHw::PktSent for what it sends: on
\* the queue pairs q in the group g, with the timer w, when the device is ready
\* and its priority paused or not.
DequeueAndTransmit(q, g, w, ready, pause) ==
  LET found == Found(q, g, pause)
      cleaned == Cleaned(q, g, Cleared(q, g, found))
      next == g[Order(Len(g))[found]]
  IN  \/ /\ ~ready
         /\ qp' = q /\ grp' = g /\ wake' = w
         /\ UNCHANGED <<rrlast, cur, tx>>
      \/ /\ ready /\ found > Len(g)
         /\ qp' = q /\ grp' = cleaned
         /\ wake' = NextSend(q, cleaned, w)
         /\ cur' = NoQp /\ tx' = 0
         /\ UNCHANGED rrlast
      \/ /\ ready /\ found <= Len(g)
         /\ qp' = [q EXCEPT ![next].left = @ - 1, ![next].flying = @ + 1,
                            ![next].avail = q[next].pace]
         /\ grp' = cleaned /\ wake' = w
         /\ rrlast' = (CHOOSE k \in DOMAIN cleaned : cleaned[k] = next) - 1
         /\ cur' = next /\ tx' = 1

Ready == cur = NoQp

-------------------------------------------------------------------------------
Init ==
  /\ cc \in {"HPCC", "Other"}
  /\ qp = [i \in Qps |-> [left |-> Packets[i], flying |-> 0, avail |-> 0, pace |-> 1]]
  /\ grp = <<>>
  /\ rrlast = 0
  /\ cur = NoQp /\ tx = 0
  /\ wake = None
  /\ paused = FALSE
  /\ crashed = FALSE
  /\ over = [i \in Qps |-> 0]

Started(i) == Contains(grp, i) \/ qp[i].left < Packets[i]

\* RdmaHw::AddQueuePair, QbbNetDevice::NewQp
NewQp(i) ==
  /\ ~Started(i)
  /\ DequeueAndTransmit(qp, Append(grp, i), wake, Ready, paused)
  /\ UNCHANGED <<paused, crashed>>

\* A time as far in the past as no rate can bring back is as good as any other.
Past(t) == IF t < -MaxPace THEN -MaxPace ELSE t

\* RdmaHw::ChangeRate moves m_nextAvail by what the last packet takes longer or
\* shorter; UpdateNextAvail brings the timer forward, never back.
MovedAvail(q, pace) == Past(q.avail + pace - q.pace)

MovedWake(w, avail) == IF w # None /\ avail < w THEN Max({0, avail}) ELSE w

\* The packets of the queue pair that have left and are not acknowledged.
Left(i) == qp[i].flying - (IF cur = i THEN 1 ELSE 0)

\* RdmaHw::ReceiveAck for packets that have left, with the rate as it is; HPCC
\* may change it on every acknowledgement.  Then TriggerTransmit.
ReceiveAck(i) ==
  /\ \E n \in 1 .. Left(i) :
       LET acked == [qp EXCEPT ![i].flying = @ - n]
       IN  \/ DequeueAndTransmit(acked, grp, wake, Ready, paused)
           \/ /\ cc = "HPCC"
              /\ \E pace \in Paces :
                   LET avail == MovedAvail(qp[i], pace)
                   IN  DequeueAndTransmit(
                         [acked EXCEPT ![i].avail = avail, ![i].pace = pace],
                         grp, MovedWake(wake, avail), Ready, paused)
  /\ UNCHANGED <<paused, crashed>>

\* The others change the rate alone: DCQCN's timers, which a first CNP starts,
\* at any time, DCTCP and Timely on acknowledgements.
RateTimer(i) ==
  /\ cc = "Other"
  /\ qp[i].left + qp[i].flying < Packets[i]
  /\ ~IsFinished(qp[i])
  /\ \E pace \in Paces : qp' = [qp EXCEPT ![i].pace = pace]
  /\ UNCHANGED <<grp, rrlast, cur, tx, wake, paused, crashed>>

TransmitComplete ==
  /\ ~Ready /\ tx = 0
  /\ DequeueAndTransmit(qp, grp, wake, TRUE, paused)
  /\ UNCHANGED <<paused, crashed>>

\* m_nextSend is due, and counts as expired from here on.
NextSendExpires ==
  /\ wake = 0
  /\ DequeueAndTransmit(qp, grp, None, Ready, paused)
  /\ UNCHANGED <<paused, crashed>>

\* QbbNetDevice::Receive of a PAUSE.  The switch sends one when a packet of this
\* device arrives, which comes back before that packet's acknowledgement.
Pause ==
  /\ ~paused
  /\ \E i \in Qps : Left(i) > 0
  /\ paused' = TRUE
  /\ UNCHANGED <<qp, grp, rrlast, cur, tx, wake, crashed>>

\* QbbNetDevice::Receive of a RESUME, and Resume.  Before it transmits it takes
\* the priority of the frame for the index of a queue pair of the group, and
\* looks into what it finds there, for a host to no effect.  With fewer queue
\* pairs that reads memory behind the end of the group: the program dies of it,
\* or goes on.
Resume ==
  /\ paused
  /\ paused' = FALSE
  /\ \/ /\ DequeueAndTransmit(qp, grp, wake, Ready, FALSE)
        /\ UNCHANGED crashed
     \/ /\ Pg >= Len(grp)
        /\ crashed' = TRUE
        /\ UNCHANGED <<qp, grp, rrlast, cur, tx, wake>>

\* The clock goes on when nothing is due.
Tick ==
  /\ Ready \/ tx > 0
  /\ wake # 0
  /\ tx' = IF Ready THEN 0 ELSE tx - 1
  /\ wake' = IF wake = None THEN None ELSE wake - 1
  /\ qp' = [i \in Qps |-> IF Started(i) THEN [qp[i] EXCEPT !.avail = Past(@ - 1)] ELSE qp[i]]
  /\ UNCHANGED <<grp, rrlast, cur, paused, crashed>>

Event ==
  \/ TransmitComplete
  \/ NextSendExpires
  \/ Pause
  \/ Resume
  \/ Tick
  \/ \E i \in Qps : NewQp(i) \/ ReceiveAck(i) \/ RateTimer(i)

\* The queue pair could be sent from at once.
Due(i) == Contains(grp, i) /\ MaySend(qp[i], paused) /\ qp[i].avail <= 0

Sends(i) == qp'[i].left < qp[i].left

Overtaken ==
  over' = [i \in Qps |-> IF Due(i) /\ Due(i)' /\ ~Sends(i)
                         THEN over[i] + Cardinality({j \in Qps : Sends(j)})
                         ELSE 0]

Running == ~crashed /\ Overtaken /\ UNCHANGED cc

Next == Event /\ Running

Spec == Init /\ [][Next]_vars

\* The event queue: what is due happens, and the clock goes on.  Packets are
\* acknowledged, and a switch that pauses the device sends it a RESUME
\* (PfcSwitch).
FairSpec ==
  /\ Spec
  /\ WF_vars((TransmitComplete \/ NextSendExpires) /\ Running)
  /\ WF_vars((\E i \in Qps : NewQp(i) \/ ReceiveAck(i)) /\ Running)
  /\ WF_vars(Resume /\ Running)
  /\ WF_vars(Tick /\ Running)

-------------------------------------------------------------------------------
TypeOK ==
  /\ cc \in {"HPCC", "Other"}
  /\ qp \in [Qps -> [left : Nat, flying : Nat, avail : -MaxPace .. MaxPace, pace : Paces]]
  /\ \A i \in Qps : Window # 0 => qp[i].flying <= Window
  /\ grp \in Seq(Qps)
  /\ rrlast \in Nat
  /\ cur \in Qps \cup {NoQp} /\ tx \in {0, 1}
  /\ wake \in {None} \cup 0 .. MaxPace
  /\ paused \in BOOLEAN /\ crashed \in BOOLEAN
  /\ over \in [Qps -> Nat]

\* The device never sleeps over a queue pair that may send: m_nextSend is
\* running, or packets on the fly will bring an acknowledgement that calls
\* DequeueAndTransmit.  It may be late: a queue pair whose window is closed has
\* an m_nextAvail in the past, which keeps the timer from being set, and the
\* others then wait for the acknowledgement too.
NotForgotten ==
  \A i \in Qps :
    ~crashed /\ Ready /\ Contains(grp, i) /\ MaySend(qp[i], paused) =>
      wake # None \/ \E j \in Qps : qp[j].flying > 0

\* Round robin: while a queue pair could send, the others send no more than one
\* packet each, whatever removing finished queue pairs does to the indices that
\* m_rrlast counts in.
BoundedOvertaking == \A i \in Qps : over[i] <= Cardinality(Qps) - 1

\* Every queue pair sends all it has, and leaves the group, unless the program
\* dies in Resume.
AllSent == <>[](crashed \/ (grp = <<>> /\ \A i \in Qps : IsFinished(qp[i])))
===============================================================================
