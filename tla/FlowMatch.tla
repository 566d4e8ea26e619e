------------------------------- MODULE FlowMatch ------------------------------
(***************************************************************************)
(* How the ns-3 front end pairs the messages of one rank with the receives *)
(* of another (entry.h, ASTRASimNetwork): sim_send starts an RDMA queue    *)
(* pair, send_finish and qp_finish are its two callbacks, sim_recv         *)
(* registers a receive, and the hash tables between them decide which      *)
(* handler runs, when, and with whose flow tag.                            *)
(*                                                                         *)
(* One ordered pair of ranks: every table is keyed by the pair, and no two *)
(* pairs meet.  A message is one call of sim_send; its queue pair has a    *)
(* port of its own, so the entry of sender_src_port_map is the queue pair  *)
(* itself.  _QPS_PER_CONNECTION_ is 1.  Each handler runs inside one       *)
(* critical section, or after it, and is one step here; the handlers it    *)
(* calls (Sys::handleEvent) are recorded, not run.                         *)
(*                                                                         *)
(* A definition that stands right before the one whose name its own name   *)
(* extends is that definition with a plausible fault.                      *)
(***************************************************************************)
EXTENDS Integers, Sequences, FiniteSetsExt

CONSTANTS
  Sends,     \* the messages, in the order each flow and each tag sends them:
             \*   current_flow_id, tag_id, bytes
  Recvs,     \* the receives, in the order each tag posts them: tag_id, bytes
  TailCalls, \* bound: how often the send-complete callback of a queue pair runs
  Overlap    \* whether a flow starts its next message before the queue pair of
             \*   the last one completed

ASSUME SendsAssumption ==
  /\ Len(Sends) \in Nat /\ DOMAIN Sends = 1 .. Len(Sends)
  /\ \A s \in DOMAIN Sends : Sends[s].flow \in Nat /\ Sends[s].size \in Nat \ {0}
ASSUME RecvsAssumption ==
  /\ Len(Recvs) \in Nat /\ DOMAIN Recvs = 1 .. Len(Recvs)
  /\ \A r \in DOMAIN Recvs : Recvs[r].size \in Nat \ {0}
ASSUME CallsAssumption == TailCalls \in Nat \ {0} /\ Overlap \in BOOLEAN

VARIABLES
  qp,      \* per message: its queue pair, and how often send_finish ran for it
  flows,   \* per flow id: waiting_to_sent_callback, waiting_to_notify_receiver,
           \*   sent_chunksize, received_chunksize (no entry is 0)
  tags,    \* per tag: sentHash, expeRecvHash, recvHash, receiver_pending_queue
  called,  \* the handlers that ran: per message how often, per receive with
           \*   which flow tags
  tally,   \* nodeHash of the sender (0) and of the receiver (1)
  errors   \* whether notify_sender_sending_finished logged an ERROR

vars == <<qp, flows, tags, called, tally, errors>>

FlowIds == {Sends[s].flow : s \in DOMAIN Sends}
Tags == {Sends[s].tag : s \in DOMAIN Sends} \cup {Recvs[r].tag : r \in DOMAIN Recvs}

None == -1   \* no entry; also the flow ids of a receive nobody tagged

Entry(id, count) == [id |-> id, count |-> count]

-------------------------------------------------------------------------------
Init ==
  /\ qp = [s \in DOMAIN Sends |-> [state |-> "none", calls |-> 0]]
  /\ flows = [f \in FlowIds |-> [toSent |-> 0, toNotify |-> 0, sent |-> 0, received |-> 0]]
  /\ tags = [t \in Tags |-> [sent |-> Entry(None, 0), expe |-> Entry(None, 0),
                             recv |-> 0, pending |-> None]]
  /\ called = [sent |-> [s \in DOMAIN Sends |-> 0], recv |-> [r \in DOMAIN Recvs |-> <<>>]]
  /\ tally = [sent |-> 0, recv |-> 0]
  /\ errors = FALSE

\* How many of its tag a message or a receive is.
PassOf(list, i) == Cardinality({j \in 1 .. i : list[j].tag = list[i].tag})

Posted(r) == called.recv[r] # <<>> \/ tags[Recvs[r].tag].expe.id = r

\* A rank does not use a tag that still waits for its send handler.  It sends a
\* flow again only when the operation is issued again, which is when the last
\* one was sent and, its data having gone round, the other rank had entered it
\* and so posted its receive (NcclFlowModel, where NoOverlap says when the queue
\* pair of the flow has completed, too).
MaySend(s) ==
  /\ qp[s].state = "none"
  /\ tags[Sends[s].tag].sent.id = None
  /\ \A e \in 1 .. s - 1 :
       /\ Sends[e].tag = Sends[s].tag => qp[e].state # "none"
       /\ Sends[e].flow = Sends[s].flow =>
            /\ called.sent[e] > 0
            /\ Overlap \/ qp[e].state = "finished"
            /\ \E r \in DOMAIN Recvs :
                 /\ Recvs[r].tag = Sends[e].tag /\ Posted(r)
                 /\ PassOf(Recvs, r) = PassOf(Sends, e)

\* ASTRASimNetwork::sim_send and SendFlow.
SimSend(s) ==
  /\ MaySend(s)
  /\ tags' = [tags EXCEPT ![Sends[s].tag].sent = Entry(s, Sends[s].size)]
  /\ qp' = [qp EXCEPT ![s].state = "live"]
  /\ flows' = [flows EXCEPT ![Sends[s].flow].toSent = @ + 1,
                            ![Sends[s].flow].toNotify = @ + 1]
  /\ UNCHANGED <<called, tally, errors>>

\* A rank posts the next receive of a tag when the handler of the last one ran.
MayPost(r) ==
  /\ called.recv[r] = <<>>
  /\ tags[Recvs[r].tag].expe.id # r
  /\ \A e \in 1 .. r - 1 : Recvs[e].tag = Recvs[r].tag => called.recv[e] # <<>>

\* The tables of a tag after sim_recv(count) by receive r, and whether the
\* handler runs at once and with what flow tag.
RegisterKeeping(k, r, count) ==
  IF k.recv > 0
  THEN IF k.recv >= count
       THEN [tables |-> [k EXCEPT !.recv = @ - count, !.pending = None],
             call |-> TRUE, with |-> k.pending]
       ELSE [tables |-> [k EXCEPT !.expe = Entry(r, count - k.recv)],
             call |-> FALSE, with |-> None]
  ELSE [tables |-> IF k.expe.id = None THEN [k EXCEPT !.expe = Entry(r, count)] ELSE k,
        call |-> FALSE, with |-> None]
RegisterUntagged(k, r, count) ==
  IF k.recv > 0
  THEN IF k.recv >= count
       THEN [tables |-> [k EXCEPT !.recv = @ - count],
             call |-> TRUE, with |-> None]
       ELSE [tables |-> [k EXCEPT !.recv = 0, !.expe = Entry(r, count - k.recv)],
             call |-> FALSE, with |-> None]
  ELSE [tables |-> IF k.expe.id = None THEN [k EXCEPT !.expe = Entry(r, count)] ELSE k,
        call |-> FALSE, with |-> None]
Register(k, r, count) ==
  IF k.recv > 0
  THEN IF k.recv >= count
       THEN [tables |-> [k EXCEPT !.recv = @ - count, !.pending = None],
             call |-> TRUE, with |-> k.pending]
       ELSE [tables |-> [k EXCEPT !.recv = 0, !.expe = Entry(r, count - k.recv)],
             call |-> FALSE, with |-> None]
  ELSE [tables |-> IF k.expe.id = None THEN [k EXCEPT !.expe = Entry(r, count)] ELSE k,
        call |-> FALSE, with |-> None]

\* ASTRASimNetwork::sim_recv
SimRecv(r) ==
  /\ MayPost(r)
  /\ LET t == Recvs[r].tag
         res == Register(tags[t], r, Recvs[r].size)
     IN  /\ tags' = [tags EXCEPT ![t] = res.tables]
         /\ called' = IF res.call THEN [called EXCEPT !.recv[r] = Append(@, res.with)]
                      ELSE called
  /\ UNCHANGED <<qp, flows, tally, errors>>

\* is_sending_finished and the bookkeeping of send_finish around it: the bytes
\* of the queue pair are added first, and the sum is taken out only when the
\* answer is yes.
SentFlowKept(fl, n) ==
  [fl EXCEPT !.sent = @ + n, !.toSent = IF @ = 0 THEN 0 ELSE @ - 1]
SentFlow(fl, n) ==
  [fl EXCEPT !.sent = IF fl.toSent = 1 THEN 0 ELSE @ + n,
             !.toSent = IF @ = 0 THEN 0 ELSE @ - 1]

\* send_finish: called by RdmaHw::SendPacketComplete, which finds the queue pair
\* only until it has completed.
SendFinish(s) ==
  /\ qp[s].state = "live" /\ qp[s].calls < TailCalls
  /\ qp' = [qp EXCEPT ![s].calls = @ + 1]
  /\ flows' = [flows EXCEPT ![Sends[s].flow] = SentFlow(@, Sends[s].size)]
  /\ LET fl == flows[Sends[s].flow]
         size == fl.sent + Sends[s].size
         entry == tags[Sends[s].tag].sent
     IN  IF fl.toSent # 1
         THEN UNCHANGED <<tags, called, tally, errors>>
         ELSE \* notify_sender_sending_finished
              IF entry.id # None /\ entry.count = size
              THEN /\ tags' = [tags EXCEPT ![Sends[s].tag].sent = Entry(None, 0)]
                   /\ called' = [called EXCEPT !.sent[entry.id] = @ + 1]
                   /\ tally' = [tally EXCEPT !.sent = @ + size]
                   /\ UNCHANGED errors
              ELSE errors' = TRUE /\ UNCHANGED <<tags, called, tally>>

\* The tables of a tag after notify_receiver_receive_data(size) for flow f, and
\* the receive whose handler runs.
NotifyExact(k, f, size) ==
  IF k.expe.id # None
  THEN IF size = k.expe.count
       THEN [tables |-> [k EXCEPT !.expe = Entry(None, 0)], call |-> k.expe.id]
       ELSE [tables |-> [k EXCEPT !.expe.count = @ - size], call |-> None]
  ELSE [tables |-> [k EXCEPT !.pending = f, !.recv = @ + size], call |-> None]
NotifyLast(k, f, size) ==
  IF k.expe.id # None
  THEN IF size >= k.expe.count
       THEN [tables |-> [k EXCEPT !.expe = Entry(None, 0), !.recv = size - k.expe.count],
             call |-> k.expe.id]
       ELSE [tables |-> [k EXCEPT !.expe.count = @ - size], call |-> None]
  ELSE [tables |-> [k EXCEPT !.pending = f, !.recv = size], call |-> None]
NotifyAgain(k, f, size) ==
  IF k.expe.id # None
  THEN [tables |-> [k EXCEPT !.expe.count = @ - size], call |-> k.expe.id]
  ELSE [tables |-> [k EXCEPT !.pending = f, !.recv = @ + size], call |-> None]
Notify(k, f, size) ==
  IF k.expe.id # None
  THEN IF size >= k.expe.count
       THEN [tables |-> [k EXCEPT !.expe = Entry(None, 0),
                                  !.recv = IF size = k.expe.count THEN @ ELSE size - k.expe.count],
             call |-> k.expe.id]
       ELSE [tables |-> [k EXCEPT !.expe.count = @ - size], call |-> None]
  ELSE [tables |-> [k EXCEPT !.pending = f, !.recv = @ + size], call |-> None]

\* is_receive_finished and the bookkeeping of qp_finish around it.
ReceivedFlow(fl, n) ==
  [fl EXCEPT !.received = IF fl.toNotify = 1 THEN 0 ELSE @ + n,
             !.toNotify = IF @ = 0 THEN 0 ELSE @ - 1]

\* qp_finish: the last byte is acknowledged.  The send-complete callback of the
\* queue pair ran before (its last packet left before it was acknowledged).
QpFinish(s) ==
  /\ qp[s].state = "live" /\ qp[s].calls > 0
  /\ qp' = [qp EXCEPT ![s].state = "finished"]
  /\ flows' = [flows EXCEPT ![Sends[s].flow] = ReceivedFlow(@, Sends[s].size)]
  /\ LET f == Sends[s].flow
         t == Sends[s].tag
         size == flows[f].received + Sends[s].size
         res == Notify(tags[t], f, size)
     IN  IF flows[f].toNotify # 1
         THEN UNCHANGED <<tags, called, tally>>
         ELSE \* notify_receiver_receive_data
              /\ tags' = [tags EXCEPT ![t] = res.tables]
              /\ called' = IF res.call # None
                           THEN [called EXCEPT !.recv[res.call] = Append(@, f)]
                           ELSE called
              /\ tally' = [tally EXCEPT !.recv = @ + size]
  /\ UNCHANGED errors

Next ==
  \/ \E s \in DOMAIN Sends : SimSend(s) \/ SendFinish(s) \/ QpFinish(s)
  \/ \E r \in DOMAIN Recvs : SimRecv(r)

Spec == Init /\ [][Next]_vars

\* Both ranks do what they have to do, and a queue pair runs its callbacks (a
\* queue pair that completes is RdmaQp's to show).
FairSpec ==
  /\ Spec
  /\ \A s \in DOMAIN Sends :
       /\ WF_vars(SimSend(s))
       /\ WF_vars(SendFinish(s) /\ qp[s].calls = 0)
       /\ WF_vars(QpFinish(s))
  /\ \A r \in DOMAIN Recvs : WF_vars(SimRecv(r))

-------------------------------------------------------------------------------
EntryOf(ids) == [id : ids \cup {None}, count : Nat]

TypeOK ==
  /\ qp \in [DOMAIN Sends -> [state : {"none", "live", "finished"}, calls : 0 .. TailCalls]]
  /\ flows \in [FlowIds -> [toSent : Nat, toNotify : Nat, sent : Nat, received : Nat]]
  /\ tags \in [Tags -> [sent : EntryOf(DOMAIN Sends), expe : EntryOf(DOMAIN Recvs),
                        recv : Nat, pending : FlowIds \cup {None}]]
  /\ called \in [sent : [DOMAIN Sends -> Nat],
                 recv : [DOMAIN Recvs -> Seq(FlowIds \cup {None})]]
  /\ tally \in [sent : Nat, recv : Nat]
  /\ errors \in BOOLEAN

SendsOf(t) == {s \in DOMAIN Sends : Sends[s].tag = t}
RecvsOf(t) == {r \in DOMAIN Recvs : Recvs[r].tag = t}

\* The bytes a list of messages or receives comes to, over those in S.
SizeOf(list, S) == SumFunctionOnSet([i \in DOMAIN list |-> list[i].size], S)

ArrivedOn(t) == SizeOf(Sends, {s \in SendsOf(t) : qp[s].state = "finished"})
ServedOn(t) == SizeOf(Recvs, {r \in RecvsOf(t) : called.recv[r] # <<>>})

\* A tag never has bytes nobody asked for and a receive that waits at the same
\* time, so no assignment to recvHash or expeRecvHash in
\* notify_receiver_receive_data and sim_recv overwrites an entry, and a receive
\* that waits is short of something.
NeverBoth ==
  \A t \in Tags :
    LET k == tags[t] IN k.expe.id # None => k.recv = 0 /\ k.expe.count > 0

\* The receives of a tag are served by the byte: what has arrived and is not
\* used is in recvHash, what the waiting receive still lacks is its count.  So
\* a receive's handler runs as soon as the bytes up to it are there, in
\* whatever order receives are posted and queue pairs finish.
ServedByTheByte ==
  \A t \in Tags :
    ArrivedOn(t) - ServedOn(t) =
      IF tags[t].expe.id = None THEN tags[t].recv
      ELSE Recvs[tags[t].expe.id].size - tags[t].expe.count

\* Every handler runs at most once, and the send handler of a message not before
\* its queue pair reported that it was sent.
HandlersOnce ==
  /\ \A s \in DOMAIN Sends :
       called.sent[s] <= 1 /\ (called.sent[s] = 1 => qp[s].calls > 0)
  /\ \A r \in DOMAIN Recvs : Len(called.recv[r]) <= 1

\* Where the messages and receives of a tag agree in size (NcclFlowModel's do),
\* the handler of a receive is given the flow tag of the message it received,
\* early or late: NcclFlowModel finds the flows that wait for it in that tag.
RightFlowTag ==
  \A r \in DOMAIN Recvs :
    LET t == Recvs[r].tag
        sizes == {Sends[s].size : s \in SendsOf(t)} \cup {Recvs[e].size : e \in RecvsOf(t)}
    IN  called.recv[r] # <<>> /\ sizes = {Recvs[r].size} =>
          called.recv[r][1] \in {Sends[s].flow : s \in SendsOf(t)}

\* Every message's send handler runs, and every receive's that the bytes sent on
\* its tag suffice for.
AllServed ==
  <>(/\ \A s \in DOMAIN Sends : called.sent[s] = 1
     /\ \A r \in DOMAIN Recvs : called.recv[r] # <<>>)

\* notify_sender_sending_finished: the size that was sent is the size that was
\* asked for ("sentHash msg size != ..." and "sentHash cann't find ..." are
\* logged as errors).
SentSizeMatches == ~errors
===============================================================================
