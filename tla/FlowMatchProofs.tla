---------------------------- MODULE FlowMatchProofs ---------------------------
(***************************************************************************)
(* What FlowMatch's runs check on five messages holds for any list of      *)
(* messages and receives: the types, that no table entry is overwritten,   *)
(* that every handler runs at most once, that receives are served by the   *)
(* byte, and that each handler is given a flow of its tag.                 *)
(***************************************************************************)
EXTENDS FlowMatch, SumTheorems, TLAPS

Messages == DOMAIN Sends
Receives == DOMAIN Recvs

FlowTables == [toSent : Nat, toNotify : Nat, sent : Nat, received : Nat]
TagTables == [sent : EntryOf(Messages), expe : EntryOf(Receives),
              recv : Nat, pending : FlowIds \cup {None}]

\* What NeverBoth says of the tables of one tag.
Tidy(k) == k.expe.id # None => k.recv = 0 /\ k.expe.count > 0

-------------------------------------------------------------------------------
\* The lists and the operators of the model.

\* What the assumptions on the two lists say of one message or receive.
LEMMA ListTypes ==
  /\ \A s \in Messages : /\ s \in Nat /\ s # None
                         /\ Sends[s].flow \in FlowIds /\ Sends[s].flow \in Nat
                         /\ Sends[s].tag \in Tags /\ Sends[s].size \in Nat \ {0}
  /\ \A r \in Receives : /\ r \in Nat /\ r # None
                         /\ Recvs[r].tag \in Tags /\ Recvs[r].size \in Nat \ {0}
  /\ IsFiniteSet(Messages) /\ IsFiniteSet(Receives)
<1>1. \A s \in Messages : /\ s \in Nat /\ s # None
                          /\ Sends[s].flow \in FlowIds /\ Sends[s].flow \in Nat
                          /\ Sends[s].tag \in Tags /\ Sends[s].size \in Nat \ {0}
  BY SendsAssumption DEF Messages, FlowIds, Tags, None
<1>2. \A r \in Receives : /\ r \in Nat /\ r # None
                          /\ Recvs[r].tag \in Tags /\ Recvs[r].size \in Nat \ {0}
  BY RecvsAssumption DEF Receives, Tags, None
<1>3. IsFiniteSet(Messages) /\ IsFiniteSet(Receives)
  <2>1. 1 \in Int /\ Len(Sends) \in Int /\ Len(Recvs) \in Int
    BY SendsAssumption, RecvsAssumption
  <2> QED BY <2>1, SendsAssumption, RecvsAssumption, FS_Interval DEF Messages, Receives
<1> QED BY <1>1, <1>2, <1>3

\* The parts of an entry.
LEMMA EntryParts == \A id, n : Entry(id, n).id = id /\ Entry(id, n).count = n
BY DEF Entry

\* What sim_recv does to the tables of a tag: it serves the receive from the
\* bytes that are there, or registers what it lacks, or finds one registered.
LEMMA RegisterEffect ==
  ASSUME NEW k \in TagTables, NEW r \in Receives, NEW n \in Nat \ {0}, Tidy(k)
  PROVE  LET res == Register(k, r, n)
         IN  /\ res.tables \in TagTables /\ Tidy(res.tables) /\ res.tables.sent = k.sent
             /\ res.with \in FlowIds \cup {None} /\ res.call \in BOOLEAN
             /\ \/ /\ res.call /\ k.expe.id = None /\ n <= k.recv
                   /\ res.tables.expe = k.expe /\ res.tables.recv = k.recv - n
                   /\ res.with = k.pending
                \/ /\ ~res.call /\ k.expe.id = None /\ k.recv < n
                   /\ res.tables.expe = Entry(r, n - k.recv) /\ res.tables.recv = 0
                \/ /\ ~res.call /\ k.expe.id # None /\ res.tables = k
<1>0. /\ k.recv \in Nat /\ k.expe \in EntryOf(Receives) /\ k.pending \in FlowIds \cup {None}
      /\ k.sent \in EntryOf(Messages) /\ None \in FlowIds \cup {None} /\ r # None
  BY ListTypes DEF TagTables
<1>1. CASE k.recv >= n
  <2> DEFINE t == [k EXCEPT !.recv = @ - n, !.pending = None]
  <2>1. Register(k, r, n) = [tables |-> t, call |-> TRUE, with |-> k.pending]
    BY <1>0, <1>1 DEF Register
  <2>2. k.recv - n \in Nat /\ k.expe.id = None
    BY <1>0, <1>1 DEF Tidy
  <2>3. t \in TagTables /\ t.sent = k.sent /\ t.expe = k.expe /\ t.recv = k.recv - n
    BY <1>0, <2>2 DEF TagTables
  <2> HIDE DEF t
  <2> QED BY <1>0, <1>1, <2>1, <2>2, <2>3 DEF Tidy
<1>2. CASE k.recv > 0 /\ k.recv < n
  <2> DEFINE t == [k EXCEPT !.recv = 0, !.expe = Entry(r, n - k.recv)]
  <2>1. Register(k, r, n) = [tables |-> t, call |-> FALSE, with |-> None]
    BY <1>0, <1>2 DEF Register
  <2>2. n - k.recv \in Nat /\ n - k.recv > 0 /\ k.expe.id = None
    BY <1>0, <1>2 DEF Tidy
  <2>3. Entry(r, n - k.recv) \in EntryOf(Receives)
    BY <2>2 DEF Entry, EntryOf
  <2>4. /\ t \in TagTables /\ t.sent = k.sent
        /\ t.expe = Entry(r, n - k.recv) /\ t.recv = 0
    BY <1>0, <2>3 DEF TagTables
  <2> HIDE DEF t
  <2> QED BY <1>0, <1>2, <2>1, <2>2, <2>4 DEF Tidy, Entry
<1>3. CASE k.recv = 0 /\ k.expe.id = None
  <2>1. Register(k, r, n) = [tables |-> [k EXCEPT !.expe = Entry(r, n)],
                             call |-> FALSE, with |-> None]
    BY <1>0, <1>3 DEF Register
  <2>2. n - k.recv = n /\ n > 0
    BY <1>3
  <2>3. Entry(r, n) \in EntryOf(Receives)
    BY DEF Entry, EntryOf
  <2> QED BY <1>0, <1>3, <2>1, <2>2, <2>3 DEF TagTables, Tidy, Entry
<1>4. CASE k.recv = 0 /\ k.expe.id # None
  BY <1>0, <1>4 DEF Register, Tidy
<1> QED BY <1>0, <1>1, <1>2, <1>3, <1>4

\* What notify_receiver_receive_data does to the tables of a tag: it serves the
\* receive that waits, or makes it wait for less, or keeps the bytes.
LEMMA NotifyEffect ==
  ASSUME NEW k \in TagTables, NEW f \in FlowIds, NEW n \in Nat \ {0}, Tidy(k)
  PROVE  LET res == Notify(k, f, n)
         IN  /\ res.tables \in TagTables /\ Tidy(res.tables) /\ res.tables.sent = k.sent
             /\ \/ /\ k.expe.id # None /\ k.expe.count <= n /\ res.call = k.expe.id
                   /\ res.tables.expe = Entry(None, 0)
                   /\ res.tables.recv = n - k.expe.count
                \/ /\ k.expe.id # None /\ n < k.expe.count /\ res.call = None
                   /\ res.tables.expe = Entry(k.expe.id, k.expe.count - n)
                   /\ res.tables.recv = k.recv
                \/ /\ k.expe.id = None /\ res.call = None /\ res.tables.expe = k.expe
                   /\ res.tables.recv = k.recv + n /\ res.tables.pending = f
<1>0. /\ k.recv \in Nat /\ k.expe \in EntryOf(Receives) /\ k.pending \in FlowIds \cup {None}
      /\ k.sent \in EntryOf(Messages) /\ k.expe.count \in Nat
      /\ k.expe.id \in Receives \cup {None}
  BY DEF TagTables, EntryOf
<1>1. CASE k.expe.id # None /\ k.expe.count <= n
  <2> DEFINE t == [k EXCEPT !.expe = Entry(None, 0),
                            !.recv = IF n = k.expe.count THEN @ ELSE n - k.expe.count]
  <2>1. Notify(k, f, n) = [tables |-> t, call |-> k.expe.id]
    BY <1>0, <1>1 DEF Notify
  <2>2. /\ k.recv = 0
        /\ (IF n = k.expe.count THEN k.recv ELSE n - k.expe.count) = n - k.expe.count
        /\ n - k.expe.count \in Nat
    BY <1>0, <1>1 DEF Tidy
  <2>3. Entry(None, 0) \in EntryOf(Receives)
    BY DEF Entry, EntryOf
  <2>4. /\ t \in TagTables /\ t.sent = k.sent
        /\ t.expe = Entry(None, 0) /\ t.recv = n - k.expe.count
    BY <1>0, <2>2, <2>3 DEF TagTables
  <2> HIDE DEF t
  <2> QED BY <1>0, <1>1, <2>1, <2>2, <2>4 DEF Tidy, Entry
<1>2. CASE k.expe.id # None /\ n < k.expe.count
  <2>1. Notify(k, f, n) = [tables |-> [k EXCEPT !.expe.count = @ - n], call |-> None]
    BY <1>0, <1>2 DEF Notify
  <2>2. k.expe.count - n \in Nat /\ k.expe.count - n > 0 /\ k.recv = 0
    BY <1>0, <1>2 DEF Tidy
  <2>3. [k.expe EXCEPT !.count = @ - n] = Entry(k.expe.id, k.expe.count - n)
    BY <1>0 DEF EntryOf, Entry
  <2>4. Entry(k.expe.id, k.expe.count - n) \in EntryOf(Receives)
    BY <1>0, <2>2 DEF Entry, EntryOf
  <2>5. [k EXCEPT !.expe.count = @ - n]
          = [k EXCEPT !.expe = Entry(k.expe.id, k.expe.count - n)]
    BY <2>3
  <2> QED BY <1>0, <1>2, <2>1, <2>2, <2>4, <2>5 DEF TagTables, Tidy, Entry
<1>3. CASE k.expe.id = None
  <2> DEFINE t == [k EXCEPT !.pending = f, !.recv = @ + n]
  <2>1. Notify(k, f, n) = [tables |-> t, call |-> None]
    BY <1>0, <1>3 DEF Notify
  <2>2. k.recv + n \in Nat
    BY <1>0
  <2>3. /\ t \in TagTables /\ t.sent = k.sent /\ t.expe = k.expe
        /\ t.recv = k.recv + n /\ t.pending = f
    BY <1>0, <2>2 DEF TagTables
  <2> HIDE DEF t
  <2> QED BY <1>0, <1>3, <2>1, <2>2, <2>3 DEF Tidy
<1> QED BY <1>0, <1>1, <1>2, <1>3

\* What is_sending_finished and is_receive_finished leave of a flow's counters.
LEMMA FlowEffect ==
  ASSUME NEW fl \in FlowTables, NEW n \in Nat
  PROVE  /\ SentFlow(fl, n) \in FlowTables
         /\ SentFlow(fl, n).toSent = (IF fl.toSent = 0 THEN 0 ELSE fl.toSent - 1)
         /\ SentFlow(fl, n).toNotify = fl.toNotify /\ SentFlow(fl, n).received = fl.received
         /\ ReceivedFlow(fl, n) \in FlowTables
         /\ ReceivedFlow(fl, n).toSent = fl.toSent /\ ReceivedFlow(fl, n).sent = fl.sent
         /\ ReceivedFlow(fl, n).toNotify = (IF fl.toNotify = 0 THEN 0 ELSE fl.toNotify - 1)
         /\ ReceivedFlow(fl, n).received = (IF fl.toNotify = 1 THEN 0 ELSE fl.received + n)
<1>1. fl.toSent \in Nat /\ fl.toNotify \in Nat /\ fl.sent \in Nat /\ fl.received \in Nat
  BY DEF FlowTables
<1> DEFINE a == IF fl.toSent = 1 THEN 0 ELSE fl.sent + n
           b == IF fl.toSent = 0 THEN 0 ELSE fl.toSent - 1
           c == IF fl.toNotify = 1 THEN 0 ELSE fl.received + n
           d == IF fl.toNotify = 0 THEN 0 ELSE fl.toNotify - 1
<1>4. a \in Nat /\ b \in Nat /\ c \in Nat /\ d \in Nat
  BY <1>1
<1>5. /\ SentFlow(fl, n) = [fl EXCEPT !.sent = a, !.toSent = b]
      /\ ReceivedFlow(fl, n) = [fl EXCEPT !.received = c, !.toNotify = d]
  BY DEF SentFlow, ReceivedFlow
<1> HIDE DEF a, b, c, d
<1>6. /\ SentFlow(fl, n) \in FlowTables /\ SentFlow(fl, n).toSent = b
      /\ SentFlow(fl, n).toNotify = fl.toNotify /\ SentFlow(fl, n).received = fl.received
  BY <1>4, <1>5 DEF FlowTables
<1>7. /\ ReceivedFlow(fl, n) \in FlowTables /\ ReceivedFlow(fl, n).toSent = fl.toSent
      /\ ReceivedFlow(fl, n).sent = fl.sent /\ ReceivedFlow(fl, n).toNotify = d
      /\ ReceivedFlow(fl, n).received = c
  BY <1>4, <1>5 DEF FlowTables
<1> QED BY <1>6, <1>7 DEF b, c, d

-------------------------------------------------------------------------------
\* What each action does to each variable, entry by entry.

\* The types of single entries.
LEMMA StateTypes ==
  ASSUME TypeOK
  PROVE  /\ \A s \in Messages : qp[s].state \in {"none", "live", "finished"}
         /\ \A s \in Messages : qp[s].calls \in 0 .. TailCalls /\ qp[s].calls \in Nat
         /\ \A f \in FlowIds : flows[f] \in FlowTables
         /\ \A t \in Tags : tags[t] \in TagTables
         /\ \A s \in Messages : called.sent[s] \in Nat
         /\ \A r \in Receives : called.recv[r] \in Seq(FlowIds \cup {None})
BY CallsAssumption DEF TypeOK, Messages, Receives, FlowTables, TagTables

\* sim_send starts the queue pair of a message, registers its send handler with
\* its tag and counts it twice with its flow.
LEMMA SimSendEffect ==
  ASSUME TypeOK, NEW s \in Messages, SimSend(s)
  PROVE  LET f == Sends[s].flow
             t == Sends[s].tag
         IN  /\ f \in FlowIds /\ t \in Tags
             /\ qp[s].state = "none" /\ tags[t].sent.id = None
             /\ qp' = [qp EXCEPT ![s] = [state |-> "live", calls |-> qp[s].calls]]
             /\ flows' = [flows EXCEPT ![f] = [toSent |-> flows[f].toSent + 1,
                                               toNotify |-> flows[f].toNotify + 1,
                                               sent |-> flows[f].sent,
                                               received |-> flows[f].received]]
             /\ tags' = [tags EXCEPT ![t] = [sent |-> Entry(s, Sends[s].size),
                                             expe |-> tags[t].expe, recv |-> tags[t].recv,
                                             pending |-> tags[t].pending]]
             /\ UNCHANGED <<called, tally, errors>>
<1> DEFINE f == Sends[s].flow
           t == Sends[s].tag
<1>1. f \in FlowIds /\ t \in Tags
  BY ListTypes
<1>2. qp[s].state = "none" /\ tags[t].sent.id = None /\ UNCHANGED <<called, tally, errors>>
  BY DEF SimSend, MaySend
<1>3. qp' = [qp EXCEPT ![s] = [state |-> "live", calls |-> qp[s].calls]]
  <2>1. qp[s] \in [state : {"none", "live", "finished"}, calls : 0 .. TailCalls]
    BY DEF TypeOK, Messages
  <2>2. [qp[s] EXCEPT !.state = "live"] = [state |-> "live", calls |-> qp[s].calls]
    BY <2>1
  <2>3. qp' = [qp EXCEPT ![s] = [qp[s] EXCEPT !.state = "live"]]
    BY DEF SimSend
  <2> QED BY <2>2, <2>3
<1>4. flows' = [flows EXCEPT ![f] = [toSent |-> flows[f].toSent + 1,
                                     toNotify |-> flows[f].toNotify + 1,
                                     sent |-> flows[f].sent,
                                     received |-> flows[f].received]]
  <2>1. flows[f] \in FlowTables /\ flows \in [FlowIds -> FlowTables]
    BY <1>1 DEF TypeOK, FlowTables
  <2>2. [flows[f] EXCEPT !.toSent = @ + 1, !.toNotify = @ + 1]
          = [toSent |-> flows[f].toSent + 1, toNotify |-> flows[f].toNotify + 1,
             sent |-> flows[f].sent, received |-> flows[f].received]
    <3> DEFINE fl == flows[f]
    <3>1. fl \in FlowTables
      BY <2>1
    <3> HIDE DEF fl
    <3> DEFINE g == [fl EXCEPT !.toSent = @ + 1, !.toNotify = @ + 1]
    <3>2. /\ g \in FlowTables /\ g.toSent = fl.toSent + 1 /\ g.toNotify = fl.toNotify + 1
          /\ g.sent = fl.sent /\ g.received = fl.received
      <4>1. ASSUME NEW m \in Nat, NEW n \in Nat
            PROVE  LET h == [fl EXCEPT !.toSent = m, !.toNotify = n]
                   IN  /\ h \in FlowTables /\ h.toSent = m /\ h.toNotify = n
                       /\ h.sent = fl.sent /\ h.received = fl.received
        BY <3>1 DEF FlowTables
      <4>2. fl.toSent + 1 \in Nat /\ fl.toNotify + 1 \in Nat
        BY <3>1 DEF FlowTables
      <4> QED BY <4>1, <4>2
    <3>3. \A h \in FlowTables :
            h = [toSent |-> h.toSent, toNotify |-> h.toNotify,
                 sent |-> h.sent, received |-> h.received]
      BY DEF FlowTables
    <3> HIDE DEF g
    <3>4. g = [toSent |-> fl.toSent + 1, toNotify |-> fl.toNotify + 1,
               sent |-> fl.sent, received |-> fl.received]
      BY <3>2, <3>3
    <3> QED BY <3>4 DEF fl, g
  <2>3. flows' = [flows EXCEPT ![f].toSent = @ + 1, ![f].toNotify = @ + 1]
    BY DEF SimSend
  <2>4. flows' = [flows EXCEPT ![f] = [flows[f] EXCEPT !.toSent = @ + 1, !.toNotify = @ + 1]]
    BY <1>1, <2>1, <2>3
  <2> QED BY <2>2, <2>4
<1>5. tags' = [tags EXCEPT ![t] = [sent |-> Entry(s, Sends[s].size),
                                   expe |-> tags[t].expe, recv |-> tags[t].recv,
                                   pending |-> tags[t].pending]]
  <2>1. tags[t] \in TagTables
    BY <1>1, StateTypes
  <2>2. [tags[t] EXCEPT !.sent = Entry(s, Sends[s].size)]
          = [sent |-> Entry(s, Sends[s].size), expe |-> tags[t].expe,
             recv |-> tags[t].recv, pending |-> tags[t].pending]
    BY <2>1 DEF TagTables
  <2>3. tags' = [tags EXCEPT ![t] = [tags[t] EXCEPT !.sent = Entry(s, Sends[s].size)]]
    BY DEF SimSend
  <2> QED BY <2>2, <2>3
<1> QED BY <1>1, <1>2, <1>3, <1>4, <1>5

\* sim_recv changes the tables of one tag, and runs the handler of the receive
\* only where it serves it at once.
LEMMA SimRecvEffect ==
  ASSUME TypeOK, NEW r \in Receives, SimRecv(r)
  PROVE  LET t == Recvs[r].tag
             res == Register(tags[t], r, Recvs[r].size)
         IN  /\ t \in Tags /\ called.recv[r] = <<>> /\ tags[t].expe.id # r
             /\ tags' = [tags EXCEPT ![t] = res.tables]
             /\ called'.sent = called.sent
             /\ called'.recv = IF res.call
                               THEN [called.recv EXCEPT ![r] = Append(<<>>, res.with)]
                               ELSE called.recv
             /\ UNCHANGED <<qp, flows, tally, errors>>
BY SMTT(40), ListTypes DEF SimRecv, MayPost

\* send_finish takes the flow's send handler out when the last message counted
\* was sent, and runs it where the sizes agree.
LEMMA SendFinishEffect ==
  ASSUME TypeOK, NEW s \in Messages, SendFinish(s)
  PROVE  LET f == Sends[s].flow
             t == Sends[s].tag
             e == tags[t].sent.id
         IN  /\ f \in FlowIds /\ t \in Tags
             /\ qp[s].state = "live" /\ qp[s].calls < TailCalls
             /\ qp' = [qp EXCEPT ![s] = [state |-> "live", calls |-> qp[s].calls + 1]]
             /\ flows' = [flows EXCEPT ![f] = SentFlow(flows[f], Sends[s].size)]
             /\ called'.recv = called.recv /\ errors' \in BOOLEAN
             /\ tally'.recv = tally.recv /\ tally' \in [sent : Nat, recv : Nat]
             /\ \/ UNCHANGED <<tags, called>>
                \/ /\ flows[f].toSent = 1 /\ e # None
                   /\ tags' = [tags EXCEPT ![t] = [sent |-> Entry(None, 0),
                                                   expe |-> tags[t].expe, recv |-> tags[t].recv,
                                                   pending |-> tags[t].pending]]
                   /\ called'.sent = [called.sent EXCEPT ![e] = @ + 1]
<1> DEFINE f == Sends[s].flow
           t == Sends[s].tag
           e == tags[t].sent.id
<1>1. f \in FlowIds /\ t \in Tags /\ flows[f] \in FlowTables /\ tags[t] \in TagTables
  BY ListTypes, StateTypes
<1>2. qp[s].state = "live" /\ qp[s].calls < TailCalls
  BY DEF SendFinish
<1>3. qp' = [qp EXCEPT ![s] = [state |-> "live", calls |-> qp[s].calls + 1]]
  <2>1. qp[s] \in [state : {"none", "live", "finished"}, calls : 0 .. TailCalls]
    BY DEF TypeOK, Messages
  <2>2. [qp[s] EXCEPT !.calls = @ + 1] = [state |-> "live", calls |-> qp[s].calls + 1]
    BY <1>2, <2>1
  <2>3. qp' = [qp EXCEPT ![s] = [qp[s] EXCEPT !.calls = @ + 1]]
    BY DEF SendFinish
  <2> QED BY <2>2, <2>3
<1>4. flows' = [flows EXCEPT ![f] = SentFlow(flows[f], Sends[s].size)]
  BY DEF SendFinish
<1> DEFINE size == flows[f].sent + Sends[s].size
<1>5. \/ UNCHANGED <<tags, called, tally>> /\ errors' \in BOOLEAN
      \/ /\ flows[f].toSent = 1 /\ e # None
         /\ tags' = [tags EXCEPT ![t].sent = Entry(None, 0)]
         /\ called' = [called EXCEPT !.sent[e] = @ + 1]
         /\ tally' = [tally EXCEPT !.sent = @ + size]
         /\ errors' = errors
  BY DEF SendFinish, TypeOK
<1>6. CASE UNCHANGED <<tags, called, tally>> /\ errors' \in BOOLEAN
  BY <1>1, <1>2, <1>3, <1>4, <1>6 DEF TypeOK
<1>7. CASE /\ flows[f].toSent = 1 /\ e # None
           /\ tags' = [tags EXCEPT ![t].sent = Entry(None, 0)]
           /\ called' = [called EXCEPT !.sent[e] = @ + 1]
           /\ tally' = [tally EXCEPT !.sent = @ + size]
           /\ errors' = errors
  <2>1. tags' = [tags EXCEPT ![t] = [sent |-> Entry(None, 0),
                                     expe |-> tags[t].expe, recv |-> tags[t].recv,
                                     pending |-> tags[t].pending]]
    <3>1. [tags[t] EXCEPT !.sent = Entry(None, 0)]
            = [sent |-> Entry(None, 0), expe |-> tags[t].expe,
               recv |-> tags[t].recv, pending |-> tags[t].pending]
      BY <1>1 DEF TagTables
    <3> QED BY <1>7, <3>1
  <2>2. size \in Nat
    BY <1>1, ListTypes DEF FlowTables
  <2>3. tally'.recv = tally.recv /\ tally' \in [sent : Nat, recv : Nat]
    <3>1. tally \in [sent : Nat, recv : Nat] /\ tally.sent + size \in Nat
      BY <2>2 DEF TypeOK
    <3>2. tally' = [tally EXCEPT !.sent = tally.sent + size]
      BY <1>7
    <3> DEFINE n == tally.sent + size
    <3> HIDE DEF n
    <3>3. tally' = [tally EXCEPT !.sent = n] /\ n \in Nat
      BY <3>1, <3>2 DEF n
    <3> QED BY <3>1, <3>3
  <2>4. called'.recv = called.recv /\ called'.sent = [called.sent EXCEPT ![e] = @ + 1]
    BY <1>7 DEF TypeOK
  <2>5. errors' \in BOOLEAN
    BY <1>7 DEF TypeOK
  <2> HIDE DEF e, f, t, size
  <2>6. flows[f].toSent = 1 /\ e # None
    BY SMTT(40), <1>7
  <2> QED BY <1>1, <1>2, <1>3, <1>4, <2>1, <2>3, <2>4, <2>5, <2>6 DEF e, f, t
<1> QED BY Zenon, <1>5, <1>6, <1>7

\* qp_finish takes the flow's receive handler out when the last message counted
\* has completed, and hands the bytes of the flow to the tag.
LEMMA QpFinishEffect ==
  ASSUME TypeOK, NEW s \in Messages, QpFinish(s)
  PROVE  LET f == Sends[s].flow
             t == Sends[s].tag
             size == flows[f].received + Sends[s].size
             res == Notify(tags[t], f, size)
         IN  /\ f \in FlowIds /\ t \in Tags /\ size \in Nat \ {0}
             /\ qp[s].state = "live" /\ qp[s].calls > 0
             /\ qp' = [qp EXCEPT ![s] = [state |-> "finished", calls |-> qp[s].calls]]
             /\ flows' = [flows EXCEPT ![f] = ReceivedFlow(flows[f], Sends[s].size)]
             /\ called'.sent = called.sent /\ errors' = errors
             /\ tally' \in [sent : Nat, recv : Nat]
             /\ \/ flows[f].toNotify # 1 /\ UNCHANGED <<tags, called>>
                \/ /\ flows[f].toNotify = 1
                   /\ tags' = [tags EXCEPT ![t] = res.tables]
                   /\ called'.recv =
                        IF res.call # None
                        THEN [called.recv EXCEPT ![res.call] = Append(@, f)]
                        ELSE called.recv
<1> DEFINE f == Sends[s].flow
           t == Sends[s].tag
           size == flows[f].received + Sends[s].size
           res == Notify(tags[t], f, size)
<1>1. f \in FlowIds /\ t \in Tags /\ size \in Nat \ {0}
  <2>1. f \in FlowIds /\ t \in Tags /\ Sends[s].size \in Nat \ {0}
    BY ListTypes
  <2>2. flows[f].received \in Nat
    BY SMTT(40), <2>1, StateTypes DEF FlowTables
  <2> QED BY <2>1, <2>2
<1>2. qp[s].state = "live" /\ qp[s].calls > 0
  BY Zenon DEF QpFinish
<1>3. qp' = [qp EXCEPT ![s] = [state |-> "finished", calls |-> qp[s].calls]]
  <2>1. qp[s] \in [state : {"none", "live", "finished"}, calls : 0 .. TailCalls]
    BY DEF TypeOK, Messages
  <2>2. [qp[s] EXCEPT !.state = "finished"] = [state |-> "finished", calls |-> qp[s].calls]
    BY <2>1
  <2>3. qp' = [qp EXCEPT ![s] = [qp[s] EXCEPT !.state = "finished"]]
    BY Zenon DEF QpFinish
  <2> QED BY ZenonT(60), <2>2, <2>3
<1>4. flows' = [flows EXCEPT ![f] = ReceivedFlow(flows[f], Sends[s].size)] /\ errors' = errors
  BY ZenonT(60) DEF QpFinish
<1>5. \/ flows[f].toNotify # 1 /\ UNCHANGED <<tags, called, tally>>
      \/ /\ flows[f].toNotify = 1
         /\ tags' = [tags EXCEPT ![t] = res.tables]
         /\ called' = IF res.call # None
                      THEN [called EXCEPT !.recv[res.call] = Append(@, f)]
                      ELSE called
         /\ tally' = [tally EXCEPT !.recv = @ + size]
  BY ZenonT(60) DEF QpFinish
<1> HIDE DEF res, size
<1>6. CASE flows[f].toNotify # 1 /\ UNCHANGED <<tags, called, tally>>
  BY ZenonT(60), <1>1, <1>2, <1>3, <1>4, <1>6 DEF TypeOK, res, size
<1>7. CASE /\ flows[f].toNotify = 1
           /\ tags' = [tags EXCEPT ![t] = res.tables]
           /\ called' = IF res.call # None
                        THEN [called EXCEPT !.recv[res.call] = Append(@, f)]
                        ELSE called
           /\ tally' = [tally EXCEPT !.recv = @ + size]
  <2>1. tally' \in [sent : Nat, recv : Nat]
    <3>1. tally \in [sent : Nat, recv : Nat] /\ tally.recv + size \in Nat
      BY <1>1 DEF TypeOK
    <3>2. tally' = [tally EXCEPT !.recv = tally.recv + size]
      BY <1>7
    <3> QED BY <3>1, <3>2
  <2>2. /\ called'.sent = called.sent
        /\ called'.recv = IF res.call # None
                          THEN [called.recv EXCEPT ![res.call] = Append(@, f)]
                          ELSE called.recv
    BY <1>7 DEF TypeOK
  <2>3. flows[f].toNotify = 1 /\ tags' = [tags EXCEPT ![t] = res.tables]
    BY <1>7
  <2> QED BY Zenon, <1>1, <1>2, <1>3, <1>4, <2>1, <2>2, <2>3 DEF res, size
<1> QED BY Zenon, <1>5, <1>6, <1>7

\* The callbacks of a sender leave the receiving half of the tables alone.
LEMMA SenderTables ==
  ASSUME TypeOK, NEW s \in Messages, SimSend(s) \/ SendFinish(s)
  PROVE  /\ called'.recv = called.recv
         /\ \A u \in Tags : /\ tags'[u].expe = tags[u].expe /\ tags'[u].recv = tags[u].recv
                            /\ tags'[u].pending = tags[u].pending
<1> DEFINE t == Sends[s].tag
           k(en) == [sent |-> en, expe |-> tags[t].expe, recv |-> tags[t].recv,
                     pending |-> tags[t].pending]
<1>1. tags \in [Tags -> TagTables]
  BY DEF TypeOK, TagTables, Messages, Receives
<1>2. ASSUME NEW x, x.expe = tags[t].expe, x.recv = tags[t].recv, x.pending = tags[t].pending,
             tags' = [tags EXCEPT ![t] = x]
      PROVE  \A u \in Tags : /\ tags'[u].expe = tags[u].expe /\ tags'[u].recv = tags[u].recv
                             /\ tags'[u].pending = tags[u].pending
  BY <1>1, <1>2
<1>3. CASE SimSend(s)
  <2>1. tags' = [tags EXCEPT ![t] = k(Entry(s, Sends[s].size))] /\ called' = called
    BY <1>3, SimSendEffect
  <2> QED BY <1>2, <2>1
<1>4. CASE SendFinish(s)
  <2>1. (tags' = tags \/ tags' = [tags EXCEPT ![t] = k(Entry(None, 0))])
        /\ called'.recv = called.recv
    BY <1>4, SendFinishEffect
  <2> QED BY <1>2, <2>1
<1> QED BY <1>3, <1>4

-------------------------------------------------------------------------------
\* Types, and the tables that never overwrite one another.

TypeInv == TypeOK /\ NeverBoth

\* NeverBoth says of every tag that its tables are tidy.
LEMMA TidyTags == NeverBoth <=> \A t \in Tags : Tidy(tags[t])
BY DEF NeverBoth, Tidy

\* The tables start typed and tidy.
LEMMA InitType == Init => TypeInv
<1> SUFFICES ASSUME Init PROVE TypeInv
  OBVIOUS
<1>1. TypeOK
  <2>1. qp \in [Messages -> [state : {"none", "live", "finished"}, calls : 0 .. TailCalls]]
    BY CallsAssumption DEF Init, Messages
  <2>2. flows \in [FlowIds -> FlowTables]
    BY DEF Init, FlowTables
  <2>3. tags \in [Tags -> TagTables]
    <3>1. Entry(None, 0) \in EntryOf(Messages) /\ Entry(None, 0) \in EntryOf(Receives)
      BY DEF Entry, EntryOf
    <3> QED BY <3>1 DEF Init, TagTables
  <2>4. called \in [sent : [Messages -> Nat], recv : [Receives -> Seq(FlowIds \cup {None})]]
    <3>1. [r \in Receives |-> <<>>] \in [Receives -> Seq(FlowIds \cup {None})]
      BY EmptySeq
    <3> QED BY <3>1 DEF Init, Messages, Receives
  <2>5. tally \in [sent : Nat, recv : Nat] /\ errors \in BOOLEAN
    BY DEF Init
  <2> QED
    BY <2>1, <2>2, <2>3, <2>4, <2>5
    DEF TypeOK, FlowTables, TagTables, Messages, Receives
<1>2. NeverBoth
  BY DEF Init, NeverBoth, Entry
<1> QED BY <1>1, <1>2 DEF TypeInv

\* Every step keeps the types and keeps the tables tidy.
LEMMA NextType == TypeInv /\ [Next]_vars => TypeInv'
<1> SUFFICES ASSUME TypeInv, [Next]_vars PROVE TypeInv'
  OBVIOUS
<1> USE DEF TypeInv
<1> DEFINE QpRec == [state : {"none", "live", "finished"}, calls : 0 .. TailCalls]
           Tags2 == Seq(FlowIds \cup {None})
<1>1. /\ qp \in [Messages -> QpRec] /\ flows \in [FlowIds -> FlowTables]
      /\ tags \in [Tags -> TagTables] /\ called.sent \in [Messages -> Nat]
      /\ called.recv \in [Receives -> Tags2]
      /\ tally \in [sent : Nat, recv : Nat] /\ errors \in BOOLEAN
  BY DEF TypeOK, FlowTables, TagTables, Messages, Receives
<1>2. \A t \in Tags : Tidy(tags[t])
  BY TidyTags
<1>3. /\ \A s \in Messages : qp[s].calls \in 0 .. TailCalls
      /\ \A f \in FlowIds : flows[f] \in FlowTables
      /\ \A t \in Tags : tags[t] \in TagTables
  BY StateTypes
<1>4. ASSUME /\ qp' \in [Messages -> QpRec] /\ flows' \in [FlowIds -> FlowTables]
             /\ tags' \in [Tags -> TagTables] /\ called' \in [sent : [Messages -> Nat],
                                                              recv : [Receives -> Tags2]]
             /\ tally' \in [sent : Nat, recv : Nat] /\ errors' \in BOOLEAN,
             \A t \in Tags : Tidy(tags'[t])
      PROVE  TypeInv'
  BY <1>4 DEF TypeOK, NeverBoth, Tidy, FlowTables, TagTables, Messages, Receives
<1>5. CASE UNCHANGED vars
  BY <1>5 DEF vars, TypeOK, NeverBoth
<1>6. ASSUME NEW s \in Messages, SimSend(s) PROVE TypeInv'
  <2> DEFINE f == Sends[s].flow
             t == Sends[s].tag
             k == [sent |-> Entry(s, Sends[s].size), expe |-> tags[t].expe,
                   recv |-> tags[t].recv, pending |-> tags[t].pending]
             fl == [toSent |-> flows[f].toSent + 1, toNotify |-> flows[f].toNotify + 1,
                    sent |-> flows[f].sent, received |-> flows[f].received]
             q == [state |-> "live", calls |-> qp[s].calls]
  <2>1. /\ f \in FlowIds /\ t \in Tags /\ qp' = [qp EXCEPT ![s] = q]
        /\ flows' = [flows EXCEPT ![f] = fl] /\ tags' = [tags EXCEPT ![t] = k]
        /\ UNCHANGED <<called, tally, errors>>
    BY <1>6, SimSendEffect
  <2>2. q \in QpRec
    BY <1>3
  <2>3. fl \in FlowTables
    BY <1>3, <2>1 DEF FlowTables
  <2>4. k \in TagTables /\ Tidy(k)
    <3>1. Entry(s, Sends[s].size) \in EntryOf(Messages)
      BY ListTypes DEF Entry, EntryOf
    <3> QED BY <1>2, <1>3, <2>1, <3>1 DEF TagTables, Tidy
  <2> HIDE DEF f, t, k, fl, q
  <2>5. called' \in [sent : [Messages -> Nat], recv : [Receives -> Tags2]]
    BY SMTT(40), <2>1 DEF TypeOK, Messages, Receives
  <2> HIDE DEF QpRec, Tags2
  <2>6. /\ qp' \in [Messages -> QpRec] /\ flows' \in [FlowIds -> FlowTables]
        /\ tags' \in [Tags -> TagTables] /\ \A u \in Tags : Tidy(tags'[u])
    BY <1>1, <1>2, <2>1, <2>2, <2>3, <2>4
  <2> QED BY <1>1, <1>4, <2>1, <2>5, <2>6
<1>7. ASSUME NEW s \in Messages, SendFinish(s) PROVE TypeInv'
  <2> DEFINE f == Sends[s].flow
             t == Sends[s].tag
             e == tags[t].sent.id
             k == [sent |-> Entry(None, 0), expe |-> tags[t].expe,
                   recv |-> tags[t].recv, pending |-> tags[t].pending]
             fl == SentFlow(flows[f], Sends[s].size)
             q == [state |-> "live", calls |-> qp[s].calls + 1]
  <2>1. /\ f \in FlowIds /\ t \in Tags /\ qp' = [qp EXCEPT ![s] = q]
        /\ qp[s].calls < TailCalls
        /\ flows' = [flows EXCEPT ![f] = fl]
        /\ called'.recv = called.recv /\ errors' \in BOOLEAN
        /\ tally' \in [sent : Nat, recv : Nat]
        /\ \/ UNCHANGED <<tags, called>>
           \/ /\ e # None /\ tags' = [tags EXCEPT ![t] = k]
              /\ called'.sent = [called.sent EXCEPT ![e] = @ + 1]
    BY <1>7, SendFinishEffect
  <2>2. q \in QpRec
    BY <1>3, <2>1, CallsAssumption
  <2>3. fl \in FlowTables
    BY <1>3, <2>1, FlowEffect, ListTypes
  <2>4. k \in TagTables /\ Tidy(k) /\ e \in Messages \cup {None}
    <3>1. Entry(None, 0) \in EntryOf(Messages)
      BY DEF Entry, EntryOf
    <3> QED BY <1>2, <1>3, <2>1, <3>1 DEF TagTables, Tidy, EntryOf
  <2> HIDE DEF f, t, k, fl, q, e
  <2>5. called'.sent \in [Messages -> Nat] /\ called'.recv \in [Receives -> Tags2]
    <3>1. \A x \in Messages : called.sent[x] + 1 \in Nat
      BY <1>1
    <3>2. called'.sent \in [Messages -> Nat]
      BY <1>1, <2>1, <2>4, <3>1
    <3> QED BY <1>1, <2>1, <3>2
  <2>6. called' \in [sent : [Messages -> Nat], recv : [Receives -> Tags2]]
    <3>1. UNCHANGED called \/ \E x, y : called' = [called EXCEPT !.sent[x] = y]
      BY <1>7 DEF SendFinish
    <3> QED BY <2>5, <3>1 DEF TypeOK, Messages, Receives
  <2> HIDE DEF QpRec, Tags2
  <2>7. /\ qp' \in [Messages -> QpRec] /\ flows' \in [FlowIds -> FlowTables]
        /\ tags' \in [Tags -> TagTables] /\ \A u \in Tags : Tidy(tags'[u])
    BY <1>1, <1>2, <2>1, <2>2, <2>3, <2>4
  <2> QED BY <1>1, <1>4, <2>1, <2>6, <2>7
<1>8. ASSUME NEW s \in Messages, QpFinish(s) PROVE TypeInv'
  <2> DEFINE f == Sends[s].flow
             t == Sends[s].tag
             size == flows[f].received + Sends[s].size
             res == Notify(tags[t], f, size)
             fl == ReceivedFlow(flows[f], Sends[s].size)
             q == [state |-> "finished", calls |-> qp[s].calls]
  <2>1. /\ f \in FlowIds /\ t \in Tags /\ size \in Nat \ {0}
        /\ qp' = [qp EXCEPT ![s] = q]
        /\ flows' = [flows EXCEPT ![f] = fl]
        /\ called'.sent = called.sent /\ errors' = errors
        /\ tally' \in [sent : Nat, recv : Nat]
        /\ \/ UNCHANGED <<tags, called>>
           \/ /\ tags' = [tags EXCEPT ![t] = res.tables]
              /\ called'.recv = IF res.call # None
                                THEN [called.recv EXCEPT ![res.call] = Append(@, f)]
                                ELSE called.recv
    BY ZenonT(60), <1>8, QpFinishEffect
  <2>2. q \in QpRec
    BY <1>3
  <2>3. fl \in FlowTables
    BY Zenon, <1>3, <2>1, FlowEffect, ListTypes
  <2>4. res.tables \in TagTables /\ Tidy(res.tables) /\ res.call \in Receives \cup {None}
    <3>1. tags[t] \in TagTables /\ Tidy(tags[t]) /\ tags[t].expe.id \in Receives \cup {None}
      BY Zenon, <1>2, <1>3, <2>1 DEF TagTables, EntryOf
    <3> HIDE DEF t, f, size
    <3> QED BY SMTT(40), <2>1, <3>1, NotifyEffect
  <2> HIDE DEF f, t, size, res, fl, q
  <2>5. called'.recv \in [Receives -> Tags2]
    <3>1. \A r \in Receives : Append(called.recv[r], f) \in Tags2
      BY <1>1, <2>1, AppendProperties
    <3> HIDE DEF Tags2
    <3>2. \/ called'.recv = called.recv
          \/ /\ res.call \in Receives
             /\ called'.recv = [called.recv EXCEPT ![res.call] = Append(called.recv[res.call], f)]
      BY <2>1, <2>4
    <3>3. called.recv \in [Receives -> Tags2]
      BY <1>1
    <3> QED BY <3>1, <3>2, <3>3
  <2>6. called' \in [sent : [Messages -> Nat], recv : [Receives -> Tags2]]
    <3>1. UNCHANGED called \/ \E x, y : called' = [called EXCEPT !.recv[x] = y]
      BY Zenon, <1>8 DEF QpFinish
    <3> QED BY SMTT(40), <1>1, <2>1, <2>5, <3>1 DEF TypeOK, Messages, Receives
  <2> HIDE DEF QpRec, Tags2
  <2>7. /\ qp' \in [Messages -> QpRec] /\ flows' \in [FlowIds -> FlowTables]
        /\ tags' \in [Tags -> TagTables] /\ \A u \in Tags : Tidy(tags'[u])
    BY <1>1, <1>2, <2>1, <2>2, <2>3, <2>4
  <2> QED BY <1>1, <1>4, <2>1, <2>6, <2>7
<1>9. ASSUME NEW r \in Receives, SimRecv(r) PROVE TypeInv'
  <2> DEFINE t == Recvs[r].tag
             res == Register(tags[t], r, Recvs[r].size)
  <2>1. /\ t \in Tags /\ tags' = [tags EXCEPT ![t] = res.tables]
        /\ called'.sent = called.sent
        /\ called'.recv = IF res.call
                          THEN [called.recv EXCEPT ![r] = Append(<<>>, res.with)]
                          ELSE called.recv
        /\ UNCHANGED <<qp, flows, tally, errors>>
    BY <1>9, SimRecvEffect
  <2>2. /\ res.tables \in TagTables /\ Tidy(res.tables)
        /\ res.with \in FlowIds \cup {None}
    <3>1. tags[t] \in TagTables /\ Tidy(tags[t]) /\ Recvs[r].size \in Nat \ {0}
      BY <1>2, <1>3, <2>1, ListTypes
    <3> HIDE DEF t
    <3> QED BY <3>1, RegisterEffect
  <2> HIDE DEF t, res
  <2>3. called'.recv \in [Receives -> Tags2]
    <3>1. Append(<<>>, res.with) \in Tags2
      BY <2>2, AppendProperties, EmptySeq
    <3> HIDE DEF Tags2
    <3> QED BY <1>1, <2>1, <3>1
  <2>4. called' \in [sent : [Messages -> Nat], recv : [Receives -> Tags2]]
    <3>1. UNCHANGED called \/ \E x, y : called' = [called EXCEPT !.recv[x] = y]
      BY <1>9 DEF SimRecv
    <3> QED BY <1>1, <2>1, <2>3, <3>1 DEF TypeOK, Messages, Receives
  <2> HIDE DEF QpRec, Tags2
  <2>5. tags' \in [Tags -> TagTables] /\ \A u \in Tags : Tidy(tags'[u])
    BY <1>1, <1>2, <2>1, <2>2
  <2> QED BY <1>1, <1>4, <2>1, <2>4, <2>5
<1> QED BY <1>5, <1>6, <1>7, <1>8, <1>9 DEF Next, Messages, Receives

\* Every reachable state is typed and tidy.
LEMMA InvariantCorrect == Spec => []TypeInv
BY InitType, NextType, PTL DEF Spec

\* The hash tables keep their types: no count of a message, receive or flow goes
\* below 0 (sentHash, recvHash, expeRecvHash, waiting_to_sent_callback,
\* waiting_to_notify_receiver of entry.h), whatever the lists.
THEOREM TypeCorrect == Spec => []TypeOK
<1>1. TypeInv => TypeOK
  BY DEF TypeInv
<1> QED
  BY <1>1, InvariantCorrect, PTL

\* A tag never has bytes nobody asked for and a receive that waits: however often
\* the send-complete callback runs and whether or not a flow overlaps itself.
THEOREM NeverBothCorrect == Spec => []NeverBoth
<1>1. TypeInv => NeverBoth
  BY DEF TypeInv
<1> QED
  BY <1>1, InvariantCorrect, PTL

-------------------------------------------------------------------------------
\* Receives.

\* A receive that waits is registered with its own tag, and its handler has not
\* run; no receive's handler runs twice.
RecvOnce ==
  /\ \A t \in Tags : LET r == tags[t].expe.id
                     IN  r # None => Recvs[r].tag = t /\ called.recv[r] = <<>>
  /\ \A r \in Receives : Len(called.recv[r]) <= 1

\* What an action leaves alone: where no receive was registered and no handler
\* of one ran, RecvOnce stays.
LEMMA RecvOnceKept ==
  ASSUME RecvOnce, called'.recv = called.recv,
         \A t \in Tags : tags'[t].expe.id \in {tags[t].expe.id, None}
  PROVE  RecvOnce'
BY DEF RecvOnce

\* Every step keeps RecvOnce: sim_recv calls a handler or registers the receive,
\* and a registered receive is taken out when its handler is called.
LEMMA NextRecvOnce == TypeInv /\ RecvOnce /\ [Next]_vars => RecvOnce'
<1> SUFFICES ASSUME TypeInv, RecvOnce, [Next]_vars PROVE RecvOnce'
  OBVIOUS
<1>1. /\ TypeOK /\ tags \in [Tags -> TagTables] /\ \A t \in Tags : Tidy(tags[t])
      /\ \A t \in Tags : tags[t].expe.id \in Receives \cup {None}
      /\ \A r \in Receives : r # None
      /\ called.recv \in [Receives -> Seq(FlowIds \cup {None})]
  BY TidyTags, ListTypes DEF TypeInv, TypeOK, TagTables, EntryOf, Messages, Receives
<1>2. \A x : /\ Len(Append(<<>>, x)) = 1 /\ Append(<<>>, x) # <<>>
  OBVIOUS
<1>3. CASE UNCHANGED vars
  BY <1>3, RecvOnceKept DEF vars
<1>4. ASSUME NEW s \in Messages, SimSend(s) PROVE RecvOnce'
  <2>1. called'.recv = called.recv /\ \A t \in Tags : tags'[t].expe = tags[t].expe
    BY <1>1, <1>4, SenderTables
  <2> QED BY <2>1, RecvOnceKept
<1>5. ASSUME NEW s \in Messages, SendFinish(s) PROVE RecvOnce'
  <2>1. called'.recv = called.recv /\ \A t \in Tags : tags'[t].expe = tags[t].expe
    BY <1>1, <1>5, SenderTables
  <2> QED BY <2>1, RecvOnceKept
<1>6. ASSUME NEW s \in Messages, QpFinish(s) PROVE RecvOnce'
  <2> DEFINE f == Sends[s].flow
             t == Sends[s].tag
             size == flows[f].received + Sends[s].size
             k == tags[t]
             res == Notify(k, f, size)
             e == k.expe.id
  <2>1. /\ f \in FlowIds /\ t \in Tags /\ size \in Nat \ {0}
        /\ \/ UNCHANGED <<tags, called>>
           \/ /\ tags' = [tags EXCEPT ![t] = res.tables]
              /\ called'.recv = IF res.call # None
                                THEN [called.recv EXCEPT ![res.call] = Append(@, f)]
                                ELSE called.recv
    BY ZenonT(60), <1>1, <1>6, QpFinishEffect
  <2>2. \/ /\ e # None /\ res.call = e /\ res.tables.expe = Entry(None, 0)
        \/ /\ e # None /\ res.call = None /\ res.tables.expe.id = e
        \/ /\ e = None /\ res.call = None /\ res.tables.expe = k.expe
    <3>1. k \in TagTables /\ Tidy(k)
      BY Zenon, <1>1, <2>1
    <3> HIDE DEF k, f, size
    <3>2. \/ /\ e # None /\ res.call = e /\ res.tables.expe = Entry(None, 0)
          \/ /\ e # None /\ res.call = None
             /\ res.tables.expe = Entry(e, k.expe.count - size)
          \/ /\ e = None /\ res.call = None /\ res.tables.expe = k.expe
      BY SMTT(40), <2>1, <3>1, NotifyEffect
    <3> HIDE DEF res, e
    <3> QED BY <3>2, EntryParts
  <2>3. e \in Receives \cup {None} /\ (e # None => Recvs[e].tag = t /\ called.recv[e] = <<>>)
    BY ZenonT(60), <1>1, <2>1 DEF RecvOnce
  <2>4. \A u \in Tags : u # t => tags'[u] = tags[u]
    BY ZenonT(60), <1>1, <2>1
  <2>5. UNCHANGED tags \/ tags'[t] = res.tables
    BY Zenon, <1>1, <2>1
  <2> HIDE DEF f, t, size, k, res
  <2>6. CASE UNCHANGED <<tags, called>>
    BY <2>6, RecvOnceKept
  <2>7. CASE /\ tags' = [tags EXCEPT ![t] = res.tables] /\ res.call = None
             /\ called'.recv = called.recv
    <3>1. \A u \in Tags : tags'[u].expe.id \in {tags[u].expe.id, None}
      BY <1>1, <2>1, <2>2, <2>4, <2>7 DEF e, k
    <3> QED BY <2>7, <3>1, RecvOnceKept
  <2>8. CASE /\ tags' = [tags EXCEPT ![t] = res.tables]
             /\ e # None /\ res.call = e /\ res.tables.expe = Entry(None, 0)
             /\ called'.recv = [called.recv EXCEPT ![e] = Append(@, f)]
    <3>1. e \in Receives /\ Recvs[e].tag = t /\ called.recv[e] = <<>>
      BY <2>3, <2>8
    <3>2. called'.recv[e] = Append(<<>>, f) /\ \A r \in Receives \ {e} : called'.recv[r] = called.recv[r]
      BY <1>1, <2>8, <3>1
    <3>3. tags'[t].expe.id = None
      BY <1>1, <2>1, <2>8 DEF Entry
    <3>4. ASSUME NEW u \in Tags, tags'[u].expe.id # None
          PROVE  Recvs[tags'[u].expe.id].tag = u /\ called'.recv[tags'[u].expe.id] = <<>>
      <4>1. u # t /\ tags'[u] = tags[u]
        BY <2>4, <3>3, <3>4
      <4>2. /\ tags[u].expe.id \in Receives /\ Recvs[tags[u].expe.id].tag = u
            /\ called.recv[tags[u].expe.id] = <<>>
        BY <1>1, <3>4, <4>1 DEF RecvOnce
      <4>3. tags[u].expe.id # e
        BY <3>1, <4>1, <4>2
      <4> QED BY <3>2, <4>1, <4>2, <4>3
    <3>5. \A r \in Receives : Len(called'.recv[r]) <= 1
      <4>1. Len(called'.recv[e]) <= 1
        BY <1>2, <3>2
      <4>2. \A r \in Receives \ {e} : Len(called'.recv[r]) <= 1
        BY <3>2 DEF RecvOnce
      <4> QED BY <4>1, <4>2
    <3> QED BY <3>4, <3>5 DEF RecvOnce
  <2> QED BY Zenon, <2>1, <2>2, <2>6, <2>7, <2>8
<1>7. ASSUME NEW r \in Receives, SimRecv(r) PROVE RecvOnce'
  <2> DEFINE t == Recvs[r].tag
             k == tags[t]
             n == Recvs[r].size
             res == Register(k, r, n)
  <2>1. /\ t \in Tags /\ called.recv[r] = <<>> /\ tags[t].expe.id # r
        /\ tags' = [tags EXCEPT ![t] = res.tables]
        /\ called'.recv = IF res.call
                          THEN [called.recv EXCEPT ![r] = Append(<<>>, res.with)]
                          ELSE called.recv
    BY <1>1, <1>7, SimRecvEffect
  <2>2. \/ /\ res.call /\ k.expe.id = None /\ res.tables.expe = k.expe
        \/ /\ ~res.call /\ k.expe.id = None /\ res.tables.expe.id = r
        \/ /\ ~res.call /\ k.expe.id # None /\ res.tables = k
    <3>1. k \in TagTables /\ Tidy(k) /\ n \in Nat \ {0}
      BY <1>1, <2>1, ListTypes
    <3> HIDE DEF k, n
    <3>2. \/ /\ res.call /\ k.expe.id = None /\ res.tables.expe = k.expe
          \/ /\ ~res.call /\ k.expe.id = None /\ res.tables.expe = Entry(r, n - k.recv)
          \/ /\ ~res.call /\ k.expe.id # None /\ res.tables = k
      BY <3>1, RegisterEffect
    <3> HIDE DEF res
    <3> QED BY <3>2, EntryParts
  <2>3. tags'[t] = res.tables /\ \A u \in Tags : u # t => tags'[u] = tags[u]
    BY <1>1, <2>1
  <2> HIDE DEF res
  <2>4. CASE res.call
    <3>1. /\ tags'[t].expe.id = None
          /\ called'.recv[r] = Append(<<>>, res.with)
          /\ \A x \in Receives \ {r} : called'.recv[x] = called.recv[x]
      BY <1>1, <2>1, <2>2, <2>3, <2>4
    <3>2. ASSUME NEW u \in Tags, tags'[u].expe.id # None
          PROVE  Recvs[tags'[u].expe.id].tag = u /\ called'.recv[tags'[u].expe.id] = <<>>
      <4>1. u # t /\ tags'[u] = tags[u]
        BY <2>3, <3>1, <3>2
      <4>2. /\ tags[u].expe.id \in Receives /\ Recvs[tags[u].expe.id].tag = u
            /\ called.recv[tags[u].expe.id] = <<>>
        BY <1>1, <3>2, <4>1 DEF RecvOnce
      <4> QED BY <3>1, <4>1, <4>2
    <3>3. \A x \in Receives : Len(called'.recv[x]) <= 1
      <4>1. Len(called'.recv[r]) <= 1
        BY <1>2, <3>1
      <4>2. \A x \in Receives \ {r} : Len(called'.recv[x]) <= 1
        BY <3>1 DEF RecvOnce
      <4> QED BY <4>1, <4>2
    <3> QED BY <3>2, <3>3 DEF RecvOnce
  <2>5. CASE ~res.call
    <3>1. called'.recv = called.recv
      BY <2>1, <2>5
    <3>2. tags'[t].expe.id = r \/ tags'[t] = tags[t]
      BY <2>2, <2>3, <2>5
    <3> QED BY SMTT(40), <2>1, <2>3, <3>1, <3>2 DEF RecvOnce
  <2> QED BY <2>4, <2>5
<1> QED BY <1>3, <1>4, <1>5, <1>6, <1>7 DEF Next, Messages, Receives

\* From the start, no receive's handler runs twice.
LEMMA RecvOnceCorrect == Spec => []RecvOnce
<1>1. Init => RecvOnce
  BY DEF Init, RecvOnce, Receives, Entry
<1>2. Spec => []TypeInv
  BY InvariantCorrect
<1> QED BY <1>1, <1>2, NextRecvOnce, PTL DEF Spec

-------------------------------------------------------------------------------
\* Sends.

\* The send-complete callback of a queue pair does not find a later message of
\* its flow: it runs once, or a flow does not overlap itself.
OwnCallbacks == TailCalls = 1 \/ ~Overlap

\* The message's queue pair was started and not yet reported as sent.
Pending(s) == qp[s].state = "live" /\ qp[s].calls = 0

\* A message that was not sent has no callback and no handler behind it.
NotStarted ==
  \A s \in Messages : qp[s].state = "none" => called.sent[s] = 0 /\ qp[s].calls = 0

\* A send handler that is registered is that of a started message of the tag, and
\* has not run.
SentEntries ==
  \A t \in Tags :
    LET e == tags[t].sent.id
    IN  e # None => Sends[e].tag = t /\ called.sent[e] = 0 /\ qp[e].state # "none"

\* A message whose callback has not run has its send handler registered.
PendingEntries == \A s \in Messages : Pending(s) => tags[Sends[s].tag].sent.id = s

\* A flow sends a message when the send handler of the ones before it ran.
InOrder ==
  \A s \in Messages : qp[s].state # "none" =>
    \A e \in Messages : e < s /\ Sends[e].flow = Sends[s].flow =>
      called.sent[e] > 0 /\ (~Overlap => qp[e].state = "finished")

\* waiting_to_sent_callback counts the message of a flow that is pending.
ToSent ==
  \A f \in FlowIds :
    /\ flows[f].toSent \in {0, 1}
    /\ flows[f].toSent = 1 <=> \E s \in Messages : Sends[s].flow = f /\ Pending(s)

\* A send handler runs once, and not before its queue pair reported.
Reported ==
  \A s \in Messages : called.sent[s] <= 1 /\ (called.sent[s] = 1 => qp[s].calls > 0)

SendInv ==
  NotStarted /\ SentEntries /\ PendingEntries /\ InOrder /\ ToSent /\ Reported

\* The types the sender's proofs use.
LEMMA SendTypes ==
  ASSUME TypeOK
  PROVE  /\ \A s \in Messages : /\ s \in Nat /\ s # None /\ called.sent[s] \in Nat
                                /\ qp[s].calls \in Nat
                                /\ Sends[s].flow \in FlowIds /\ Sends[s].tag \in Tags
         /\ \A t \in Tags : tags[t].sent.id \in Messages \cup {None}
         /\ \A f \in FlowIds : flows[f].toSent \in Nat
         /\ qp \in [Messages -> [state : {"none", "live", "finished"}, calls : 0 .. TailCalls]]
         /\ flows \in [FlowIds -> FlowTables] /\ tags \in [Tags -> TagTables]
         /\ called.sent \in [Messages -> Nat]
<1>1. \A t \in Tags : tags[t].sent \in EntryOf(Messages)
  BY StateTypes DEF TagTables
<1>2. \A t \in Tags : tags[t].sent.id \in Messages \cup {None}
  BY <1>1 DEF EntryOf
<1>3. \A f \in FlowIds : flows[f].toSent \in Nat
  BY StateTypes DEF FlowTables
<1>4. /\ qp \in [Messages -> [state : {"none", "live", "finished"}, calls : 0 .. TailCalls]]
      /\ flows \in [FlowIds -> FlowTables] /\ tags \in [Tags -> TagTables]
      /\ called.sent \in [Messages -> Nat]
  BY DEF TypeOK, FlowTables, TagTables, Messages, Receives
<1> QED BY <1>2, <1>3, <1>4, StateTypes, ListTypes

\* A flow has at most one message pending, and where it does not overlap itself
\* at most one that is live.
LEMMA OneLive ==
  ASSUME TypeOK, InOrder, Reported, NEW s \in Messages, NEW e \in Messages,
         Sends[e].flow = Sends[s].flow, qp[s].state = "live", qp[e].state = "live",
         ~Overlap \/ (Pending(s) /\ Pending(e))
  PROVE  e = s
<1>1. s \in Nat /\ e \in Nat
  BY ListTypes
<1>2. ASSUME NEW a \in Messages, NEW b \in Messages, a < b, Sends[a].flow = Sends[b].flow,
             qp[a].state = "live", qp[b].state = "live",
             ~Overlap \/ (Pending(a) /\ Pending(b))
      PROVE  FALSE
  <2>1. called.sent[a] > 0 /\ (~Overlap => qp[a].state = "finished")
    BY <1>2 DEF InOrder
  <2>2. Pending(a)
    BY <1>2, <2>1
  <2>3. called.sent[a] \in Nat /\ called.sent[a] <= 1 /\ (called.sent[a] = 1 => qp[a].calls > 0)
    BY SendTypes DEF Reported
  <2>4. called.sent[a] = 1
    BY <2>1, <2>3
  <2> QED BY <2>2, <2>3, <2>4 DEF Pending
<1>3. ~(e < s) /\ ~(s < e)
  BY <1>2
<1> QED BY <1>1, <1>3

\* A step that reports no message and starts none keeps the sender's invariant.
LEMMA SendKept ==
  ASSUME TypeOK, SendInv, called'.sent = called.sent,
         \A t \in Tags : tags'[t].sent.id = tags[t].sent.id,
         \A f \in FlowIds : flows'[f].toSent = flows[f].toSent,
         \A s \in Messages : /\ qp'[s].state = "none" <=> qp[s].state = "none"
                             /\ qp[s].state = "finished" => qp'[s].state = "finished"
                             /\ qp'[s].calls = 0 <=> qp[s].calls = 0
                             /\ qp[s].calls > 0 => qp'[s].calls > 0
                             /\ Pending(s)' <=> Pending(s)
  PROVE  SendInv'
<1>1. NotStarted'
  BY DEF SendInv, NotStarted
<1>2. SentEntries'
  <2>1. \A t \in Tags : tags[t].sent.id \in Messages \cup {None}
    BY SendTypes
  <2> QED BY <2>1 DEF SendInv, SentEntries
<1>3. PendingEntries'
  BY SendTypes DEF SendInv, PendingEntries
<1>4. InOrder'
  BY DEF SendInv, InOrder
<1>5. ToSent'
  BY DEF SendInv, ToSent
<1>6. Reported'
  BY DEF SendInv, Reported
<1> QED BY <1>1, <1>2, <1>3, <1>4, <1>5, <1>6 DEF SendInv

\* Starting a queue pair keeps the sender's invariant: the flow has none pending.
LEMMA SimSendKeeps ==
  ASSUME TypeOK, SendInv, NEW s \in Messages, SimSend(s)
  PROVE  SendInv'
<1> DEFINE f == Sends[s].flow
           t == Sends[s].tag
<1>1. /\ qp[s].state = "none" /\ qp[s].calls = 0 /\ called.sent[s] = 0
      /\ tags[t].sent.id = None /\ called'.sent = called.sent
      /\ f \in FlowIds /\ t \in Tags
  BY SimSendEffect DEF SendInv, NotStarted
<1>2. /\ qp'[s].state = "live" /\ qp'[s].calls = 0
      /\ \A e \in Messages \ {s} : qp'[e] = qp[e]
  <2>1. qp' = [qp EXCEPT ![s] = [state |-> "live", calls |-> qp[s].calls]]
    BY SimSendEffect
  <2>2. /\ qp'[s] = [state |-> "live", calls |-> qp[s].calls]
        /\ \A e \in Messages \ {s} : qp'[e] = qp[e]
    BY <2>1, SendTypes
  <2> QED BY <1>1, <2>2
<1>3. tags'[t].sent.id = s /\ \A u \in Tags \ {t} : tags'[u] = tags[u]
  <2>1. /\ tags' = [tags EXCEPT ![t] = [sent |-> Entry(s, Sends[s].size),
                                        expe |-> tags[t].expe, recv |-> tags[t].recv,
                                        pending |-> tags[t].pending]]
    BY SimSendEffect
  <2>2. tags'[t].sent = Entry(s, Sends[s].size) /\ \A u \in Tags \ {t} : tags'[u] = tags[u]
    BY <1>1, <2>1, SendTypes
  <2> QED BY <2>2, EntryParts
<1>4. flows'[f].toSent = flows[f].toSent + 1 /\ \A g \in FlowIds \ {f} : flows'[g] = flows[g]
  <2> DEFINE fl == [toSent |-> flows[f].toSent + 1, toNotify |-> flows[f].toNotify + 1,
                    sent |-> flows[f].sent, received |-> flows[f].received]
  <2>1. flows' = [flows EXCEPT ![f] = fl]
    BY SimSendEffect
  <2>2. fl.toSent = flows[f].toSent + 1
    OBVIOUS
  <2> HIDE DEF fl
  <2> QED BY <1>1, <2>1, <2>2, SendTypes
<1>5. \A e \in Messages : e < s /\ Sends[e].flow = f =>
        called.sent[e] > 0 /\ (~Overlap => qp[e].state = "finished")
  <2>1. \A e \in Messages : e < s => e \in 1 .. s - 1
    BY SendsAssumption DEF Messages
  <2> QED BY <2>1 DEF SimSend, MaySend
<1> HIDE DEF f, t
<1>6. NotStarted'
  BY <1>1, <1>2 DEF SendInv, NotStarted
<1>7. SentEntries'
  <2> SUFFICES ASSUME NEW u \in Tags, tags'[u].sent.id # None
               PROVE  LET e == tags'[u].sent.id
                      IN  Sends[e].tag = u /\ called'.sent[e] = 0 /\ qp'[e].state # "none"
    BY DEF SentEntries
  <2>1. CASE u = t
    BY <1>1, <1>2, <1>3, <2>1 DEF t
  <2>2. CASE u # t
    <3> DEFINE e == tags[u].sent.id
    <3>1. tags'[u].sent.id = e /\ e \in Messages /\ e # None
      BY <1>3, <2>2, SendTypes
    <3>2. Sends[e].tag = u /\ called.sent[e] = 0 /\ qp[e].state # "none"
      BY <3>1 DEF SendInv, SentEntries
    <3> QED BY <1>1, <1>2, <3>1, <3>2
  <2> QED BY <2>1, <2>2
<1>8. PendingEntries'
  <2> SUFFICES ASSUME NEW e \in Messages, Pending(e)' PROVE tags'[Sends[e].tag].sent.id = e
    BY DEF PendingEntries
  <2>1. CASE e = s
    BY <1>3, <2>1 DEF t
  <2>2. CASE e # s
    <3>1. Pending(e) /\ Sends[e].tag \in Tags /\ e # None
      BY <1>2, <2>2, SendTypes DEF Pending
    <3>2. tags[Sends[e].tag].sent.id = e
      BY <3>1 DEF SendInv, PendingEntries
    <3> QED BY <1>1, <1>3, <3>1, <3>2
  <2> QED BY <2>1, <2>2
<1>9. InOrder'
  <2> SUFFICES ASSUME NEW x \in Messages, qp'[x].state # "none",
                      NEW e \in Messages, e < x, Sends[e].flow = Sends[x].flow
               PROVE  called'.sent[e] > 0 /\ (~Overlap => qp'[e].state = "finished")
    BY DEF InOrder
  <2>1. CASE x = s
    <3>1. e # s
      BY <2>1, SendTypes
    <3> QED BY <1>1, <1>2, <1>5, <2>1, <3>1 DEF f
  <2>2. CASE x # s
    <3>1. called.sent[e] > 0 /\ (~Overlap => qp[e].state = "finished")
      BY <1>2, <2>2 DEF SendInv, InOrder
    <3>2. e # s
      BY <1>1, <3>1
    <3> QED BY <1>1, <1>2, <3>1, <3>2
  <2> QED BY <2>1, <2>2
<1>10. flows[f].toSent = 0
  <2> SUFFICES ASSUME flows[f].toSent = 1 PROVE FALSE
    BY <1>1 DEF SendInv, ToSent
  <2>1. PICK e \in Messages : Sends[e].flow = f /\ Pending(e)
    BY <1>1 DEF SendInv, ToSent
  <2>2. e # s /\ e \in Nat /\ s \in Nat
    BY <1>1, <2>1, SendTypes DEF Pending
  <2>3. CASE e < s
    <3>1. called.sent[e] > 0 /\ called.sent[e] \in Nat
      BY <1>5, <2>1, <2>3, SendTypes
    <3>2. called.sent[e] <= 1 /\ (called.sent[e] = 1 => qp[e].calls > 0)
      BY DEF SendInv, Reported
    <3>3. called.sent[e] = 1
      BY <3>1, <3>2
    <3> QED BY <2>1, <3>2, <3>3 DEF Pending
  <2>4. CASE s < e
    <3>1. called.sent[s] > 0
      BY <2>1, <2>4 DEF SendInv, InOrder, Pending, f
    <3> QED BY <1>1, <3>1
  <2> QED BY <2>2, <2>3, <2>4
<1>11. ToSent'
  <2> SUFFICES ASSUME NEW g \in FlowIds
               PROVE  /\ flows'[g].toSent \in {0, 1}
                      /\ flows'[g].toSent = 1
                           <=> \E e \in Messages : Sends[e].flow = g /\ Pending(e)'
    BY DEF ToSent
  <2>1. CASE g = f
    <3>1. flows'[g].toSent = 1
      BY <1>4, <1>10, <2>1
    <3>2. Sends[s].flow = g /\ Pending(s)'
      BY <1>2, <2>1 DEF Pending, f
    <3> QED BY <3>1, <3>2
  <2>2. CASE g # f
    <3>1. \A e \in Messages : Sends[e].flow = g => (Pending(e)' <=> Pending(e))
      BY <1>2, <2>2 DEF Pending, f
    <3> QED BY <1>4, <2>2, <3>1 DEF SendInv, ToSent
  <2> QED BY <2>1, <2>2
<1>12. Reported'
  BY <1>1, <1>2 DEF SendInv, Reported
<1> QED BY <1>6, <1>7, <1>8, <1>9, <1>11, <1>12 DEF SendInv

\* A send-complete callback keeps the sender's invariant: the first one of a
\* message takes its own handler out, a later one finds none to run.
LEMMA SendFinishKeeps ==
  ASSUME OwnCallbacks, TypeOK, SendInv, NEW s \in Messages, SendFinish(s)
  PROVE  SendInv'
<1> DEFINE f == Sends[s].flow
           t == Sends[s].tag
           en == tags[t].sent.id
<1>1. /\ f \in FlowIds /\ t \in Tags /\ qp[s].state = "live" /\ qp[s].calls < TailCalls
      /\ qp[s].calls \in Nat /\ s # None
  BY SendFinishEffect, SendTypes
<1>2. /\ qp'[s].state = "live" /\ qp'[s].calls = qp[s].calls + 1
      /\ \A e \in Messages \ {s} : qp'[e] = qp[e]
  <2>1. qp' = [qp EXCEPT ![s] = [state |-> "live", calls |-> qp[s].calls + 1]]
    BY SendFinishEffect
  <2>2. /\ qp'[s] = [state |-> "live", calls |-> qp[s].calls + 1]
        /\ \A e \in Messages \ {s} : qp'[e] = qp[e]
    BY <2>1, SendTypes
  <2> QED BY <2>2
<1>3. /\ flows'[f].toSent = IF flows[f].toSent = 0 THEN 0 ELSE flows[f].toSent - 1
      /\ \A g \in FlowIds \ {f} : flows'[g] = flows[g]
  <2>1. flows' = [flows EXCEPT ![f] = SentFlow(flows[f], Sends[s].size)]
    BY SendFinishEffect
  <2>2. flows'[f] = SentFlow(flows[f], Sends[s].size)
        /\ \A g \in FlowIds \ {f} : flows'[g] = flows[g]
    BY <1>1, <2>1, SendTypes
  <2>3. flows[f] \in FlowTables /\ Sends[s].size \in Nat
    BY <1>1, SendTypes, ListTypes
  <2>4. SentFlow(flows[f], Sends[s].size).toSent
          = IF flows[f].toSent = 0 THEN 0 ELSE flows[f].toSent - 1
    <3> HIDE DEF f
    <3> QED BY <2>3, FlowEffect
  <2> QED BY <2>2, <2>4
<1>4. \/ UNCHANGED <<tags, called>>
      \/ /\ flows[f].toSent = 1 /\ en # None /\ tags'[t].sent.id = None
         /\ \A u \in Tags \ {t} : tags'[u] = tags[u]
         /\ called'.sent = [called.sent EXCEPT ![en] = @ + 1]
  <2> DEFINE k == [sent |-> Entry(None, 0), expe |-> tags[t].expe, recv |-> tags[t].recv,
                   pending |-> tags[t].pending]
  <2>1. \/ UNCHANGED <<tags, called>>
        \/ /\ flows[f].toSent = 1 /\ en # None /\ tags' = [tags EXCEPT ![t] = k]
           /\ called'.sent = [called.sent EXCEPT ![en] = @ + 1]
    BY SendFinishEffect
  <2>2. k.sent.id = None
    BY EntryParts
  <2> HIDE DEF k, f, en
  <2> QED BY <1>1, <2>1, <2>2, SendTypes
<1> HIDE DEF f, t
<1>5. CASE qp[s].calls > 0
  <2>1. ~Overlap
    BY <1>1, <1>5 DEF OwnCallbacks
  <2>2. flows[f].toSent = 0
    <3> SUFFICES ASSUME flows[f].toSent = 1 PROVE FALSE
      BY <1>1 DEF SendInv, ToSent
    <3>1. PICK e \in Messages : Sends[e].flow = f /\ Pending(e)
      BY <1>1 DEF SendInv, ToSent
    <3>2. e = s
      BY <1>1, <2>1, <3>1, OneLive DEF SendInv, Pending, f
    <3> QED BY <1>5, <3>1, <3>2 DEF Pending
  <2>3. UNCHANGED <<tags, called>> /\ flows'[f].toSent = 0
    BY <1>3, <1>4, <2>2
  <2>4. \A g \in FlowIds : flows'[g].toSent = flows[g].toSent
    BY <1>3, <2>2, <2>3
  <2>5. \A e \in Messages : /\ qp'[e].state = qp[e].state
                            /\ qp'[e].calls = 0 <=> qp[e].calls = 0
                            /\ qp[e].calls > 0 => qp'[e].calls > 0
    BY <1>1, <1>2, <1>5
  <2>6. \A e \in Messages : Pending(e)' <=> Pending(e)
    BY <2>5 DEF Pending
  <2> QED BY <2>3, <2>4, <2>5, <2>6, SendKept
<1>6. CASE qp[s].calls = 0
  <2>1. Pending(s) /\ qp'[s].calls = 1 /\ ~Pending(s)'
    BY <1>1, <1>2, <1>6 DEF Pending
  <2>2. en = s /\ called.sent[s] = 0
    <3>1. en = s
      BY <2>1 DEF SendInv, PendingEntries, t
    <3> HIDE DEF en
    <3> QED BY <1>1, <3>1 DEF SendInv, SentEntries, en
  <2>3. flows[f].toSent = 1 /\ flows'[f].toSent = 0
    <3>1. flows[f].toSent = 1
      BY <1>1, <2>1 DEF SendInv, ToSent, f
    <3> QED BY <1>3, <3>1
  <2>4. \/ /\ called'.sent = called.sent /\ \A u \in Tags : tags'[u] = tags[u]
        \/ /\ tags'[t].sent.id = None /\ \A u \in Tags \ {t} : tags'[u] = tags[u]
           /\ called'.sent[s] = 1 /\ \A e \in Messages \ {s} : called'.sent[e] = called.sent[e]
    <3> HIDE DEF en
    <3> QED BY <1>4, <2>2, SendTypes
  <2> HIDE DEF en
  <2>5. \A e \in Messages : /\ qp'[e].state = qp[e].state
                            /\ e # s => qp'[e] = qp[e] /\ (Pending(e)' <=> Pending(e))
                            /\ called'.sent[e] \in Nat /\ called.sent[e] <= called'.sent[e]
                            /\ e # s => called'.sent[e] = called.sent[e]
    <3>1. \A e \in Messages : called'.sent[e] = called.sent[e] \/ (e = s /\ called'.sent[e] = 1)
      BY <2>4
    <3>2. \A e \in Messages : called'.sent[e] \in Nat /\ called.sent[e] <= called'.sent[e]
      BY <2>2, <3>1, SendTypes
    <3> QED BY <1>1, <1>2, <3>1, <3>2 DEF Pending
  <2>6. NotStarted'
    BY <1>1, <2>5 DEF SendInv, NotStarted
  <2>7. SentEntries'
    <3> SUFFICES ASSUME NEW u \in Tags, tags'[u].sent.id # None
                 PROVE  LET e == tags'[u].sent.id
                        IN  Sends[e].tag = u /\ called'.sent[e] = 0 /\ qp'[e].state # "none"
      BY DEF SentEntries
    <3> DEFINE e == tags[u].sent.id
    <3>1. tags'[u] = tags[u]
      BY <2>4
    <3>2. /\ e \in Messages /\ e # None
          /\ Sends[e].tag = u /\ called.sent[e] = 0 /\ qp[e].state # "none"
      BY <3>1, SendTypes DEF SendInv, SentEntries
    <3>3. called'.sent[e] = 0
      <4>1. CASE u = t
        BY <2>4, <3>1, <3>2, <4>1
      <4>2. CASE u # t
        BY <2>5, <3>2, <4>2 DEF t
      <4> QED BY <4>1, <4>2
    <3> QED BY <2>5, <3>1, <3>2, <3>3
  <2>8. PendingEntries'
    <3> SUFFICES ASSUME NEW e \in Messages, Pending(e)' PROVE tags'[Sends[e].tag].sent.id = e
      BY DEF PendingEntries
    <3>1. e # s /\ Pending(e) /\ Sends[e].tag \in Tags
      BY <2>1, <2>5, SendTypes
    <3>2. tags[Sends[e].tag].sent.id = e
      BY <3>1 DEF SendInv, PendingEntries
    <3>3. Sends[e].tag # t
      BY <2>2, <3>1, <3>2 DEF en
    <3> QED BY <2>4, <3>1, <3>2, <3>3
  <2>9. InOrder'
    <3> SUFFICES ASSUME NEW x \in Messages, qp'[x].state # "none",
                        NEW e \in Messages, e < x, Sends[e].flow = Sends[x].flow
                 PROVE  called'.sent[e] > 0 /\ (~Overlap => qp'[e].state = "finished")
      BY DEF InOrder
    <3>1. called.sent[e] > 0 /\ (~Overlap => qp[e].state = "finished")
      BY <2>5 DEF SendInv, InOrder
    <3>2. called.sent[e] \in Nat
      BY SendTypes
    <3> QED BY <2>5, <3>1, <3>2
  <2>10. ToSent'
    <3> SUFFICES ASSUME NEW g \in FlowIds
                 PROVE  /\ flows'[g].toSent \in {0, 1}
                        /\ flows'[g].toSent = 1
                             <=> \E e \in Messages : Sends[e].flow = g /\ Pending(e)'
      BY DEF ToSent
    <3>1. CASE g = f
      <4>1. \A e \in Messages : Sends[e].flow = f => ~Pending(e)'
        <5> SUFFICES ASSUME NEW e \in Messages, Sends[e].flow = f, Pending(e)' PROVE FALSE
          OBVIOUS
        <5>1. e # s /\ Pending(e)
          BY <2>1, <2>5
        <5>2. e = s
          BY <2>1, <5>1, OneLive DEF SendInv, Pending, f
        <5> QED BY <5>1, <5>2
      <4> QED BY <2>3, <3>1, <4>1
    <3>2. CASE g # f
      <4>1. \A e \in Messages : Sends[e].flow = g => (Pending(e)' <=> Pending(e))
        BY <2>5, <3>2 DEF f
      <4> QED BY <1>3, <3>2, <4>1 DEF SendInv, ToSent
    <3> QED BY <3>1, <3>2
  <2>11. Reported'
    <3> SUFFICES ASSUME NEW e \in Messages
                 PROVE  called'.sent[e] <= 1 /\ (called'.sent[e] = 1 => qp'[e].calls > 0)
      BY DEF Reported
    <3>1. CASE e = s
      BY <2>1, <2>2, <2>4, <3>1
    <3>2. CASE e # s
      BY <2>5, <3>2 DEF SendInv, Reported
    <3> QED BY <3>1, <3>2
  <2> QED BY <2>6, <2>7, <2>8, <2>9, <2>10, <2>11 DEF SendInv
<1> QED BY <1>1, <1>5, <1>6

\* Every step keeps the sender's invariant.
LEMMA NextSend ==
  ASSUME OwnCallbacks
  PROVE  TypeInv /\ SendInv /\ [Next]_vars => SendInv'
<1> SUFFICES ASSUME TypeInv, SendInv, [Next]_vars PROVE SendInv'
  OBVIOUS
<1>1. TypeOK
  BY DEF TypeInv
<1>2. CASE UNCHANGED vars
  BY <1>1, <1>2, SendKept DEF vars, Pending
<1>3. ASSUME NEW s \in Messages, QpFinish(s) PROVE SendInv'
  <2> DEFINE f == Sends[s].flow
             t == Sends[s].tag
             size == flows[f].received + Sends[s].size
             k == tags[t]
             res == Notify(k, f, size)
  <2>1. /\ f \in FlowIds /\ t \in Tags /\ size \in Nat \ {0}
        /\ qp[s].state = "live" /\ qp[s].calls > 0
        /\ qp' = [qp EXCEPT ![s] = [state |-> "finished", calls |-> qp[s].calls]]
        /\ flows' = [flows EXCEPT ![f] = ReceivedFlow(flows[f], Sends[s].size)]
        /\ called'.sent = called.sent
        /\ UNCHANGED tags \/ tags' = [tags EXCEPT ![t] = res.tables]
    BY <1>1, <1>3, QpFinishEffect
  <2>2. res.tables.sent = k.sent
    <3>1. k \in TagTables /\ Tidy(k)
      BY <2>1, SendTypes, TidyTags DEF TypeInv
    <3> HIDE DEF k, f, size
    <3> QED BY <2>1, <3>1, NotifyEffect
  <2> HIDE DEF res
  <2>3. \A u \in Tags : tags'[u].sent = tags[u].sent
    BY <1>1, <2>1, <2>2, SendTypes
  <2>4. \A g \in FlowIds : flows'[g].toSent = flows[g].toSent
    <3>1. ReceivedFlow(flows[f], Sends[s].size).toSent = flows[f].toSent
      <4>1. flows[f] \in FlowTables /\ Sends[s].size \in Nat
        BY <1>1, <2>1, SendTypes, ListTypes
      <4> HIDE DEF f
      <4> QED BY <4>1, FlowEffect
    <3> QED BY <1>1, <2>1, <3>1, SendTypes
  <2>5. \A e \in Messages : /\ qp'[e].calls = qp[e].calls
                            /\ qp'[e].state = IF e = s THEN "finished" ELSE qp[e].state
    <3>1. /\ qp'[s] = [state |-> "finished", calls |-> qp[s].calls]
          /\ \A e \in Messages \ {s} : qp'[e] = qp[e]
      BY <1>1, <2>1, SendTypes
    <3> QED BY <3>1
  <2>6. \A e \in Messages : Pending(e)' <=> Pending(e)
    BY <2>1, <2>5 DEF Pending
  <2> QED BY SMTT(40), <1>1, <2>1, <2>3, <2>4, <2>5, <2>6, SendKept
<1>4. ASSUME NEW r \in Receives, SimRecv(r) PROVE SendInv'
  <2> DEFINE t == Recvs[r].tag
             k == tags[t]
             n == Recvs[r].size
             res == Register(k, r, n)
  <2>1. /\ t \in Tags /\ tags' = [tags EXCEPT ![t] = res.tables]
        /\ called'.sent = called.sent /\ UNCHANGED <<qp, flows>>
    BY <1>1, <1>4, SimRecvEffect
  <2>2. res.tables.sent = k.sent
    <3>1. k \in TagTables /\ Tidy(k) /\ n \in Nat \ {0}
      BY <1>1, <2>1, SendTypes, TidyTags, ListTypes DEF TypeInv
    <3> HIDE DEF k, n
    <3> QED BY <3>1, RegisterEffect
  <2> HIDE DEF res
  <2>3. \A u \in Tags : tags'[u].sent = tags[u].sent
    BY <1>1, <2>1, <2>2, SendTypes
  <2> QED BY <1>1, <2>1, <2>3, SendKept DEF Pending
<1> QED
  BY <1>1, <1>2, <1>3, <1>4, SimSendKeeps, SendFinishKeeps DEF Next, Messages, Receives

\* The sender starts with nothing sent and nothing registered.
LEMMA InitSend == Init => SendInv
<1> SUFFICES ASSUME Init PROVE SendInv
  OBVIOUS
<1>1. /\ \A s \in Messages : qp[s].state = "none" /\ qp[s].calls = 0 /\ called.sent[s] = 0
      /\ \A f \in FlowIds : flows[f].toSent = 0
  BY DEF Init, Messages
<1>2. \A t \in Tags : tags[t].sent.id = None
  BY EntryParts DEF Init
<1> QED
  BY <1>1, <1>2
  DEF SendInv, NotStarted, SentEntries, PendingEntries, InOrder, ToSent, Reported, Pending

\* Where a queue pair's callback runs once or a flow does not overlap itself,
\* every handler runs at most once, and a send handler not before its own queue
\* pair reported: whatever tags are shared and however late receives are posted.
THEOREM HandlersOnceCorrect ==
  ASSUME OwnCallbacks
  PROVE  Spec => []HandlersOnce
<1>1. Spec => []TypeInv
  BY InvariantCorrect
<1>2. TypeInv /\ SendInv /\ [Next]_vars => SendInv'
  BY NextSend
<1>3. Spec => []SendInv
  BY <1>1, <1>2, InitSend, PTL DEF Spec
<1>4. SendInv /\ RecvOnce => HandlersOnce
  BY DEF SendInv, Reported, RecvOnce, HandlersOnce, Messages, Receives
<1> QED BY <1>3, <1>4, RecvOnceCorrect, PTL

-------------------------------------------------------------------------------
\* Bytes.

\* One more message or receive adds its bytes.
LEMMA SizeAdd ==
  ASSUME NEW list, \A i \in DOMAIN list : list[i].size \in Nat,
         NEW S \in SUBSET DOMAIN list, IsFiniteSet(S), NEW x \in DOMAIN list, x \notin S
  PROVE  /\ SizeOf(list, S) \in Nat
         /\ SizeOf(list, S \cup {x}) = SizeOf(list, S) + list[x].size
<1> DEFINE f == [i \in DOMAIN list |-> list[i].size]
<1>1. \A i \in S \cup {x} : f[i] \in Nat /\ f[i] \in Int
  OBVIOUS
<1>2. IsFiniteSet(S \cup {x}) /\ x \in S \cup {x} /\ (S \cup {x}) \ {x} = S
  BY FS_AddElement
<1>3. f[x] = list[x].size
  OBVIOUS
<1>4. SizeOf(list, S) = SumFunctionOnSet(f, S)
      /\ SizeOf(list, S \cup {x}) = SumFunctionOnSet(f, S \cup {x})
  BY DEF SizeOf
<1> HIDE DEF f
<1>5. SumFunctionOnSet(f, S) \in Nat
  BY <1>1, SumNat
<1>6. SumFunctionOnSet(f, S \cup {x}) = f[x] + SumFunctionOnSet(f, S)
  <2> DEFINE T == S \cup {x}
  <2>1. IsFiniteSet(T) /\ x \in T /\ T \ {x} = S /\ \A i \in T : f[i] \in Int
    BY <1>1, <1>2
  <2> HIDE DEF T
  <2>2. SumFunctionOnSet(f, T) = f[x] + SumFunctionOnSet(f, T \ {x})
    BY <2>1, SumRemove
  <2> QED BY <2>1, <2>2 DEF T
<1>7. f[x] \in Nat
  BY <1>1
<1> QED BY <1>3, <1>4, <1>5, <1>6, <1>7

\* The messages of a tag that completed, and its receives whose handler ran.
Finished(t) == {s \in SendsOf(t) : qp[s].state = "finished"}
Served(t) == {r \in RecvsOf(t) : called.recv[r] # <<>>}

\* What has arrived and what was served are naturals, kept where no queue pair
\* completes and no receive's handler runs.
LEMMA BytesType ==
  \A t \in Tags : ArrivedOn(t) \in Nat /\ ServedOn(t) \in Nat
<1> SUFFICES ASSUME NEW t \in Tags PROVE ArrivedOn(t) \in Nat /\ ServedOn(t) \in Nat
  OBVIOUS
<1>1. Finished(t) \subseteq Messages /\ Served(t) \subseteq Receives
  BY DEF Finished, Served, SendsOf, RecvsOf, Messages, Receives
<1>2. IsFiniteSet(Finished(t)) /\ IsFiniteSet(Served(t))
  BY <1>1, ListTypes, FS_Subset
<1>3. ASSUME NEW list, NEW S \in SUBSET DOMAIN list, IsFiniteSet(S),
             \A i \in DOMAIN list : list[i].size \in Nat
      PROVE  SizeOf(list, S) \in Nat
  <2> DEFINE f == [i \in DOMAIN list |-> list[i].size]
  <2>1. \A i \in S : f[i] \in Nat
    BY <1>3
  <2> HIDE DEF f
  <2>2. SumFunctionOnSet(f, S) \in Nat
    BY <1>3, <2>1, SumNat
  <2> QED BY <2>2 DEF SizeOf, f
<1>4. /\ \A i \in DOMAIN Sends : Sends[i].size \in Nat
      /\ \A i \in DOMAIN Recvs : Recvs[i].size \in Nat
  BY ListTypes DEF Messages, Receives
<1>5. SizeOf(Sends, Finished(t)) \in Nat
  BY <1>1, <1>2, <1>3, <1>4 DEF Messages
<1>6. SizeOf(Recvs, Served(t)) \in Nat
  BY <1>1, <1>2, <1>3, <1>4 DEF Receives
<1> QED BY <1>5, <1>6 DEF ArrivedOn, ServedOn, Finished, Served

\* A queue pair that completes adds the bytes of its message to its tag.
LEMMA ArrivedAdds ==
  ASSUME NEW s \in Messages, qp[s].state # "finished", qp'[s].state = "finished",
         \A e \in Messages \ {s} : qp'[e].state = qp[e].state, NEW t \in Tags
  PROVE  ArrivedOn(t)' = ArrivedOn(t) + IF Sends[s].tag = t THEN Sends[s].size ELSE 0
<1>1. /\ Finished(t) \in SUBSET DOMAIN Sends /\ s \notin Finished(t) /\ s \in DOMAIN Sends
      /\ Finished(t)' = IF Sends[s].tag = t THEN Finished(t) \cup {s} ELSE Finished(t)
  BY DEF Finished, SendsOf, Messages
<1>2. IsFiniteSet(Finished(t)) /\ \A i \in DOMAIN Sends : Sends[i].size \in Nat
  BY <1>1, ListTypes, FS_Subset DEF Messages
<1>3. SizeOf(Sends, Finished(t) \cup {s}) = SizeOf(Sends, Finished(t)) + Sends[s].size
  BY <1>1, <1>2, SizeAdd
<1>4. ArrivedOn(t) = SizeOf(Sends, Finished(t)) /\ ArrivedOn(t)' = SizeOf(Sends, Finished(t)')
  BY DEF ArrivedOn, Finished
<1>5. ArrivedOn(t) \in Nat
  BY BytesType
<1> QED BY <1>1, <1>3, <1>4, <1>5

\* A handler that runs adds the bytes of its receive to what its tag served.
LEMMA ServedAdds ==
  ASSUME NEW r \in Receives, called.recv[r] = <<>>, called'.recv[r] # <<>>,
         \A e \in Receives \ {r} : called'.recv[e] = called.recv[e], NEW t \in Tags
  PROVE  ServedOn(t)' = ServedOn(t) + IF Recvs[r].tag = t THEN Recvs[r].size ELSE 0
<1>1. /\ Served(t) \in SUBSET DOMAIN Recvs /\ r \notin Served(t) /\ r \in DOMAIN Recvs
      /\ Served(t)' = IF Recvs[r].tag = t THEN Served(t) \cup {r} ELSE Served(t)
  BY DEF Served, RecvsOf, Receives
<1>2. IsFiniteSet(Served(t)) /\ \A i \in DOMAIN Recvs : Recvs[i].size \in Nat
  BY <1>1, ListTypes, FS_Subset DEF Receives
<1>3. SizeOf(Recvs, Served(t) \cup {r}) = SizeOf(Recvs, Served(t)) + Recvs[r].size
  BY <1>1, <1>2, SizeAdd
<1>4. ServedOn(t) = SizeOf(Recvs, Served(t)) /\ ServedOn(t)' = SizeOf(Recvs, Served(t)')
  BY DEF ServedOn, Served
<1>5. ServedOn(t) \in Nat
  BY BytesType
<1> QED BY <1>1, <1>3, <1>4, <1>5

\* Where no queue pair completes, and where no handler runs, the bytes stay.
LEMMA BytesKept ==
  ASSUME NEW t \in Tags
  PROVE  /\ (\A s \in Messages : qp'[s].state = "finished" <=> qp[s].state = "finished")
              => ArrivedOn(t)' = ArrivedOn(t)
         /\ called'.recv = called.recv => ServedOn(t)' = ServedOn(t)
<1>1. /\ ArrivedOn(t) = SizeOf(Sends, Finished(t)) /\ ArrivedOn(t)' = SizeOf(Sends, Finished(t)')
      /\ ServedOn(t) = SizeOf(Recvs, Served(t)) /\ ServedOn(t)' = SizeOf(Recvs, Served(t)')
  BY DEF ArrivedOn, ServedOn, Finished, Served
<1>2. (\A s \in Messages : qp'[s].state = "finished" <=> qp[s].state = "finished")
        => Finished(t)' = Finished(t)
  BY DEF Finished, SendsOf, Messages
<1>3. called'.recv = called.recv => Served(t)' = Served(t)
  BY DEF Served
<1> QED BY <1>1, <1>2, <1>3

\* waiting_to_notify_receiver counts the message of a flow that is live, and no
\* bytes of a flow are left between two of its messages.
ToNotify ==
  \A f \in FlowIds :
    /\ flows[f].toNotify \in {0, 1} /\ flows[f].received = 0
    /\ flows[f].toNotify = 1 <=> \E s \in Messages : Sends[s].flow = f /\ qp[s].state = "live"

\* Every step of a flow that does not overlap itself keeps ToNotify.
LEMMA NextToNotify ==
  ASSUME ~Overlap
  PROVE  TypeInv /\ SendInv /\ ToNotify /\ [Next]_vars => ToNotify'
<1> SUFFICES ASSUME TypeInv, SendInv, ToNotify, [Next]_vars PROVE ToNotify'
  OBVIOUS
<1>1. TypeOK
  BY DEF TypeInv
<1>2. ASSUME \A f \in FlowIds : flows'[f].toNotify = flows[f].toNotify
                                /\ flows'[f].received = flows[f].received,
             \A s \in Messages : qp'[s].state = "live" <=> qp[s].state = "live"
      PROVE  ToNotify'
  BY <1>2 DEF ToNotify
<1>3. CASE UNCHANGED vars
  BY <1>2, <1>3 DEF vars
<1>4. ASSUME NEW s \in Messages, SimSend(s) PROVE ToNotify'
  <2> DEFINE f == Sends[s].flow
             fl == [toSent |-> flows[f].toSent + 1, toNotify |-> flows[f].toNotify + 1,
                    sent |-> flows[f].sent, received |-> flows[f].received]
  <2>1. /\ f \in FlowIds /\ qp[s].state = "none" /\ called.sent[s] = 0
        /\ qp' = [qp EXCEPT ![s] = [state |-> "live", calls |-> qp[s].calls]]
        /\ flows' = [flows EXCEPT ![f] = fl]
    BY <1>1, <1>4, SimSendEffect DEF SendInv, NotStarted
  <2>2. fl.toNotify = flows[f].toNotify + 1 /\ fl.received = flows[f].received
    OBVIOUS
  <2> HIDE DEF fl
  <2>3. /\ flows'[f].toNotify = flows[f].toNotify + 1
        /\ flows'[f].received = flows[f].received
        /\ \A g \in FlowIds \ {f} : flows'[g] = flows[g]
    BY <1>1, <2>1, <2>2, SendTypes
  <2>4. /\ qp'[s] = [state |-> "live", calls |-> qp[s].calls]
        /\ \A e \in Messages \ {s} : qp'[e] = qp[e]
    BY <1>1, <2>1, SendTypes
  <2>5. ASSUME NEW e \in Messages, Sends[e].flow = f, qp[e].state = "live" PROVE FALSE
    <3>1. e # s /\ e \in Nat /\ s \in Nat
      BY <2>1, <2>5, ListTypes
    <3>2. CASE e < s
      <4>1. e \in 1 .. s - 1
        BY <3>2, SendsAssumption DEF Messages
      <4>2. qp[e].state = "finished"
        BY <1>4, <2>5, <4>1 DEF SimSend, MaySend
      <4> QED BY <2>5, <4>2
    <3>3. CASE s < e
      BY <2>1, <2>5, <3>3 DEF SendInv, InOrder
    <3> QED BY <3>1, <3>2, <3>3
  <2>6. flows'[f].toNotify = 1 /\ flows'[f].received = 0
    BY <2>1, <2>3, <2>5 DEF ToNotify
  <2>7. ASSUME NEW g \in FlowIds, g # f
        PROVE  \A e \in Messages : Sends[e].flow = g => qp'[e] = qp[e]
    BY <2>4, <2>7
  <2> HIDE DEF f
  <2>8. qp'[s].state = "live" /\ Sends[s].flow = f
    BY <2>4 DEF f
  <2> QED BY <2>3, <2>6, <2>7, <2>8 DEF ToNotify
<1>5. ASSUME NEW s \in Messages, SendFinish(s) PROVE ToNotify'
  <2> DEFINE f == Sends[s].flow
             n == Sends[s].size
  <2>1. /\ f \in FlowIds /\ qp[s].state = "live"
        /\ qp' = [qp EXCEPT ![s] = [state |-> "live", calls |-> qp[s].calls + 1]]
        /\ flows' = [flows EXCEPT ![f] = SentFlow(flows[f], n)]
    BY <1>1, <1>5, SendFinishEffect
  <2>2. /\ SentFlow(flows[f], n).toNotify = flows[f].toNotify
        /\ SentFlow(flows[f], n).received = flows[f].received
    <3>1. flows[f] \in FlowTables /\ n \in Nat
      BY <1>1, <2>1, SendTypes, ListTypes
    <3> HIDE DEF f, n
    <3> QED BY <3>1, FlowEffect
  <2> HIDE DEF f, n
  <2>3. \A g \in FlowIds : flows'[g].toNotify = flows[g].toNotify
                           /\ flows'[g].received = flows[g].received
    BY <1>1, <2>1, <2>2, SendTypes
  <2>4. \A e \in Messages : qp'[e].state = qp[e].state
    <3>1. /\ qp'[s] = [state |-> "live", calls |-> qp[s].calls + 1]
          /\ \A e \in Messages \ {s} : qp'[e] = qp[e]
      BY <1>1, <2>1, SendTypes
    <3> QED BY <2>1, <3>1
  <2> QED BY <1>2, <2>3, <2>4
<1>6. ASSUME NEW s \in Messages, QpFinish(s) PROVE ToNotify'
  <2> DEFINE f == Sends[s].flow
             n == Sends[s].size
  <2>1. /\ f \in FlowIds /\ qp[s].state = "live"
        /\ qp' = [qp EXCEPT ![s] = [state |-> "finished", calls |-> qp[s].calls]]
        /\ flows' = [flows EXCEPT ![f] = ReceivedFlow(flows[f], n)]
    BY <1>1, <1>6, QpFinishEffect
  <2>2. flows[f].toNotify = 1
    BY <2>1 DEF ToNotify
  <2>3. /\ ReceivedFlow(flows[f], n).toNotify = 0
        /\ ReceivedFlow(flows[f], n).received = 0
    <3> DEFINE fl == flows[f]
    <3>1. fl \in FlowTables /\ n \in Nat /\ fl.toNotify = 1
      BY <1>1, <2>1, <2>2, SendTypes, ListTypes
    <3> HIDE DEF fl, f, n
    <3>2. /\ ReceivedFlow(fl, n).toNotify = (IF fl.toNotify = 0 THEN 0 ELSE fl.toNotify - 1)
          /\ ReceivedFlow(fl, n).received = (IF fl.toNotify = 1 THEN 0 ELSE fl.received + n)
      BY <3>1, FlowEffect
    <3>3. ReceivedFlow(fl, n).toNotify = 0 /\ ReceivedFlow(fl, n).received = 0
      BY <3>1, <3>2
    <3> QED BY <3>3 DEF fl
  <2>4. \A e \in Messages : Sends[e].flow = f /\ qp[e].state = "live" => e = s
    BY <1>1, <2>1, OneLive DEF SendInv
  <2> HIDE DEF f, n
  <2>5. /\ flows'[f].toNotify = 0 /\ flows'[f].received = 0
        /\ \A g \in FlowIds \ {f} : flows'[g] = flows[g]
    BY <1>1, <2>1, <2>3, SendTypes
  <2>6. /\ qp'[s] = [state |-> "finished", calls |-> qp[s].calls]
        /\ \A e \in Messages \ {s} : qp'[e] = qp[e]
    BY <1>1, <2>1, SendTypes
  <2>7. \A e \in Messages : Sends[e].flow = f => qp'[e].state # "live"
    BY <2>4, <2>6
  <2>8. \A g \in FlowIds \ {f} : \A e \in Messages : Sends[e].flow = g => qp'[e] = qp[e]
    BY <2>6 DEF f
  <2> QED BY SMTT(40), <2>5, <2>7, <2>8 DEF ToNotify
<1>7. ASSUME NEW r \in Receives, SimRecv(r) PROVE ToNotify'
  <2>1. UNCHANGED <<qp, flows>>
    BY <1>1, <1>7, SimRecvEffect
  <2> QED BY <1>2, <2>1
<1> QED BY <1>3, <1>4, <1>5, <1>6, <1>7 DEF Next, Messages, Receives

\* What ServedByTheByte says of one tag.
Balanced(t) ==
  ArrivedOn(t) - ServedOn(t) =
    IF tags[t].expe.id = None THEN tags[t].recv
    ELSE Recvs[tags[t].expe.id].size - tags[t].expe.count

\* Where neither the bytes nor the tables of a tag change, it stays balanced.
LEMMA BalanceKept ==
  ASSUME NEW t \in Tags, Balanced(t), called'.recv = called.recv,
         tags'[t].expe = tags[t].expe, tags'[t].recv = tags[t].recv,
         \A s \in Messages : qp'[s].state = "finished" <=> qp[s].state = "finished"
  PROVE  Balanced(t)'
BY BytesKept DEF Balanced

\* A queue pair that completes brings its bytes to its tag: they go to the
\* receive that waits, and what it does not need to recvHash.
LEMMA QpFinishBalanced ==
  ASSUME ~Overlap, TypeInv, RecvOnce, ToNotify, ServedByTheByte,
         NEW s \in Messages, QpFinish(s), NEW u \in Tags
  PROVE  Balanced(u)'
<1> DEFINE f == Sends[s].flow
           t == Sends[s].tag
           n == Sends[s].size
           k == tags[t]
           res == Notify(k, f, n)
           e == k.expe.id
<1>1. TypeOK /\ Balanced(u)
  BY DEF TypeInv, ServedByTheByte, Balanced
<1>2. /\ f \in FlowIds /\ t \in Tags /\ n \in Nat \ {0} /\ qp[s].state = "live"
      /\ flows[f].toNotify = 1 /\ flows[f].received = 0
  BY ZenonT(60), <1>1, QpFinishEffect, ListTypes DEF ToNotify
<1>3. /\ qp' = [qp EXCEPT ![s] = [state |-> "finished", calls |-> qp[s].calls]]
      /\ tags' = [tags EXCEPT ![t] = res.tables]
      /\ called'.recv = IF res.call # None
                        THEN [called.recv EXCEPT ![res.call] = Append(@, f)]
                        ELSE called.recv
  <2>1. flows[f].received + n = n
    BY <1>2
  <2> DEFINE m == flows[f].received + n
             res2 == Notify(k, f, m)
  <2>2. /\ qp' = [qp EXCEPT ![s] = [state |-> "finished", calls |-> qp[s].calls]]
        /\ \/ flows[f].toNotify # 1 /\ UNCHANGED <<tags, called>>
           \/ /\ tags' = [tags EXCEPT ![t] = res2.tables]
              /\ called'.recv = IF res2.call # None
                                THEN [called.recv EXCEPT ![res2.call] = Append(@, f)]
                                ELSE called.recv
    BY Zenon, <1>1, QpFinishEffect
  <2>3. res2 = res
    BY <2>1
  <2> HIDE DEF res2
  <2> QED BY <1>2, <2>2, <2>3
<1>4. \/ /\ e # None /\ k.expe.count <= n /\ res.call = e
         /\ res.tables.expe.id = None /\ res.tables.recv = n - k.expe.count
      \/ /\ e # None /\ n < k.expe.count /\ res.call = None
         /\ res.tables.expe.id = e /\ res.tables.expe.count = k.expe.count - n
      \/ /\ e = None /\ res.call = None /\ res.tables.expe = k.expe
         /\ res.tables.recv = k.recv + n
  <2>1. k \in TagTables /\ Tidy(k)
    BY <1>1, <1>2, SendTypes, TidyTags DEF TypeInv
  <2> HIDE DEF k, f, n
  <2>2. \/ /\ e # None /\ k.expe.count <= n /\ res.call = e
           /\ res.tables.expe = Entry(None, 0) /\ res.tables.recv = n - k.expe.count
        \/ /\ e # None /\ n < k.expe.count /\ res.call = None
           /\ res.tables.expe = Entry(e, k.expe.count - n)
        \/ /\ e = None /\ res.call = None /\ res.tables.expe = k.expe
           /\ res.tables.recv = k.recv + n
    BY <1>2, <2>1, NotifyEffect
  <2> HIDE DEF res, e
  <2> QED BY <2>2, EntryParts
<1>5. /\ k.recv \in Nat /\ k.expe.count \in Nat /\ e \in Receives \cup {None}
      /\ e # None => Recvs[e].tag = t /\ called.recv[e] = <<>> /\ Recvs[e].size \in Nat
  <2>1. k \in TagTables
    BY <1>1, <1>2, SendTypes
  <2>2. k.recv \in Nat /\ k.expe.count \in Nat /\ e \in Receives \cup {None}
    <3> HIDE DEF k
    <3> QED BY <2>1 DEF TagTables, EntryOf
  <2>3. e # None => Recvs[e].tag = t /\ called.recv[e] = <<>>
    BY <1>2 DEF RecvOnce
  <2> QED BY <2>2, <2>3, ListTypes
<1> HIDE DEF res
<1>6. ArrivedOn(u)' = ArrivedOn(u) + IF t = u THEN n ELSE 0
  <2>1. /\ qp'[s] = [state |-> "finished", calls |-> qp[s].calls]
        /\ \A x \in Messages \ {s} : qp'[x] = qp[x]
    BY <1>1, <1>3, SendTypes
  <2> QED BY <1>2, <2>1, ArrivedAdds
<1>7. ServedOn(u)' = ServedOn(u) + IF t = u /\ res.call # None THEN Recvs[e].size ELSE 0
  <2>1. CASE res.call = None
    BY <1>3, <2>1, BytesKept, BytesType
  <2>2. CASE res.call # None
    <3>1. res.call = e /\ e \in Receives /\ Recvs[e].tag = t /\ called.recv[e] = <<>>
      BY <1>4, <1>5, <2>2
    <3>2. called'.recv = [called.recv EXCEPT ![e] = Append(called.recv[e], f)]
      BY <1>3, <2>2, <3>1
    <3>3. called.recv \in [Receives -> Seq(FlowIds \cup {None})]
      BY SMTT(40), <1>1 DEF TypeOK, Receives
    <3>4. /\ called'.recv[e] = Append(<<>>, f)
          /\ \A x \in Receives \ {e} : called'.recv[x] = called.recv[x]
      BY <3>1, <3>2, <3>3
    <3>5. Append(<<>>, f) # <<>>
      OBVIOUS
    <3> HIDE DEF e, f
    <3> QED BY <2>2, <3>1, <3>4, <3>5, ServedAdds
  <2> QED BY <2>1, <2>2
<1>8. ArrivedOn(u) \in Nat /\ ServedOn(u) \in Nat
  BY BytesType
<1>9. CASE u # t
  <2>1. tags'[u] = tags[u]
    BY <1>1, <1>2, <1>3, <1>9, SendTypes
  <2>2. ArrivedOn(u)' = ArrivedOn(u) /\ ServedOn(u)' = ServedOn(u)
    BY <1>6, <1>7, <1>8, <1>9
  <2> QED BY <1>1, <2>1, <2>2 DEF Balanced
<1>10. CASE u = t
  <2>1. tags'[u] = res.tables
    BY <1>1, <1>2, <1>3, <1>10, SendTypes
  <2>2. ArrivedOn(u) - ServedOn(u) = IF e = None THEN k.recv ELSE Recvs[e].size - k.expe.count
    BY <1>1, <1>10 DEF Balanced
  <2>3. ArrivedOn(u)' = ArrivedOn(u) + n
    BY <1>6, <1>10
  <2>4. ServedOn(u)' = ServedOn(u) + IF res.call # None THEN Recvs[e].size ELSE 0
    BY <1>7, <1>10
  <2> DEFINE a == ArrivedOn(u)
             b == ServedOn(u)
             c == k.expe.count
  <2>5. a \in Nat /\ b \in Nat /\ c \in Nat /\ n \in Nat /\ k.recv \in Nat
    BY <1>2, <1>5, <1>8
  <2>6. CASE e # None /\ c <= n /\ res.call = e /\ res.tables.expe.id = None
             /\ res.tables.recv = n - c
    <3>1. a - b = Recvs[e].size - c /\ Recvs[e].size \in Nat
      BY <1>5, <2>2, <2>6
    <3>2. ArrivedOn(u)' = a + n /\ ServedOn(u)' = b + Recvs[e].size
      BY <2>3, <2>4, <2>6
    <3> DEFINE z == Recvs[e].size
    <3>3. (a + n) - (b + z) = n - c
      <4>1. \A v, w, x, y, m \in Nat : v - w = x - y => (v + m) - (w + x) = m - y
        OBVIOUS
      <4>2. a - b = z - c /\ z \in Nat
        BY <3>1
      <4> HIDE DEF a, b, c, z, n
      <4> QED BY <2>5, <4>1, <4>2
    <3> QED BY <2>1, <2>6, <3>2, <3>3 DEF Balanced
  <2>7. CASE e # None /\ n < c /\ res.call = None /\ res.tables.expe.id = e
             /\ res.tables.expe.count = c - n
    <3>1. a - b = Recvs[e].size - c /\ Recvs[e].size \in Nat
      BY <1>5, <2>2, <2>7
    <3>2. ArrivedOn(u)' = a + n /\ ServedOn(u)' = b
      BY <1>8, <2>3, <2>4, <2>7
    <3> DEFINE z == Recvs[e].size
    <3>3. (a + n) - b = z - (c - n)
      <4> HIDE DEF a, b, c, z, n
      <4> QED BY <2>5, <3>1 DEF z
    <3> QED BY <2>1, <2>7, <3>2, <3>3 DEF Balanced
  <2>8. CASE e = None /\ res.call = None /\ res.tables.expe = k.expe
             /\ res.tables.recv = k.recv + n
    <3>1. a - b = k.recv
      BY <2>2, <2>8
    <3>2. ArrivedOn(u)' = a + n /\ ServedOn(u)' = b
      BY <1>8, <2>3, <2>4, <2>8
    <3>3. (a + n) - b = k.recv + n
      <4> HIDE DEF a, b, n, k
      <4> QED BY <2>5, <3>1
    <3> QED BY <2>1, <2>8, <3>2, <3>3 DEF Balanced
  <2> QED BY <1>4, <2>6, <2>7, <2>8
<1> QED BY <1>9, <1>10

\* sim_recv serves the receive from the bytes that are there, or makes it wait
\* for the rest of them.
LEMMA SimRecvBalanced ==
  ASSUME TypeInv, ServedByTheByte, NEW r \in Receives, SimRecv(r), NEW u \in Tags
  PROVE  Balanced(u)'
<1> DEFINE t == Recvs[r].tag
           n == Recvs[r].size
           k == tags[t]
           e == k.expe.id
           res == Register(k, r, n)
<1>1. TypeOK /\ Balanced(u)
  BY DEF TypeInv, ServedByTheByte, Balanced
<1>2. /\ t \in Tags /\ n \in Nat \ {0} /\ called.recv[r] = <<>> /\ r # None
      /\ tags' = [tags EXCEPT ![t] = res.tables] /\ qp' = qp
      /\ called'.recv = IF res.call THEN [called.recv EXCEPT ![r] = Append(<<>>, res.with)]
                        ELSE called.recv
  BY <1>1, SimRecvEffect, ListTypes
<1>3. k \in TagTables /\ Tidy(k) /\ k.recv \in Nat
  <2>1. k \in TagTables /\ Tidy(k)
    BY <1>1, <1>2, SendTypes, TidyTags DEF TypeInv
  <2> HIDE DEF k
  <2> QED BY <2>1 DEF TagTables
<1>4. \/ /\ res.call /\ e = None /\ n <= k.recv
         /\ res.tables.expe = k.expe /\ res.tables.recv = k.recv - n
      \/ /\ ~res.call /\ e = None /\ k.recv < n
         /\ res.tables.expe.id = r /\ res.tables.expe.count = n - k.recv
      \/ /\ ~res.call /\ e # None /\ res.tables = k
  <2> HIDE DEF k, n
  <2>1. \/ /\ res.call /\ e = None /\ n <= k.recv
           /\ res.tables.expe = k.expe /\ res.tables.recv = k.recv - n
        \/ /\ ~res.call /\ e = None /\ k.recv < n
           /\ res.tables.expe = Entry(r, n - k.recv)
        \/ /\ ~res.call /\ e # None /\ res.tables = k
    BY <1>2, <1>3, RegisterEffect
  <2> HIDE DEF res, e
  <2> QED BY <2>1, EntryParts
<1> HIDE DEF res
<1>5. ArrivedOn(u)' = ArrivedOn(u)
  BY <1>2, BytesKept
<1>6. ServedOn(u)' = ServedOn(u) + IF t = u /\ res.call THEN n ELSE 0
  <2>1. CASE ~res.call
    BY <1>2, <2>1, BytesKept, BytesType
  <2>2. CASE res.call
    <3>1. called.recv \in [Receives -> Seq(FlowIds \cup {None})]
      BY <1>1 DEF TypeOK, Receives
    <3>2. /\ called'.recv[r] = Append(<<>>, res.with)
          /\ \A x \in Receives \ {r} : called'.recv[x] = called.recv[x]
      BY <1>2, <2>2, <3>1
    <3>3. Append(<<>>, res.with) # <<>>
      OBVIOUS
    <3> QED BY <1>2, <2>2, <3>2, <3>3, ServedAdds
  <2> QED BY <2>1, <2>2
<1>7. ArrivedOn(u) \in Nat /\ ServedOn(u) \in Nat
  BY BytesType
<1>8. CASE u # t
  <2>1. tags'[u] = tags[u]
    BY <1>1, <1>2, <1>8, SendTypes
  <2>2. ServedOn(u)' = ServedOn(u)
    BY <1>6, <1>7, <1>8
  <2> QED BY <1>1, <1>5, <2>1, <2>2 DEF Balanced
<1>9. CASE u = t
  <2>1. tags'[u] = res.tables
    BY <1>1, <1>2, <1>9, SendTypes
  <2>2. ArrivedOn(u) - ServedOn(u) = IF e = None THEN k.recv ELSE Recvs[e].size - k.expe.count
    BY <1>1, <1>9 DEF Balanced
  <2> DEFINE a == ArrivedOn(u)
             b == ServedOn(u)
  <2>3. a \in Nat /\ b \in Nat /\ n \in Nat /\ k.recv \in Nat
    BY <1>2, <1>3, <1>7
  <2>4. CASE res.call /\ e = None /\ res.tables.expe = k.expe /\ res.tables.recv = k.recv - n
    <3>1. a - b = k.recv /\ ServedOn(u)' = b + n
      BY <1>6, <1>9, <2>2, <2>4
    <3>2. \A v, w, x, m \in Nat : v - w = x => v - (w + m) = x - m
      OBVIOUS
    <3>3. a - (b + n) = k.recv - n
      <4> HIDE DEF a, b, n, k
      <4> QED BY <2>3, <3>1, <3>2
    <3> QED BY <1>5, <2>1, <2>4, <3>1, <3>3 DEF Balanced
  <2>5. CASE ~res.call /\ e = None /\ res.tables.expe.id = r
             /\ res.tables.expe.count = n - k.recv
    <3>1. a - b = k.recv /\ ServedOn(u)' = b
      BY <1>6, <1>7, <2>2, <2>5
    <3>2. \A v, w, x, m \in Nat : v - w = x => v - w = m - (m - x)
      OBVIOUS
    <3>3. a - b = n - (n - k.recv)
      <4> HIDE DEF a, b, n, k
      <4> QED BY <2>3, <3>1, <3>2
    <3> QED BY <1>2, <1>5, <2>1, <2>5, <3>1, <3>3 DEF Balanced
  <2>6. CASE ~res.call /\ e # None /\ res.tables = k
    <3>1. tags'[u] = tags[u] /\ ServedOn(u)' = ServedOn(u)
      BY <1>6, <1>7, <1>9, <2>1, <2>6
    <3> QED BY <1>1, <1>5, <3>1 DEF Balanced
  <2> QED BY <1>4, <2>4, <2>5, <2>6
<1> QED BY <1>8, <1>9

\* Every step keeps every tag balanced.
LEMMA NextBalanced ==
  ASSUME ~Overlap
  PROVE  TypeInv /\ RecvOnce /\ ToNotify /\ ServedByTheByte /\ [Next]_vars => ServedByTheByte'
<1> SUFFICES ASSUME TypeInv, RecvOnce, ToNotify, ServedByTheByte, [Next]_vars,
                    NEW t \in Tags
             PROVE  Balanced(t)'
  BY DEF ServedByTheByte, Balanced
<1>1. TypeOK /\ Balanced(t)
  BY DEF TypeInv, ServedByTheByte, Balanced
<1>2. CASE UNCHANGED vars
  BY <1>1, <1>2, BalanceKept DEF vars
<1>3. ASSUME NEW s \in Messages, SimSend(s) \/ SendFinish(s) PROVE Balanced(t)'
  <2>1. /\ called'.recv = called.recv
        /\ tags'[t].expe = tags[t].expe /\ tags'[t].recv = tags[t].recv
    BY <1>1, <1>3, SenderTables
  <2>2. \A e \in Messages : qp'[e].state = "finished" <=> qp[e].state = "finished"
    <3>1. \E n : qp' = [qp EXCEPT ![s] = [state |-> "live", calls |-> n]]
      <4>1. CASE SimSend(s)
        <5>1. qp' = [qp EXCEPT ![s] = [state |-> "live", calls |-> qp[s].calls]]
          BY <1>1, <4>1, SimSendEffect
        <5> QED BY <5>1
      <4>2. CASE SendFinish(s)
        <5>1. qp' = [qp EXCEPT ![s] = [state |-> "live", calls |-> qp[s].calls + 1]]
          BY <1>1, <4>2, SendFinishEffect
        <5> QED BY <5>1
      <4> QED BY <1>3, <4>1, <4>2
    <3>2. qp[s].state # "finished"
      BY <1>1, <1>3, SimSendEffect, SendFinishEffect
    <3>3. /\ qp'[s].state = "live"
          /\ \A e \in Messages \ {s} : qp'[e] = qp[e]
      BY <1>1, <3>1, SendTypes
    <3> QED BY <3>2, <3>3
  <2> QED BY <1>1, <2>1, <2>2, BalanceKept
<1> QED
  BY <1>2, <1>3, QpFinishBalanced, SimRecvBalanced DEF Next, Messages, Receives

\* Where a flow does not overlap itself, receives are served by the byte: what
\* arrived on a tag and was not used is what recvHash says, what the waiting
\* receive lacks is what expeRecvHash says, in whatever pieces the bytes come.
THEOREM ServedByTheByteCorrect ==
  ASSUME ~Overlap
  PROVE  Spec => []ServedByTheByte
<1>1. Spec => []TypeInv
  BY InvariantCorrect
<1>2. TypeInv /\ SendInv /\ [Next]_vars => SendInv'
  BY NextSend DEF OwnCallbacks
<1>3. Spec => []SendInv
  BY <1>1, <1>2, InitSend, PTL DEF Spec
<1>4. Init => ToNotify
  BY DEF Init, ToNotify, Messages
<1>5. TypeInv /\ SendInv /\ ToNotify /\ [Next]_vars => ToNotify'
  BY NextToNotify
<1>6. Spec => []ToNotify
  BY <1>1, <1>3, <1>4, <1>5, PTL DEF Spec
<1>7. Init => ServedByTheByte
  <2> SUFFICES ASSUME Init, NEW t \in Tags PROVE Balanced(t)
    BY DEF ServedByTheByte, Balanced
  <2>1. Finished(t) = {} /\ Served(t) = {}
    BY DEF Init, Finished, Served, SendsOf, RecvsOf
  <2>2. ArrivedOn(t) = 0 /\ ServedOn(t) = 0
    BY <2>1, SumEmpty DEF ArrivedOn, ServedOn, SizeOf, Finished, Served
  <2>3. tags[t].expe.id = None /\ tags[t].recv = 0
    BY EntryParts DEF Init
  <2> QED BY <2>2, <2>3 DEF Balanced
<1>8. TypeInv /\ RecvOnce /\ ToNotify /\ ServedByTheByte /\ [Next]_vars => ServedByTheByte'
  BY NextBalanced
<1> QED BY <1>1, <1>6, <1>7, <1>8, RecvOnceCorrect, PTL DEF Spec
-------------------------------------------------------------------------------
\* Flow tags.

Sizes(t) == {Sends[s].size : s \in SendsOf(t)} \cup {Recvs[r].size : r \in RecvsOf(t)}
FlowsOf(t) == {Sends[s].flow : s \in SendsOf(t)}

\* Where messages and receives of a tag agree in size, one flow has the tag: a tag
\* is made of a layer, a channel and a chunk (flowTag.tag_id in NcclFlowModel.cc),
\* and between two ranks a ring or an all-to-all has one flow of these.
OneFlow ==
  \A t \in Tags : \A n \in Nat \ {0} : Sizes(t) = {n} =>
    \A s, e \in SendsOf(t) : Sends[s].flow = Sends[e].flow

\* A receive is posted when the handlers of those before it on its tag ran.
RecvOrder ==
  \A r \in Receives : Posted(r) =>
    \A e \in Receives : e < r /\ Recvs[e].tag = Recvs[r].tag => called.recv[e] # <<>>

\* A message is sent when the receive was posted that takes the message of its
\* flow before it.
PostedBefore ==
  \A s \in Messages : qp[s].state # "none" =>
    \A e \in Messages : e < s /\ Sends[e].flow = Sends[s].flow =>
      \E r \in Receives : /\ Recvs[r].tag = Sends[e].tag /\ Posted(r)
                          /\ PassOf(Recvs, r) = PassOf(Sends, e)

\* A tag keeps one message at most, with its flow; handlers were given a flow.
Tagged(t, n) ==
  /\ tags[t].recv > 0 => tags[t].recv = n /\ tags[t].pending \in FlowsOf(t)
  /\ \A r \in RecvsOf(t) : called.recv[r] # <<>> => called.recv[r][1] \in FlowsOf(t)

AllTagged == \A t \in Tags : \A n \in Nat \ {0} : Sizes(t) = {n} => Tagged(t, n)

\* Elements of one size add up to their number times it.
LEMMA SizeConstant ==
  ASSUME NEW list, \A i \in DOMAIN list : list[i].size \in Nat,
         NEW S \in SUBSET DOMAIN list, IsFiniteSet(S), NEW n \in Nat,
         \A i \in S : list[i].size = n
  PROVE  SizeOf(list, S) = n * Cardinality(S) /\ Cardinality(S) \in Nat
<1> DEFINE Bad == {U \in SUBSET S : SizeOf(list, U) # n * Cardinality(U)}
<1>1. SUFFICES ASSUME Bad # {} PROVE FALSE
  BY FS_CardinalityType
<1>2. PICK T \in Bad : \A U \in Bad : U \subseteq T => U = T
  <2>1. Bad \in SUBSET SUBSET S
    OBVIOUS
  <2> HIDE DEF Bad
  <2> QED BY <1>1, <2>1, LeastException
<1>3. T \subseteq S /\ IsFiniteSet(T) /\ SizeOf(list, T) # n * Cardinality(T)
  BY <1>2, FS_Subset
<1>4. T # {}
  <2>1. SizeOf(list, {}) = 0
    BY SumEmpty DEF SizeOf
  <2>2. Cardinality({}) = 0
    BY FS_EmptySet
  <2> QED BY <1>3, <2>1, <2>2
<1>5. PICK x \in T : TRUE
  BY <1>4
<1> DEFINE V == T \ {x}
<1>6. V \in SUBSET S /\ V \in SUBSET DOMAIN list /\ V # T /\ V \subseteq T /\ x \notin V /\ V \cup {x} = T
      /\ x \in DOMAIN list /\ list[x].size = n
  BY <1>3, <1>5
<1>7. IsFiniteSet(V) /\ Cardinality(V) \in Nat /\ Cardinality(T) = Cardinality(V) + 1
  BY <1>3, <1>5, FS_RemoveElement, FS_Subset, FS_CardinalityType
<1>8. SizeOf(list, V) = n * Cardinality(V)
  BY <1>2, <1>6
<1> HIDE DEF V, Bad
<1>9. SizeOf(list, V \cup {x}) = SizeOf(list, V) + list[x].size
  BY <1>6, <1>7, SizeAdd
<1>10. \A c \in Nat : n * (c + 1) = n * c + n
  OBVIOUS
<1> QED BY <1>3, <1>6, <1>7, <1>8, <1>9, <1>10

\* A finite set of numbers has a greatest one.
LEMMA Greatest ==
  ASSUME NEW S, IsFiniteSet(S), S # {}
  PROVE  S \subseteq Nat => \E x \in S : \A y \in S : y <= x
<1> DEFINE From(x) == {y \in S : x <= y}
           Bad == {From(x) : x \in S}
<1>1. PICK T \in Bad : \A U \in Bad : U \subseteq T => U = T
  <2>1. Bad \in SUBSET SUBSET S /\ Bad # {}
    OBVIOUS
  <2> HIDE DEF Bad, From
  <2> QED BY <2>1, LeastException
<1> HAVE S \subseteq Nat
<1>2. PICK x \in S : T = From(x)
  BY <1>1
<1>3. \A y \in S : y <= x
  <2> SUFFICES ASSUME NEW y \in S, x < y PROVE FALSE
    OBVIOUS
  <2>1. \A z \in S : z \in Nat
    OBVIOUS
  <2>2. x \in From(x) /\ x \notin From(y) /\ \A z \in S : z \in From(y) => z \in From(x)
    BY <2>1
  <2>3. From(y) \in Bad /\ From(y) \subseteq From(x)
    BY <2>2
  <2> QED BY <1>1, <1>2, <2>2, <2>3
<1> QED BY <1>2, <1>3

\* Where messages and receives agree in size, a tag has bytes for as many
\* receives as it has messages more than served receives.
LEMMA WholeMessages ==
  ASSUME NEW t \in Tags, NEW n \in Nat \ {0}, Sizes(t) = {n}
  PROVE  /\ ArrivedOn(t) = n * Cardinality(Finished(t)) /\ Cardinality(Finished(t)) \in Nat
         /\ ServedOn(t) = n * Cardinality(Served(t)) /\ Cardinality(Served(t)) \in Nat
<1>1. /\ Finished(t) \in SUBSET DOMAIN Sends /\ IsFiniteSet(Finished(t))
      /\ Served(t) \in SUBSET DOMAIN Recvs /\ IsFiniteSet(Served(t))
  <2>1. Finished(t) \subseteq Messages /\ Served(t) \subseteq Receives
    BY DEF Finished, Served, SendsOf, RecvsOf, Messages, Receives
  <2> QED BY <2>1, ListTypes, FS_Subset DEF Messages, Receives
<1>2. /\ \A i \in DOMAIN Sends : Sends[i].size \in Nat
      /\ \A i \in DOMAIN Recvs : Recvs[i].size \in Nat
  BY ListTypes DEF Messages, Receives
<1>3. /\ \A s \in Finished(t) : Sends[s].size = n
      /\ \A r \in Served(t) : Recvs[r].size = n
  BY DEF Finished, Served, Sizes
<1>4. ArrivedOn(t) = SizeOf(Sends, Finished(t)) /\ ServedOn(t) = SizeOf(Recvs, Served(t))
  BY DEF ArrivedOn, ServedOn, Finished, Served
<1> QED BY <1>1, <1>2, <1>3, <1>4, SizeConstant

\* A message that is under way finds no message of its tag that nobody asked for:
\* the receive of the one before it was posted.
LEMMA NoneEarly ==
  ASSUME ~Overlap, OneFlow, TypeInv, SendInv, ServedByTheByte, RecvOrder, PostedBefore,
         NEW s \in Messages, qp[s].state = "live", NEW n \in Nat \ {0},
         Sizes(Sends[s].tag) = {n}, tags[Sends[s].tag].expe.id = None
  PROVE  tags[Sends[s].tag].recv = 0
<1> DEFINE t == Sends[s].tag
           Before == {e \in SendsOf(t) : e < s}
<1>1. TypeOK /\ t \in Tags /\ s \in SendsOf(t) /\ \A e \in Messages : e \in Nat
  BY ListTypes DEF TypeInv, SendsOf, Messages
<1>2. /\ Before \in SUBSET Messages /\ IsFiniteSet(Before) /\ Before \subseteq Nat
      /\ Cardinality(Before) \in Nat
  <2>1. Before \in SUBSET Messages
    BY DEF SendsOf, Messages
  <2>2. IsFiniteSet(Before)
    BY <2>1, ListTypes, FS_Subset
  <2> QED BY <1>1, <2>1, <2>2, FS_CardinalityType
<1>3. \A e \in SendsOf(t) : Sends[e].flow = Sends[s].flow
  BY <1>1 DEF OneFlow
<1>4. Finished(t) \subseteq Before
  <2> SUFFICES ASSUME NEW e \in Finished(t) PROVE e < s
    BY DEF Finished
  <2>1. e \in Messages /\ e \in SendsOf(t) /\ qp[e].state = "finished" /\ e # s
    BY DEF Finished, SendsOf, Messages
  <2>2. ~(s < e)
    BY <1>3, <2>1 DEF SendInv, InOrder
  <2> QED BY <1>1, <2>1, <2>2
<1>5. Cardinality(Finished(t)) <= Cardinality(Served(t))
  <2>1. Cardinality(Finished(t)) <= Cardinality(Before)
    BY <1>2, <1>4, FS_Subset
  <2>2. Cardinality(Finished(t)) \in Nat /\ Cardinality(Served(t)) \in Nat
    BY <1>1, WholeMessages
  <2>3. CASE Before = {}
    <3>1. Cardinality(Before) = 0
      BY <2>3, FS_EmptySet
    <3> QED BY <2>1, <2>2, <3>1
  <2>4. CASE Before # {}
    <3>1. PICK p \in Before : \A e \in Before : e <= p
      BY <1>2, <2>4, Greatest
    <3>2. p \in Messages /\ p < s /\ p \in Nat /\ Sends[p].tag = t /\ Sends[p].flow = Sends[s].flow
      BY <1>1, <1>3, <3>1 DEF SendsOf, Messages
    <3>3. Before = {j \in 1 .. p : Sends[j].tag = Sends[p].tag}
      <4>1. \A j \in Before : j \in 1 .. p /\ Sends[j].tag = t
        BY <1>2, <3>1, <3>2, SendsAssumption DEF SendsOf
      <4>2. \A j \in 1 .. p : Sends[j].tag = t => j \in Before
        <5>1. 1 .. p \subseteq DOMAIN Sends
          BY <3>2, SendsAssumption DEF Messages
        <5> QED BY <1>1, <3>2, <5>1 DEF SendsOf
      <4> QED BY <3>2, <4>1, <4>2
    <3>4. PICK r \in Receives : Recvs[r].tag = t /\ Posted(r) /\ PassOf(Recvs, r) = PassOf(Sends, p)
      BY <3>2 DEF PostedBefore
    <3> DEFINE Upto == {j \in 1 .. r : Recvs[j].tag = Recvs[r].tag}
    <3>5. Upto \subseteq Served(t)
      <4> SUFFICES ASSUME NEW j \in 1 .. r, Recvs[j].tag = t PROVE j \in Served(t)
        BY <3>4
      <4>1. j \in Receives /\ j <= r /\ j \in Nat /\ r \in Nat
        BY <3>4, RecvsAssumption DEF Receives
      <4>2. called.recv[r] # <<>>
        BY <1>1, <3>4, ListTypes DEF Posted
      <4>3. called.recv[j] # <<>>
        BY <3>4, <4>1, <4>2 DEF RecvOrder
      <4> QED BY <4>1, <4>3 DEF Served, RecvsOf, Receives
    <3>6. Served(t) \subseteq Receives
      BY DEF Served, RecvsOf, Receives
    <3>7. Cardinality(Upto) <= Cardinality(Served(t))
      BY <3>5, <3>6, ListTypes, FS_Subset
    <3>8. Cardinality(Upto) = Cardinality(Before)
      BY <3>3, <3>4 DEF PassOf
    <3> QED BY <1>2, <2>1, <2>2, <3>7, <3>8
  <2> QED BY <2>3, <2>4
<1>6. ArrivedOn(t) - ServedOn(t) = tags[t].recv /\ tags[t].recv \in Nat
  <2>1. tags[t] \in TagTables
    BY <1>1, SendTypes
  <2>2. tags[t].recv \in Nat
    BY <2>1 DEF TagTables
  <2> QED BY <1>1, <2>2 DEF ServedByTheByte
<1> DEFINE a == Cardinality(Finished(t))
           b == Cardinality(Served(t))
<1>7. ArrivedOn(t) = n * a /\ ServedOn(t) = n * b /\ a \in Nat /\ b \in Nat /\ a <= b
  BY <1>1, <1>5, WholeMessages
<1> HIDE DEF a, b, t
<1>8. n * a <= n * b /\ n * a \in Nat /\ n * b \in Nat
  BY <1>7
<1>9. tags[t].recv = 0
  BY <1>6, <1>7, <1>8
<1> QED BY <1>9 DEF t

\* A receive that is posted is served or registered from then on, and only
\* sim_recv posts one.
LEMMA PostedKept ==
  ASSUME TypeInv, RecvOnce, [Next]_vars
  PROVE  /\ \A x \in Receives : called.recv[x] # <<>> => called'.recv[x] # <<>>
         /\ \A x \in Receives : Posted(x) => Posted(x)'
         /\ \A x \in Receives : Posted(x)' => Posted(x) \/ SimRecv(x)
<1>1. /\ TypeOK /\ tags \in [Tags -> TagTables] /\ \A t \in Tags : Tidy(tags[t])
      /\ called.recv \in [Receives -> Seq(FlowIds \cup {None})]
      /\ \A r \in Receives : r # None /\ Recvs[r].tag \in Tags
      /\ \A t \in Tags : tags[t].expe.id \in Receives \cup {None}
  BY TidyTags, ListTypes DEF TypeInv, TypeOK, TagTables, EntryOf, Messages, Receives
<1>2. \A x : Append(<<>>, x) # <<>>
  OBVIOUS
<1>3. ASSUME called'.recv = called.recv, \A t \in Tags : tags'[t].expe = tags[t].expe
      PROVE  \A x \in Receives : /\ called.recv[x] # <<>> => called'.recv[x] # <<>>
                                 /\ Posted(x)' <=> Posted(x)
  BY <1>1, <1>3 DEF Posted
<1>4. CASE UNCHANGED vars
  BY <1>3, <1>4 DEF vars
<1>5. ASSUME NEW s \in Messages, SimSend(s) \/ SendFinish(s)
      PROVE  called'.recv = called.recv /\ \A t \in Tags : tags'[t].expe = tags[t].expe
  BY <1>1, <1>5, SenderTables
<1>6. ASSUME NEW s \in Messages, QpFinish(s)
      PROVE  \A x \in Receives : /\ called.recv[x] # <<>> => called'.recv[x] # <<>>
                                 /\ Posted(x)' <=> Posted(x)
  <2> DEFINE f == Sends[s].flow
             t == Sends[s].tag
             size == flows[f].received + Sends[s].size
             k == tags[t]
             res == Notify(k, f, size)
             e == k.expe.id
  <2>1. /\ f \in FlowIds /\ t \in Tags /\ size \in Nat \ {0}
        /\ \/ UNCHANGED <<tags, called>>
           \/ /\ tags' = [tags EXCEPT ![t] = res.tables]
              /\ called'.recv = IF res.call # None
                                THEN [called.recv EXCEPT ![res.call] = Append(@, f)]
                                ELSE called.recv
    BY ZenonT(60), <1>1, <1>6, QpFinishEffect
  <2>2. \/ /\ e # None /\ res.call = e /\ res.tables.expe.id = None
        \/ /\ res.call = None /\ res.tables.expe.id = e
    <3>1. k \in TagTables /\ Tidy(k)
      BY Zenon, <1>1, <2>1
    <3> HIDE DEF k, f, size
    <3>2. \/ /\ e # None /\ res.call = e /\ res.tables.expe = Entry(None, 0)
          \/ /\ e # None /\ res.call = None
             /\ res.tables.expe = Entry(e, k.expe.count - size)
          \/ /\ e = None /\ res.call = None /\ res.tables.expe = k.expe
      BY SMTT(40), <2>1, <3>1, NotifyEffect
    <3> HIDE DEF res
    <3> QED BY <3>2, EntryParts DEF e
  <2>3. e \in Receives \cup {None} /\ (e # None => Recvs[e].tag = t /\ called.recv[e] = <<>>)
    BY ZenonT(60), <1>1, <2>1 DEF RecvOnce
  <2> HIDE DEF res, size
  <2>4. CASE UNCHANGED <<tags, called>>
    BY <1>3, <2>4
  <2>5. CASE /\ tags' = [tags EXCEPT ![t] = res.tables]
             /\ called'.recv = IF res.call # None
                               THEN [called.recv EXCEPT ![res.call] = Append(@, f)]
                               ELSE called.recv
    <3>1. tags'[t] = res.tables /\ \A u \in Tags : u # t => tags'[u] = tags[u]
      BY <1>1, <2>1, <2>5
    <3>2. CASE e # None /\ res.call = e /\ res.tables.expe.id = None
      <4>1. /\ called'.recv[e] = Append(<<>>, f) /\ Append(<<>>, f) # <<>>
            /\ \A x \in Receives \ {e} : called'.recv[x] = called.recv[x]
        <5>1. e \in Receives /\ called.recv[e] = <<>>
          BY <2>3, <3>2
        <5>2. called'.recv = [called.recv EXCEPT ![e] = Append(called.recv[e], f)]
          BY <2>5, <3>2
        <5>3. Append(<<>>, f) # <<>>
          BY <1>2
        <5> HIDE DEF e, f
        <5> QED BY <1>1, <5>1, <5>2, <5>3
      <4>2. \A x \in Receives : /\ x # e => (tags'[Recvs[x].tag].expe.id = x
                                               <=> tags[Recvs[x].tag].expe.id = x)
                                /\ x = e => tags[Recvs[x].tag].expe.id = x
        BY <1>1, <2>3, <3>1, <3>2
      <4> HIDE DEF e
      <4> QED BY <4>1, <4>2 DEF Posted
    <3>3. CASE res.call = None /\ res.tables.expe.id = e
      <4>1. called'.recv = called.recv /\ \A u \in Tags : tags'[u].expe.id = tags[u].expe.id
        BY <2>5, <3>1, <3>3
      <4> QED BY <1>1, <4>1 DEF Posted
    <3> QED BY <2>2, <3>2, <3>3
  <2> QED BY Zenon, <2>1, <2>4, <2>5
<1>7. ASSUME NEW r \in Receives, SimRecv(r)
      PROVE  \A x \in Receives : /\ called.recv[x] # <<>> => called'.recv[x] # <<>>
                                 /\ Posted(x) => Posted(x)'
                                 /\ Posted(x)' => Posted(x) \/ x = r
  <2> DEFINE t == Recvs[r].tag
             k == tags[t]
             n == Recvs[r].size
             res == Register(k, r, n)
  <2>1. /\ t \in Tags /\ called.recv[r] = <<>>
        /\ tags' = [tags EXCEPT ![t] = res.tables]
        /\ called'.recv = IF res.call
                          THEN [called.recv EXCEPT ![r] = Append(<<>>, res.with)]
                          ELSE called.recv
    BY <1>1, <1>7, SimRecvEffect
  <2>2. \/ res.tables.expe.id = k.expe.id
        \/ k.expe.id = None /\ res.tables.expe.id = r
    <3>1. k \in TagTables /\ Tidy(k) /\ n \in Nat \ {0}
      BY <1>1, <2>1, ListTypes
    <3> HIDE DEF k, n
    <3>2. \/ /\ res.call /\ k.expe.id = None /\ res.tables.expe = k.expe
          \/ /\ ~res.call /\ k.expe.id = None /\ res.tables.expe = Entry(r, n - k.recv)
          \/ /\ ~res.call /\ k.expe.id # None /\ res.tables = k
      BY <3>1, RegisterEffect
    <3> HIDE DEF res
    <3> QED BY <3>2, EntryParts
  <2>3. tags'[t] = res.tables /\ \A u \in Tags : u # t => tags'[u] = tags[u]
    BY <1>1, <2>1
  <2> HIDE DEF res
  <2>4. /\ \A x \in Receives : x # r => called'.recv[x] = called.recv[x]
        /\ called.recv[r] # <<>> => called'.recv[r] # <<>>
    BY <1>1, <2>1
  <2>5. \A x \in Receives : /\ tags[Recvs[x].tag].expe.id = x => tags'[Recvs[x].tag].expe.id = x
                            /\ tags'[Recvs[x].tag].expe.id = x =>
                                 tags[Recvs[x].tag].expe.id = x \/ x = r
    BY <1>1, <2>2, <2>3
  <2> QED BY <2>4, <2>5 DEF Posted
<1>8. CASE \E s \in Messages : SimSend(s) \/ SendFinish(s)
  BY <1>3, <1>5, <1>8
<1>9. CASE \E s \in Messages : QpFinish(s)
  BY <1>6, <1>9
<1>10. CASE \E r \in Receives : SimRecv(r)
  BY <1>7, <1>10
<1> QED BY <1>4, <1>8, <1>9, <1>10 DEF Next, Messages, Receives

\* Receives of a tag are posted in order, and the one before a message's too.
LEMMA NextOrder ==
  TypeInv /\ RecvOnce /\ RecvOrder /\ PostedBefore /\ [Next]_vars
    => RecvOrder' /\ PostedBefore'
<1> SUFFICES ASSUME TypeInv, RecvOnce, RecvOrder, PostedBefore, [Next]_vars
             PROVE  RecvOrder' /\ PostedBefore'
  OBVIOUS
<1>1. /\ \A x \in Receives : called.recv[x] # <<>> => called'.recv[x] # <<>>
      /\ \A x \in Receives : Posted(x) => Posted(x)'
      /\ \A x \in Receives : Posted(x)' => Posted(x) \/ SimRecv(x)
  BY PostedKept
<1>2. RecvOrder'
  <2> SUFFICES ASSUME NEW r \in Receives, Posted(r)', NEW e \in Receives, e < r,
                      Recvs[e].tag = Recvs[r].tag
               PROVE  called.recv[e] # <<>>
    BY <1>1 DEF RecvOrder
  <2>1. CASE Posted(r)
    BY <2>1 DEF RecvOrder
  <2>2. CASE SimRecv(r)
    <3>1. e \in 1 .. r - 1
      BY RecvsAssumption DEF Receives
    <3> QED BY <2>2, <3>1 DEF SimRecv, MayPost
  <2> QED BY <1>1, <2>1, <2>2
<1>3. PostedBefore'
  <2> SUFFICES ASSUME NEW s \in Messages, qp'[s].state # "none", NEW e \in Messages, e < s,
                      Sends[e].flow = Sends[s].flow
               PROVE  \E r \in Receives : /\ Recvs[r].tag = Sends[e].tag /\ Posted(r)
                                          /\ PassOf(Recvs, r) = PassOf(Sends, e)
    BY <1>1 DEF PostedBefore
  <2>1. CASE qp[s].state # "none"
    BY <2>1 DEF PostedBefore
  <2>2. CASE SimSend(s)
    <3>1. e \in 1 .. s - 1
      BY SendsAssumption DEF Messages
    <3> QED BY <2>2, <3>1 DEF SimSend, MaySend, Receives
  <2>3. qp[s].state # "none" \/ SimSend(s)
    <3>1. TypeOK /\ qp \in [Messages -> [state : {"none", "live", "finished"}, calls : 0 .. TailCalls]]
      BY SendTypes DEF TypeInv
    <3>2. ASSUME NEW m \in Messages, SimSend(m) PROVE qp'[s] = qp[s] \/ s = m
      <4>1. qp' = [qp EXCEPT ![m] = [state |-> "live", calls |-> qp[m].calls]]
        BY <3>1, <3>2, SimSendEffect
      <4> QED BY <3>1, <4>1
    <3>3. ASSUME NEW m \in Messages, SendFinish(m)
          PROVE  qp'[s] = qp[s] \/ qp[s].state # "none"
      <4>1. /\ qp' = [qp EXCEPT ![m] = [state |-> "live", calls |-> qp[m].calls + 1]]
            /\ qp[m].state = "live"
        BY <3>1, <3>3, SendFinishEffect
      <4> QED BY <3>1, <4>1
    <3>4. ASSUME NEW m \in Messages, QpFinish(m)
          PROVE  qp'[s] = qp[s] \/ qp[s].state # "none"
      <4>1. /\ qp' = [qp EXCEPT ![m] = [state |-> "finished", calls |-> qp[m].calls]]
            /\ qp[m].state = "live"
        BY Zenon, <3>1, <3>4, QpFinishEffect
      <4> QED BY <3>1, <4>1
    <3>5. ASSUME NEW r \in Receives, SimRecv(r) PROVE qp' = qp
      BY <3>5 DEF SimRecv
    <3> QED BY <3>2, <3>3, <3>4, <3>5 DEF Next, vars, Messages, Receives
  <2> QED BY <2>1, <2>2, <2>3
<1> QED BY <1>2, <1>3

\* A receive that waits lacks a whole message.
LEMMA WaitsForWhole ==
  ASSUME TypeInv, RecvOnce, ServedByTheByte,
         NEW t \in Tags, NEW n \in Nat \ {0}, Sizes(t) = {n}, tags[t].expe.id # None
  PROVE  n <= tags[t].expe.count
<1> DEFINE c == tags[t].expe.count
           a == Cardinality(Finished(t))
           b == Cardinality(Served(t))
           e == tags[t].expe.id
<1>1. tags[t] \in TagTables /\ Tidy(tags[t])
  BY SendTypes, TidyTags DEF TypeInv
<1>2. c \in Nat /\ c > 0 /\ e \in Receives
  BY <1>1 DEF TagTables, EntryOf, Tidy
<1>3. Recvs[e].size = n
  BY <1>2 DEF RecvOnce, Sizes, RecvsOf, Receives
<1>4. ArrivedOn(t) = n * a /\ ServedOn(t) = n * b /\ a \in Nat /\ b \in Nat
  BY WholeMessages
<1>5. n * a - n * b = n - c
  BY <1>3, <1>4 DEF ServedByTheByte
<1> HIDE DEF a, b, c
<1>6. a <= b
  <2> SUFFICES ASSUME b + 1 <= a PROVE FALSE
    BY <1>4
  <2>1. n * (b + 1) <= n * a /\ n * (b + 1) = n * b + n /\ n * b \in Nat /\ n * a \in Nat
    BY <1>4
  <2> QED BY <1>2, <1>5, <2>1
<1>7. n * a <= n * b /\ n * a \in Nat /\ n * b \in Nat
  BY <1>4, <1>6
<1>8. n <= c
  BY <1>2, <1>5, <1>7
<1> QED BY <1>8 DEF c

\* Bytes that come are those of a message, and tagged with its flow.
LEMMA QpFinishTagged ==
  ASSUME ~Overlap, OneFlow, TypeInv, RecvOnce, SendInv, ToNotify, ServedByTheByte,
         RecvOrder, PostedBefore, AllTagged,
         NEW s \in Messages, QpFinish(s),
         NEW u \in Tags, NEW n \in Nat \ {0}, Sizes(u) = {n}
  PROVE  Tagged(u, n)'
<1> DEFINE f == Sends[s].flow
           t == Sends[s].tag
           z == Sends[s].size
           k == tags[t]
           res == Notify(k, f, z)
           e == k.expe.id
<1>1. TypeOK /\ Tagged(u, n)
  BY DEF TypeInv, AllTagged
<1>2. /\ f \in FlowIds /\ t \in Tags /\ z \in Nat \ {0} /\ qp[s].state = "live"
      /\ flows[f].toNotify = 1 /\ flows[f].received = 0
  BY ZenonT(60), <1>1, QpFinishEffect, ListTypes DEF ToNotify
<1>3. /\ tags' = [tags EXCEPT ![t] = res.tables]
      /\ called'.recv = IF res.call # None
                        THEN [called.recv EXCEPT ![res.call] = Append(@, f)]
                        ELSE called.recv
  <2>1. flows[f].received + z = z
    BY <1>2
  <2> DEFINE m == flows[f].received + z
             res2 == Notify(k, f, m)
  <2>2. \/ flows[f].toNotify # 1 /\ UNCHANGED <<tags, called>>
        \/ /\ tags' = [tags EXCEPT ![t] = res2.tables]
           /\ called'.recv = IF res2.call # None
                             THEN [called.recv EXCEPT ![res2.call] = Append(@, f)]
                             ELSE called.recv
    BY Zenon, <1>1, QpFinishEffect
  <2>3. res2 = res
    BY <2>1
  <2> HIDE DEF res2
  <2> QED BY <1>2, <2>2, <2>3
<1>4. /\ k \in TagTables /\ Tidy(k) /\ k.recv \in Nat /\ e \in Receives \cup {None}
      /\ e # None => k.recv = 0 /\ k.expe.count \in Nat
  <2>1. k \in TagTables /\ Tidy(k)
    BY <1>1, <1>2, SendTypes, TidyTags DEF TypeInv
  <2> HIDE DEF k
  <2> QED BY <2>1 DEF TagTables, EntryOf, Tidy
<1>5. \/ /\ e # None /\ k.expe.count <= z /\ res.call = e
         /\ res.tables.recv = z - k.expe.count
      \/ /\ e # None /\ res.call = None /\ res.tables.recv = k.recv
      \/ /\ e = None /\ res.call = None
         /\ res.tables.recv = k.recv + z /\ res.tables.pending = f
  <2> HIDE DEF k, f, z
  <2> QED BY <1>2, <1>4, NotifyEffect DEF e
<1>6. e # None => Recvs[e].tag = t /\ called.recv[e] = <<>>
  BY <1>2 DEF RecvOnce
<1>7. /\ called.recv \in [Receives -> Seq(FlowIds \cup {None})]
      /\ tags \in [Tags -> TagTables]
  BY SMTT(40), <1>1, SendTypes DEF TypeOK, Receives
<1>8. \A r \in RecvsOf(u) : r \in Receives /\ Recvs[r].tag = u
  BY DEF RecvsOf, Receives
<1> HIDE DEF res
<1>9. CASE u # t
  <2>1. tags'[u] = tags[u]
    BY <1>2, <1>3, <1>7, <1>9
  <2>2. \A r \in RecvsOf(u) : called'.recv[r] = called.recv[r]
    <3> HIDE DEF e, t
    <3> QED BY <1>3, <1>4, <1>5, <1>6, <1>7, <1>8, <1>9
  <2> QED BY <1>1, <2>1, <2>2 DEF Tagged, FlowsOf
<1>10. CASE u = t
  <2>1. tags'[t] = res.tables /\ z = n /\ f \in FlowsOf(t)
    <3>1. s \in SendsOf(t)
      BY DEF SendsOf, Messages
    <3>2. z = n /\ f \in FlowsOf(t)
      BY <1>10, <3>1 DEF Sizes, FlowsOf
    <3>3. tags'[t] = res.tables
      BY <1>2, <1>3, <1>7
    <3> QED BY <3>2, <3>3
  <2>2. res.tables.recv > 0 => res.tables.recv = n /\ res.tables.pending \in FlowsOf(t)
    <3>1. e # None => n <= k.expe.count
      BY <1>10, WaitsForWhole
    <3>2. e = None => k.recv = 0
      BY <1>2, <1>10, NoneEarly
    <3> HIDE DEF e, k, z, f
    <3> QED BY <1>2, <1>4, <1>5, <2>1, <3>1, <3>2
  <2>3. \A r \in RecvsOf(t) : called'.recv[r] # <<>> => called'.recv[r][1] \in FlowsOf(t)
    <3>1. CASE res.call = None
      BY <1>1, <1>3, <1>10, <3>1 DEF Tagged
    <3>2. CASE res.call # None
      <4>1. res.call = e /\ e \in Receives /\ called.recv[e] = <<>>
        BY <1>4, <1>5, <1>6, <3>2
      <4>2. called'.recv = [called.recv EXCEPT ![e] = Append(called.recv[e], f)]
        BY <1>3, <3>2, <4>1
      <4>3. Append(<<>>, f)[1] = f
        OBVIOUS
      <4>4. /\ called'.recv[e] = Append(<<>>, f)
            /\ \A r \in Receives \ {e} : called'.recv[r] = called.recv[r]
        <5> HIDE DEF e, f
        <5> QED BY SMTT(40), <1>7, <4>1, <4>2
      <4>5. called'.recv[e][1] = f
        BY <4>3, <4>4
      <4> HIDE DEF e, f, t
      <4> QED BY <1>1, <1>8, <1>10, <2>1, <4>4, <4>5 DEF Tagged
    <3> QED BY <3>1, <3>2
  <2>4. Tagged(u, n)' <=> Tagged(t, n)'
    BY <1>10 DEF Tagged
  <2> HIDE DEF t
  <2> QED BY <2>1, <2>2, <2>3, <2>4 DEF Tagged, FlowsOf
<1> QED BY <1>9, <1>10

\* A receive that finds bytes takes the message that is there, with its flow.
LEMMA SimRecvTagged ==
  ASSUME TypeInv, AllTagged, NEW r \in Receives, SimRecv(r),
         NEW u \in Tags, NEW n \in Nat \ {0}, Sizes(u) = {n}
  PROVE  Tagged(u, n)'
<1> DEFINE t == Recvs[r].tag
           z == Recvs[r].size
           k == tags[t]
           res == Register(k, r, z)
<1>1. TypeOK /\ Tagged(u, n)
  BY DEF TypeInv, AllTagged
<1>2. /\ t \in Tags /\ z \in Nat \ {0} /\ called.recv[r] = <<>>
      /\ tags' = [tags EXCEPT ![t] = res.tables]
      /\ called'.recv = IF res.call THEN [called.recv EXCEPT ![r] = Append(<<>>, res.with)]
                        ELSE called.recv
  BY <1>1, SimRecvEffect, ListTypes
<1>3. k \in TagTables /\ Tidy(k) /\ k.recv \in Nat
  <2>1. k \in TagTables /\ Tidy(k)
    BY <1>1, <1>2, SendTypes, TidyTags DEF TypeInv
  <2> HIDE DEF k
  <2> QED BY <2>1 DEF TagTables
<1>4. \/ /\ res.call /\ z <= k.recv
         /\ res.tables.recv = k.recv - z /\ res.with = k.pending
      \/ ~res.call /\ res.tables.recv = 0
      \/ ~res.call /\ res.tables = k
  <2> HIDE DEF k, z
  <2> QED BY <1>2, <1>3, RegisterEffect
<1>5. /\ called.recv \in [Receives -> Seq(FlowIds \cup {None})]
      /\ tags \in [Tags -> TagTables]
  BY SMTT(40), <1>1, SendTypes DEF TypeOK, Receives
<1>6. \A x \in RecvsOf(u) : x \in Receives /\ Recvs[x].tag = u
  BY DEF RecvsOf, Receives
<1> HIDE DEF res
<1>7. \A x \in Receives : x # r => called'.recv[x] = called.recv[x]
  BY <1>2, <1>5
<1>8. CASE u # t
  <2>1. tags'[u] = tags[u]
    BY <1>2, <1>5, <1>8
  <2>2. \A x \in RecvsOf(u) : called'.recv[x] = called.recv[x]
    BY <1>6, <1>7, <1>8
  <2> QED BY <1>1, <2>1, <2>2 DEF Tagged, FlowsOf
<1>9. CASE u = t
  <2>1. tags'[t] = res.tables /\ z = n
    <3>1. z = n
      BY <1>9 DEF Sizes, RecvsOf, Receives
    <3>2. tags'[t] = res.tables
      BY <1>2, <1>5
    <3> QED BY <3>1, <3>2
  <2>2. k.recv > 0 => k.recv = n /\ k.pending \in FlowsOf(t)
    BY <1>1, <1>9 DEF Tagged
  <2>3. res.tables.recv > 0 => res.tables.recv = n /\ res.tables.pending \in FlowsOf(t)
    <3> HIDE DEF k, z
    <3> QED BY <1>2, <1>3, <1>4, <2>1, <2>2
  <2>4. called'.recv[r] # <<>> => called'.recv[r][1] \in FlowsOf(t)
    <3>1. CASE ~res.call
      BY <1>2, <3>1
    <3>2. CASE res.call
      <4>1. res.with \in FlowsOf(t)
        <5> HIDE DEF k, z
        <5> QED BY <1>2, <1>3, <1>4, <2>1, <2>2, <3>2
      <4>2. Append(<<>>, res.with)[1] = res.with
        OBVIOUS
      <4>3. called'.recv[r] = Append(<<>>, res.with)
        BY <1>2, <1>5, <3>2
      <4> QED BY <4>1, <4>2, <4>3
    <3> QED BY <3>1, <3>2
  <2>5. \A x \in RecvsOf(t) : called'.recv[x] # <<>> => called'.recv[x][1] \in FlowsOf(t)
    BY <1>1, <1>6, <1>7, <1>9, <2>4 DEF Tagged
  <2>6. Tagged(u, n)' <=> Tagged(t, n)'
    BY <1>9 DEF Tagged
  <2> HIDE DEF t
  <2> QED BY <2>1, <2>3, <2>5, <2>6 DEF Tagged, FlowsOf
<1> QED BY <1>8, <1>9

\* Every step keeps the flow tags.
LEMMA NextTagged ==
  ASSUME ~Overlap, OneFlow
  PROVE  TypeInv /\ RecvOnce /\ SendInv /\ ToNotify /\ ServedByTheByte /\ RecvOrder
           /\ PostedBefore /\ AllTagged /\ [Next]_vars => AllTagged'
<1> SUFFICES ASSUME TypeInv, RecvOnce, SendInv, ToNotify, ServedByTheByte, RecvOrder,
                    PostedBefore, AllTagged, [Next]_vars,
                    NEW t \in Tags, NEW n \in Nat \ {0}, Sizes(t) = {n}
             PROVE  Tagged(t, n)'
  BY DEF AllTagged, Sizes
<1>1. TypeOK /\ Tagged(t, n)
  BY DEF TypeInv, AllTagged
<1>2. ASSUME called'.recv = called.recv, tags'[t].recv = tags[t].recv,
             tags'[t].pending = tags[t].pending
      PROVE  Tagged(t, n)'
  BY <1>1, <1>2 DEF Tagged, FlowsOf
<1>3. CASE UNCHANGED vars
  BY <1>2, <1>3 DEF vars
<1>4. ASSUME NEW s \in Messages, SimSend(s) \/ SendFinish(s) PROVE Tagged(t, n)'
  <2>1. /\ called'.recv = called.recv /\ tags'[t].recv = tags[t].recv
        /\ tags'[t].pending = tags[t].pending
    BY <1>1, <1>4, SenderTables
  <2> QED BY <1>2, <2>1
<1> QED BY <1>3, <1>4, QpFinishTagged, SimRecvTagged DEF Next, Messages, Receives

\* Where a flow does not overlap itself and a tag has one flow, every handler of
\* a receive is given the flow of a message of its tag: receiver_pending_queue,
\* which keeps one flow per tag, is never overwritten before it is read.
THEOREM RightFlowTagCorrect ==
  ASSUME ~Overlap, OneFlow
  PROVE  Spec => []RightFlowTag
<1>1. Spec => [](TypeInv /\ RecvOnce /\ SendInv /\ ToNotify /\ ServedByTheByte)
  <2>1. Spec => []TypeInv
    BY InvariantCorrect
  <2>2. TypeInv /\ SendInv /\ [Next]_vars => SendInv'
    BY NextSend DEF OwnCallbacks
  <2>3. Spec => []SendInv
    BY <2>1, <2>2, InitSend, PTL DEF Spec
  <2>4. Init => ToNotify
    BY DEF Init, ToNotify, Messages
  <2>5. TypeInv /\ SendInv /\ ToNotify /\ [Next]_vars => ToNotify'
    BY NextToNotify
  <2>6. Spec => []ToNotify
    BY <2>1, <2>3, <2>4, <2>5, PTL DEF Spec
  <2> QED BY <2>1, <2>3, <2>6, RecvOnceCorrect, ServedByTheByteCorrect, PTL
<1>2. Init => RecvOrder /\ PostedBefore /\ AllTagged
  <2> SUFFICES ASSUME Init PROVE RecvOrder /\ PostedBefore /\ AllTagged
    OBVIOUS
  <2>1. \A r \in Receives : called.recv[r] = <<>> /\ r # None /\ Recvs[r].tag \in Tags
    BY ListTypes DEF Init, Receives
  <2>2. \A t \in Tags : tags[t].expe.id = None /\ tags[t].recv = 0
    BY EntryParts DEF Init
  <2>3. \A r \in Receives : ~Posted(r)
    BY <2>1, <2>2 DEF Posted
  <2>4. \A s \in Messages : qp[s].state = "none"
    BY DEF Init, Messages
  <2>5. \A t : \A r \in RecvsOf(t) : r \in Receives
    BY DEF RecvsOf, Receives
  <2> QED BY <2>1, <2>2, <2>3, <2>4, <2>5 DEF RecvOrder, PostedBefore, AllTagged, Tagged
<1>3. TypeInv /\ RecvOnce /\ SendInv /\ ToNotify /\ ServedByTheByte /\ RecvOrder
        /\ PostedBefore /\ AllTagged /\ [Next]_vars => RecvOrder' /\ PostedBefore' /\ AllTagged'
  <2>1. TypeInv /\ RecvOnce /\ SendInv /\ ToNotify /\ ServedByTheByte /\ RecvOrder
          /\ PostedBefore /\ AllTagged /\ [Next]_vars => AllTagged'
    BY NextTagged
  <2> QED BY <2>1, NextOrder
<1>4. AllTagged => RightFlowTag
  <2> SUFFICES ASSUME AllTagged, NEW r \in Receives, called.recv[r] # <<>>,
                      Sizes(Recvs[r].tag) = {Recvs[r].size}
               PROVE  called.recv[r][1] \in FlowsOf(Recvs[r].tag)
    BY DEF RightFlowTag, Sizes, FlowsOf, Receives
  <2>1. Recvs[r].tag \in Tags /\ Recvs[r].size \in Nat \ {0} /\ r \in RecvsOf(Recvs[r].tag)
    BY ListTypes DEF RecvsOf, Receives
  <2> QED BY <2>1 DEF AllTagged, Tagged
<1> QED BY <1>1, <1>2, <1>3, <1>4, PTL DEF Spec
===============================================================================
