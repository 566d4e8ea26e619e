------------------------ MODULE BaseReplicaScheduler ------------------------
(* What every replica scheduler of vidur is built from                        *)
(* (scheduler/replica_scheduler/base_replica_scheduler.py): the queue of      *)
(* requests, the pool of key-value blocks, the batch under construction.      *)
(* A scheduler is a record; its loops are repeated turns of one body, which   *)
(* leaves the record alone once the loop's condition or a break ends it.      *)
(*                                                                            *)
(* The configuration c has the fields                                         *)
(*   numBlocks, blockSize   the pool, and the tokens that a block holds       *)
(*   seqBlocks, watermark   _max_blocks_per_sequence, _watermark_blocks       *)
(*   cap, maxBatch, stages  batch_size_cap, _max_batch_size, _num_stages      *)
(*   maxTokens, chunk       max_tokens_in_batch, chunk_size                   *)
(*   maxWait                max_waiting_iters                                 *)
(*   arrivedAt              arrived_at of every request                       *)
(*                                                                            *)
(* A definition that stands right before the one whose name its own name      *)
(* extends is that definition with a plausible fault.                         *)
EXTENDS VidurRequest, Sequences, FiniteSets, SequencesExt, FiniteSetsExt, TLC

NewScheduler(requests) ==
  [queue     |-> <<>>,                     \* _request_queue
   preempted |-> <<>>,                     \* _preempted_requests
   held      |-> <<>>,                     \* _preempted_batches
   alloc     |-> [id \in requests |-> 0],  \* _allocation_map, 0 for no entry
   used      |-> 0,                        \* _num_allocated_blocks
   kv        |-> [id \in requests |-> 0],  \* the replica's KV map, in tokens
   running   |-> 0,                        \* _num_running_batches
   waiting   |-> 0]                        \* _num_waiting_iters

\* The record a handler works on: the scheduler, the requests, the batch it
\* builds, the request it holds in a local variable (0 for none) and whether
\* every assertion held so far.
Opened(s, req) ==
  LET local == [req |-> req, batch |-> <<>>, cur |-> 0, prefills |-> <<>>, ok |-> TRUE]
  IN  [f \in DOMAIN s \cup DOMAIN local |-> IF f \in DOMAIN s THEN s[f] ELSE local[f]]

Closed(s, x) == [f \in DOMAIN s |-> x[f]]

CeilDiv(a, b) == (a + b - 1) \div b

\* Op(x), with x bound to a value, so that TLC computes it once.
Bind(Op(_), x) == CHOOSE y \in {Op(v) : v \in {x}} : TRUE

\* A loop over the elements of a sequence, and k turns of a while loop. The
\* body gets p, which the loop does not change: the configuration, mostly.
ForEach(Turn(_, _, _), p, x, seq) ==
  FoldLeft(LAMBDA y, e : Bind(LAMBDA v : Turn(p, v, e), y), x, seq)
Repeat(Turn(_, _), p, x, k) ==
  ForEach(LAMBDA q, y, i : Turn(q, y), p, x, [i \in 1..k |-> i])

\* The elements of seq at the positions in S, in order.
Picked(S, seq) ==
  FlattenSeq([i \in DOMAIN seq |-> IF i \in S THEN <<seq[i]>> ELSE <<>>])

Micro(c) == c.cap \div c.stages

Holders(x) == {id \in DOMAIN x.alloc : x.alloc[id] > 0}

CanAllocate(c, x, n) == c.numBlocks - x.used >= n

Allocate(c, x, id, n) ==
  [x EXCEPT !.alloc[id] = @ + n,
            !.used      = @ + n,
            !.ok        = @ /\ x.used + n <= c.numBlocks]

\* pop raises an exception when the request has no entry.
FreeUncounted(x, id) ==
  [x EXCEPT !.alloc[id] = 0,
            !.ok        = @ /\ x.alloc[id] > 0 /\ x.used >= x.alloc[id]]
Free(x, id) ==
  [x EXCEPT !.alloc[id] = 0,
            !.used      = @ - x.alloc[id],
            !.ok        = @ /\ x.alloc[id] > 0 /\ x.used >= x.alloc[id]]

\* _get_request_next_num_tokens
NextTokens(r) == IF r.prefilled THEN 1 ELSE r.prefill

AddToBatch(x, id, n) ==
  [x EXCEPT !.batch = Append(@, [id |-> id, n |-> n]),
            !.ok    = @ /\ ~x.req[id].completed]

BatchTokens(x) == SumFunction([i \in DOMAIN x.batch |-> x.batch[i].n])

\* list.sort on arrived_at, which is stable.
SortByArrival(c, ids) ==
  FlattenSeq([t \in 1..Cardinality(Range(c.arrivedAt)) |->
                Picked({i \in DOMAIN ids : c.arrivedAt[ids[i]] = t}, ids)])

\* on_batch_end, the same in every scheduler that batches by iteration
IterationEndTurnKeeps(c, x, e) ==
  IF x.req[e.id].completed THEN x
  ELSE [x EXCEPT !.preempted = Append(@, e.id)]
IterationEndTurn(c, x, e) ==
  IF x.req[e.id].completed THEN Free(x, e.id)
  ELSE [x EXCEPT !.preempted = Append(@, e.id)]

IterationEnd(c, x, batch) ==
  ForEach(IterationEndTurn, c, [x EXCEPT !.running = @ - 1], batch)
=============================================================================
