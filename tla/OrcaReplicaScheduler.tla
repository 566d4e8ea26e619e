------------------------- MODULE OrcaReplicaScheduler -------------------------
(* The schedulers that reserve the blocks of the longest sequence for every    *)
(* request they admit: Orca (orca_replica_scheduler.py), which batches anew    *)
(* at every iteration, FasterTransformer, which keeps a batch until its last   *)
(* request is done, and the prefill and decode replicas of Splitwise.          *)
EXTENDS BaseReplicaScheduler

\* The loop over the preempted requests: up to _max_batch_size run on.
ResumeTurn(c, x) ==
  IF x.preempted = <<>> \/ Len(x.batch) = c.maxBatch THEN x
  ELSE LET id == Head(x.preempted)
       IN  AddToBatch([x EXCEPT !.preempted = Tail(@)], id, NextTokens(x.req[id]))

Resume(c, x) == Repeat(ResumeTurn, c, x, Len(x.preempted))

\* The loop over the waiting requests.
ReserveTurn(c, x) ==
  IF \/ x.queue = <<>>
     \/ Len(x.batch) = c.maxBatch
     \/ ~CanAllocate(c, x, c.seqBlocks)
  THEN x
  ELSE LET id == Head(x.queue)
           y  == Allocate(c, [x EXCEPT !.queue = Tail(@)], id, c.seqBlocks)
       IN  AddToBatch(y, id, NextTokens(x.req[id]))

Reserve(c, x) == Repeat(ReserveTurn, c, x, Len(x.queue))

OrcaNextBatch(c, x) == Bind(LAMBDA y : Reserve(c, y), Resume(c, x))

-----------------------------------------------------------------------------
(* FasterTransformer                                                          *)

ResumeHeldTurn(c, x, e) == AddToBatch(x, e.id, NextTokens(x.req[e.id]))

FasterTransformerNextBatch(c, x) ==
  LET batch == Head(x.held)
      live  == {i \in DOMAIN batch : ~x.req[batch[i].id].completed}
  IN  IF x.held = <<>> THEN Reserve(c, x)
      ELSE ForEach(ResumeHeldTurn, c, [x EXCEPT !.held = Tail(@)], Picked(live, batch))

\* _pending_free_map is never filled: what it gives back is nothing.
FreeTurn(c, x, e) == Free(x, e.id)

FasterTransformerEnd(c, x, batch) ==
  IF \A i \in DOMAIN batch : x.req[batch[i].id].completed
  THEN ForEach(FreeTurn, c, [x EXCEPT !.running = @ - 1], batch)
  ELSE [x EXCEPT !.running = @ - 1, !.held = Append(@, batch)]

-----------------------------------------------------------------------------
(* Splitwise (splitwise_replica_scheduler.py): a prefill replica runs the     *)
(* prompt of a request, a decode replica the rest of it.                      *)

\* The requests of the queue that this replica may take, in order.
Takes(x, prefills) ==
  Picked({i \in DOMAIN x.queue : x.req[x.queue[i]].prefilled # prefills}, x.queue)

\* A turn of the loop over the queue. num_batch_tokens counts the requests this
\* loop adds, and not the resumed ones, the first p.resumed of the batch.
SplitwiseTurn(p, x) ==
  LET c     == p.config
      takes == Takes(x, p.prefills)
      id    == Head(takes)
      n     == NextTokens(x.req[id])
      added == SumFunction([i \in p.resumed + 1 .. Len(x.batch) |-> x.batch[i].n])
      stops == \/ added + n > c.maxTokens
               \/ p.prefills /\ Cardinality(Holders(x)) = c.cap
               \/ Len(x.batch) = Micro(c)
               \/ ~CanAllocate(c, x, c.seqBlocks)
      y     == Allocate(c, [x EXCEPT !.queue = RemoveFirst(@, id)], id, c.seqBlocks)
  IN  IF takes = <<>> \/ stops THEN x
      ELSE AddToBatch([y EXCEPT !.kv[id] = @ + c.seqBlocks * c.blockSize], id, n)

SplitwiseNextBatch(c, prefills, x) ==
  Bind(LAMBDA r : Repeat(SplitwiseTurn,
                         [config |-> c, prefills |-> prefills, resumed |-> Len(r.batch)],
                         r, Len(r.queue)),
       Resume(c, x))

\* free and release_request_kv_cache_memory
FreeWithKv(x, id) == [Free(x, id) EXCEPT !.kv[id] = 0]

\* on_batch_end; the requests it leaves in prefills go to their decode replicas.
SplitwiseEndTurn(prefills, x, e) ==
  CASE x.req[e.id].completed -> FreeWithKv(x, e.id)
    [] ~x.req[e.id].completed /\ prefills /\ x.req[e.id].prefilled ->
         [FreeWithKv(x, e.id) EXCEPT !.prefills = Append(@, e.id)]
    [] OTHER -> [x EXCEPT !.preempted = Append(@, e.id)]

SplitwiseEnd(prefills, x, batch) ==
  ForEach(SplitwiseEndTurn, prefills, [x EXCEPT !.running = @ - 1], batch)
=============================================================================
