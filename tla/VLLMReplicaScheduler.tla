------------------------ MODULE VLLMReplicaScheduler ------------------------
(* vLLM's batching (vllm_replica_scheduler.py): waiting requests first, one   *)
(* prefill each; only without any, a decode step of the running ones, the     *)
(* oldest first, which takes the blocks of the youngest when none is free.    *)
EXTENDS BaseReplicaScheduler

PromptBlocks(c, r) == CeilDiv(r.prefill, c.blockSize)

CanAllocateRequestFull(c, x, id) ==
  IF id \notin Holders(x)
  THEN c.numBlocks - x.used - PromptBlocks(c, x.req[id]) >= c.watermark
  ELSE c.numBlocks - x.used >= 0
CanAllocateRequest(c, x, id) ==
  IF id \notin Holders(x)
  THEN c.numBlocks - x.used - PromptBlocks(c, x.req[id]) >= c.watermark
  ELSE c.numBlocks - x.used >= 1

AllocateRequest(c, x, id) ==
  LET required == x.req[id].processed - x.alloc[id] * c.blockSize
  IN  IF id \notin Holders(x)
      THEN Allocate(c, x, id, PromptBlocks(c, x.req[id]))
      ELSE IF required <= 0 THEN x
      ELSE Allocate(c, [x EXCEPT !.ok = @ /\ required = 1], id, 1)

\* A running request gives its blocks back and heads the queue.
PreemptForgets(x, id) == Free([x EXCEPT !.req[id] = Restart(@)], id)
Preempt(x, id) ==
  LET y == Free([x EXCEPT !.req[id] = Restart(@)], id)
  IN  [y EXCEPT !.queue = <<id>> \o @]

\* The loop that allocates a block to x.cur: the last preempted request is the
\* victim, or x.cur itself when there is no other.
MakeRoomItself(x) == Preempt([x EXCEPT !.cur = 0], x.cur)
MakeRoom(x) ==
  IF x.preempted # <<>>
  THEN Preempt([x EXCEPT !.preempted = Front(@)], Last(x.preempted))
  ELSE Preempt([x EXCEPT !.cur = 0], x.cur)

\* One turn of the loop over the waiting requests.
VLLMPromptTurn(c, x) ==
  LET id      == Head(x.queue)
      tokens  == NextTokens(x.req[id])
      longest == Max({tokens} \cup {x.batch[i].n : i \in DOMAIN x.batch})
      stops   == \/ ~CanAllocateRequest(c, x, id)
                 \/ (Len(x.batch) + 1) * longest > c.maxTokens
                 \/ Cardinality(Holders(x)) = c.cap
                 \/ Len(x.batch) = Micro(c)
  IN  IF x.queue = <<>> \/ stops THEN x
      ELSE AddToBatch(AllocateRequest(c, [x EXCEPT !.queue = Tail(@)], id),
                      id, tokens)

\* One turn of the loop over the running requests: take the next one, or
\* allocate to the one that was taken, or make room for it.
VLLMDecodeTurn(c, x) ==
  IF x.cur = 0
  THEN IF x.preempted = <<>> \/ Len(x.batch) = Micro(c) THEN x
       ELSE [x EXCEPT !.cur = Head(x.preempted), !.preempted = Tail(@)]
  ELSE IF CanAllocateRequest(c, x, x.cur)
  THEN [AddToBatch(AllocateRequest(c, x, x.cur), x.cur, NextTokens(x.req[x.cur]))
          EXCEPT !.cur = 0]
  ELSE MakeRoom(x)

VLLMPrompts(c, x) == Repeat(VLLMPromptTurn, c, x, Len(x.queue))

VLLMDecodes(c, x) ==
  Repeat(VLLMDecodeTurn, c, [x EXCEPT !.preempted = SortByArrival(c, @)],
         2 * Len(x.preempted))

VLLMNextBatch(c, x) ==
  Bind(LAMBDA p : IF p.batch # <<>> THEN p ELSE VLLMDecodes(c, p), VLLMPrompts(c, x))
=============================================================================
