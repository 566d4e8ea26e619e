----------------------- MODULE LightLLMReplicaScheduler -----------------------
(* LightLLM's batching (lightllm_replica_scheduler.py): a block is a token, a  *)
(* request is admitted when the most tokens that will ever be held at once, by *)
(* an estimate from the lengths of all requests, stays below the pool. Prompts *)
(* are looked at when nothing runs, or after max_waiting_iters decodes.        *)
EXTENDS BaseReplicaScheduler

\* _get_tuple_tokens: what a request holds, and what it has still to decode.
HasRun(r) == IF r.scheduled THEN r.processed ELSE r.prefill + 1
LeftOut(r) ==
  Max({0, IF r.scheduled
          THEN r.decode - Max({r.processed - r.prefill, 0}) - 1
          ELSE r.decode - 2})

\* The peak: while the requests with the most left run on, each of them grows
\* by the tokens after which the next one of them is done.
NeedMaxTokensNow(x, ids) == SumFunction([k \in ids |-> HasRun(x.req[k])])
NeedMaxTokens(x, ids) ==
  Max({LET longer == {k \in ids : LeftOut(x.req[k]) >= LeftOut(x.req[id])}
       IN  LeftOut(x.req[id]) * Cardinality(longer)
             + SumFunction([k \in longer |-> HasRun(x.req[k])]) : id \in ids})

LightLLMAllocate(c, x, id) ==
  Allocate(c, x, id, IF id \in Holders(x) THEN 1 ELSE x.req[id].prefill)

LightLLMPromptTurn(c, x) ==
  LET id    == Head(x.queue)
      n     == NextTokens(x.req[id])
      known == ToSet(x.preempted) \cup {x.batch[i].id : i \in DOMAIN x.batch}
      stops == \/ BatchTokens(x) + n > c.maxTokens
               \/ Cardinality(Holders(x)) = c.cap
               \/ Len(x.batch) = Micro(c)
               \/ NeedMaxTokens(x, known \cup {id}) >= c.numBlocks
  IN  IF x.queue = <<>> \/ stops THEN x
      ELSE AddToBatch(LightLLMAllocate(c, [x EXCEPT !.queue = Tail(@)], id), id, n)

PrefillBatch(c, x) ==
  Repeat(LightLLMPromptTurn, c, x, Len(x.queue))

LightLLMDecodeTurn(c, x, id) ==
  LET y == [x EXCEPT !.ok = @ /\ Len(x.batch) < Micro(c) /\ CanAllocate(c, x, 1)]
  IN  AddToBatch(LightLLMAllocate(c, y, id), id, NextTokens(x.req[id]))

DecodeBatch(c, x) ==
  ForEach(LightLLMDecodeTurn, c, [x EXCEPT !.preempted = <<>>], x.preempted)

\* Without room for a token of every running request the code raises an
\* exception: "OOM handling not implemented yet".
LightLLMNextBatch(c, x) ==
  LET prompts == PrefillBatch(c, [x EXCEPT !.waiting = 0])
      waited  == x.waiting >= c.maxWait
      Decode(y) == IF CanAllocate(c, y, Len(y.preempted))
                   THEN DecodeBatch(c, [y EXCEPT !.waiting = @ + 1])
                   ELSE [y EXCEPT !.ok = FALSE]
  IN  CASE x.preempted = <<>> ->
             Bind(LAMBDA p : IF p.batch # <<>> THEN p ELSE x, prompts)
        [] x.preempted # <<>> /\ waited ->
             Bind(LAMBDA p : IF p.batch # <<>> THEN p ELSE Decode(p), prompts)
        [] x.preempted # <<>> /\ ~waited -> Decode(x)
=============================================================================
