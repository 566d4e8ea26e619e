----------------------- MODULE SarathiReplicaScheduler -----------------------
(* Sarathi's batching (sarathi_replica_scheduler.py): every batch has at most *)
(* chunk_size tokens, decodes first, then the prompts that are under way,     *)
(* then new ones. Blocks are handed out as by vLLM (the code is a copy).      *)
EXTENDS VLLMReplicaScheduler

SarathiTokens(c, x, r) ==
  IF r.prefilled THEN 1
  ELSE Max({0, Min({r.prefill - r.processed, c.chunk - BatchTokens(x)})})

\* One turn of the loop over the preempted requests: an unfinished prompt is
\* set aside. A decode always has one token, so that none is skipped here.
SarathiDecodeTurn(c, x) ==
  IF x.cur = 0
  THEN IF x.preempted = <<>> \/ Len(x.batch) = Micro(c) THEN x
       ELSE IF x.req[Head(x.preempted)].prefilled
       THEN [x EXCEPT !.cur = Head(x.preempted), !.preempted = Tail(@)]
       ELSE [x EXCEPT !.prefills  = Append(@, Head(x.preempted)),
                      !.preempted = Tail(@)]
  ELSE IF CanAllocateRequest(c, x, x.cur)
  THEN [AddToBatch(AllocateRequest(c, x, x.cur), x.cur, 1) EXCEPT !.cur = 0]
  ELSE MakeRoom(x)

\* The loop over running_prefills: each gets what is left of the chunk, and is
\* skipped, back to the preempted ones, when that is nothing.
RunningPrefillTurn(c, x, id) ==
  LET n == SarathiTokens(c, x, x.req[id])
  IN  IF n = 0 THEN [x EXCEPT !.prefills = Append(@, id)]
      ELSE AddToBatch(x, id, n)

RunningPrefills(c, x) ==
  Bind(LAMBDA y : [y EXCEPT !.preempted = SortByArrival(c, y.prefills \o @),
                            !.prefills  = <<>>],
       ForEach(RunningPrefillTurn, c, [x EXCEPT !.prefills = <<>>], x.prefills))

\* One turn of the loop over the waiting requests.
SarathiPromptTurn(c, x) ==
  LET id    == Head(x.queue)
      n     == SarathiTokens(c, x, x.req[id])
      stops == \/ Cardinality(Holders(x)) = c.cap
               \/ Len(x.batch) = Micro(c)
               \/ ~CanAllocateRequest(c, x, id)
               \/ n = 0
  IN  IF x.queue = <<>> \/ stops THEN x
      ELSE AddToBatch(AllocateRequest(c, [x EXCEPT !.queue = Tail(@)], id), id, n)

SarathiNextBatch(c, x) ==
  LET Decodes    == Repeat(SarathiDecodeTurn, c, x, 2 * Len(x.preempted))
      Prompts(r) == Repeat(SarathiPromptTurn, c, r, Len(r.queue))
  IN  Bind(Prompts, Bind(LAMBDA d : RunningPrefills(c, d), Decodes))
=============================================================================
