---------------------------- MODULE VidurSimulator ----------------------------
(* The inference simulator of vidur: the loop over the event queue             *)
(* (vidur/simulator.py), the events, the global schedulers, the replicas with  *)
(* their schedulers and their pipeline stages.                                 *)
(*                                                                             *)
(* Time is abstracted to order. The events due at the present time are `now`,  *)
(* in the order of their ids, which is the order in which they were made. What *)
(* was made for a later time is `future`, again by id; when nothing is due any *)
(* more, any of it may be due next, several events at once included: how long  *)
(* a batch or a transfer takes is unknown. A request arrives before what is    *)
(* due at the same time, since its event was made first.                       *)
(*                                                                             *)
(* A definition that stands right before the one whose name its own name       *)
(* extends is that definition with a plausible fault.                          *)
EXTENDS VLLMReplicaScheduler, SarathiReplicaScheduler, OrcaReplicaScheduler,
        LightLLMReplicaScheduler

CONSTANT Configs    \* the configurations and workloads to start from

\* Times are numbered by the arrivals. A request has a token to prefill and two
\* to decode: with one, on_batch_end would find a decode_time of 0.
WellFormed(c) ==
  /\ c.kind \in {"vllm", "sarathi", "orca", "faster_transformer", "lightllm", "splitwise"}
  /\ c.policy \in {"round_robin", "lor", "random"}
  /\ c.replicas \in Nat /\ c.prefills \in Nat /\ c.stages \in Nat /\ c.arrivedAt \in Seq(Nat)
  /\ c.stages >= 1 /\ c.cap >= c.stages /\ c.maxBatch >= 1 /\ c.chunk >= 1
  /\ c.kind = "splitwise" => 0 < c.prefills /\ c.prefills < c.replicas
  /\ c.kind = "lightllm" => c.stages = 1 /\ c.blockSize = 1
  /\ DOMAIN c.arrivedAt = DOMAIN c.prompt /\ DOMAIN c.arrivedAt = DOMAIN c.output
  /\ Range(c.arrivedAt) = 1..Cardinality(Range(c.arrivedAt))
  /\ \A id \in DOMAIN c.arrivedAt : c.prompt[id] >= 1 /\ c.output[id] >= 2

\* A replica that has nothing else to do can run the request to its end, also
\* when its whole text has become its prompt. No code tests this: a request for
\* which it is not so waits at the head of the queue for ever.
Fits(c, id) ==
  LET total == c.prompt[id] + c.output[id]
  IN  /\ total <= c.maxTokens
      /\ total < (c.numBlocks - c.watermark) * c.blockSize
      /\ c.seqBlocks <= c.numBlocks /\ total <= c.seqBlocks * c.blockSize

ASSUME ConfigsAssumption ==
  \A c \in Configs : WellFormed(c) /\ \A id \in DOMAIN c.prompt : Fits(c, id)

VARIABLES
  cfg,           \* the configuration, fixed from the start
  now, future,   \* the event queue
  arrived,       \* the time up to which requests have arrived
  requestQueue,  \* _request_queue of the global scheduler
  counter,       \* its _request_counter
  decodeOn,      \* decode_replica_id of every request, 0 for none
  request,       \* the requests
  sched,         \* the scheduler of every replica
  stage,         \* the stage schedulers of every replica
  failed         \* an assertion failed, or an exception was raised

vars == <<cfg, now, future, arrived, requestQueue, counter, decodeOn, request,
          sched, stage, failed>>

Requests == DOMAIN cfg.arrivedAt
Replicas == 1..cfg.replicas
Stages == 1..cfg.stages
Splitwise == cfg.kind = "splitwise"
IsPrefill(rep) == rep <= cfg.prefills     \* replica_type, set by the global scheduler
IsLast(st) == st = cfg.stages             \* is_last_stage

\* Events; the fields a kind of event has no use for are 0 or empty.
Event(kind, rep, st, id, batch) ==
  [kind |-> kind, rep |-> rep, stage |-> st, id |-> id, batch |-> batch]
ArrivalEvent(id) == Event("arrival", 0, 0, id, <<>>)
GlobalScheduleEvent == Event("global", 0, 0, 0, <<>>)
ReplicaScheduleEvent(rep) == Event("replica", rep, 0, 0, <<>>)
StageArrivalEvent(rep, st, batch) == Event("stage_arrival", rep, st, 0, batch)
StageScheduleEvent(rep, st) == Event("stage", rep, st, 0, <<>>)
StageEndEvent(rep, st, batch) == Event("stage_end", rep, st, 0, batch)
BatchEndEvent(rep, batch) == Event("batch_end", rep, 0, 0, batch)

\* The ReplicaScheduleEvent of the decode replica at decode_arrived_at, when
\* the key-value cache of request id has arrived there.
TransferEventAtPrefill(rep, id) == Event("replica", 1, 0, id, <<>>)
TransferEvent(rep, id) == Event("replica", rep, 0, id, <<>>)

IsEvent(kind) == now # <<>> /\ Head(now).kind = kind /\ ~failed

\* The event is handled: it makes others, for the same time and for later.
Handled(same, later) ==
  /\ now' = Tail(now) \o same
  /\ future' = future \o later

Init ==
  /\ cfg \in Configs
  /\ now = <<>>
  /\ future = <<>>
  /\ arrived = 0
  /\ requestQueue = <<>>
  /\ counter = 0
  /\ decodeOn = [id \in Requests |-> 0]
  /\ request = [id \in Requests |-> NewRequest(cfg.prompt[id], cfg.output[id])]
  /\ sched = [rep \in Replicas |-> NewScheduler(Requests)]
  /\ stage = [rep \in Replicas |-> [st \in Stages |-> [queue |-> <<>>, busy |-> FALSE]]]
  /\ failed = FALSE

\* The loop pops the first event of a later time.
Advance ==
  /\ now = <<>> /\ ~failed
  /\ \E due \in SUBSET DOMAIN future, t \in {arrived, arrived + 1} :
       LET arrivals == {id \in Requests : t > arrived /\ cfg.arrivedAt[id] = t}
       IN  /\ arrivals # {} \/ (t = arrived /\ due # {})
           /\ now' = Picked(arrivals, [id \in Requests |-> ArrivalEvent(id)])
                       \o Picked(due, future)
           /\ future' = Picked(DOMAIN future \ due, future)
           /\ arrived' = t
  /\ UNCHANGED <<cfg, requestQueue, counter, decodeOn, request, sched, stage, failed>>

\* RequestArrivalEvent
RequestArrival ==
  /\ IsEvent("arrival")
  /\ requestQueue' = Append(requestQueue, Head(now).id)
  /\ Handled(<<GlobalScheduleEvent>>, <<>>)
  /\ UNCHANGED <<cfg, arrived, counter, decodeOn, request, sched, stage, failed>>

-----------------------------------------------------------------------------
(* Global schedulers: the replicas to which the queue q may be mapped.        *)

RoundRobin(q) == {[i \in DOMAIN q |-> ((counter + i - 1) % cfg.replicas) + 1]}

Random(q) == [DOMAIN q -> Replicas]

\* Least outstanding requests: the first replica with the shortest queue,
\* where the requests mapped so far count.
Lor(q) ==
  LET Choice(m, id) ==
        LET load(rep) == Len(sched[rep].queue)
                           + Cardinality({i \in DOMAIN m : m[i] = rep})
            least == {rep \in Replicas : \A k \in Replicas : load(rep) <= load(k)}
        IN  Append(m, Min(least))
  IN  {FoldLeft(Choice, <<>>, q)}

\* Both round robins of the Splitwise scheduler count every request.
SplitwisePrefill(q) == {[i \in DOMAIN q |-> ((counter + i - 1) % cfg.prefills) + 1]}
SplitwiseDecode(n) == (n % (cfg.replicas - cfg.prefills)) + cfg.prefills + 1

Mappings(q) ==
  IF Splitwise THEN SplitwisePrefill(q)
  ELSE CASE cfg.policy = "round_robin" -> RoundRobin(q)
         [] cfg.policy = "lor" -> Lor(q)
         [] cfg.policy = "random" -> Random(q)

\* GlobalScheduleEvent
GlobalSchedule ==
  /\ IsEvent("global")
  /\ LET q == SortByArrival(cfg, requestQueue)
     IN  \E m \in Mappings(q) :
           LET given(rep) == Picked({i \in DOMAIN q : m[i] = rep}, q)
           IN  /\ sched' = [rep \in Replicas |->
                              [sched[rep] EXCEPT !.queue = @ \o given(rep)]]
               /\ decodeOn' =
                    [id \in Requests |->
                       IF Splitwise /\ id \in ToSet(q)
                       THEN SplitwiseDecode(counter + SelectInSeq(q, LAMBDA k : k = id) - 1)
                       ELSE decodeOn[id]]
               /\ Handled(Picked(Range(m), [rep \in Replicas |-> ReplicaScheduleEvent(rep)]),
                          <<>>)
  /\ requestQueue' = <<>>
  /\ counter' = IF Splitwise \/ cfg.policy = "round_robin"
                THEN counter + Len(requestQueue) ELSE counter
  /\ UNCHANGED <<cfg, arrived, request, stage, failed>>

-----------------------------------------------------------------------------
(* A replica                                                                  *)

NextBatch(rep, x) ==
  CASE cfg.kind = "vllm" -> VLLMNextBatch(cfg, x)
    [] cfg.kind = "sarathi" -> SarathiNextBatch(cfg, x)
    [] cfg.kind = "orca" -> OrcaNextBatch(cfg, x)
    [] cfg.kind = "faster_transformer" -> FasterTransformerNextBatch(cfg, x)
    [] cfg.kind = "lightllm" -> LightLLMNextBatch(cfg, x)
    [] Splitwise -> SplitwiseNextBatch(cfg, IsPrefill(rep), x)

BatchIds(batch) == {batch[i].id : i \in DOMAIN batch}

\* on_schedule: batches are made while the pipeline has a free place, until
\* there is none to make. `made` collects them.
FillTurn(rep, z) ==
  LET Take(y) ==
        IF y.batch = <<>> \/ ~y.ok THEN [z EXCEPT !.x = y, !.stop = TRUE]
        ELSE [z EXCEPT !.x    = [y EXCEPT !.running = @ + 1, !.batch = <<>>],
                       !.made = Append(@, y.batch)]
  IN  IF z.x.running >= cfg.stages \/ z.stop THEN z
      ELSE Bind(Take, NextBatch(rep, z.x))

FillPipeline(rep, x) ==
  Repeat(FillTurn, rep, [x |-> x, made |-> <<>>, stop |-> FALSE], cfg.stages)

\* ReplicaScheduleEvent
ReplicaSchedule ==
  /\ IsEvent("replica")
  /\ \E rep \in {Head(now).rep} :
     \E z \in {FillPipeline(rep, Opened(sched[rep], request))} :
       LET ids == UNION {BatchIds(z.made[i]) : i \in DOMAIN z.made}
       IN  /\ sched' = [sched EXCEPT ![rep] = Closed(@, z.x)]
           /\ request' = [id \in Requests |->
                            IF id \in ids THEN OnBatchSchedule(z.x.req[id]) ELSE z.x.req[id]]
           /\ failed' = ~z.x.ok
           /\ Handled([i \in DOMAIN z.made |-> StageArrivalEvent(rep, 1, z.made[i])], <<>>)
  /\ UNCHANGED <<cfg, arrived, requestQueue, counter, decodeOn, stage>>

\* BatchStageArrivalEvent
BatchStageArrival ==
  /\ IsEvent("stage_arrival")
  /\ LET e == Head(now)
     IN  /\ stage' = [stage EXCEPT ![e.rep][e.stage].queue = Append(@, e.batch)]
         /\ Handled(<<StageScheduleEvent(e.rep, e.stage)>>, <<>>)
  /\ UNCHANGED <<cfg, arrived, requestQueue, counter, decodeOn, request, sched, failed>>

\* ReplicaStageScheduler.on_schedule: an idle stage takes its next batch.
StageTakesBusy(s) == s.queue # <<>>
StageTakes(s) == ~s.busy /\ s.queue # <<>>

\* ReplicaStageScheduleEvent
ReplicaStageSchedule ==
  /\ IsEvent("stage")
  /\ LET e == Head(now)
         s == stage[e.rep][e.stage]
     IN  IF StageTakes(s)
         THEN /\ stage' = [stage EXCEPT ![e.rep][e.stage] =
                             [queue |-> Tail(s.queue), busy |-> TRUE]]
              /\ Handled(<<>>, <<StageEndEvent(e.rep, e.stage, Head(s.queue))>>)
         ELSE /\ UNCHANGED stage
              /\ Handled(<<>>, <<>>)
  /\ UNCHANGED <<cfg, arrived, requestQueue, counter, decodeOn, request, sched, failed>>

\* BatchStageEndEvent
BatchStageEnd ==
  /\ IsEvent("stage_end")
  /\ LET e == Head(now)
     IN  /\ stage' = [stage EXCEPT ![e.rep][e.stage].busy = FALSE]
         /\ Handled(<<StageScheduleEvent(e.rep, e.stage),
                      IF IsLast(e.stage) THEN BatchEndEvent(e.rep, e.batch)
                      ELSE StageArrivalEvent(e.rep, e.stage + 1, e.batch)>>, <<>>)
  /\ UNCHANGED <<cfg, arrived, requestQueue, counter, decodeOn, request, sched, failed>>

SchedulerEnd(rep, x, batch) ==
  CASE cfg.kind = "faster_transformer" -> FasterTransformerEnd(cfg, x, batch)
    [] Splitwise -> SplitwiseEnd(IsPrefill(rep), x, batch)
    [] OTHER -> IterationEnd(cfg, x, batch)

\* Batch.on_batch_end
BatchDone(batch) ==
  ForEach(LAMBDA c, req, e : [req EXCEPT ![e.id] = OnBatchEnd(@, e.n)],
          cfg, request, batch)

\* The batch of e has made req of the requests and x of the replica's scheduler.
\* On a prefill replica every request with its first token moves to its decode
\* replica: into its queue at once, while the event that starts its decoding is
\* due when the cache has arrived.
Finish(e, req, x) ==
  LET moved == {i \in DOMAIN e.batch :
                  Splitwise /\ IsPrefill(e.rep) /\ req[e.batch[i].id].prefilled}
      transfers == [i \in DOMAIN e.batch |->
                      TransferEvent(decodeOn[e.batch[i].id], e.batch[i].id)]
      given(rep) == {i \in DOMAIN x.prefills : decodeOn[x.prefills[i]] = rep}
  IN  /\ request' = req
      /\ sched' = [rep \in Replicas |->
                     IF rep = e.rep THEN Closed(sched[rep], x)
                     ELSE [sched[rep] EXCEPT !.queue =
                             @ \o Picked(given(rep), x.prefills)]]
      /\ failed' = ~(/\ x.ok
                     /\ \A i \in DOMAIN e.batch :
                          OnBatchEndAsserts(request[e.batch[i].id], e.batch[i].n)
                     /\ \A i \in moved : LET r == req[e.batch[i].id]
                                         IN  r.processed = r.prefill + 1)
      /\ Handled(<<ReplicaScheduleEvent(e.rep)>>, Picked(moved, transfers))

\* BatchEndEvent
BatchEnd ==
  /\ IsEvent("batch_end")
  /\ \E e \in {Head(now)}, req \in {BatchDone(Head(now).batch)} :
     \E x \in {SchedulerEnd(e.rep, Opened(sched[e.rep], req), e.batch)} : Finish(e, req, x)
  /\ UNCHANGED <<cfg, arrived, requestQueue, counter, decodeOn, stage>>

\* The event queue is empty, and every request has arrived.
Ended == now = <<>> /\ future = <<>> /\ \A id \in Requests : cfg.arrivedAt[id] <= arrived

Next ==
  \/ Advance \/ RequestArrival \/ GlobalSchedule \/ ReplicaSchedule
  \/ BatchStageArrival \/ ReplicaStageSchedule \/ BatchStageEnd \/ BatchEnd

\* The loop never stops while the queue has an event.
Spec == Init /\ [][Next]_vars /\ WF_vars(Next)

-----------------------------------------------------------------------------
(* Properties                                                                 *)

\* The batches inside a replica's pipeline, the oldest first: finished ones,
\* then stage by stage, from the last to the first, the one that is executed
\* and those that wait for the stage.
Batches(kind, rep, st, es) ==
  Picked({i \in DOMAIN es : es[i].kind = kind /\ es[i].rep = rep /\ es[i].stage = st},
         [i \in DOMAIN es |-> es[i].batch])
AtStage(rep, st) ==
  Batches("stage_end", rep, st, now \o future) \o stage[rep][st].queue
    \o Batches("stage_arrival", rep, st, now)
InPipeline(rep) ==
  Batches("batch_end", rep, 0, now)
    \o FlattenSeq([i \in Stages |-> AtStage(rep, cfg.stages + 1 - i)])

RunningOn(rep) == UNION {BatchIds(InPipeline(rep)[i]) : i \in DOMAIN InPipeline(rep)}
HeldOn(rep) ==
  UNION {{id \in BatchIds(sched[rep].held[i]) : ~request[id].completed} :
           i \in DOMAIN sched[rep].held}

TypeOK ==
  /\ cfg \in Configs
  /\ arrived \in Nat /\ counter \in Nat /\ failed \in BOOLEAN
  /\ requestQueue \in Seq(Requests)
  /\ decodeOn \in [Requests -> 0..cfg.replicas]
  /\ \A id \in Requests :
       /\ request[id].prefill \in Nat /\ request[id].decode \in Nat
       /\ request[id].processed \in 0..TotalTokens(request[id])
  /\ \A rep \in Replicas :
       /\ sched[rep].queue \in Seq(Requests)
       /\ sched[rep].preempted \in Seq(Requests)
       /\ sched[rep].alloc \in [Requests -> 0..cfg.numBlocks]
       /\ sched[rep].used \in 0..cfg.numBlocks
       /\ sched[rep].running \in 0..cfg.stages
  /\ \A i \in DOMAIN (now \o future) : (now \o future)[i].rep \in 0..cfg.replicas

\* Every request that has arrived is in exactly one place: on its way to a
\* replica, or on one replica waiting, preempted or in one running batch, or
\* completed. In particular a request that moves from a prefill to a decode
\* replica, is restarted, or is pushed back is neither lost nor doubled.
OnePlace ==
  \A id \in Requests :
    LET times(q) == Cardinality({i \in DOMAIN q : q[i] = id})
        places(rep) ==
          times(sched[rep].queue) + times(sched[rep].preempted)
            + Cardinality({i \in DOMAIN sched[rep].held :
                             id \in BatchIds(sched[rep].held[i]) /\ ~request[id].completed})
            + Cardinality({i \in DOMAIN InPipeline(rep) : id \in BatchIds(InPipeline(rep)[i])})
        coming == Cardinality({i \in DOMAIN now : now[i] = ArrivalEvent(id)})
    IN  (IF request[id].completed THEN 1 ELSE 0) + times(requestQueue) + coming
          + SumFunction([rep \in Replicas |-> places(rep)])
        = IF cfg.arrivedAt[id] <= arrived THEN 1 ELSE 0

\* The pool is accounted for: the blocks in use are those of the map, the map
\* has exactly the requests that were admitted and are not done, a batch in
\* the pipeline has the blocks for every token it computes, and the KV cache
\* the replica of Splitwise tracks is that of the blocks.
MemoryAccounted ==
  \A rep \in Replicas :
    LET s == sched[rep]
    IN  /\ s.used = SumFunction(s.alloc)
        /\ Holders(s) = ToSet(s.preempted) \cup RunningOn(rep) \cup HeldOn(rep)
        /\ \A id \in RunningOn(rep) : request[id].processed <= s.alloc[id] * cfg.blockSize
        /\ Splitwise => \A id \in Requests : s.kv[id] = s.alloc[id] * cfg.blockSize

\* No assertion of the schedulers and requests fails and no exception is
\* raised: no block is allocated beyond the pool or freed twice, a decode needs
\* one block at most, LightLLM's estimate never lets the pool run out.
AssertionsHold == ~failed

\* The final assertion of Simulator.run, scheduler.is_empty(): when no event
\* is left nobody waits, nobody holds a block and no stage has a batch.
Drained ==
  Ended => /\ requestQueue = <<>>
           /\ \A rep \in Replicas :
                /\ sched[rep].queue = <<>>
                /\ Holders(sched[rep]) = {}
                /\ \A st \in Stages : stage[rep][st].queue = <<>>

\* A decode replica admits a request when its key-value cache has arrived, and
\* not while the transfer is under way.
DecodeAfterTransfer ==
  \A i \in DOMAIN future :
    LET e == future[i]
    IN  e.kind = "replica" /\ e.id # 0 => e.id \notin Holders(sched[e.rep])

\* "When we restart the request, we can process all the previously decoded
\* tokens in parallel (i.e., we can prefill all the tokens)", says
\* Request.restart: what is decoded adds to the prompt, which is never cut.
PromptKept == \A id \in Requests : request[id].prefill >= cfg.prompt[id]

\* With a single stage, vLLM's preemption never reaches the oldest request while
\* a younger one has blocks: the oldest gets on, and with it everybody.
OldestKeepsBlocks ==
  [][cfg.kind = "vllm" /\ cfg.stages = 1 =>
       \A rep \in Replicas : \A id \in Holders(sched[rep]) :
         LET others == Holders(sched[rep]) \ {id}
         IN  others # {} /\ (\A k \in others : cfg.arrivedAt[id] < cfg.arrivedAt[k])
               => id \in Holders(sched'[rep]) \/ request'[id].completed]_vars

\* Every request is completed in the end: nobody is preempted for ever, and no
\* request waits for an event that never comes.
AllComplete == <>(\A id \in Requests : request[id].completed)

\* The stages of a replica are a FIFO pipeline.
Pipeline == INSTANCE AbstractPipeline WITH
  depth <- cfg.stages, flight <- [rep \in Replicas |-> InPipeline(rep)]
PipelineFIFO == Pipeline!Spec
=============================================================================
