-------------------------- MODULE MCVidurSimulator --------------------------
(* Small clusters for VidurSimulator: pools in which not all requests fit at   *)
(* once, so that they wait, lose their blocks and start again.                 *)
EXTENDS VidurSimulator

VLLM ==
  [kind |-> "vllm", policy |-> "round_robin", replicas |-> 1, prefills |-> 0,
   stages |-> 1, numBlocks |-> 5, blockSize |-> 2, seqBlocks |-> 4,
   watermark |-> 0, cap |-> 3, maxBatch |-> 2, maxTokens |-> 12, chunk |-> 3,
   maxWait |-> 1, prompt |-> <<2, 3, 1, 2>>, output |-> <<4, 3, 4, 4>>,
   arrivedAt |-> <<1, 2, 2, 3>>]

VLLMPipeline ==
  [VLLM EXCEPT !.stages = 2, !.numBlocks = 6, !.watermark = 1, !.cap = 4]

VLLMReplicas ==
  [VLLM EXCEPT !.policy = "lor", !.replicas = 2, !.numBlocks = 4, !.cap = 4]

SarathiPipeline ==
  [VLLM EXCEPT !.kind = "sarathi", !.stages = 2, !.cap = 4,
               !.prompt = <<4, 2, 3, 2>>, !.output = <<2, 4, 3, 3>>]

SarathiReplicas ==
  [VLLM EXCEPT !.kind = "sarathi", !.policy = "random", !.replicas = 2, !.numBlocks = 4,
               !.chunk = 2, !.prompt = <<4, 2, 3>>, !.output = <<2, 4, 3>>,
               !.arrivedAt = <<1, 1, 2>>]

Orca == [VLLM EXCEPT !.kind = "orca", !.stages = 2, !.numBlocks = 8]

LightLLM ==
  [VLLM EXCEPT !.kind = "lightllm", !.numBlocks = 9, !.blockSize = 1, !.seqBlocks = 7]

PrefillAndDecodes ==
  [SarathiReplicas EXCEPT !.kind = "splitwise", !.replicas = 3, !.prefills = 1,
                          !.numBlocks = 8]

PrefillAndDecodePipelines ==
  [PrefillAndDecodes EXCEPT !.replicas = 2, !.stages = 2, !.cap = 4]

FasterTransformer ==
  [VLLM EXCEPT !.kind = "faster_transformer", !.numBlocks = 8,
               !.prompt = <<2, 2>>, !.output = <<2, 3>>, !.arrivedAt = <<1, 1>>]

Clusters ==
  {VLLM, VLLMPipeline, VLLMReplicas, SarathiPipeline, SarathiReplicas, Orca, LightLLM,
   PrefillAndDecodes, PrefillAndDecodePipelines}

WithFasterTransformer == {FasterTransformer}
WithSplitwise == {PrefillAndDecodePipelines}
WithSarathi == {SarathiPipeline}
=============================================================================
