SPECIFICATION Spec
CONSTANT Configs <- Clusters
INVARIANTS TypeOK OnePlace MemoryAccounted AssertionsHold Drained
PROPERTIES PipelineFIFO OldestKeepsBlocks AllComplete
CHECK_DEADLOCK FALSE
