SPECIFICATION Spec
CONSTANT Configs <- WithFasterTransformer
INVARIANTS Drained
CHECK_DEADLOCK FALSE
