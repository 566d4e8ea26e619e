SPECIFICATION Spec
CONSTANT Configs <- WithSplitwise
INVARIANTS DecodeAfterTransfer
CHECK_DEADLOCK FALSE
