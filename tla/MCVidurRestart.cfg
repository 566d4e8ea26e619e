SPECIFICATION Spec
CONSTANT Configs <- WithSarathi
INVARIANT PromptKept
CHECK_DEADLOCK FALSE
