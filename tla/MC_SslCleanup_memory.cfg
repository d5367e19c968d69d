CONSTANT Progs <- MCProgsMemory
SPECIFICATION Spec
CHECK_DEADLOCK FALSE
INVARIANT MemorySafe
