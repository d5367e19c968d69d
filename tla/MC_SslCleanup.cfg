CONSTANT Progs <- MCProgsAll
SPECIFICATION Spec
CHECK_DEADLOCK FALSE
INVARIANT TypeOK
INVARIANT NoMemoryFault
INVARIANT FailClosed
INVARIANT GivesOnlyOnSuccess
