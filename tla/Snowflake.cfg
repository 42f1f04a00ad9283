\* Two workers, three milliseconds of two ids, one clock set back once.
CONSTANTS
    NodeCount = 2
    SeqSize = 2
    Worker = {0, 1}
    MaxTime = 3
    MaxStepBacks = 1
    BehindAfterRestart = FALSE
SPECIFICATION Spec
CHECK_DEADLOCK FALSE
INVARIANT NoIdReused
PROPERTY WaitEnds
