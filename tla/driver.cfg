SPECIFICATION Spec
CONSTANTS
    Invocations <- Calls
    DefaultInitial = 2
    N = 2
    OpsPerTs = 1
    MaxTimestamps = 1
    MaxBatches = 2
    Periods = 1
INVARIANTS
    
    WidthAllocated
    CheckHolds
    MeasuredAtRest
    LoopsAfterFill
PROPERTIES
    Termination
CHECK_DEADLOCK FALSE
