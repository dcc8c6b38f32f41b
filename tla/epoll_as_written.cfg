SPECIFICATION Spec
CONSTANTS
    NumChannels = 2
    MaxRequests = 2
    FifoCap = 2
    Batch = 2
    StoresPointer = FALSE
    Polls = 0
INVARIANT WorkerTakesRequests
CHECK_DEADLOCK FALSE
