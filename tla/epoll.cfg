SPECIFICATION Spec
CONSTANTS
    NumChannels = 2
    MaxRequests = 4
    FifoCap = 3
    Batch = 2
    StoresPointer = TRUE
    Polls = 1
INVARIANTS
    TypeOK
    EachInOnePlace
    StrandedOnlyByFullBatch
    OwnTurnUnlessDisturbed
    BusyHasWaiter
PROPERTIES
    ReadsOwnOrLater
    LeavesFifo
    RequestsLiveInOrder
CHECK_DEADLOCK FALSE
