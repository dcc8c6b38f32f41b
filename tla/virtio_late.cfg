CONSTANTS
    Threads = {t1}
    NumSlots = 3
    TokenSpace = 4
    MaxCalls = 3
    MaxInits = 1
    VqSize = 2
    Integrated = TRUE
SPECIFICATION VSpec
INVARIANT OwnResponse
CHECK_DEADLOCK FALSE
