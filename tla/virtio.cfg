CONSTANTS
    Threads = {t1, t2}
    NumSlots = 2
    TokenSpace = 2
    MaxCalls = 2
    MaxInits = 1
    VqSize = 1
    Integrated = TRUE
SPECIFICATION VSpec
INVARIANT CompletionConserved
PROPERTY ClientSpec
PROPERTY CallsReturn
CHECK_DEADLOCK FALSE
