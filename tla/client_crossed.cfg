CONSTANTS
    Threads = {t1, t2}
    NumSlots = 2
    TokenSpace = 3
    MaxCalls = 3
    MaxInits = 1
SPECIFICATION Spec
INVARIANT NotAnothersReply
CHECK_DEADLOCK FALSE
