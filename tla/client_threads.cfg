CONSTANTS
    Threads = {t1, t2}
    NumSlots = 3
    TokenSpace = 1
    MaxCalls = 3
    MaxInits = 2
SPECIFICATION Spec
INVARIANT TypeOK
INVARIANT LenHeld
INVARIANT TwoSlotsPerCall
PROPERTY DoneIsFinal
PROPERTY BusyOnlyWhenUsed
PROPERTY StrayCompletionExplained
CHECK_DEADLOCK FALSE
