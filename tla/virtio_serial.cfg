CONSTANTS
    Threads = {t1}
    NumSlots = 3
    TokenSpace = 2
    MaxCalls = 4
    MaxInits = 2
    VqSize = 2
    Integrated = TRUE
SPECIFICATION VSpec
INVARIANT OwnReply
INVARIANT AnswerNotLost
INVARIANT QueuesReady
INVARIANT PunctualOwnResponse
INVARIANT OneSlotPerCall
PROPERTY ClientSpec
CHECK_DEADLOCK FALSE
