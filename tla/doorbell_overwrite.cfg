CONSTANTS
    NumChannels = 1
    ShmAreas = 2
    Callers <- MCOneCaller
    MaxCalls = 3
    MaxTotal = 3
SPECIFICATION Spec
PROPERTY ReplyOverwritesNoRequest
CHECK_DEADLOCK FALSE
