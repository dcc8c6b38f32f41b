CONSTANTS
    NumChannels = 2
    ShmAreas = 1
    Callers <- MCCallers
    MaxCalls = 3
    MaxTotal = 3
SPECIFICATION Spec
INVARIANT TypeOK
INVARIANT AcceptedMeansServed
INVARIANT OneOutstanding
INVARIANT DoorbellSeen
PROPERTY FetchExplained
PROPERTY DispatchEchoes
PROPERTY ExchangeSpec
CHECK_DEADLOCK FALSE
