SPECIFICATION CSpec
CONSTANTS
    Buses = {b1, b2}
    NumChips = 2
    NumHandles = 2
    MaxOps = 3
    I2cBuses = {i1}
    MaxMsgs = 1
    MaxXfers = 2
    ClockOf <- MCClockOf
INVARIANTS
    CTypeOK
    InvalidOnlyByClose
    BusyOnlyByRace
    OpenersDistinct
    RateOwnOrOvertaken
SYMMETRY SpiSymmetry
CHECK_DEADLOCK FALSE
