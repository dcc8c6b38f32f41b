SPECIFICATION Spec
CONSTANTS
    Users = {u1, u2, u3}
    NumSessions = 2
    NumDevices = 2
    MaxFaults = 3
INVARIANTS
    SoundSessions
    DamageBounded
CHECK_DEADLOCK FALSE
