SPECIFICATION Spec
CONSTANTS
    Players = {0, 1, 2}
    Joined = {0, 1, 2}
    Offsets = {1}
    Interval = 2
    HardSyncInterval = 4
    Gain = 1
    Transfer = 3
    Never = 99
    MaxStep = 1
    MaxEvents = 8
    MaxCalls = 0
    MaxJoins = 1
INVARIANTS SomeoneAwake
\* A failed assertion ends the program, and nobody may be on the link.
CHECK_DEADLOCK FALSE
