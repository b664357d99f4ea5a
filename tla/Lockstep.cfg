SPECIFICATION Spec
CONSTANTS
    Players = {0, 1, 2}
    Joined = {0, 1}
    Offsets = {1}
    Interval = 2
    HardSyncInterval = 4
    Gain = 1
    Transfer = 3
    Never = 99
    MaxStep = 1
    MaxEvents = 8
    MaxCalls = 2
    MaxJoins = 1
INVARIANTS SomeoneAwake AwakeIsFree WaitIsAnswered InStep
PROPERTIES DataOnTime
\* A failed assertion ends the program, and nobody may be on the link.
CHECK_DEADLOCK FALSE
