SPECIFICATION Spec
CONSTANTS
    v = v
    a = a
    b = b
    Events = {v, a, b}
    Video = v
    Priority <- MCPriority
    Delays = {1, 2}
    MaxDelay = 2
    MaxCycles = 2
    Wrap = 8
    MaxOps = 2
INVARIANTS NoneLost StopsInTime
PROPERTIES FiresInOrder NothingDue EventEnds
