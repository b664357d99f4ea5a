SPECIFICATION FairSpec
CONSTANTS
    Callers = {gui}
    Synced = {"video", "audio"}
    Crashes = FALSE
    FromThread = FALSE
    MaxDepth = 2
    MaxPeerCalls = 2
INVARIANTS InterruptStops PauseHolds ServedOnce
PROPERTIES CallReturns EndEnds GoesOn
\* A thread that has ended takes no more steps.
CHECK_DEADLOCK FALSE
