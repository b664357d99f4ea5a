SPECIFICATION FairSpec
CONSTANTS
    Callers = {gui}
    Synced = {"video", "audio"}
    Crashes = TRUE
    FromThread = TRUE
    MaxDepth = 1
    MaxPeerCalls = 1
PROPERTIES CallReturns GoesOn
\* A thread that has ended takes no more steps.
CHECK_DEADLOCK FALSE
