SPECIFICATION FairSpec
CONSTANTS
    Threads = {t1, t2}
    NoThread = NoThread
    InitResults = {TRUE, FALSE}
    Resizes = FALSE
INVARIANTS FlagsAgree FramesOnLiveBridge
PROPERTIES StoppedThreadEnds ResumedThreadRenders PlaybackSpec
\* A destroyed activity whose threads have ended takes no more steps.
CHECK_DEADLOCK FALSE
