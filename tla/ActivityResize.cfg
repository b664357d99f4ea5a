SPECIFICATION Spec
CONSTANTS
    Threads = {t1, t2}
    NoThread = NoThread
    InitResults = {TRUE}
    Resizes = TRUE
SYMMETRY ThreadSymmetry
INVARIANTS StopsWithSurface
\* A destroyed activity whose threads have ended takes no more steps.
CHECK_DEADLOCK FALSE
