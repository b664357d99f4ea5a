SPECIFICATION Spec
CONSTANTS
    QueueLimit = 5
    Corrupts = TRUE
INVARIANTS PresentsWholeFrame EventComesLast ReadsInStep
PROPERTIES CallReturns
\* A stranded call never returns.
CHECK_DEADLOCK FALSE
