SPECIFICATION Spec
CONSTANTS
    Host = 0
    Clients = {1, 2}
    Slots = 2
    MaxPackets = 3
    MaxBegins = 1
INVARIANTS NoneStranded RepliesAreCurrent
\* Nothing more is sent.
CHECK_DEADLOCK FALSE
