-------------------------------- MODULE Pipe --------------------------------
(***************************************************************************)
(* What a ring buffer promises the two threads that share it: items come   *)
(* out whole, in the order in which they went in, and each of them once.   *)
(***************************************************************************)
EXTENDS Naturals, Sequences

VARIABLES
    next,    \* number of the next item to go in
    unread,  \* the items that are in
    last     \* whose bytes the last read returned

vars == <<next, unread, last>>

Init ==
    /\ next = 1
    /\ unread = <<>>
    /\ last = {}

Put ==
    /\ unread' = Append(unread, next)
    /\ next' = next + 1
    /\ UNCHANGED last

Take ==
    /\ unread # <<>>
    /\ unread' = Tail(unread)
    /\ last' = {Head(unread)}
    /\ UNCHANGED next

Drop ==
    /\ unread' = <<>>
    /\ UNCHANGED <<next, last>>

Next == Put \/ Take \/ Drop

Spec == Init /\ [][Next]_vars
=============================================================================
