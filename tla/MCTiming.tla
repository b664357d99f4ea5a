------------------------------ MODULE MCTiming ------------------------------
EXTENDS Timing

CONSTANTS v, a, b

\* Two events of one priority, and a more urgent one.
MCPriority == [e \in {v, a, b} |-> IF e = b THEN 0 ELSE 1]
=============================================================================
