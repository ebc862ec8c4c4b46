--------------------------- MODULE MCPthreadBridge ---------------------------
(* Two producers and two consumers, one of them with a deadline, at a mutex *)
(* and a condvar that nobody has used yet: the instance for TLC.            *)
EXTENDS PthreadBridge

CONSTANTS w1, w2, s1, s2

\* One of each side comes back for a second item.
Twice == [t \in Threads |-> IF t \in {w1, s1} THEN 2 ELSE 1]

BothTypes == {Normal, Recursive}
=============================================================================
