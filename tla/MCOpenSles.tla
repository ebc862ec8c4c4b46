----------------------------- MODULE MCOpenSles -----------------------------
(* The sound shim's instances for TLC.                                     *)
EXTENDS OpenSles

CONSTANTS p1, p2

\* SDL may open a device for p1 or refuse it; p2 is created and destroyed but
\* never realized.
OneRealized == [p \in Players |-> IF p = p1 THEN BOOLEAN ELSE {}]
=============================================================================
