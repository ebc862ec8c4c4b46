--------------------------- MODULE AtomicInstall ---------------------------
(***************************************************************************)
(* What the importer promises of the installed payload, with no stage,     *)
(* backup, journal or crash in sight: it is switched from one whole        *)
(* payload to another in one step, the step that certifies it.  A failed   *)
(* or interrupted import changes nothing.                                  *)
(***************************************************************************)
CONSTANTS Roots, None, Recipes, Valid, InitialPayloads, TamperTo

VARIABLES payload, certificate

Init == payload \in InitialPayloads /\ certificate = None

\* A payload the recipe accepts replaces the installed one and is certified.
Publish ==
    \E r \in Recipes : \E new \in Valid[r] :
        /\ payload' = new
        /\ certificate' = [recipe |-> r, items |-> new]

\* An installed payload without a certificate that fits is accepted as it is.
Adopt ==
    \E r \in Recipes :
        /\ payload \in Valid[r]
        /\ certificate' = [recipe |-> r, items |-> payload]
        /\ UNCHANGED payload

\* The user replaces or removes one part, whatever the certificate says.
Tamper ==
    \E r \in Roots, c \in TamperTo :
        /\ payload' = [payload EXCEPT ![r] = c]
        /\ UNCHANGED certificate

Next == Publish \/ Adopt \/ Tamper

Spec == Init /\ [][Next]_<<payload, certificate>>
=============================================================================
