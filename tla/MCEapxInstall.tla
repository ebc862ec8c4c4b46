--------------------------- MODULE MCEapxInstall ---------------------------
(* Two commit roots, two payload versions and the instances for TLC.       *)
EXTENDS EapxInstall

CONSTANTS a, b, c, t1, t2, r1, r2

Both(x) == [r \in 1..2 |-> x]

MCContents == {a, b, c}
MCTxnIds   == {t1, t2}
MCRecipes  == {r1, r2}
MCSizeOf   == [x \in MCContents |-> IF x = c THEN 2 ELSE 1]
MCValid    == [r \in MCRecipes |-> IF r = r1 THEN {Both(a)} ELSE {Both(b)}]

MCPackages == UNION {MCValid[r] : r \in MCRecipes}

\* Nothing, the first root only, the whole of another version, or of a recipe's.
FreshPayloads == {Both(None), [Both(None) EXCEPT ![1] = c], Both(c), Both(a)}
TakenAway == {None}
=============================================================================
