----------------------------- MODULE MCLauncher ------------------------------
(* The shipped recipe's one root, data/: two versions of the port, whole    *)
(* trees with and without the game's saves, and damaged ones.               *)
EXTENDS Launcher

CONSTANTS a, as, b, bs, dm, dms, t1, t2, t3, r1, r2

MCContents == {a, as, b, bs, dm, dms}
MCTxnIds   == {t1, t2, t3}
MCRecipes  == {r1, r2}

\* Files the game adds are no items of the recipe: sizes do not tell them.
MCSizeOf   == [x \in MCContents |-> CASE x \in {a, as} -> 1 [] x \in {b, bs} -> 2
                                       [] OTHER -> 3]
MCValid    == [r \in MCRecipes |-> IF r = r1 THEN {<<a>>, <<as>>} ELSE {<<b>>, <<bs>>}]

\* The last package lacks what a recipe demands.
MCPackages == {<<a>>, <<b>>, <<dm>>}
MCForeign  == {as, bs, dms}
MCTested   == {a, as, b, bs}
MCSaves    == [x \in MCContents |-> CASE x = a -> as [] x = b -> bs [] x = dm -> dms [] OTHER -> x]
MCInitial  == {<<None>>, <<dm>>, <<dms>>}
MCTamperTo == {None, a, dms}
=============================================================================
