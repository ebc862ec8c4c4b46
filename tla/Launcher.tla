------------------------------ MODULE Launcher ------------------------------
(***************************************************************************)
(* A start of the port (ports/Real Racing 3.sh): whether the importer runs *)
(* before the game, and what the game then plays.  The importer's steps    *)
(* are EapxInstall's; here they have their real scheduler, a launcher that *)
(* runs it only while a file it tests is absent, and a game that writes    *)
(* its profile and saves into the tree it plays.                           *)
(***************************************************************************)
EXTENDS EapxInstall

CONSTANTS
    Tested,   \* the contents that have the files the launcher tests
    WithSaves \* WithSaves[c]: content c after the game has written to it

ASSUME TestedAssumption == Tested \subseteq Contents
ASSUME SavesAssumption  == WithSaves \in [Contents -> Foreign]

VARIABLES
    stage, \* the launcher: "off", "importing", or "playing"
    flat,  \* a hand-made install in the port's own folder: "none", "partial", "whole"
    tree   \* RR3_DATA_DIR of the game that plays: "data" or "flat"

lvars == <<vars, stage, flat, tree>>

LaunchInit ==
    /\ Init
    /\ stage = "off"
    /\ flat \in {"none", "partial", "whole"}
    /\ tree = "data"

-----------------------------------------------------------------------------

\* A slip: the data directory tested instead of the files in it.
DirectoryExists(found) ==
    IF flat = "none" THEN \A r \in Roots : disk[r].live # None ELSE flat = "whole"

\* GAME_SO, asset_list_base.txt and assets_480x320/ are all there, in the flat
\* tree if it has an asset_list_base.txt.  A torn tree may have lost them or not.
Ready(found) ==
    IF flat # "none" THEN flat = "whole"
    ELSE \A r \in Roots : \/ disk[r].live \in Tested
                          \/ disk[r].live = Torn /\ found

\* The port is started: the game at once, or the importer first.
Launch ==
    /\ stage = "off"
    /\ \E found \in BOOLEAN :
          IF Ready(found)
            THEN /\ stage' = "playing"
                 /\ tree' = IF flat = "none" THEN "data" ELSE "flat"
                 /\ outcome' = "none"
                 /\ UNCHANGED <<Stored, Outside, pc, i, plan, recovering>>
            ELSE /\ stage' = "importing"
                 /\ tree' = tree
                 /\ Start
    /\ flat' = flat

\* The importer works under the launcher; its verdict is the launcher's: play the
\* tree in data/, or show the screen and exit 1.
Import ==
    /\ stage = "importing"
    /\ pc # "down"
    /\ Importer \/ RefuseImport \/ ExtractFails \/ Raise
    /\ IF pc' # "down" THEN UNCHANGED <<stage, tree>>
       ELSE IF outcome' = "ready" THEN stage' = "playing" /\ tree' = "data"
       ELSE stage' = "off" /\ tree' = tree
    /\ flat' = flat

\* Position p after the game has written to the directory that holds content c,
\* which a rename that is not durable yet may leave in the stage.
Written(p, c) == [p EXCEPT !.live   = IF @ = c THEN WithSaves[c] ELSE @,
                           !.staged = IF @ = c /\ p.live # c THEN WithSaves[c] ELSE @]

\* The game writes its profile, its saves or the control-scheme marker beside the
\* data it plays (the loader has made that directory the current one).
Save ==
    /\ stage = "playing"
    /\ tree = "data"
    /\ \E r \in Roots :
          LET c == disk[r].live IN
          /\ c \in Contents
          /\ disk' = [disk EXCEPT ![r].live = WithSaves[c]]
          /\ mayBe' = [mayBe EXCEPT ![r] = {Written(p, c) : p \in @}]
          /\ touched' = touched \cup {r}
    /\ outcome' = "none"
    /\ UNCHANGED <<journal, marker, stageOf, recipe, tampers, crashes, pc, i, plan,
                   recovering, stage, flat, tree>>

\* The game ends.
Quit ==
    /\ stage = "playing"
    /\ stage' = "off"
    /\ UNCHANGED <<vars, flat, tree>>

\* A killed importer makes the launcher exit; a power cut ends everything.
Crash ==
    /\ Kill \/ PowerCut
    /\ stage' = "off"
    /\ UNCHANGED <<flat, tree>>

\* Between starts.
BetweenStarts ==
    /\ stage = "off"
    /\ Tamper \/ ShipRecipe
    /\ UNCHANGED <<stage, flat, tree>>

LaunchNext == Launch \/ Import \/ Save \/ Quit \/ Crash \/ BetweenStarts

\* A start of the port that has begun takes its next step.  Nothing makes the
\* player start it, or quit.
LaunchSpec == LaunchInit /\ [][LaunchNext]_lvars /\ WF_lvars(Import)

-----------------------------------------------------------------------------
(* Properties.                                                             *)

\* The trees that a recipe accepts, whoever completed them.
Accepted == UNION {Valid[rec] : rec \in Recipes}

\* However the importer was cut off, and although the launcher plays a tree whose
\* transaction is still open, the game never plays a tree that no recipe accepts
\* (unless the user made it).
PlaysWhole == stage = "playing" /\ tree = "data" /\ tampers = 0 => Live \in Accepted

\* A tree the importer has just called ready is done with: no transaction is open
\* behind the game, and another import would take the fast path.
ImportedOnce == outcome = "ready" => journal = NoJournal /\ FastPath

\* What the game wrote into a tree is removed by no import and no rollback, in a
\* committed tree or in one whose transaction is still open (a power cut may take
\* back a rename that was never synced).
SavesKept ==
    [][\A r \in Roots \ Exclusive :
         disk[r].live \in Foreign /\ disk'[r].live # disk[r].live
            => stage = "playing" \/ <<tampers, crashes>>' # <<tampers, crashes>>]_lvars

\* A start ends, in the game or with a screen: no journal, stage or backup it finds
\* keeps it busy for ever.
StartsEnd == stage = "importing" ~> stage # "importing"

=============================================================================
