---------------------------- MODULE EapxInstall ----------------------------
(***************************************************************************)
(* The game-data importer, `eapx install` (tools/eapx.py): how a payload   *)
(* is staged beside the live install, published root by root with renames, *)
(* certified by a marker, and undone or finished after a kill, a power cut *)
(* or an exception.                                                        *)
(*                                                                         *)
(* A commit root (an entry of plan.roots) has three places on disk: the    *)
(* live path in the game directory, its copy in the stage and its copy in  *)
(* the backup.  A place holds a content (what digest_of returns), nothing, *)
(* or a torn tree that an interrupted copy or rmtree left behind.          *)
(***************************************************************************)
EXTENDS Naturals

CONSTANTS
    N,               \* how many commit roots the recipe has
    Contents,        \* the whole payloads a root may hold, by digest
    None,            \* digest_of of a path that does not exist
    Torn,            \* what an interrupted copy or rmtree leaves
    SizeOf,          \* the file sizes of a content, all that the fast path compares
    Recipes,         \* the recipes a port release may ship, by semantic digest
    Valid,           \* Valid[recipe]: the payloads its output checks accept
    Packages,        \* the payloads a donor package may resolve to
    Foreign,         \* contents with files that no recipe produces (saves, mods)
    Exclusive,       \* the roots the recipe marks "exclusive": true
    InitialPayloads, \* what may be installed before eapx ever ran
    TxnIds, NoTxn,   \* transaction ids, and the absence of a transaction
    TamperTo,        \* what a user may replace a live root with between runs
    MaxTampers,      \* bound: replacements made by the user
    MaxCrashes,      \* bound: kills and power cuts
    LateFailure,     \* may an exception hit between write_marker and discard?
    PowerCuts,       \* may power fail?  (only where directory fsync works)
    ForceImport      \* may the user pass --no-adopt?

Roots     == 1..N
Payload   == Contents \cup {None, Torn}
Position  == [live : Payload, staged : Payload, saved : Payload]
Whole     == [Roots -> Contents]

ASSUME NAssumption       == N \in Nat \ {0}
ASSUME PlaceAssumption   == None \notin Contents /\ Torn \notin Contents /\ None # Torn
ASSUME RecipeAssumption  == Valid \in [Recipes -> SUBSET Whole] /\ Packages \subseteq Whole
ASSUME TxnAssumption     == NoTxn \notin TxnIds
ASSUME UserAssumption    == /\ InitialPayloads \subseteq [Roots -> Contents \cup {None}]
                            /\ TamperTo \subseteq Contents \cup {None}
                            /\ Foreign \subseteq Contents
                            /\ Exclusive \subseteq Roots
\* Every file of a plan is an output of its recipe.
ASSUME ForeignAssumption == \A p \in Packages, r \in Roots \ Exclusive : p[r] \notin Foreign
ASSUME BoundAssumption   == MaxTampers \in Nat /\ MaxCrashes \in Nat
ASSUME SwitchAssumption  == {LateFailure, PowerCuts, ForceImport} \subseteq BOOLEAN

VARIABLES
    disk,       \* disk[r]: what the three places of root r hold
    mayBe,      \* mayBe[r]: where r may be found after a power cut
    journal,    \* the intent journal on disk
    marker,     \* the published marker on disk
    stageOf,    \* the plan the stage was built for ("stage-state")
    recipe,     \* the recipe shipped beside the importer
    pc,         \* where the importer is; "down" when none runs
    i,          \* the root it is working on
    plan,       \* the payload it is installing
    recovering, \* is the rollback recover()'s (else commit()'s own)?
    outcome,    \* what the last run told the launcher
    touched,    \* the roots the user has changed since the last transaction began
    tampers, crashes

vars == <<disk, mayBe, journal, marker, stageOf, recipe, pc, i, plan,
          recovering, outcome, touched, tampers, crashes>>

RecordStates == {"pending", "backing-up", "backed-up", "installing", "installed"}

\* The steps of commit() inside its try block, the ones an exception undoes.
CommitSteps == {"intend-backup", "back-up", "backed-up", "intend-install",
                "install", "installed", "verify", "sync", "publish", "discard"}
RollbackSteps == {"undo", "restore", "end-rollback", "drop-backup"}
Steps == {"recover", "clean-backup", "clean-stage", "clean-journal", "check",
          "resolve", "prepare", "extract", "validate", "clear-backup", "begin",
          "finish-backup", "finish-stage"}
             \cup CommitSteps \cup RollbackSteps

NoJournal == [txn |-> NoTxn, state |-> [r \in Roots |-> "pending"],
              new |-> [r \in Roots |-> None], old |-> [r \in Roots |-> None]]
NoMarker  == [txn |-> NoTxn, recipe |-> None, items |-> [r \in Roots |-> None]]
NoPlan    == [r \in Roots |-> None]

Live == [r \in Roots |-> disk[r].live]

\* A transaction is open from begin() until its marker is published or its
\* rollback has discarded the journal.
Open == journal.txn # NoTxn /\ marker.txn # journal.txn

Init ==
    \E payload \in InitialPayloads, rec \in Recipes :
        /\ disk = [r \in Roots |->
                      [live |-> payload[r], staged |-> None, saved |-> None]]
        /\ mayBe = [r \in Roots |->
                      {[live |-> payload[r], staged |-> None, saved |-> None]}]
        /\ recipe = rec
        /\ journal = NoJournal
        /\ marker = NoMarker
        /\ stageOf = NoPlan
        /\ plan = NoPlan
        /\ pc = "down"
        /\ i = 1
        /\ recovering = FALSE
        /\ outcome = "none"
        /\ touched = {}
        /\ tampers = 0
        /\ crashes = 0

-----------------------------------------------------------------------------
(* Effects shared by several steps.                                        *)

\* A rename of root r: in effect at once, durable only after a sync.
MoveTo(r, position) ==
    /\ disk' = [disk EXCEPT ![r] = position]
    /\ mayBe' = [mayBe EXCEPT ![r] = @ \cup {position}]

\* remove_path of the whole stage or backup: every root loses that copy.
DropStaged == [r \in Roots |-> [disk[r] EXCEPT !.staged = None]]
DropSaved  == [r \in Roots |-> [disk[r] EXCEPT !.saved = None]]

\* What is on disk now is what a power cut leaves.
Settled(d) == [r \in Roots |-> {d[r]}]

\* Exit with a verdict: 0 is "ready", 1 is "failed".
Exit(verdict) == pc' = "down" /\ outcome' = verdict

Disk       == <<disk, mayBe>>
Stored     == <<disk, mayBe, journal, marker, stageOf>>
Outside    == <<recipe, touched, tampers, crashes>>

-----------------------------------------------------------------------------
(* A run of install_command starts: the lock file is free, for its owner   *)
(* released it or died.                                                    *)

Start ==
    /\ pc = "down"
    /\ pc' = "recover"
    /\ outcome' = "none"
    /\ UNCHANGED <<Stored, Outside, i, plan, recovering>>

\* A slip: a transaction whose marker is out rolled back.
RecoverBlindly ==
    /\ pc = "recover"
    /\ pc' = IF journal.txn = NoTxn THEN "check" ELSE "undo"
    /\ i' = N
    /\ recovering' = TRUE
    /\ UNCHANGED <<Stored, Outside, plan, outcome>>

\* recover(): nothing to do without a journal; a journal whose transaction the
\* marker names was published, and only its cleanup is left; any other is undone.
Recover ==
    /\ pc = "recover"
    /\ pc' = IF journal.txn = NoTxn THEN "check"
             ELSE IF marker.txn = journal.txn THEN "clean-backup" ELSE "undo"
    /\ i' = N
    /\ recovering' = TRUE
    /\ UNCHANGED <<Stored, Outside, plan, outcome>>

CleanBackup ==
    /\ pc = "clean-backup"
    /\ pc' = "clean-stage"
    /\ disk' = DropSaved
    /\ mayBe' = Settled(disk')
    /\ UNCHANGED <<journal, marker, stageOf, Outside, i, plan, recovering, outcome>>

CleanStage ==
    /\ pc = "clean-stage"
    /\ pc' = "clean-journal"
    /\ disk' = DropStaged
    /\ mayBe' = Settled(disk')
    /\ UNCHANGED <<journal, marker, stageOf, Outside, i, plan, recovering, outcome>>

CleanJournal ==
    /\ pc = "clean-journal"
    /\ pc' = "check"
    /\ journal' = NoJournal
    /\ UNCHANGED <<Disk, marker, stageOf, Outside, i, plan, recovering, outcome>>

-----------------------------------------------------------------------------
(* marker_fast_path and adopt_existing: two ways not to import at all.     *)

\* Presence and size of every item, never its bytes.
SizesMatch(items) ==
    \A r \in Roots : /\ disk[r].live \in Contents
                     /\ SizeOf[disk[r].live] = SizeOf[items[r]]

FastPath ==
    /\ marker.txn # NoTxn
    /\ marker.recipe = recipe
    /\ SizesMatch(marker.items)

AcceptMarker ==
    /\ pc = "check"
    /\ FastPath
    /\ Exit("ready")
    /\ UNCHANGED <<Stored, Outside, i, plan, recovering>>

\* uuid4: an id that nothing still on disk carries.
FreshTxn == TxnIds \ {marker.txn, journal.txn}

Adopt ==
    /\ pc = "check"
    /\ ~FastPath
    /\ Live \in Valid[recipe]
    /\ \E t \in FreshTxn :
          marker' = [txn |-> t, recipe |-> recipe, items |-> Live]
    /\ Exit("ready")
    /\ UNCHANGED <<Disk, journal, stageOf, Outside, i, plan, recovering>>

GoImport ==
    /\ pc = "check"
    /\ ~FastPath
    /\ ForceImport \/ Live \notin Valid[recipe]
    /\ pc' = "resolve"
    /\ UNCHANGED <<Stored, Outside, i, plan, recovering, outcome>>

-----------------------------------------------------------------------------
(* Resolve, stage, validate: the work that a failure may simply abandon.   *)

\* A slip: the flag read the wrong way round.
ForeignFilesSwapped == \E r \in Exclusive : disk[r].live \in Foreign

\* check_foreign_files: some file under a shared root is not in the plan.
ForeignFiles == \E r \in Roots \ Exclusive : disk[r].live \in Foreign

Resolve ==
    /\ pc = "resolve"
    /\ plan' \in Packages
    /\ pc' = "prepare"
    /\ ~ForeignFiles
    /\ UNCHANGED <<Stored, Outside, i, recovering, outcome>>

\* No package, an ambiguous one, foreign files, or not enough room.
RefuseImport ==
    /\ pc \in {"resolve", "prepare", "extract"}
    /\ Exit("failed")
    /\ UNCHANGED <<Stored, Outside, i, plan, recovering>>

\* prepare_stage: a stage built for another plan is thrown away.
PrepareStage ==
    /\ pc = "prepare"
    /\ disk' = IF stageOf = plan THEN disk ELSE DropStaged
    /\ mayBe' = IF stageOf = plan THEN mayBe ELSE Settled(disk')
    /\ stageOf' = plan
    /\ i' = 1
    /\ pc' = "extract"
    /\ UNCHANGED <<journal, marker, Outside, plan, recovering, outcome>>

\* extract: a root that is not already staged byte for byte is written again, and
\* an os.sync() follows only if one was.
ExtractRoot ==
    /\ pc = "extract"
    /\ disk' = [disk EXCEPT ![i].staged = plan[i]]
    /\ mayBe' = IF disk[i].staged = plan[i] THEN mayBe ELSE Settled(disk')
    /\ IF i < N THEN i' = i + 1 /\ pc' = pc ELSE i' = 1 /\ pc' = "validate"
    /\ UNCHANGED <<journal, marker, stageOf, Outside, plan, recovering, outcome>>

\* A bad checksum or a full card: the root stays half written.
ExtractFails ==
    /\ pc = "extract"
    /\ disk' = [disk EXCEPT ![i].staged = Torn]
    /\ mayBe' = Settled(disk')
    /\ Exit("failed")
    /\ UNCHANGED <<journal, marker, stageOf, Outside, i, plan, recovering>>

\* A slip: every root checked by itself, no profile that they share.
StageValidPerRoot == \A r \in Roots : disk[r].staged = plan[r]

\* validate_tree(stage, full) and identify_profile.
StageValid == /\ \A r \in Roots : disk[r].staged = plan[r]
              /\ plan \in Valid[recipe]

ValidateStage ==
    /\ pc = "validate"
    /\ IF StageValid
         THEN pc' = "clear-backup" /\ outcome' = outcome
         ELSE Exit("failed")
    /\ UNCHANGED <<Stored, Outside, i, plan, recovering>>

-----------------------------------------------------------------------------
(* commit(): the transaction.                                              *)

ClearBackup ==
    /\ pc = "clear-backup"
    /\ disk' = DropSaved
    /\ mayBe' = Settled(disk')
    /\ pc' = "begin"
    /\ UNCHANGED <<journal, marker, stageOf, Outside, i, plan, recovering, outcome>>

\* Transaction.begin: both digests of every root, written before any rename.
Begin ==
    /\ pc = "begin"
    /\ \E t \in FreshTxn :
          journal' = [txn   |-> t,
                      state |-> [r \in Roots |-> "pending"],
                      new   |-> [r \in Roots |-> disk[r].staged],
                      old   |-> [r \in Roots |-> disk[r].live]]
    /\ i' = 1
    /\ touched' = {}
    /\ pc' = IF disk[1].live # None THEN "intend-backup" ELSE "intend-install"
    /\ UNCHANGED <<Disk, marker, stageOf, recipe, tampers, crashes, plan,
                   recovering, outcome>>

\* set_state: the record of root i is rewritten on disk.
SetState(s) == journal' = [journal EXCEPT !.state[i] = s]

IntendBackup ==
    /\ pc = "intend-backup"
    /\ SetState("backing-up")
    /\ pc' = "back-up"
    /\ UNCHANGED <<Disk, marker, stageOf, Outside, i, plan, recovering, outcome>>

BackUp ==
    /\ pc = "back-up"
    /\ MoveTo(i, [disk[i] EXCEPT !.live = None, !.saved = disk[i].live])
    /\ pc' = "backed-up"
    /\ UNCHANGED <<journal, marker, stageOf, Outside, i, plan, recovering, outcome>>

BackedUp ==
    /\ pc = "backed-up"
    /\ SetState("backed-up")
    /\ pc' = "intend-install"
    /\ UNCHANGED <<Disk, marker, stageOf, Outside, i, plan, recovering, outcome>>

IntendInstall ==
    /\ pc = "intend-install"
    /\ SetState("installing")
    /\ pc' = "install"
    /\ UNCHANGED <<Disk, marker, stageOf, Outside, i, plan, recovering, outcome>>

Install ==
    /\ pc = "install"
    /\ MoveTo(i, [disk[i] EXCEPT !.live = disk[i].staged, !.staged = None])
    /\ pc' = "installed"
    /\ UNCHANGED <<journal, marker, stageOf, Outside, i, plan, recovering, outcome>>

Installed ==
    /\ pc = "installed"
    /\ SetState("installed")
    /\ IF i = N THEN i' = i /\ pc' = "verify"
       ELSE /\ i' = i + 1
            /\ pc' = IF journal.old[i + 1] # None
                     THEN "intend-backup" ELSE "intend-install"
    /\ UNCHANGED <<Disk, marker, stageOf, Outside, plan, recovering, outcome>>

\* validate_tree(game_dir, full=False): presence and size only.
VerifyInstalled ==
    /\ pc = "verify"
    /\ IF SizesMatch(plan)
         THEN pc' = "sync" /\ UNCHANGED <<i, recovering>>
         ELSE pc' = "undo" /\ i' = N /\ recovering' = FALSE
    /\ UNCHANGED <<Stored, Outside, plan, outcome>>

\* A slip: the backup given up once the new payload is in place.
SyncAndDropBackup ==
    /\ pc = "sync"
    /\ disk' = DropSaved
    /\ mayBe' = Settled(disk')
    /\ pc' = "publish"
    /\ UNCHANGED <<journal, marker, stageOf, Outside, i, plan, recovering, outcome>>

SyncParents ==
    /\ pc = "sync"
    /\ mayBe' = Settled(disk)
    /\ pc' = "publish"
    /\ UNCHANGED <<disk, journal, marker, stageOf, Outside, i, plan, recovering, outcome>>

WriteMarker ==
    /\ pc = "publish"
    /\ marker' = [txn |-> journal.txn, recipe |-> recipe, items |-> plan]
    /\ pc' = "discard"
    /\ UNCHANGED <<Disk, journal, stageOf, Outside, i, plan, recovering, outcome>>

\* A slip: an unlink that fails, and nobody looks.
DiscardNothing ==
    /\ pc = "discard"
    /\ pc' = "finish-backup"
    /\ UNCHANGED <<Stored, Outside, i, plan, recovering, outcome>>

DiscardJournal ==
    /\ pc = "discard"
    /\ journal' = NoJournal
    /\ pc' = "finish-backup"
    /\ UNCHANGED <<Disk, marker, stageOf, Outside, i, plan, recovering, outcome>>

FinishBackup ==
    /\ pc = "finish-backup"
    /\ disk' = DropSaved
    /\ mayBe' = Settled(disk')
    /\ pc' = "finish-stage"
    /\ UNCHANGED <<journal, marker, stageOf, Outside, i, plan, recovering, outcome>>

FinishStage ==
    /\ pc = "finish-stage"
    /\ disk' = DropStaged
    /\ mayBe' = Settled(disk')
    /\ Exit("ready")
    /\ UNCHANGED <<journal, marker, stageOf, Outside, i, plan, recovering>>

-----------------------------------------------------------------------------
(* rollback(): undo by content identity, last root first.                  *)

\* `except BaseException` around the steps of commit(): undo them here and now.
Raise ==
    /\ pc \in CommitSteps
    /\ pc = "discard" => LateFailure
    /\ pc' = "undo"
    /\ i' = N
    /\ recovering' = FALSE
    /\ UNCHANGED <<Stored, Outside, plan, outcome>>

\* The new payload landed: it goes back to the stage, or away if the stage
\* holds it already.
UndoInstall ==
    /\ pc = "undo"
    /\ IF disk[i].live = None \/ disk[i].live # journal.new[i]
         THEN UNCHANGED Disk
         ELSE MoveTo(i, [disk[i] EXCEPT !.live = None, !.staged = journal.new[i]])
    /\ pc' = "restore"
    /\ UNCHANGED <<journal, marker, stageOf, Outside, i, plan, recovering, outcome>>

\* Nothing is live: the original comes back if the backup holds it.
Restorable == /\ disk[i].live = None
              /\ disk[i].saved = journal.old[i]
              /\ journal.old[i] # None

\* A slip: a missing root taken for a modified one.
ModifiedOrGone == disk[i].live # journal.old[i]

\* Something is live that is neither the new payload nor the original.
Modified == disk[i].live \notin {None, journal.old[i]}

RestoreOriginal ==
    /\ pc = "restore"
    /\ ~Modified
    /\ IF Restorable
         THEN MoveTo(i, [disk[i] EXCEPT !.live = disk[i].saved, !.saved = None])
         ELSE UNCHANGED Disk
    /\ SetState("pending")
    /\ IF i = 1 THEN i' = i /\ pc' = "end-rollback" ELSE i' = i - 1 /\ pc' = "undo"
    /\ UNCHANGED <<marker, stageOf, Outside, plan, recovering, outcome>>

\* A slip: the root tried again instead of given up.
RetryModified ==
    /\ pc = "restore"
    /\ Modified
    /\ pc' = "undo"
    /\ UNCHANGED <<Stored, Outside, i, plan, recovering, outcome>>

RefuseToTouch ==
    /\ pc = "restore"
    /\ Modified
    /\ Exit("failed")
    /\ UNCHANGED <<Stored, Outside, i, plan, recovering>>

EndRollback ==
    /\ pc = "end-rollback"
    /\ mayBe' = Settled(disk)
    /\ journal' = NoJournal
    /\ pc' = "drop-backup"
    /\ UNCHANGED <<disk, marker, stageOf, Outside, i, plan, recovering, outcome>>

DropBackup ==
    /\ pc = "drop-backup"
    /\ disk' = DropSaved
    /\ mayBe' = Settled(disk')
    /\ IF recovering THEN pc' = "check" /\ outcome' = outcome ELSE Exit("failed")
    /\ UNCHANGED <<journal, marker, stageOf, Outside, i, plan, recovering>>

-----------------------------------------------------------------------------
(* What may happen to the importer and to the card.                        *)

\* What an interrupted rmtree or copy leaves of root r, beside what was there:
\* rmtree is not atomic, a rename is.
Halfway(r) ==
    LET d == disk[r] IN
    {d} \cup
    (IF pc \in {"clean-backup", "clear-backup", "finish-backup", "drop-backup"}
          /\ d.saved # None
       THEN {[d EXCEPT !.saved = Torn]} ELSE {}) \cup
    (IF \/ pc \in {"clean-stage", "finish-stage"} /\ d.staged # None
        \/ pc = "prepare" /\ stageOf # plan /\ d.staged # None
        \/ pc = "extract" /\ r = i
       THEN {[d EXCEPT !.staged = Torn]} ELSE {}) \cup
    (IF pc = "undo" /\ r = i /\ d.live # None /\ d.live = journal.new[r]
          /\ d.staged = journal.new[r]
       THEN {[d EXCEPT !.live = Torn]} ELSE {})

Die == pc' = "down" /\ outcome' = "none" /\ crashes' = crashes + 1

\* The process is killed: what it has renamed stays renamed.
Kill ==
    /\ pc # "down"
    /\ crashes < MaxCrashes
    /\ Die
    /\ \E d \in [Roots -> UNION {Halfway(r) : r \in Roots}] :
          /\ \A r \in Roots : d[r] \in Halfway(r)
          /\ disk' = d
          /\ mayBe' = [r \in Roots |-> mayBe[r] \cup {d[r]}]
    /\ UNCHANGED <<journal, marker, stageOf, recipe, touched, tampers, i, plan, recovering>>

\* Power fails: each root is found at any point since its last sync.
PowerCut ==
    /\ PowerCuts
    /\ crashes < MaxCrashes
    /\ Die
    /\ disk' \in [Roots -> UNION {mayBe[r] \cup Halfway(r) : r \in Roots}]
    /\ \A r \in Roots : disk'[r] \in mayBe[r] \cup Halfway(r)
    /\ mayBe' = Settled(disk')
    /\ UNCHANGED <<journal, marker, stageOf, recipe, touched, tampers, i, plan, recovering>>

\* Between runs the user replaces or deletes a live root.
Tamper ==
    /\ pc = "down"
    /\ tampers < MaxTampers
    /\ \E r \in Roots, c \in TamperTo :
          /\ disk' = [disk EXCEPT ![r].live = c]
          /\ mayBe' = [mayBe EXCEPT ![r] = {[p EXCEPT !.live = c] : p \in @}]
          /\ touched' = touched \cup {r}
    /\ tampers' = tampers + 1
    /\ outcome' = "none"
    /\ UNCHANGED <<journal, marker, stageOf, recipe, crashes, pc, i, plan, recovering>>

\* Between runs a port update ships another recipe.
ShipRecipe ==
    /\ pc = "down"
    /\ recipe' \in Recipes \ {recipe}
    /\ outcome' = "none"
    /\ UNCHANGED <<Stored, touched, tampers, crashes, pc, i, plan, recovering>>

-----------------------------------------------------------------------------
Commit == IntendBackup \/ BackUp \/ BackedUp \/ IntendInstall \/ Install \/ Installed
          \/ VerifyInstalled \/ SyncParents \/ WriteMarker \/ DiscardJournal
          \/ FinishBackup \/ FinishStage

Rollback == UndoInstall \/ RestoreOriginal \/ RefuseToTouch \/ EndRollback \/ DropBackup

Importer == Start \/ Recover \/ CleanBackup \/ CleanStage \/ CleanJournal
            \/ AcceptMarker \/ Adopt \/ GoImport \/ Resolve \/ PrepareStage
            \/ ExtractRoot \/ ValidateStage \/ ClearBackup \/ Begin \/ Commit \/ Rollback

Failure == RefuseImport \/ ExtractFails \/ Raise \/ Kill \/ PowerCut

Next == Importer \/ Failure \/ Tamper \/ ShipRecipe

\* The importer is run again after a run that ended or died (the launcher does
\* so on every start while a file it needs is absent), and a run that is not
\* killed takes its next step: only failures may stop it.
Spec == Init /\ [][Next]_vars /\ WF_vars(Importer)

-----------------------------------------------------------------------------
(* Properties.                                                             *)

TypeOK ==
    /\ disk \in [Roots -> Position]
    /\ mayBe \in [Roots -> SUBSET Position]
    /\ journal \in [txn : TxnIds \cup {NoTxn}, state : [Roots -> RecordStates],
                    new : [Roots -> Payload], old : [Roots -> Payload]]
    /\ marker \in [txn : TxnIds \cup {NoTxn}, recipe : Recipes \cup {None},
                   items : [Roots -> Contents \cup {None}]]
    /\ stageOf \in Whole \cup {NoPlan}
    /\ recipe \in Recipes
    /\ pc \in Steps \cup {"down"}
    /\ i \in Roots
    /\ plan \in Whole \cup {NoPlan}
    /\ recovering \in BOOLEAN
    /\ touched \subseteq Roots
    /\ outcome \in {"none", "ready", "failed"}
    /\ tampers \in Nat
    /\ crashes \in Nat

\* While a transaction is open, the user's original of every root it replaces by
\* something else is whole in the live tree or in the backup, wherever a kill or
\* a power cut leaves the renames, unless the user took it (Transaction's docstring: a journal written
\* afterwards would end in "losing the user's original data").
OriginalRecoverable ==
    Open => \A r \in Roots \ touched :
              journal.old[r] \notin {None, journal.new[r]} =>
                \A p \in mayBe[r] : journal.old[r] \in {p.live, p.saved}

\* The launcher is told "ready" only over a payload that the recipe accepts as a
\* whole: never over a mixture of two payloads or a half-copied root.
ReadyIsWhole == outcome = "ready" => Live \in Valid[recipe]

\* However often the importer is interrupted, once it is left alone its journal
\* goes: the transaction is finished or undone, not stuck, unless the user has
\* been at the live tree.
RecoveryEnds == journal.txn # NoTxn ~> journal.txn = NoTxn \/ tampers > 0

\* The payload that recovery would settle on, and what certifies it.
Effective == IF Open THEN journal.old ELSE Live
Certificate == IF marker.txn = NoTxn THEN None
               ELSE [recipe |-> marker.recipe, items |-> marker.items]

Abstract == INSTANCE AtomicInstall WITH payload <- Effective, certificate <- Certificate

\* The importer is an atomic switch of the payload: see AtomicInstall.
Atomic == Abstract!Spec

=============================================================================
