--------------------------- MODULE LauncherProofs ---------------------------
(***************************************************************************)
(* Proofs about the importer and about a start of the port, for any number *)
(* of roots, payloads, crashes, late exceptions and user changes.          *)
(*                                                                         *)
(* The importer (EapxInstall): its types, that an open transaction never   *)
(* loses the user's original of a root it replaces, and that it implements *)
(* the atomic switch of AtomicInstall.                                     *)
(*                                                                         *)
(* A start (Launcher): a tree the importer has called ready is whole and   *)
(* done with, and what the game wrote stays, for any recipe; of a recipe   *)
(* with one root, the game plays what it accepts.                          *)
(***************************************************************************)
EXTENDS Launcher, TLAPS

USE NAssumption

-----------------------------------------------------------------------------
(* Types.                                                                  *)

\* What the assumptions say of the constants, in the form the proofs need.
LEMMA PayloadFacts ==
    /\ None \in Payload /\ Torn \in Payload /\ Contents \subseteq Payload
    /\ 1 \in Roots /\ N \in Roots
    /\ \A r \in Recipes : Valid[r] \subseteq Whole
  BY RecipeAssumption DEF Payload, Roots

LEMMA NoneTyped ==
    /\ NoJournal \in [txn : TxnIds \cup {NoTxn}, state : [Roots -> RecordStates],
                      new : [Roots -> Payload], old : [Roots -> Payload]]
    /\ NoMarker \in [txn : TxnIds \cup {NoTxn}, recipe : Recipes \cup {None},
                     items : [Roots -> Contents \cup {None}]]
  BY PayloadFacts DEF NoJournal, NoMarker, RecordStates

\* The effects of the steps keep both views of the disk well typed.
LEMMA DiskEffects ==
  ASSUME disk \in [Roots -> Position]
  PROVE  /\ DropStaged \in [Roots -> Position]
         /\ DropSaved \in [Roots -> Position]
         /\ \A d \in [Roots -> Position] : Settled(d) \in [Roots -> SUBSET Position]
         /\ \A r \in Roots : Halfway(r) \subseteq Position
  BY PayloadFacts DEF DropStaged, DropSaved, Settled, Halfway, Position

\* Putting a payload in one place of a root leaves a position.
LEMMA PositionUpdates ==
  ASSUME NEW p \in Position, NEW c \in Payload, NEW e \in Payload
  PROVE  /\ p.live \in Payload /\ p.staged \in Payload /\ p.saved \in Payload
         /\ [p EXCEPT !.live = c] \in Position
         /\ [p EXCEPT !.staged = c] \in Position
         /\ [p EXCEPT !.saved = c] \in Position
         /\ [p EXCEPT !.live = c, !.saved = e] \in Position
         /\ [p EXCEPT !.live = c, !.staged = e] \in Position
  BY DEF Position

\* A stage found as the plan asks is left alone; any other is written and synced.
LEMMA StagingEffects ==
  ASSUME TypeOK
  PROVE  /\ PrepareStage =>
              \/ UNCHANGED Disk
              \/ disk' = DropStaged /\ mayBe' = Settled(disk')
         /\ ExtractRoot =>
              \/ UNCHANGED Disk
              \/ disk' = [disk EXCEPT ![i].staged = plan[i]] /\ mayBe' = Settled(disk')
  <1>1. PrepareStage =>
          \/ UNCHANGED Disk
          \/ disk' = DropStaged /\ mayBe' = Settled(disk')
    BY DEF PrepareStage, Disk
  <1>2. CASE disk[i].staged = plan[i]
    <2>1. disk \in [Roots -> Position] /\ (ExtractRoot => i \in Roots)
      BY DEF TypeOK
    <2>2. ASSUME ExtractRoot
          PROVE  UNCHANGED Disk
      <3>1. [disk[i] EXCEPT !.staged = plan[i]] = disk[i]
        BY <1>2, <2>1, <2>2 DEF Position
      <3>2. disk' = [disk EXCEPT ![i] = [disk[i] EXCEPT !.staged = plan[i]]]
        BY <2>2 DEF ExtractRoot
      <3>3. disk' = disk
        BY <2>1, <3>1, <3>2
      <3>4. mayBe' = mayBe
        BY <1>2, <2>2 DEF ExtractRoot
      <3> QED
        BY <3>3, <3>4 DEF Disk
    <2> QED
      BY <1>1, <2>2
  <1>3. CASE disk[i].staged # plan[i]
    BY <1>1, <1>3 DEF ExtractRoot
  <1> QED
    BY <1>2, <1>3

\* A rename keeps both views of the disk well typed.
LEMMA MoveToTyped ==
  ASSUME disk \in [Roots -> Position], mayBe \in [Roots -> SUBSET Position],
         NEW r \in Roots, NEW p \in Position, MoveTo(r, p)
  PROVE  disk' \in [Roots -> Position] /\ mayBe' \in [Roots -> SUBSET Position]
  BY DEF MoveTo

LEMMA TypedInit == Init => TypeOK
<1> SUFFICES ASSUME Init PROVE TypeOK
  OBVIOUS
<1>1. PICK payload \in InitialPayloads :
         /\ disk = [r \in Roots |-> [live |-> payload[r], staged |-> None, saved |-> None]]
         /\ mayBe = [r \in Roots |->
                      {[live |-> payload[r], staged |-> None, saved |-> None]}]
  BY DEF Init
<1>2. \A r \in Roots : [live |-> payload[r], staged |-> None, saved |-> None] \in Position
  BY PayloadFacts, UserAssumption DEF Position, Payload
<1>3. disk \in [Roots -> Position] /\ mayBe \in [Roots -> SUBSET Position]
  BY <1>1, <1>2
<1>4. recipe \in Recipes /\ journal = NoJournal /\ marker = NoMarker /\ stageOf = NoPlan
      /\ plan = NoPlan /\ pc = "down" /\ i = 1 /\ recovering = FALSE /\ touched = {}
      /\ outcome = "none" /\ tampers = 0 /\ crashes = 0
  BY DEF Init
<1>5. QED
  BY <1>3, <1>4, PayloadFacts, NoneTyped DEF TypeOK

LEMMA TypedStep == TypeOK /\ [Next]_vars => TypeOK'
<1> SUFFICES ASSUME TypeOK, [Next]_vars PROVE TypeOK'
  OBVIOUS
<1> USE PayloadFacts, NoneTyped
<1>1. CASE Start
  BY <1>1 DEF Start, TypeOK, Stored, Outside, Steps
<1>2. CASE Recover
  BY <1>2 DEF Recover, TypeOK, Stored, Outside, Steps, RollbackSteps
<1>3. CASE CleanBackup \/ CleanStage \/ CleanJournal
  <2>1. CASE CleanBackup
    BY <2>1, DiskEffects DEF CleanBackup, TypeOK, Outside, Steps
  <2>2. CASE CleanStage
    BY <2>2, DiskEffects DEF CleanStage, TypeOK, Outside, Steps
  <2>3. CASE CleanJournal
    BY <2>3 DEF CleanJournal, TypeOK, Disk, Outside, Steps
  <2>4. QED
    BY <1>3, <2>1, <2>2, <2>3
<1>4. CASE AcceptMarker \/ GoImport \/ RefuseImport
  BY <1>4 DEF AcceptMarker, GoImport, RefuseImport, Exit, TypeOK, Stored, Outside, Steps
<1>5. CASE Adopt
  BY <1>5 DEF Adopt, Exit, FreshTxn, TypeOK, Disk, Outside, Steps, Whole
<1>6. CASE Resolve
  BY <1>6, RecipeAssumption DEF Resolve, TypeOK, Stored, Outside, Steps
<1>7. CASE PrepareStage
  BY <1>7, DiskEffects DEF PrepareStage, TypeOK, Outside, Steps
<1>8. CASE ExtractRoot
  <2>1. plan[i] \in Payload
    BY DEF TypeOK, Whole, NoPlan, Payload
  <2>2. [disk[i] EXCEPT !.staged = plan[i]] \in Position
    BY <2>1, PositionUpdates DEF TypeOK
  <2>3. disk' \in [Roots -> Position]
    BY <1>8, <2>2 DEF ExtractRoot, TypeOK
  <2>4. mayBe' \in [Roots -> SUBSET Position]
    BY <1>8, <2>3 DEF ExtractRoot, Settled, TypeOK
  <2>5. i' \in Roots /\ pc' \in Steps
    BY <1>8 DEF ExtractRoot, TypeOK, Steps, Roots
  <2>6. QED
    BY <1>8, <2>3, <2>4, <2>5 DEF ExtractRoot, TypeOK, Outside
<1>9. CASE ExtractFails
  <2>1. disk' \in [Roots -> Position]
    BY <1>9 DEF ExtractFails, TypeOK, Position
  <2>2. QED
    BY <1>9, <2>1, DiskEffects DEF ExtractFails, Exit, TypeOK, Outside, Steps
<1>10. CASE ValidateStage
  BY <1>10 DEF ValidateStage, Exit, TypeOK, Stored, Outside, Steps
<1>11. CASE ClearBackup
  BY <1>11, DiskEffects DEF ClearBackup, TypeOK, Outside, Steps
<1>12. CASE Begin
  BY <1>12 DEF Begin, FreshTxn, TypeOK, Disk, Steps, CommitSteps, RecordStates, Position
<1>13. CASE IntendBackup \/ BackedUp \/ IntendInstall
  BY <1>13 DEF IntendBackup, BackedUp, IntendInstall, SetState, TypeOK, Disk, Outside,
               Steps, CommitSteps, RecordStates
<1>14. CASE BackUp \/ Install
  <2>1. /\ [disk[i] EXCEPT !.live = None, !.saved = disk[i].live] \in Position
        /\ [disk[i] EXCEPT !.live = disk[i].staged, !.staged = None] \in Position
    BY PositionUpdates DEF TypeOK
  <2>2. disk' \in [Roots -> Position] /\ mayBe' \in [Roots -> SUBSET Position]
    BY <1>14, <2>1, MoveToTyped DEF BackUp, Install, TypeOK
  <2>3. QED
    BY <1>14, <2>2 DEF BackUp, Install, TypeOK, Outside, Steps, CommitSteps
<1>15. CASE Installed
  <2>1. journal' \in [txn : TxnIds \cup {NoTxn}, state : [Roots -> RecordStates],
                      new : [Roots -> Payload], old : [Roots -> Payload]]
    BY <1>15 DEF Installed, SetState, TypeOK, RecordStates
  <2>2. i' \in Roots /\ pc' \in Steps
    BY <1>15 DEF Installed, TypeOK, Steps, CommitSteps, Roots
  <2>3. QED
    BY <1>15, <2>1, <2>2 DEF Installed, TypeOK, Disk, Outside
<1>16. CASE VerifyInstalled \/ Raise
  BY <1>16 DEF VerifyInstalled, Raise, TypeOK, Stored, Outside, Steps, CommitSteps,
               RollbackSteps
<1>17. CASE SyncParents
  BY <1>17, DiskEffects DEF SyncParents, TypeOK, Outside, Steps, CommitSteps
<1>18. CASE WriteMarker
  BY <1>18 DEF WriteMarker, TypeOK, Disk, Outside, Steps, CommitSteps, Whole, NoPlan
<1>19. CASE DiscardJournal
  BY <1>19 DEF DiscardJournal, TypeOK, Disk, Outside, Steps
<1>20. CASE FinishBackup \/ FinishStage
  <2>1. CASE FinishBackup
    BY <2>1, DiskEffects DEF FinishBackup, TypeOK, Outside, Steps
  <2>2. CASE FinishStage
    BY <2>2, DiskEffects DEF FinishStage, Exit, TypeOK, Outside, Steps
  <2> QED
    BY <1>20, <2>1, <2>2
<1>21. CASE UndoInstall
  <2>1. [disk[i] EXCEPT !.live = None, !.staged = journal.new[i]] \in Position
    BY PositionUpdates DEF TypeOK
  <2>2. disk' \in [Roots -> Position] /\ mayBe' \in [Roots -> SUBSET Position]
    BY <1>21, <2>1, MoveToTyped DEF UndoInstall, Disk, TypeOK
  <2>3. QED
    BY <1>21, <2>2 DEF UndoInstall, TypeOK, Outside, Steps, RollbackSteps
<1>22. CASE RestoreOriginal
  <2>1. /\ disk' \in [Roots -> Position]
        /\ mayBe' \in [Roots -> SUBSET Position]
    <3>1. [disk[i] EXCEPT !.live = disk[i].saved, !.saved = None] \in Position
      BY PositionUpdates DEF TypeOK
    <3>2. QED
      BY <1>22, <3>1, MoveToTyped DEF RestoreOriginal, Disk, TypeOK
  <2>2. journal' \in [txn : TxnIds \cup {NoTxn}, state : [Roots -> RecordStates],
                      new : [Roots -> Payload], old : [Roots -> Payload]]
    BY <1>22 DEF RestoreOriginal, SetState, TypeOK, RecordStates
  <2>3. QED
    BY <1>22, <2>1, <2>2 DEF RestoreOriginal, TypeOK, Outside, Steps, RollbackSteps, Roots
<1>23. CASE RefuseToTouch
  BY <1>23 DEF RefuseToTouch, Exit, TypeOK, Stored, Outside
<1>24. CASE EndRollback
  BY <1>24, DiskEffects DEF EndRollback, TypeOK, Outside, Steps, RollbackSteps
<1>25. CASE DropBackup
  BY <1>25, DiskEffects DEF DropBackup, Exit, TypeOK, Outside, Steps, RollbackSteps
<1>26. CASE Kill
  <2>1. PICK d \in [Roots -> UNION {Halfway(r) : r \in Roots}] :
           /\ \A r \in Roots : d[r] \in Halfway(r)
           /\ disk' = d
           /\ mayBe' = [r \in Roots |-> mayBe[r] \cup {d[r]}]
    BY <1>26 DEF Kill
  <2>2. d \in [Roots -> Position]
    BY <2>1, DiskEffects DEF TypeOK
  <2>3. mayBe' \in [Roots -> SUBSET Position]
    BY <2>1, <2>2 DEF TypeOK
  <2>4. disk' \in [Roots -> Position]
    BY <2>1, <2>2
  <2>5. Die /\ UNCHANGED <<journal, marker, stageOf, recipe, touched, tampers, i, plan,
                            recovering>>
    BY <1>26 DEF Kill
  <2>6. QED
    BY <2>3, <2>4, <2>5 DEF Die, TypeOK
<1>27. CASE PowerCut
  <2>1. disk' \in [Roots -> Position]
    BY <1>27, DiskEffects DEF PowerCut, TypeOK
  <2>2. QED
    BY <1>27, <2>1, DiskEffects DEF PowerCut, Die, TypeOK
<1>28. CASE Tamper
  <2>1. PICK r \in Roots, c \in TamperTo :
           /\ disk' = [disk EXCEPT ![r].live = c]
           /\ mayBe' = [mayBe EXCEPT ![r] = {[p EXCEPT !.live = c] : p \in @}]
           /\ touched' = touched \cup {r}
    BY <1>28 DEF Tamper
  <2>2. c \in Payload
    BY <2>1, UserAssumption DEF Payload
  <2>3. \A p \in Position : [p EXCEPT !.live = c] \in Position
    BY <2>2, PositionUpdates
  <2>4. disk' \in [Roots -> Position]
    BY <2>1, <2>3 DEF TypeOK
  <2>5. {[p EXCEPT !.live = c] : p \in mayBe[r]} \subseteq Position
    BY <2>3 DEF TypeOK
  <2>6. mayBe' \in [Roots -> SUBSET Position]
    BY <2>1, <2>5 DEF TypeOK
  <2>7. QED
    BY <1>28, <2>1, <2>4, <2>6 DEF Tamper, TypeOK
<1>29. CASE ShipRecipe
  BY <1>29 DEF ShipRecipe, TypeOK, Stored
<1>30. CASE UNCHANGED vars
  BY <1>30 DEF vars, TypeOK
<1>31. QED
  BY <1>1, <1>2, <1>3, <1>4, <1>5, <1>6, <1>7, <1>8, <1>9, <1>10, <1>11, <1>12, <1>13,
     <1>14, <1>15, <1>16, <1>17, <1>18, <1>19, <1>20, <1>21, <1>22, <1>23, <1>24, <1>25,
     <1>26, <1>27, <1>28, <1>29, <1>30
     DEF Next, Importer, Failure, Commit, Rollback

\* The importer's variables keep their types in every run.
THEOREM Typed == Spec => []TypeOK
  BY TypedInit, TypedStep, PTL DEF Spec

-----------------------------------------------------------------------------
(* The original is recoverable.  OriginalRecoverable is not inductive: it  *)
(* says nothing of where the roots stand before their turn comes, nor of   *)
(* when a journal may be on disk.  IInv adds that.                         *)

\* Steps at which no journal is on disk, and steps at which a published one is.
JournalGone == {"check", "resolve", "prepare", "extract", "validate", "clear-backup",
                "begin", "finish-backup", "finish-stage", "drop-backup"}
JournalPublished == {"clean-backup", "clean-stage", "clean-journal", "discard"}

\* The steps that deal with one root of commit().
BeforeBackup == {"intend-backup", "back-up"}
AfterBackup  == {"backed-up", "intend-install", "install"}
RootSteps    == BeforeBackup \cup AfterBackup \cup {"installed"}

JournalMatchesStep ==
    /\ pc \in JournalGone => journal.txn = NoTxn
    /\ pc \in JournalPublished => marker.txn = journal.txn

\* What is on disk is one of the things a power cut may leave, and the only one
\* when a transaction begins.
DiskSeen == /\ \A r \in Roots : disk[r] \in mayBe[r]
            /\ pc = "begin" => mayBe = Settled(disk)

\* The root in hand: its original is live until BackUp and saved after it.
RootInHand ==
    /\ pc \in BeforeBackup => disk[i].live = journal.old[i]
    /\ pc \in AfterBackup => journal.old[i] \in {None, disk[i].saved}

\* The roots whose turn has not come are as begin() found them.
RootsAhead ==
    pc \in RootSteps => \A r \in Roots : r > i => disk[r].live = journal.old[r]

IInv == /\ TypeOK
        /\ JournalMatchesStep
        /\ DiskSeen
        /\ RootInHand
        /\ RootsAhead
        /\ OriginalRecoverable

\* Every journal step and marker step agrees with the pc it leads to.
LEMMA JournalStep ==
  ASSUME TypeOK, JournalMatchesStep, [Next]_vars
  PROVE  JournalMatchesStep'
  <1> USE DEF JournalMatchesStep, JournalGone, JournalPublished
  <1>1. CASE Start \/ Recover \/ CleanBackup \/ CleanStage \/ CleanJournal
    BY <1>1 DEF Start, Recover, CleanBackup, CleanStage, CleanJournal, Stored, NoJournal
  <1>2. CASE AcceptMarker \/ Adopt \/ GoImport \/ Resolve \/ PrepareStage \/ ExtractRoot
             \/ ValidateStage \/ ClearBackup \/ Begin
    BY <1>2 DEF AcceptMarker, Adopt, GoImport, Resolve, PrepareStage, ExtractRoot,
                ValidateStage, ClearBackup, Begin, Exit, Stored
  <1>3. CASE Commit
    BY <1>3 DEF Commit, IntendBackup, BackUp, BackedUp, IntendInstall, Install, Installed,
                VerifyInstalled, SyncParents, WriteMarker, DiscardJournal, FinishBackup,
                FinishStage, Exit, Stored, NoJournal
  <1>4. CASE Rollback
    BY <1>4 DEF Rollback, UndoInstall, RestoreOriginal, RefuseToTouch, EndRollback,
                DropBackup, Exit, Stored, NoJournal
  <1>5. CASE Failure
    BY <1>5 DEF Failure, RefuseImport, ExtractFails, Raise, Kill, PowerCut, Die, Exit, Stored
  <1>6. CASE Tamper \/ ShipRecipe \/ UNCHANGED vars
    BY <1>6 DEF Tamper, ShipRecipe, Stored, vars
  <1>7. QED
    BY <1>1, <1>2, <1>3, <1>4, <1>5, <1>6 DEF Next, Importer

\* A rename adds its position to what a power cut may leave.
LEMMA MoveSeen ==
  ASSUME TypeOK, \A r \in Roots : disk[r] \in mayBe[r], NEW r \in Roots,
         NEW p \in Position, MoveTo(r, p)
  PROVE  \A q \in Roots : disk'[q] \in mayBe'[q]
  BY DEF TypeOK, MoveTo

\* What is on disk stays one of the things a power cut may leave.
LEMMA SeenStep ==
  ASSUME TypeOK, DiskSeen, [Next]_vars
  PROVE  DiskSeen'
  <1> USE DEF DiskSeen
  <1>1. CASE UNCHANGED <<disk, mayBe>> /\ pc' # "begin"
    BY <1>1
  <1>2. CASE mayBe' = Settled(disk') /\ disk' \in [Roots -> Position]
    BY <1>2 DEF Settled
  <1>3. CASE BackUp \/ Install
    <2>1. /\ [disk[i] EXCEPT !.live = None, !.saved = disk[i].live] \in Position
          /\ [disk[i] EXCEPT !.live = disk[i].staged, !.staged = None] \in Position
      BY PositionUpdates, PayloadFacts DEF TypeOK
    <2>2. QED
      BY <1>3, <2>1, MoveSeen DEF BackUp, Install, TypeOK
  <1>4. CASE UndoInstall \/ RestoreOriginal
    <2>1. /\ [disk[i] EXCEPT !.live = None, !.staged = journal.new[i]] \in Position
          /\ [disk[i] EXCEPT !.live = disk[i].saved, !.saved = None] \in Position
      BY PositionUpdates, PayloadFacts DEF TypeOK
    <2>2. QED
      BY <1>4, <2>1, MoveSeen DEF UndoInstall, RestoreOriginal, Disk, TypeOK
  <1>5. CASE Kill
    BY <1>5 DEF Kill, Die
  <1>6. CASE Tamper
    <2>1. PICK r \in Roots, c \in TamperTo :
             /\ disk' = [disk EXCEPT ![r].live = c]
             /\ mayBe' = [mayBe EXCEPT ![r] = {[p EXCEPT !.live = c] : p \in @}]
      BY <1>6 DEF Tamper
    <2>2. pc' # "begin"
      BY <1>6 DEF Tamper
    <2>3. QED
      BY <2>1, <2>2 DEF TypeOK
  <1>7. CASE PowerCut
    <2>1. disk' \in [Roots -> Position]
      BY <1>7, DiskEffects DEF PowerCut, TypeOK
    <2>2. QED
      BY <1>2, <1>7, <2>1 DEF PowerCut
  <1>8. CASE CleanBackup \/ CleanStage \/ ClearBackup \/ FinishBackup
             \/ FinishStage \/ DropBackup \/ SyncParents \/ EndRollback
    BY <1>2, <1>8, DiskEffects DEF CleanBackup, CleanStage, ClearBackup,
       FinishBackup, FinishStage, DropBackup, SyncParents, EndRollback, TypeOK
  <1>9. CASE ExtractFails
    BY <1>9 DEF ExtractFails, Settled, TypeOK, Exit
  <1>13. CASE PrepareStage \/ ExtractRoot
    <2>1. pc' # "begin"
      BY <1>13 DEF PrepareStage, ExtractRoot
    <2>2. CASE UNCHANGED Disk
      BY <1>1, <2>1, <2>2 DEF Disk
    <2>3. CASE mayBe' = Settled(disk')
      <3>1. disk' \in [Roots -> Position]
        BY TypedStep DEF TypeOK
      <3> QED
        BY <1>2, <2>3, <3>1
    <2> QED
      BY <1>13, <2>2, <2>3, StagingEffects
  <1>10. CASE Start \/ Recover \/ CleanJournal \/ AcceptMarker \/ Adopt \/ GoImport \/ Resolve
              \/ RefuseImport \/ ValidateStage \/ Begin \/ IntendBackup \/ BackedUp
              \/ IntendInstall \/ Installed \/ VerifyInstalled \/ WriteMarker
              \/ DiscardJournal \/ Raise \/ RefuseToTouch \/ ShipRecipe
    BY <1>1, <1>10 DEF Start, Recover, CleanJournal, AcceptMarker, Adopt, GoImport, Resolve,
       RefuseImport, ValidateStage, Begin, IntendBackup, BackedUp, IntendInstall, Installed,
       VerifyInstalled, WriteMarker, DiscardJournal, Raise, RefuseToTouch, ShipRecipe,
       Stored, Disk, Exit
  <1>11. CASE UNCHANGED vars
    BY <1>11 DEF vars
  <1>12. QED
    BY <1>3, <1>4, <1>5, <1>6, <1>7, <1>8, <1>9, <1>10, <1>11, <1>13
       DEF Next, Importer, Failure, Commit, Rollback

\* The roots of commit() advance one at a time.
LEMMA RootStep ==
  ASSUME TypeOK, RootInHand, RootsAhead, [Next]_vars
  PROVE  RootInHand' /\ RootsAhead'
  <1> USE DEF RootInHand, RootsAhead, BeforeBackup, AfterBackup, RootSteps
  <1>1. CASE pc' \notin RootSteps
    BY <1>1
  <1>2. CASE Begin
    <2>1. \A r \in Roots : journal'.old[r] = disk[r].live
      BY <1>2 DEF Begin
    <2>2. disk' = disk /\ i' = 1
      BY <1>2 DEF Begin, Disk
    <2>3. pc' = IF disk[1].live # None THEN "intend-backup" ELSE "intend-install"
      BY <1>2 DEF Begin
    <2>4. QED
      BY <2>1, <2>2, <2>3, PayloadFacts
  <1>3. CASE IntendBackup \/ BackedUp \/ IntendInstall
    <2>1. disk' = disk /\ i' = i /\ journal'.old = journal.old
      BY <1>3 DEF IntendBackup, BackedUp, IntendInstall, SetState, Disk, TypeOK
    <2>2. QED
      BY <1>3, <2>1 DEF IntendBackup, BackedUp, IntendInstall
  <1>4. CASE BackUp
    <2>1. /\ disk'[i].saved = disk[i].live
          /\ \A r \in Roots : r # i => disk'[r] = disk[r]
      BY <1>4 DEF BackUp, MoveTo, TypeOK, Position
    <2>2. QED
      BY <1>4, <2>1 DEF BackUp, TypeOK, Roots
  <1>5. CASE Install
    <2>1. \A r \in Roots : r # i => disk'[r] = disk[r]
      BY <1>5 DEF Install, MoveTo, TypeOK
    <2>2. QED
      BY <1>5, <2>1 DEF Install, TypeOK, Roots
  <1>6. CASE Installed
    <2>1. disk' = disk /\ journal'.old = journal.old
      BY <1>6 DEF Installed, SetState, Disk, TypeOK
    <2>2. CASE i = N
      BY <1>6, <2>2 DEF Installed
    <2>3. CASE i # N
      <3>1. i + 1 \in Roots /\ i' = i + 1
        BY <1>6, <2>3 DEF Installed, TypeOK, Roots
      <3>2. disk[i + 1].live = journal.old[i + 1]
        BY <1>6, <3>1 DEF Installed, TypeOK, Roots
      <3>3. pc' = IF journal.old[i + 1] # None THEN "intend-backup" ELSE "intend-install"
        BY <1>6, <2>3 DEF Installed
      <3>4. \A r \in Roots : r > i + 1 => disk[r].live = journal.old[r]
        <4>1. pc = "installed"
          BY <1>6 DEF Installed
        <4>2. \A r \in Roots : r > i => disk[r].live = journal.old[r]
          BY <4>1
        <4>3. i \in Nat /\ \A r \in Roots : r \in Nat
          BY DEF TypeOK, Roots
        <4>4. QED
          BY <4>2, <4>3
      <3>5. QED
        <4>1. RootsAhead'
          BY <2>1, <3>1, <3>4
        <4>2. RootInHand'
          BY <2>1, <3>1, <3>2, <3>3
        <4>3. QED
          BY <4>1, <4>2
    <2>4. QED
      BY <2>2, <2>3
  <1>7. CASE UNCHANGED vars
    BY <1>7 DEF vars
  <1>8. QED
    <2>1. CASE Start \/ Recover \/ CleanBackup \/ CleanStage \/ CleanJournal \/ AcceptMarker
               \/ Adopt \/ GoImport \/ Resolve \/ PrepareStage \/ ExtractRoot \/ ValidateStage
               \/ ClearBackup
      BY <1>1, <2>1 DEF Start, Recover, CleanBackup, CleanStage, CleanJournal, AcceptMarker,
         Adopt, GoImport, Resolve, PrepareStage, ExtractRoot, ValidateStage, ClearBackup, Exit
    <2>2. CASE VerifyInstalled \/ SyncParents \/ WriteMarker \/ DiscardJournal
               \/ FinishBackup \/ FinishStage
      BY <1>1, <2>2 DEF VerifyInstalled, SyncParents, WriteMarker, DiscardJournal,
         FinishBackup, FinishStage, Exit
    <2>3. CASE Rollback
      BY <1>1, <2>3 DEF Rollback, UndoInstall, RestoreOriginal, RefuseToTouch, EndRollback,
         DropBackup, Exit
    <2>4. CASE Failure \/ Tamper \/ ShipRecipe
      BY <1>1, <2>4 DEF Failure, RefuseImport, ExtractFails, Raise, Kill, PowerCut, Die, Exit,
         Tamper, ShipRecipe
    <2>5. QED
      BY <1>2, <1>3, <1>4, <1>5, <1>6, <1>7, <2>1, <2>2, <2>3, <2>4 DEF Next, Importer, Commit

\* An interrupted rmtree or copy of an open transaction costs no original: only
\* the step that throws a new payload away touches the live tree then.
LEMMA HalfwaySafe ==
  ASSUME IInv, Open, NEW r \in Roots \ touched,
         journal.old[r] \notin {None, journal.new[r]},
         NEW p \in Halfway(r)
  PROVE  journal.old[r] \in {p.live, p.saved}
<1>1. disk[r] \in Position /\ disk[r] \in mayBe[r]
  BY DEF IInv, TypeOK, DiskSeen
<1>2. journal.old[r] \in {disk[r].live, disk[r].saved}
  BY <1>1 DEF IInv, OriginalRecoverable
<1>3. pc \notin {"clean-backup", "clear-backup", "finish-backup", "drop-backup"}
  BY DEF IInv, JournalMatchesStep, JournalGone, JournalPublished, Open
<1>4. CASE p = disk[r]
  BY <1>2, <1>4
<1>5. CASE p = [disk[r] EXCEPT !.staged = Torn]
  BY <1>1, <1>2, <1>5 DEF Position
<1>6. CASE p = [disk[r] EXCEPT !.live = Torn] /\ disk[r].live = journal.new[r]
  BY <1>1, <1>2, <1>6 DEF Position
<1>7. QED
  BY <1>3, <1>4, <1>5, <1>6 DEF Halfway

\* A step that leaves the open transaction's digests alone and adds to the
\* possible places of a root only ones that hold its original.
LEMMA KeepsOriginal ==
  ASSUME OriginalRecoverable,
         Open' => Open,
         journal'.old = journal.old, journal'.new = journal.new, touched \subseteq touched',
         \A r \in Roots \ touched' :
            Open /\ journal.old[r] \notin {None, journal.new[r]} =>
              \A p \in mayBe'[r] : \/ p \in mayBe[r]
                                  \/ journal.old[r] \in {p.live, p.saved}
  PROVE  OriginalRecoverable'
  BY DEF OriginalRecoverable

\* No step loses an original that recovery may need.
LEMMA OriginalStep ==
  ASSUME IInv, [Next]_vars
  PROVE  OriginalRecoverable'
  <1> USE DEF IInv
  <1>1. CASE pc \in JournalGone /\ UNCHANGED journal
    BY <1>1 DEF OriginalRecoverable, JournalMatchesStep, Open
  <1>2. CASE UNCHANGED <<mayBe, journal, marker, touched>>
    BY <1>2 DEF OriginalRecoverable, Open
  <1>3. CASE journal' = NoJournal
    BY <1>3 DEF OriginalRecoverable, Open, NoJournal
  <1>4. CASE pc \in JournalPublished /\ UNCHANGED <<journal, marker>>
    BY <1>4 DEF OriginalRecoverable, JournalMatchesStep, Open
  <1>5. CASE Begin
    <2>1. mayBe' = Settled(disk)
      BY <1>5 DEF Begin, Disk, DiskSeen
    <2>2. \A r \in Roots : journal'.old[r] = disk[r].live
      BY <1>5 DEF Begin
    <2>3. QED
      BY <2>1, <2>2 DEF OriginalRecoverable, Settled
  <1>6. CASE IntendBackup \/ BackedUp \/ IntendInstall \/ Installed
    <2>1. /\ journal'.txn = journal.txn
          /\ journal'.old = journal.old /\ journal'.new = journal.new
      BY <1>6 DEF IntendBackup, BackedUp, IntendInstall, Installed, SetState, TypeOK
    <2>2. UNCHANGED <<mayBe, marker, touched>>
      BY <1>6 DEF IntendBackup, BackedUp, IntendInstall, Installed, Disk, Outside
    <2>3. QED
      BY <2>1, <2>2 DEF OriginalRecoverable, Open
  <1>7. CASE BackUp
    <2> DEFINE p == [disk[i] EXCEPT !.live = None, !.saved = disk[i].live]
    <2>1. p.saved = journal.old[i]
      BY <1>7 DEF BackUp, RootInHand, BeforeBackup, TypeOK, Position
    <2>2. \A r \in Roots : mayBe'[r] = IF r = i THEN mayBe[i] \cup {p} ELSE mayBe[r]
      BY <1>7 DEF BackUp, MoveTo, TypeOK
    <2>3. UNCHANGED <<journal, marker, touched>>
      BY <1>7 DEF BackUp, Outside
    <2> HIDE DEF p
    <2>4. QED
      BY <2>1, <2>2, <2>3, KeepsOriginal DEF Open
  <1>8. CASE Install
    <2> DEFINE p == [disk[i] EXCEPT !.live = disk[i].staged, !.staged = None]
    <2>1. journal.old[i] # None => p.saved = journal.old[i]
      BY <1>8 DEF Install, RootInHand, AfterBackup, TypeOK, Position
    <2>2. \A r \in Roots : mayBe'[r] = IF r = i THEN mayBe[i] \cup {p} ELSE mayBe[r]
      BY <1>8 DEF Install, MoveTo, TypeOK
    <2>3. UNCHANGED <<journal, marker, touched>>
      BY <1>8 DEF Install, Outside
    <2> HIDE DEF p
    <2>4. QED
      BY <2>1, <2>2, <2>3, KeepsOriginal DEF Open
  <1>9. CASE SyncParents
    <2>1. \A r \in Roots : mayBe'[r] = {disk[r]} /\ disk[r] \in mayBe[r]
      BY <1>9 DEF SyncParents, Settled, DiskSeen
    <2>2. UNCHANGED <<journal, marker, touched>>
      BY <1>9 DEF SyncParents, Outside
    <2>3. QED
      BY <2>1, <2>2, KeepsOriginal DEF Open
  <1>10. CASE WriteMarker
    BY <1>10 DEF WriteMarker, OriginalRecoverable, Open
  <1>11. CASE UndoInstall
    <2>1. UNCHANGED <<journal, marker, touched>>
      BY <1>11 DEF UndoInstall, Outside
    <2>2. CASE disk[i].live = None \/ disk[i].live # journal.new[i]
      BY <1>2, <1>11, <2>1, <2>2 DEF UndoInstall, Disk
    <2>3. CASE disk[i].live # None /\ disk[i].live = journal.new[i]
      <3> DEFINE p == [disk[i] EXCEPT !.live = None, !.staged = journal.new[i]]
      <3>1. \A r \in Roots : mayBe'[r] = IF r = i THEN mayBe[i] \cup {p} ELSE mayBe[r]
        BY <1>11, <2>3 DEF UndoInstall, MoveTo, TypeOK
      <3>2. p.saved = disk[i].saved
        BY DEF TypeOK, Position
      <3>3. disk[i] \in mayBe[i]
        BY DEF DiskSeen, TypeOK
      <3> HIDE DEF p
      <3>4. i \notin touched /\ Open /\ journal.old[i] \notin {None, journal.new[i]} =>
              journal.old[i] = disk[i].saved
        BY <2>3, <3>3 DEF OriginalRecoverable, TypeOK
      <3>5. QED
        BY <2>1, <3>1, <3>2, <3>4, KeepsOriginal DEF Open
    <2>4. QED
      BY <2>2, <2>3
  <1>12. CASE RestoreOriginal
    <2>1. /\ journal'.txn = journal.txn
          /\ journal'.old = journal.old /\ journal'.new = journal.new
      BY <1>12 DEF RestoreOriginal, SetState, TypeOK
    <2>2. UNCHANGED <<marker, touched>>
      BY <1>12 DEF RestoreOriginal, Outside
    <2>3. CASE ~Restorable
      BY <1>12, <2>1, <2>2, <2>3 DEF RestoreOriginal, Disk, OriginalRecoverable, Open
    <2>4. CASE Restorable
      <3> DEFINE p == [disk[i] EXCEPT !.live = disk[i].saved, !.saved = None]
      <3>1. \A r \in Roots : mayBe'[r] = IF r = i THEN mayBe[i] \cup {p} ELSE mayBe[r]
        BY <1>12, <2>4 DEF RestoreOriginal, MoveTo, TypeOK
      <3>2. p.live = journal.old[i]
        BY <2>4 DEF Restorable, TypeOK, Position
      <3> HIDE DEF p
      <3>3. QED
        BY <2>1, <2>2, <3>1, <3>2, KeepsOriginal DEF Open
    <2>5. QED
      BY <2>3, <2>4
  <1>13. CASE Kill
    <2>1. PICK d \in [Roots -> UNION {Halfway(r) : r \in Roots}] :
             /\ \A r \in Roots : d[r] \in Halfway(r)
             /\ mayBe' = [r \in Roots |-> mayBe[r] \cup {d[r]}]
      BY <1>13 DEF Kill
    <2>2. UNCHANGED <<journal, marker, touched>>
      BY <1>13 DEF Kill
    <2>3. QED
      BY <2>1, <2>2, HalfwaySafe, KeepsOriginal DEF Open
  <1>14. CASE PowerCut
    <2>1. /\ mayBe' = Settled(disk')
          /\ \A r \in Roots : disk'[r] \in mayBe[r] \cup Halfway(r)
      BY <1>14 DEF PowerCut
    <2>2. UNCHANGED <<journal, marker, touched>>
      BY <1>14 DEF PowerCut
    <2>3. \A r \in Roots : mayBe'[r] = {disk'[r]}
      BY <2>1 DEF Settled
    <2>4. QED
      BY <2>1, <2>2, <2>3, HalfwaySafe, KeepsOriginal DEF Open
  <1>15. CASE Tamper
    <2>1. PICK q \in Roots, c \in TamperTo :
             /\ mayBe' = [mayBe EXCEPT ![q] = {[p EXCEPT !.live = c] : p \in @}]
             /\ touched' = touched \cup {q}
      BY <1>15 DEF Tamper
    <2>2. UNCHANGED <<journal, marker>>
      BY <1>15 DEF Tamper
    <2>3. \A r \in Roots \ touched' : mayBe'[r] = mayBe[r]
      BY <2>1 DEF TypeOK
    <2>4. QED
      BY <2>1, <2>2, <2>3, KeepsOriginal DEF Open
  <1>16. CASE Start \/ Recover \/ VerifyInstalled \/ RefuseToTouch \/ Raise \/ ShipRecipe
              \/ UNCHANGED vars
    BY <1>2, <1>16 DEF Start, Recover, VerifyInstalled, RefuseToTouch, Raise, ShipRecipe,
       Stored, Outside, vars
  <1>17. CASE CleanJournal \/ DiscardJournal \/ EndRollback
    BY <1>3, <1>17 DEF CleanJournal, DiscardJournal, EndRollback
  <1>18. CASE CleanBackup \/ CleanStage
    BY <1>4, <1>18 DEF CleanBackup, CleanStage, JournalPublished
  <1>19. CASE AcceptMarker \/ Adopt \/ GoImport \/ Resolve \/ RefuseImport \/ PrepareStage
              \/ ExtractRoot \/ ExtractFails \/ ValidateStage \/ ClearBackup
              \/ FinishBackup \/ FinishStage \/ DropBackup
    BY <1>1, <1>19 DEF AcceptMarker, Adopt, GoImport, Resolve, RefuseImport, PrepareStage,
       ExtractRoot, ExtractFails, ValidateStage, ClearBackup, FinishBackup, FinishStage,
       DropBackup, JournalGone, Stored
  <1>20. QED
    BY <1>5, <1>6, <1>7, <1>8, <1>9, <1>10, <1>11, <1>12, <1>13, <1>14, <1>15, <1>16, <1>17,
       <1>18, <1>19 DEF Next, Importer, Failure, Commit, Rollback

LEMMA SpecIInv == Spec => []IInv
<1>1. TypeOK /\ Init => IInv
  <2> SUFFICES ASSUME TypeOK, Init PROVE IInv
    OBVIOUS
  <2>1. journal.txn = NoTxn /\ marker.txn = NoTxn /\ pc = "down"
    BY DEF Init, NoJournal, NoMarker
  <2>2. \A r \in Roots : disk[r] \in mayBe[r]
    BY DEF Init
  <2>3. QED
    BY <2>1, <2>2 DEF IInv, JournalMatchesStep, JournalGone, JournalPublished, DiskSeen,
       RootInHand, BeforeBackup, AfterBackup, RootsAhead, RootSteps, OriginalRecoverable, Open
<1>2. TypeOK' /\ IInv /\ [Next]_vars => IInv'
  BY JournalStep, SeenStep, RootStep, OriginalStep DEF IInv
<1>3. QED
  BY <1>1, <1>2, Typed, PTL DEF Spec

\* An open transaction never loses the original of a root it replaces, whatever
\* kills, power cuts, exceptions and changes by the user come in between.
THEOREM Recoverable == Spec => []OriginalRecoverable
<1>1. IInv => OriginalRecoverable
  BY DEF IInv
<1>2. QED
  BY <1>1, SpecIInv, PTL

-----------------------------------------------------------------------------
(* The importer is an atomic switch of the payload, as long as the user    *)
(* leaves the live tree alone while a transaction is open, and no root is  *)
(* replaced by what it holds already: the rollback tells the new payload   *)
(* of a root from its original by content.                                 *)

\* A transaction begins over roots that all hold something else.
ReplacesAll == pc = "begin" => \A r \in Roots : disk[r].live # disk[r].staged

\* The user keeps off the live tree while a transaction is open.
LeftAlone == [][Open => tampers' = tampers]_vars

\* The steps of an open transaction.
OpenSteps == (CommitSteps \ {"discard"}) \cup {"undo", "restore", "end-rollback"}

\* The steps of a run between its validated stage and its marker.
Validated == {"clear-backup", "begin"} \cup (CommitSteps \ {"discard"})

\* The three stages a root of an open transaction goes through.
Untouched(r) == [live |-> journal.old[r], staged |-> journal.new[r], saved |-> None]
SetAside(r)  == [live |-> None, staged |-> journal.new[r], saved |-> journal.old[r]]
Replaced(r)  == [live |-> journal.new[r], staged |-> None, saved |-> journal.old[r]]
Legal(r)     == {Untouched(r), SetAside(r), Replaced(r)}

OpenAtSteps == pc \in OpenSteps => Open

\* The plan of a transaction is a payload the recipe accepts, and what it installs.
PlanAccepted ==
    /\ pc \in Validated => plan \in Valid[recipe]
    /\ pc \in {"clear-backup", "begin"} => \A r \in Roots : disk[r].staged = plan[r]
    /\ pc = "begin" => \A r \in Roots : disk[r].saved = None
    /\ pc \in CommitSteps \ {"discard"} => journal.new = plan

\* Without an open transaction the live tree is where a power cut leaves it.
LiveSettled ==
    ~Open => \A r \in Roots : \A p \in mayBe[r] : p.live = disk[r].live

\* Every root of an open transaction is at one of its three stages, wherever the
\* renames are left.
RootsLegal ==
    Open => \A r \in Roots : /\ journal.old[r] # journal.new[r]
                             /\ journal.new[r] \in Contents
                             /\ mayBe[r] \subseteq Legal(r)

\* commit() advances, root by root.
Advanced ==
    /\ pc \in BeforeBackup => disk[i] = Untouched(i) /\ journal.old[i] # None
    /\ pc \in AfterBackup => disk[i] = SetAside(i)
    /\ pc \in RootSteps => \A r \in Roots : r < i => disk[r].live = journal.new[r]
    /\ pc = "installed" => disk[i].live = journal.new[i]
    /\ pc \in {"verify", "sync", "publish"} => \A r \in Roots : disk[r].live = journal.new[r]
    /\ pc = "publish" => mayBe = Settled(disk)

\* rollback() retreats, root by root.
Retreated ==
    /\ pc \in {"undo", "restore"} => \A r \in Roots : r > i => disk[r].live = journal.old[r]
    /\ pc = "restore" => disk[i].live # journal.new[i]
    /\ pc = "end-rollback" => \A r \in Roots : disk[r].live = journal.old[r]

AInv == /\ IInv /\ OpenAtSteps /\ PlanAccepted /\ LiveSettled /\ RootsLegal /\ Advanced /\ Retreated

\* The renames of commit() and rollback(), as positions.
WithSaved(p, l, b)  == [p EXCEPT !.live = l, !.saved = b]
WithStaged(p, l, b) == [p EXCEPT !.live = l, !.staged = b]

LEMMA Renames ==
    ASSUME NEW p \in Position, NEW l \in Payload, NEW b \in Payload
    PROVE  /\ WithSaved(p, l, b) = [live |-> l, staged |-> p.staged, saved |-> b]
           /\ WithStaged(p, l, b) = [live |-> l, staged |-> b, saved |-> p.saved]
<1>1. ASSUME NEW q \in Position
      PROVE  /\ [q EXCEPT !.saved = b] = [live |-> q.live, staged |-> q.staged, saved |-> b]
             /\ [q EXCEPT !.staged = b] = [live |-> q.live, staged |-> b, saved |-> q.saved]
  BY DEF Position
<1>2. /\ [p EXCEPT !.live = l] \in Position /\ [p EXCEPT !.live = l].live = l
      /\ [p EXCEPT !.live = l].staged = p.staged /\ [p EXCEPT !.live = l].saved = p.saved
  BY DEF Position
<1>3. /\ [[p EXCEPT !.live = l] EXCEPT !.saved = b] = [live |-> l, staged |-> p.staged, saved |-> b]
      /\ [[p EXCEPT !.live = l] EXCEPT !.staged = b] = [live |-> l, staged |-> b, saved |-> p.saved]
  BY <1>1, <1>2
<1> QED
  BY <1>3 DEF WithSaved, WithStaged

\* What an open transaction says of its journal and of the disk.
LEMMA OpenFacts ==
    ASSUME AInv, Open, NEW r \in Roots
    PROVE  /\ journal.old[r] # journal.new[r] /\ journal.new[r] \in Contents /\ journal.new[r] # None
           /\ journal.old[r] \in Payload /\ journal.new[r] \in Payload
           /\ disk[r] \in Position /\ disk[r] \in mayBe[r]
           /\ disk[r] \in {Untouched(r), SetAside(r), Replaced(r)}
<1>1. disk[r] \in Position /\ disk[r] \in mayBe[r]
  BY DEF AInv, IInv, TypeOK, DiskSeen
<1>2. journal.old[r] \in Payload /\ journal.new[r] \in Payload
  BY DEF AInv, IInv, TypeOK
<1>3. /\ journal.old[r] # journal.new[r] /\ journal.new[r] \in Contents
      /\ mayBe[r] \subseteq {Untouched(r), SetAside(r), Replaced(r)}
  BY DEF AInv, RootsLegal, Legal
<1> QED
  BY <1>1, <1>2, <1>3, PlaceAssumption

\* The three stages differ in what is live, unless there was no original.
LEMMA StageFields ==
    ASSUME NEW r
    PROVE  /\ Untouched(r).live = journal.old[r] /\ Untouched(r).staged = journal.new[r]
           /\ Untouched(r).saved = None
           /\ SetAside(r).live = None /\ SetAside(r).staged = journal.new[r]
           /\ SetAside(r).saved = journal.old[r]
           /\ Replaced(r).live = journal.new[r] /\ Replaced(r).staged = None
           /\ Replaced(r).saved = journal.old[r]
  BY DEF Untouched, SetAside, Replaced

LEMMA BackUpMoves ==
    ASSUME AInv, BackUp
    PROVE  Open /\ MoveTo(i, SetAside(i))
<1>1. Open /\ i \in Roots
  BY DEF AInv, IInv, TypeOK, OpenAtSteps, OpenSteps, CommitSteps, BackUp
<1>2. disk[i] = Untouched(i)
  BY DEF AInv, Advanced, BeforeBackup, BackUp
<1>3. WithSaved(disk[i], None, disk[i].live) = SetAside(i)
  BY <1>1, <1>2, OpenFacts, Renames, StageFields, PayloadFacts DEF SetAside
<1> QED
  BY <1>1, <1>3 DEF BackUp, WithSaved

LEMMA InstallMoves ==
    ASSUME AInv, Install
    PROVE  Open /\ MoveTo(i, Replaced(i))
<1>1. Open /\ i \in Roots
  BY DEF AInv, IInv, TypeOK, OpenAtSteps, OpenSteps, CommitSteps, Install
<1>2. disk[i] = SetAside(i)
  BY DEF AInv, Advanced, AfterBackup, Install
<1>3. disk[i].staged = journal.new[i] /\ disk[i].saved = journal.old[i]
  BY <1>2, StageFields
<1>4. WithStaged(disk[i], disk[i].staged, None) = Replaced(i)
  <2>1. disk[i] \in Position /\ journal.new[i] \in Payload /\ None \in Payload
    BY <1>1, OpenFacts, PayloadFacts
  <2>2. WithStaged(disk[i], journal.new[i], None)
          = [live |-> journal.new[i], staged |-> None, saved |-> disk[i].saved]
    BY <2>1, Renames
  <2> QED
    BY <1>3, <2>2 DEF Replaced
<1> QED
  BY <1>1, <1>4 DEF Install, WithStaged

LEMMA UndoMoves ==
    ASSUME AInv, UndoInstall
    PROVE  /\ Open
           /\ \/ disk[i].live # journal.new[i] /\ UNCHANGED Disk
              \/ MoveTo(i, SetAside(i))
<1>1. Open /\ i \in Roots
  BY DEF AInv, IInv, TypeOK, OpenAtSteps, OpenSteps, UndoInstall
<1>2. CASE disk[i].live = None \/ disk[i].live # journal.new[i]
  BY <1>1, <1>2, OpenFacts DEF UndoInstall
<1>3. CASE disk[i].live # None /\ disk[i].live = journal.new[i]
  <2>1. disk[i] = Replaced(i)
    BY <1>1, <1>3, OpenFacts, StageFields
  <2>2. WithStaged(disk[i], None, journal.new[i]) = SetAside(i)
    BY <1>1, <2>1, OpenFacts, Renames, StageFields, PayloadFacts DEF SetAside
  <2> QED
    BY <1>1, <1>3, <2>2 DEF UndoInstall, WithStaged
<1> QED
  BY <1>2, <1>3

LEMMA RestoreMoves ==
    ASSUME AInv, RestoreOriginal
    PROVE  /\ Open
           /\ \/ disk[i].live = journal.old[i] /\ UNCHANGED Disk
              \/ MoveTo(i, Untouched(i))
<1>1. Open /\ i \in Roots
  BY DEF AInv, IInv, TypeOK, OpenAtSteps, OpenSteps, RestoreOriginal
<1>2. disk[i].live # journal.new[i]
  BY DEF AInv, Retreated, RestoreOriginal
<1>3. CASE ~Restorable
  <2>1. disk[i].live = journal.old[i]
    BY <1>1, <1>2, <1>3, OpenFacts, StageFields DEF Restorable
  <2> QED
    BY <1>1, <1>3, <2>1 DEF RestoreOriginal
<1>4. CASE Restorable
  <2>1. disk[i] = SetAside(i)
    BY <1>1, <1>2, <1>4, OpenFacts, StageFields DEF Restorable
  <2>2. WithSaved(disk[i], disk[i].saved, None) = Untouched(i)
    BY <1>1, <2>1, OpenFacts, Renames, StageFields, PayloadFacts DEF Untouched
  <2> QED
    BY <1>1, <1>4, <2>2 DEF RestoreOriginal, WithSaved
<1> QED
  BY <1>3, <1>4

\* An interrupted step of an open transaction has renamed or it has not.
LEMMA HalfwayOpen ==
    ASSUME AInv, Open, NEW r \in Roots
    PROVE  Halfway(r) = {disk[r]}
<1>1. /\ pc \notin {"clean-backup", "clear-backup", "finish-backup", "drop-backup", "clean-stage",
                    "finish-stage", "prepare", "extract"}
  BY DEF AInv, IInv, JournalMatchesStep, JournalGone, JournalPublished, Open
<1>2. ~(disk[r].live = journal.new[r] /\ disk[r].staged = journal.new[r])
  BY OpenFacts, StageFields
<1> QED
  BY <1>1, <1>2 DEF Halfway

\* Outside a transaction an interrupted step leaves the live tree alone.
LEMMA HalfwayLive ==
    ASSUME AInv, ~Open, NEW r \in Roots, NEW p \in Halfway(r)
    PROVE  p.live = disk[r].live
<1>1. pc # "undo" /\ disk[r] \in Position
  BY DEF AInv, IInv, TypeOK, OpenAtSteps, OpenSteps
<1> QED
  BY <1>1 DEF Halfway, Position

\* A step of the importer or of its surroundings, as far as the user keeps off an
\* open transaction.
AStep == [Next]_vars /\ (Open => tampers' = tampers)

\* A transaction is opened by begin() only, and the steps that follow are its own.
LEMMA OpenAtStep ==
    ASSUME ~LateFailure, AInv, AStep
    PROVE  OpenAtSteps'
<1> USE DEF AInv, OpenAtSteps, OpenSteps, CommitSteps
<1>1. CASE Start \/ CleanBackup \/ CleanStage \/ CleanJournal
  BY <1>1 DEF Start, CleanBackup, CleanStage, CleanJournal
<1>2. CASE Recover
  BY <1>2 DEF Recover, Open, Stored
<1>3. CASE AcceptMarker \/ Adopt \/ GoImport \/ Resolve \/ PrepareStage \/ ExtractRoot
           \/ ValidateStage \/ ClearBackup
  BY <1>3 DEF AcceptMarker, Adopt, GoImport, Resolve, PrepareStage, ExtractRoot,
              ValidateStage, ClearBackup, Exit
<1>4. CASE Begin
  BY <1>4, TxnAssumption DEF Begin, FreshTxn, Open
<1>5. CASE IntendBackup \/ BackedUp \/ IntendInstall \/ Installed \/ RestoreOriginal
  <2>1. journal'.txn = journal.txn /\ marker' = marker
    BY <1>5 DEF IntendBackup, BackedUp, IntendInstall, Installed, RestoreOriginal, SetState,
                IInv, TypeOK
  <2> QED
    BY <1>5, <2>1 DEF IntendBackup, BackedUp, IntendInstall, Installed, RestoreOriginal, Open
<1>6. CASE BackUp \/ Install \/ VerifyInstalled \/ SyncParents \/ UndoInstall
  BY <1>6 DEF BackUp, Install, VerifyInstalled, SyncParents, UndoInstall, Open, Stored
<1>7. CASE WriteMarker \/ DiscardJournal \/ FinishBackup \/ FinishStage \/ RefuseToTouch
           \/ EndRollback \/ DropBackup
  BY <1>7 DEF WriteMarker, DiscardJournal, FinishBackup, FinishStage, RefuseToTouch,
              EndRollback, DropBackup, Exit
<1>8. CASE Raise
  BY <1>8 DEF Raise, Open, Stored
<1>9. CASE RefuseImport \/ ExtractFails \/ Kill \/ PowerCut
  BY <1>9 DEF RefuseImport, ExtractFails, Kill, PowerCut, Die, Exit
<1>10. CASE Tamper \/ ShipRecipe
  BY <1>10 DEF Tamper, ShipRecipe
<1>11. CASE UNCHANGED vars
  BY <1>11 DEF vars, Open
<1> QED
  BY <1>1, <1>2, <1>3, <1>4, <1>5, <1>6, <1>7, <1>8, <1>9, <1>10, <1>11
     DEF AStep, Next, Importer, Failure, Commit, Rollback

\* From its validated stage to its marker a run installs the payload it planned.
LEMMA PlanStep ==
    ASSUME AInv, AStep
    PROVE  PlanAccepted'
<1> USE DEF AInv, PlanAccepted, Validated, CommitSteps
<1>0. /\ journal \in [txn : TxnIds \cup {NoTxn}, state : [Roots -> RecordStates],
                      new : [Roots -> Payload], old : [Roots -> Payload]]
      /\ disk \in [Roots -> Position] /\ recipe \in Recipes
  BY DEF IInv, TypeOK
<1>1. CASE Start \/ Recover \/ CleanBackup \/ CleanStage \/ CleanJournal \/ AcceptMarker
           \/ Adopt \/ GoImport \/ Resolve \/ PrepareStage \/ ExtractRoot
  BY <1>1 DEF Start, Recover, CleanBackup, CleanStage, CleanJournal, AcceptMarker, Adopt,
              GoImport, Resolve, PrepareStage, ExtractRoot, Exit
<1>2. CASE ValidateStage
  BY <1>2 DEF ValidateStage, StageValid, Exit, Stored, Outside
<1>3. CASE ClearBackup
  BY <1>0, <1>3 DEF ClearBackup, DropSaved, Outside, Position
<1>4. CASE Begin
  <2>1. journal'.new = [r \in Roots |-> disk[r].staged]
    BY <1>4 DEF Begin
  <2>2. plan \in [Roots -> Contents]
    BY <1>0, <1>4, PayloadFacts DEF Begin, Whole
  <2>3. journal'.new = plan
    BY <1>4, <2>1, <2>2 DEF Begin
  <2> QED
    BY <1>4, <2>3 DEF Begin
<1>5. CASE IntendBackup \/ BackedUp \/ IntendInstall \/ Installed
  <2>1. journal'.new = journal.new
    BY <1>0, <1>5 DEF IntendBackup, BackedUp, IntendInstall, Installed, SetState
  <2> QED
    BY <1>5, <2>1 DEF IntendBackup, BackedUp, IntendInstall, Installed, Outside
<1>6. CASE BackUp \/ Install \/ VerifyInstalled \/ SyncParents
  BY <1>6 DEF BackUp, Install, VerifyInstalled, SyncParents, Stored, Outside
<1>7. CASE WriteMarker \/ DiscardJournal \/ FinishBackup \/ FinishStage \/ Rollback
  BY <1>7 DEF WriteMarker, DiscardJournal, FinishBackup, FinishStage, Rollback, UndoInstall,
              RestoreOriginal, RefuseToTouch, EndRollback, DropBackup, Exit
<1>8. CASE Failure
  BY <1>8 DEF Failure, RefuseImport, ExtractFails, Raise, Kill, PowerCut, Die, Exit
<1>9. CASE Tamper \/ ShipRecipe
  BY <1>9 DEF Tamper, ShipRecipe
<1>10. CASE UNCHANGED vars
  BY <1>10 DEF vars
<1> QED
  BY <1>1, <1>2, <1>3, <1>4, <1>5, <1>6, <1>7, <1>8, <1>9, <1>10
     DEF AStep, Next, Importer, Commit

\* A rename of an open transaction takes a root from one of its stages to another.
LEMMA LegalMove ==
    ASSUME AInv, Open, NEW r \in Roots, NEW p \in Legal(r), MoveTo(r, p),
           journal'.new = journal.new, journal'.old = journal.old
    PROVE  RootsLegal'
<1>1. \A q \in Roots : mayBe'[q] \subseteq Legal(q)
  BY DEF AInv, IInv, TypeOK, RootsLegal, MoveTo
<1>2. \A q \in Roots : Legal(q)' = Legal(q)
  BY DEF Legal, Untouched, SetAside, Replaced
<1> QED
  BY <1>1, <1>2 DEF AInv, RootsLegal

\* A step of an open transaction that leaves each root where it may have been.
LEMMA LegalStay ==
    ASSUME AInv, Open, journal'.new = journal.new, journal'.old = journal.old,
           \A r \in Roots : mayBe'[r] \subseteq mayBe[r]
    PROVE  RootsLegal'
<1>1. \A q \in Roots : Legal(q)' = Legal(q)
  BY DEF Legal, Untouched, SetAside, Replaced
<1> QED
  BY <1>1 DEF AInv, RootsLegal

LEMMA LegalStep ==
    ASSUME ReplacesAll, AInv, AStep
    PROVE  RootsLegal'
<1>0. /\ journal \in [txn : TxnIds \cup {NoTxn}, state : [Roots -> RecordStates],
                      new : [Roots -> Payload], old : [Roots -> Payload]]
      /\ disk \in [Roots -> Position] /\ mayBe \in [Roots -> SUBSET Position] /\ i \in Roots
  BY DEF AInv, IInv, TypeOK
<1>1. CASE ~Open'
  BY <1>1 DEF RootsLegal
<1>2. CASE Open /\ UNCHANGED <<mayBe, journal>>
  BY <1>2, LegalStay
<1>3. CASE UNCHANGED <<journal, marker>> /\ ~Open
  BY <1>1, <1>3 DEF Open
<1>4. CASE pc \in JournalGone /\ UNCHANGED journal
  BY <1>1, <1>4 DEF Open, AInv, IInv, JournalMatchesStep
<1>5. CASE Begin
  <2>1. \A r \in Roots : /\ journal'.old[r] = disk[r].live /\ journal'.new[r] = disk[r].staged
                         /\ disk[r].staged = plan[r] /\ disk[r].saved = None
                         /\ mayBe'[r] = {disk[r]} /\ disk[r].live # disk[r].staged
    BY <1>5 DEF Begin, Disk, AInv, IInv, DiskSeen, Settled, PlanAccepted, ReplacesAll
  <2>2. \A r \in Roots : plan[r] \in Contents
    BY <1>5, PayloadFacts DEF Begin, AInv, IInv, TypeOK, PlanAccepted, Validated, Whole
  <2>3. \A r \in Roots : disk[r] = Untouched(r)'
    BY <1>0, <2>1 DEF Untouched, Position
  <2> QED
    BY <2>1, <2>2, <2>3 DEF RootsLegal, Legal
<1>6. CASE IntendBackup \/ BackedUp \/ IntendInstall \/ Installed
  <2>1. /\ journal'.old = journal.old /\ journal'.new = journal.new
        /\ UNCHANGED mayBe /\ Open
    BY <1>0, <1>6 DEF IntendBackup, BackedUp, IntendInstall, Installed, SetState, Disk,
       AInv, OpenAtSteps, OpenSteps, CommitSteps
  <2> QED
    BY <2>1, LegalStay
<1>7. CASE BackUp
  BY <1>0, <1>7, BackUpMoves, LegalMove DEF Legal, BackUp
<1>8. CASE Install
  BY <1>0, <1>8, InstallMoves, LegalMove DEF Legal, Install
<1>9. CASE UndoInstall
  BY <1>0, <1>2, <1>9, UndoMoves, LegalMove DEF Legal, UndoInstall, Disk
<1>10. CASE RestoreOriginal
  <2>1. journal'.old = journal.old /\ journal'.new = journal.new
    BY <1>0, <1>10 DEF RestoreOriginal, SetState
  <2> QED
    BY <1>0, <1>10, <2>1, RestoreMoves, LegalMove, LegalStay DEF Legal, Disk
<1>11. CASE SyncParents
  <2>1. \A r \in Roots : mayBe'[r] \subseteq mayBe[r]
    BY <1>11 DEF SyncParents, Settled, AInv, IInv, DiskSeen
  <2>2. Open /\ journal' = journal
    BY <1>11 DEF SyncParents, AInv, OpenAtSteps, OpenSteps, CommitSteps
  <2> QED
    BY <2>1, <2>2, LegalStay
<1>12. CASE Kill /\ Open
  <2>1. \A r \in Roots : mayBe'[r] \subseteq mayBe[r]
    BY <1>0, <1>12, HalfwayOpen DEF Kill, AInv, IInv, DiskSeen
  <2> QED
    BY <1>12, <2>1, LegalStay DEF Kill
<1>13. CASE PowerCut /\ Open
  <2>1. \A r \in Roots : disk'[r] \in mayBe[r]
    BY <1>13, HalfwayOpen DEF PowerCut, AInv, IInv, DiskSeen
  <2>2. \A r \in Roots : mayBe'[r] \subseteq mayBe[r]
    BY <1>13, <2>1 DEF PowerCut, Settled
  <2> QED
    BY <1>13, <2>2, LegalStay DEF PowerCut
<1>14. CASE (Kill \/ PowerCut) /\ ~Open
  BY <1>3, <1>14 DEF Kill, PowerCut
<1>15. CASE Tamper
  <2>1. ~Open
    BY <1>15 DEF Tamper, AStep, AInv, IInv, TypeOK
  <2> QED
    BY <1>3, <1>15, <2>1 DEF Tamper
<1>16. CASE Start \/ Recover \/ VerifyInstalled \/ RefuseToTouch \/ Raise \/ ShipRecipe
            \/ UNCHANGED vars
  <2>1. UNCHANGED <<mayBe, journal, marker>>
    BY <1>16 DEF Start, Recover, VerifyInstalled, RefuseToTouch, Raise, ShipRecipe, Stored, vars
  <2> QED
    BY <1>2, <1>3, <2>1
<1>17. CASE CleanJournal \/ DiscardJournal \/ EndRollback
  BY <1>1, <1>17 DEF CleanJournal, DiscardJournal, EndRollback, NoJournal, Open
<1>18. CASE CleanBackup \/ CleanStage
  BY <1>3, <1>18 DEF CleanBackup, CleanStage, AInv, IInv, JournalMatchesStep,
     JournalPublished, Open
<1>19. CASE AcceptMarker \/ Adopt \/ GoImport \/ Resolve \/ RefuseImport \/ PrepareStage
            \/ ExtractRoot \/ ExtractFails \/ ValidateStage \/ ClearBackup
            \/ FinishBackup \/ FinishStage \/ DropBackup
  BY <1>4, <1>19 DEF AcceptMarker, Adopt, GoImport, Resolve, RefuseImport, PrepareStage,
     ExtractRoot, ExtractFails, ValidateStage, ClearBackup, FinishBackup, FinishStage,
     DropBackup, JournalGone, Stored
<1>20. CASE WriteMarker
  BY <1>1, <1>20 DEF WriteMarker, Open
<1> QED
  BY <1>5, <1>6, <1>7, <1>8, <1>9, <1>10, <1>11, <1>12, <1>13, <1>14, <1>15, <1>16, <1>17,
     <1>18, <1>19, <1>20 DEF AStep, Next, Importer, Failure, Commit, Rollback

\* Without an open transaction the renames of the live tree are settled: a power
\* cut can change nothing there.
LEMMA SettledStep ==
    ASSUME AInv, AStep
    PROVE  LiveSettled'
<1>0. /\ journal \in [txn : TxnIds \cup {NoTxn}, state : [Roots -> RecordStates],
                      new : [Roots -> Payload], old : [Roots -> Payload]]
      /\ disk \in [Roots -> Position] /\ mayBe \in [Roots -> SUBSET Position] /\ i \in Roots
  BY DEF AInv, IInv, TypeOK
<1>1. CASE Open'
  BY <1>1 DEF LiveSettled
<1>2. CASE mayBe' = Settled(disk')
  BY <1>2 DEF LiveSettled, Settled
<1>3. CASE ~Open /\ UNCHANGED Disk
  BY <1>3 DEF LiveSettled, Disk, AInv
<1>4. CASE Open /\ UNCHANGED <<journal, marker>>
  BY <1>1, <1>4 DEF Open
<1>5. CASE Start \/ Recover \/ VerifyInstalled \/ RefuseToTouch \/ Raise \/ ShipRecipe
           \/ UNCHANGED vars
  BY <1>3, <1>4, <1>5 DEF Start, Recover, VerifyInstalled, RefuseToTouch, Raise, ShipRecipe,
     Stored, Disk, vars
<1>6. CASE CleanBackup \/ CleanStage \/ ExtractFails
           \/ ClearBackup \/ SyncParents \/ FinishBackup \/ FinishStage \/ EndRollback
           \/ DropBackup \/ PowerCut
  BY <1>2, <1>6 DEF CleanBackup, CleanStage, ExtractFails,
     ClearBackup, SyncParents, FinishBackup, FinishStage, EndRollback, DropBackup, PowerCut
<1>15. CASE PrepareStage \/ ExtractRoot
  <2>1. UNCHANGED <<journal, marker>>
    BY <1>15 DEF PrepareStage, ExtractRoot
  <2>2. UNCHANGED Disk \/ mayBe' = Settled(disk')
    BY <1>15, StagingEffects DEF AInv, IInv
  <2> QED
    BY <1>2, <1>3, <1>4, <2>1, <2>2
<1>7. CASE CleanJournal \/ AcceptMarker \/ Adopt \/ GoImport \/ Resolve \/ RefuseImport
           \/ ValidateStage \/ DiscardJournal
  <2>1. ~Open
    BY <1>7 DEF CleanJournal, AcceptMarker, Adopt, GoImport, Resolve, RefuseImport,
       ValidateStage, DiscardJournal, AInv, IInv, JournalMatchesStep, JournalGone,
       JournalPublished, Open
  <2> QED
    BY <1>3, <1>7, <2>1 DEF CleanJournal, AcceptMarker, Adopt, GoImport, Resolve, RefuseImport,
       ValidateStage, DiscardJournal, Stored, Disk
<1>8. CASE Begin
  BY <1>1, <1>8, TxnAssumption DEF Begin, FreshTxn, Open
<1>9. CASE IntendBackup \/ BackedUp \/ IntendInstall \/ Installed \/ RestoreOriginal
  <2>1. journal'.txn = journal.txn /\ marker' = marker /\ Open
    BY <1>0, <1>9 DEF IntendBackup, BackedUp, IntendInstall, Installed, RestoreOriginal, SetState,
       AInv, OpenAtSteps, OpenSteps, CommitSteps
  <2> QED
    BY <1>1, <2>1 DEF Open
<1>10. CASE BackUp \/ Install \/ UndoInstall
  BY <1>4, <1>10 DEF BackUp, Install, UndoInstall, AInv, OpenAtSteps, OpenSteps, CommitSteps
<1>11. CASE WriteMarker
  BY <1>2, <1>11 DEF WriteMarker, Disk, AInv, Advanced
<1>12. CASE Kill /\ ~Open
  <2>1. PICK d \in [Roots -> UNION {Halfway(r) : r \in Roots}] :
           /\ \A r \in Roots : d[r] \in Halfway(r)
           /\ disk' = d /\ mayBe' = [r \in Roots |-> mayBe[r] \cup {d[r]}]
    BY <1>12 DEF Kill
  <2>2. \A r \in Roots : d[r].live = disk[r].live
    BY <1>12, <2>1, HalfwayLive
  <2>3. \A r \in Roots : \A p \in mayBe[r] : p.live = disk[r].live
    BY <1>12 DEF AInv, LiveSettled
  <2>4. \A r \in Roots : \A p \in mayBe'[r] : p.live = disk'[r].live
    BY <2>1, <2>2, <2>3
  <2> QED
    BY <2>4 DEF LiveSettled
<1>13. CASE Kill /\ Open
  BY <1>4, <1>13 DEF Kill
<1>14. CASE Tamper
  <2>1. ~Open
    BY <1>14 DEF Tamper, AStep, AInv, IInv, TypeOK
  <2>2. PICK r \in Roots, c \in TamperTo :
           /\ disk' = [disk EXCEPT ![r].live = c]
           /\ mayBe' = [mayBe EXCEPT ![r] = {[p EXCEPT !.live = c] : p \in @}]
    BY <1>14 DEF Tamper
  <2>3. \A q \in Roots : q # r => disk'[q] = disk[q] /\ mayBe'[q] = mayBe[q]
    BY <1>0, <2>2
  <2>4. disk'[r].live = c /\ mayBe'[r] = {[p EXCEPT !.live = c] : p \in mayBe[r]}
    BY <1>0, <2>2 DEF Position
  <2>5. \A p \in mayBe'[r] : p.live = c
    BY <1>0, <2>4 DEF Position
  <2>6. \A q \in Roots : \A p \in mayBe'[q] : p.live = disk'[q].live
    BY <2>1, <2>3, <2>4, <2>5 DEF AInv, LiveSettled
  <2> QED
    BY <2>6 DEF LiveSettled
<1> QED
  BY <1>5, <1>6, <1>7, <1>8, <1>9, <1>10, <1>11, <1>12, <1>13, <1>14, <1>15
     DEF AStep, Next, Importer, Failure, Commit, Rollback

\* The steps of commit() leave the roots behind them replaced, the one in hand at
\* its stage.
LEMMA AdvancedStep ==
    ASSUME ReplacesAll, AInv, AStep
    PROVE  Advanced'
<1> USE DEF AInv, Advanced, BeforeBackup, AfterBackup, RootSteps
<1>0. /\ journal \in [txn : TxnIds \cup {NoTxn}, state : [Roots -> RecordStates],
                      new : [Roots -> Payload], old : [Roots -> Payload]]
      /\ disk \in [Roots -> Position] /\ mayBe \in [Roots -> SUBSET Position] /\ i \in Roots
      /\ \A r \in Roots : r \in Nat
  BY DEF IInv, TypeOK, Roots
<1>1. CASE pc' \notin RootSteps \cup {"verify", "sync", "publish"}
  BY <1>1
<1>2. CASE Begin
  <2>1. \A r \in Roots : /\ journal'.old[r] = disk[r].live /\ journal'.new[r] = disk[r].staged
                         /\ disk[r].saved = None
    BY <1>2 DEF Begin, PlanAccepted
  <2>2. \A r \in Roots : disk'[r] = Untouched(r)'
    BY <1>0, <1>2, <2>1 DEF Untouched, Position, Begin, Disk
  <2>3. i' = 1 /\ \A r \in Roots : ~(r < 1)
    BY <1>2 DEF Begin, Roots
  <2>4. CASE disk[1].live # None
    BY <1>2, <2>1, <2>2, <2>3, <2>4, PayloadFacts DEF Begin
  <2>5. CASE disk[1].live = None
    <3>1. disk'[1] = SetAside(1)'
      BY <2>1, <2>2, <2>5, PayloadFacts DEF Untouched, SetAside
    <3> QED
      BY <1>2, <2>3, <2>5, <3>1 DEF Begin
  <2> QED
    BY <2>4, <2>5
<1>3. CASE IntendBackup \/ BackedUp \/ IntendInstall
  <2>1. /\ journal'.old = journal.old /\ journal'.new = journal.new /\ disk' = disk /\ i' = i
    BY <1>0, <1>3 DEF IntendBackup, BackedUp, IntendInstall, SetState, Disk
  <2>2. \A r \in Roots : Untouched(r)' = Untouched(r) /\ SetAside(r)' = SetAside(r)
    BY <2>1 DEF Untouched, SetAside
  <2> QED
    BY <1>0, <1>3, <2>1, <2>2 DEF IntendBackup, BackedUp, IntendInstall
<1>4. CASE BackUp
  <2>1. disk'[i] = SetAside(i) /\ \A r \in Roots \ {i} : disk'[r] = disk[r]
    BY <1>0, <1>4, BackUpMoves DEF MoveTo
  <2>2. SetAside(i)' = SetAside(i') /\ i' = i /\ journal' = journal /\ SetAside(i') = SetAside(i)
    BY <1>4 DEF BackUp, SetAside
  <2> QED
    BY <1>0, <1>4, <2>1, <2>2 DEF BackUp
<1>5. CASE Install
  <2>1. disk'[i] = Replaced(i) /\ \A r \in Roots \ {i} : disk'[r] = disk[r]
    BY <1>0, <1>5, InstallMoves DEF MoveTo
  <2>2. i' = i /\ journal' = journal /\ disk'[i].live = journal.new[i]
    BY <1>5, <2>1, StageFields DEF Install
  <2> QED
    BY <1>0, <1>5, <2>1, <2>2 DEF Install
<1>6. CASE Installed
  <2>1. /\ journal'.old = journal.old /\ journal'.new = journal.new /\ disk' = disk
        /\ Open /\ pc = "installed"
    BY <1>0, <1>6 DEF Installed, SetState, Disk, OpenAtSteps, OpenSteps, CommitSteps
  <2>2. \A r \in Roots : r <= i => disk[r].live = journal.new[r]
    BY <1>0, <2>1
  <2>3. CASE i = N
    <3>1. \A r \in Roots : disk[r].live = journal.new[r]
      BY <1>0, <2>2, <2>3 DEF Roots
    <3> QED
      BY <1>6, <2>1, <2>3, <3>1 DEF Installed
  <2>4. CASE i # N
    <3>1. i + 1 \in Roots /\ i' = i + 1
      BY <1>6, <2>4 DEF Installed, IInv, TypeOK, Roots
    <3>2. \A r \in Roots : r < i + 1 => disk[r].live = journal.new[r]
      BY <1>0, <2>2
    <3>3. disk[i + 1].live = journal.old[i + 1]
      BY <1>0, <2>1, <3>1 DEF IInv, RootsAhead
    <3>4. \A r \in Roots : disk[r].live = journal.old[r] =>
             disk[r] = IF journal.old[r] # None THEN Untouched(r) ELSE SetAside(r)
      <4> SUFFICES ASSUME NEW r \in Roots, disk[r].live = journal.old[r]
                   PROVE  disk[r] = IF journal.old[r] # None THEN Untouched(r) ELSE SetAside(r)
        OBVIOUS
      <4>1. /\ disk[r] \in {Untouched(r), SetAside(r), Replaced(r)}
            /\ journal.old[r] # journal.new[r]
        BY <2>1, OpenFacts
      <4>2. journal.old[r] = None => Untouched(r) = SetAside(r)
        BY DEF Untouched, SetAside
      <4> QED
        BY <4>1, <4>2, StageFields
    <3>5. journal.old[i + 1] # None =>
            disk[i + 1] = [live |-> journal.old[i + 1], staged |-> journal.new[i + 1], saved |-> None]
      BY <3>1, <3>3, <3>4 DEF Untouched
    <3>6. journal.old[i + 1] = None =>
            disk[i + 1] = [live |-> None, staged |-> journal.new[i + 1], saved |-> journal.old[i + 1]]
      BY <3>1, <3>3, <3>4 DEF SetAside
    <3>7. pc' = IF journal.old[i + 1] # None THEN "intend-backup" ELSE "intend-install"
      BY <1>6, <2>4 DEF Installed
    <3>8. CASE journal.old[i + 1] # None
      <4>1. pc' = "intend-backup" /\ journal'.old[i'] # None
            /\ disk'[i'] = [live |-> journal'.old[i'], staged |-> journal'.new[i'], saved |-> None]
        BY <2>1, <3>1, <3>5, <3>7, <3>8
      <4> QED
        BY <2>1, <3>1, <3>2, <4>1 DEF Untouched
    <3>9. CASE journal.old[i + 1] = None
      <4>1. pc' = "intend-install"
            /\ disk'[i'] = [live |-> None, staged |-> journal'.new[i'], saved |-> journal'.old[i']]
        BY <2>1, <3>1, <3>6, <3>7, <3>9
      <4> QED
        BY <2>1, <3>1, <3>2, <4>1 DEF SetAside
    <3> QED
      BY <3>8, <3>9
  <2> QED
    BY <2>3, <2>4
<1>7. CASE VerifyInstalled
  BY <1>7 DEF VerifyInstalled, Stored
<1>8. CASE SyncParents
  BY <1>8 DEF SyncParents
<1>9. CASE UNCHANGED vars
  <2>1. UNCHANGED <<disk, mayBe, journal, pc, i>>
    BY <1>9 DEF vars
  <2>2. \A r \in Roots : Untouched(r)' = Untouched(r) /\ SetAside(r)' = SetAside(r)
    BY <2>1 DEF Untouched, SetAside
  <2> QED
    BY <1>0, <2>1, <2>2 DEF Settled
<1>10. CASE Start \/ Recover \/ CleanBackup \/ CleanStage \/ CleanJournal \/ AcceptMarker
            \/ Adopt \/ GoImport \/ Resolve \/ PrepareStage \/ ExtractRoot \/ ValidateStage
            \/ ClearBackup
  BY <1>1, <1>10 DEF Start, Recover, CleanBackup, CleanStage, CleanJournal, AcceptMarker,
     Adopt, GoImport, Resolve, PrepareStage, ExtractRoot, ValidateStage, ClearBackup, Exit
<1>11. CASE WriteMarker \/ DiscardJournal \/ FinishBackup \/ FinishStage \/ Rollback
  BY <1>1, <1>11 DEF WriteMarker, DiscardJournal, FinishBackup, FinishStage, Rollback,
     UndoInstall, RestoreOriginal, RefuseToTouch, EndRollback, DropBackup, Exit
<1>12. CASE Failure \/ Tamper \/ ShipRecipe
  BY <1>1, <1>12 DEF Failure, RefuseImport, ExtractFails, Raise, Kill, PowerCut, Die, Exit,
     Tamper, ShipRecipe
<1> QED
  BY <1>2, <1>3, <1>4, <1>5, <1>6, <1>7, <1>8, <1>9, <1>10, <1>11, <1>12
     DEF AStep, Next, Importer, Commit

\* The steps of rollback() leave the roots behind them as the user had them.
LEMMA RetreatedStep ==
    ASSUME AInv, AStep
    PROVE  Retreated'
<1> USE DEF AInv, Retreated
<1>0. /\ journal \in [txn : TxnIds \cup {NoTxn}, state : [Roots -> RecordStates],
                      new : [Roots -> Payload], old : [Roots -> Payload]]
      /\ disk \in [Roots -> Position] /\ mayBe \in [Roots -> SUBSET Position] /\ i \in Roots
      /\ \A r \in Roots : r \in Nat /\ ~(r > N)
  BY DEF IInv, TypeOK, Roots
<1>1. CASE pc' \notin {"undo", "restore", "end-rollback"}
  BY <1>1
<1>2. CASE Recover \/ Raise \/ VerifyInstalled
  BY <1>0, <1>2 DEF Recover, Raise, VerifyInstalled
<1>3. CASE UndoInstall
  <2>1. pc = "undo" /\ pc' = "restore" /\ i' = i /\ journal' = journal
    BY <1>3 DEF UndoInstall
  <2>2. CASE disk[i].live # journal.new[i] /\ UNCHANGED Disk
    BY <2>1, <2>2 DEF Disk
  <2>3. CASE MoveTo(i, SetAside(i))
    <3>1. disk'[i] = SetAside(i) /\ \A r \in Roots \ {i} : disk'[r] = disk[r]
      BY <1>0, <2>3 DEF MoveTo
    <3>2. disk'[i].live # journal.new[i]
      BY <1>0, <1>3, <3>1, UndoMoves, OpenFacts, StageFields
    <3> QED
      BY <1>0, <2>1, <3>1, <3>2
  <2> QED
    BY <1>3, <2>2, <2>3, UndoMoves
<1>4. CASE RestoreOriginal
  <2>1. pc = "restore" /\ journal'.old = journal.old /\ journal'.new = journal.new
    BY <1>0, <1>4 DEF RestoreOriginal, SetState
  <2>2. disk'[i].live = journal.old[i] /\ \A r \in Roots \ {i} : disk'[r] = disk[r]
    <3>1. CASE disk[i].live = journal.old[i] /\ UNCHANGED Disk
      BY <3>1 DEF Disk
    <3>2. CASE MoveTo(i, Untouched(i))
      BY <1>0, <3>2, StageFields DEF MoveTo
    <3> QED
      BY <1>4, <3>1, <3>2, RestoreMoves
  <2>3. \A r \in Roots : r >= i => disk'[r].live = journal.old[r]
    BY <1>0, <2>1, <2>2
  <2>4. CASE i = 1
    BY <1>4, <2>1, <2>3, <2>4 DEF RestoreOriginal, Roots
  <2>5. CASE i # 1
    <3>1. pc' = "undo" /\ i' = i - 1
      BY <1>4, <2>5 DEF RestoreOriginal
    <3>2. \A r \in Roots : r > i - 1 => disk'[r].live = journal.old[r]
      BY <1>0, <2>3
    <3> QED
      BY <2>1, <3>1, <3>2
  <2> QED
    BY <2>4, <2>5
<1>5. CASE UNCHANGED vars
  BY <1>5 DEF vars
<1>6. CASE Start \/ CleanBackup \/ CleanStage \/ CleanJournal \/ AcceptMarker
           \/ Adopt \/ GoImport \/ Resolve \/ PrepareStage \/ ExtractRoot \/ ValidateStage
           \/ ClearBackup \/ Begin
  BY <1>1, <1>6 DEF Start, CleanBackup, CleanStage, CleanJournal, AcceptMarker,
     Adopt, GoImport, Resolve, PrepareStage, ExtractRoot, ValidateStage, ClearBackup, Begin, Exit
<1>7. CASE IntendBackup \/ BackUp \/ BackedUp \/ IntendInstall \/ Install \/ Installed
           \/ SyncParents \/ WriteMarker \/ DiscardJournal \/ FinishBackup \/ FinishStage
  BY <1>1, <1>7 DEF IntendBackup, BackUp, BackedUp, IntendInstall, Install, Installed,
     SyncParents, WriteMarker, DiscardJournal, FinishBackup, FinishStage, Exit
<1>8. CASE RefuseToTouch \/ EndRollback \/ DropBackup \/ RefuseImport \/ ExtractFails \/ Kill
           \/ PowerCut
  BY <1>1, <1>8 DEF RefuseToTouch, EndRollback, DropBackup, RefuseImport, ExtractFails, Kill,
     PowerCut, Die, Exit
<1>9. CASE Tamper \/ ShipRecipe
  BY <1>1, <1>9 DEF Tamper, ShipRecipe
<1> QED
  BY <1>2, <1>3, <1>4, <1>5, <1>6, <1>7, <1>8, <1>9
     DEF AStep, Next, Importer, Failure, Commit, Rollback

\* AInv is inductive: the conjuncts one by one, IInv' by its own lemmas.
LEMMA AInvStep ==
    ASSUME ~LateFailure, ReplacesAll, AInv, AStep, IInv'
    PROVE  AInv'
  BY OpenAtStep, PlanStep, SettledStep, LegalStep, AdvancedStep, RetreatedStep DEF AInv

LEMMA AInvInit ==
    ASSUME Init, IInv
    PROVE  AInv
<1>1. journal.txn = NoTxn /\ marker.txn = NoTxn /\ pc = "down"
  BY DEF Init, NoJournal, NoMarker
<1>2. \A r \in Roots : \A p \in mayBe[r] : p.live = disk[r].live
  BY DEF Init
<1> QED
  BY <1>1, <1>2 DEF AInv, OpenAtSteps, OpenSteps, PlanAccepted, Validated, CommitSteps, LiveSettled,
     RootsLegal, Advanced, BeforeBackup, AfterBackup, RootSteps, Retreated, Open

\* An import of one root begins because that root is not what the recipe accepts.
NotAccepted ==
    pc \in {"resolve", "prepare", "extract", "validate", "clear-backup", "begin"}
        => Live \notin Valid[recipe]

LEMMA NotAcceptedStep ==
    ASSUME ~ForceImport, TypeOK, NotAccepted, [Next]_vars
    PROVE  NotAccepted'
<1> USE DEF NotAccepted
<1>0. disk \in [Roots -> Position]
  BY DEF TypeOK
<1>1. CASE UNCHANGED <<disk, recipe>> /\ pc \in {"resolve", "prepare", "extract", "validate",
                                                 "clear-backup"}
  BY <1>1 DEF Live
<1>2. CASE Resolve \/ ValidateStage
  BY <1>1, <1>2 DEF Resolve, ValidateStage, Stored, Outside
<1>3. CASE GoImport
  BY <1>3 DEF GoImport, Live, Stored, Outside
<1>4. CASE PrepareStage \/ ExtractRoot \/ ClearBackup
  <2>1. \A r \in Roots : disk'[r].live = disk[r].live
    BY <1>0, <1>4 DEF PrepareStage, ExtractRoot, ClearBackup, DropStaged, DropSaved, Position
  <2>2. Live' = Live
    BY <2>1 DEF Live
  <2> QED
    BY <1>4, <2>2 DEF PrepareStage, ExtractRoot, ClearBackup, Outside
<1>5. CASE Start \/ Recover \/ CleanBackup \/ CleanStage \/ CleanJournal \/ AcceptMarker
           \/ Adopt \/ Begin
  BY <1>5 DEF Start, Recover, CleanBackup, CleanStage, CleanJournal, AcceptMarker, Adopt, Begin,
     Exit
<1>6. CASE Commit
  BY <1>6 DEF Commit, IntendBackup, BackUp, BackedUp, IntendInstall, Install, Installed,
     VerifyInstalled, SyncParents, WriteMarker, DiscardJournal, FinishBackup, FinishStage, Exit
<1>7. CASE Rollback
  BY <1>7 DEF Rollback, UndoInstall, RestoreOriginal, RefuseToTouch, EndRollback, DropBackup, Exit
<1>8. CASE Failure
  BY <1>8 DEF Failure, RefuseImport, ExtractFails, Raise, Kill, PowerCut, Die, Exit
<1>9. CASE Tamper \/ ShipRecipe
  BY <1>9 DEF Tamper, ShipRecipe
<1>10. CASE UNCHANGED vars
  BY <1>10 DEF vars, Live
<1> QED
  BY <1>2, <1>3, <1>4, <1>5, <1>6, <1>7, <1>8, <1>9, <1>10 DEF Next, Importer

LEMMA OneRootReplaced ==
    ASSUME N = 1, PlanAccepted, NotAccepted, recipe \in Recipes
    PROVE  ReplacesAll
<1> SUFFICES ASSUME pc = "begin", NEW r \in Roots, disk[r].live = disk[r].staged
             PROVE  FALSE
  BY DEF ReplacesAll
<1>1. plan \in Valid[recipe] /\ disk[r].staged = plan[r]
  BY DEF PlanAccepted, Validated
<1>2. plan \in [Roots -> Contents]
  BY <1>1, PayloadFacts DEF Whole
<1>3. \A q \in Roots : disk[q].live = plan[q]
  BY <1>1 DEF Roots
<1>4. Live = plan
  BY <1>2, <1>3 DEF Live
<1> QED
  BY <1>1, <1>4 DEF NotAccepted

\* The refinement mapping: a step shows to AtomicInstall when it publishes,
\* adopts, or is the user's.
LEMMA HiddenWhileOpen ==
    ASSUME Open, marker' = marker, journal'.txn = journal.txn, journal'.old = journal.old
    PROVE  UNCHANGED <<Effective, Certificate>>
  BY DEF Open, Effective, Certificate

LEMMA HiddenOtherwise ==
    ASSUME ~Open, ~Open', marker' = marker, \A r \in Roots : disk'[r].live = disk[r].live
    PROVE  UNCHANGED <<Effective, Certificate>>
<1>1. Live' = Live
  BY DEF Live
<1> QED
  BY <1>1 DEF Effective, Certificate

LEMMA Maps ==
    ASSUME ~LateFailure, AInv, AStep, AInv'
    PROVE  [Abstract!Next]_<<Effective, Certificate>>
<1> DEFINE Stutter == UNCHANGED <<Effective, Certificate>>
<1>0. /\ journal \in [txn : TxnIds \cup {NoTxn}, state : [Roots -> RecordStates],
                      new : [Roots -> Payload], old : [Roots -> Payload]]
      /\ disk \in [Roots -> Position] /\ disk' \in [Roots -> Position] /\ i \in Roots
      /\ recipe \in Recipes
  BY DEF AInv, IInv, TypeOK
<1>1. CASE UNCHANGED <<disk, journal, marker>>
  BY <1>1 DEF Effective, Certificate, Open, Live
<1>2. CASE Start \/ Recover \/ AcceptMarker \/ GoImport \/ Resolve \/ RefuseImport \/ ValidateStage
           \/ VerifyInstalled \/ SyncParents \/ Raise \/ RefuseToTouch \/ ShipRecipe
           \/ UNCHANGED vars
  BY <1>1, <1>2 DEF Start, Recover, AcceptMarker, GoImport, Resolve, RefuseImport, ValidateStage,
     VerifyInstalled, SyncParents, Raise, RefuseToTouch, ShipRecipe, Stored, vars
<1>3. CASE CleanBackup \/ CleanStage \/ PrepareStage \/ ExtractRoot \/ ExtractFails \/ ClearBackup
           \/ FinishBackup \/ FinishStage \/ DropBackup
  <2>1. ~Open /\ marker' = marker /\ journal' = journal
    BY <1>3 DEF CleanBackup, CleanStage, PrepareStage, ExtractRoot, ExtractFails, ClearBackup,
       FinishBackup, FinishStage, DropBackup, AInv, IInv, JournalMatchesStep, JournalGone,
       JournalPublished, Open
  <2>2. \A r \in Roots : disk'[r].live = disk[r].live
    BY <1>0, <1>3 DEF CleanBackup, CleanStage, PrepareStage, ExtractRoot, ExtractFails, ClearBackup,
       FinishBackup, FinishStage, DropBackup, DropStaged, DropSaved, Position
  <2>3. ~Open'
    BY <2>1 DEF Open
  <2> QED
    BY <2>1, <2>2, <2>3, HiddenOtherwise
<1>4. CASE CleanJournal \/ DiscardJournal
  <2>1. ~Open /\ marker' = marker /\ disk' = disk /\ journal'.txn = NoTxn
    BY <1>4 DEF CleanJournal, DiscardJournal, AInv, IInv, JournalMatchesStep, JournalPublished, Open,
       NoJournal, Disk
  <2>2. ~Open'
    BY <2>1 DEF Open
  <2> QED
    BY <2>1, <2>2, HiddenOtherwise
<1>5. CASE IntendBackup \/ BackUp \/ BackedUp \/ IntendInstall \/ Install \/ Installed
           \/ UndoInstall \/ RestoreOriginal
  <2>1. Open
    BY <1>5 DEF IntendBackup, BackUp, BackedUp, IntendInstall, Install, Installed, UndoInstall,
       RestoreOriginal, AInv, OpenAtSteps, OpenSteps, CommitSteps
  <2>2. marker' = marker /\ journal'.txn = journal.txn /\ journal'.old = journal.old
    BY <1>0, <1>5 DEF IntendBackup, BackUp, BackedUp, IntendInstall, Install, Installed,
       UndoInstall, RestoreOriginal, SetState
  <2> QED
    BY <2>1, <2>2, HiddenWhileOpen
<1>6. CASE Begin
  <2>1. ~Open /\ Open' /\ marker' = marker
    BY <1>6, TxnAssumption DEF Begin, FreshTxn, AInv, IInv, JournalMatchesStep, JournalGone, Open
  <2>2. journal'.old = Live
    BY <1>6 DEF Begin, Live
  <2> QED
    BY <2>1, <2>2 DEF Effective, Certificate
<1>7. CASE EndRollback
  <2>1. Open /\ ~Open' /\ marker' = marker /\ disk' = disk
    BY <1>7 DEF EndRollback, AInv, OpenAtSteps, OpenSteps, Open, NoJournal
  <2>2. \A r \in Roots : disk[r].live = journal.old[r]
    BY <1>7 DEF EndRollback, AInv, Retreated
  <2>3. Live' = journal.old
    BY <1>0, <2>1, <2>2 DEF Live
  <2> QED
    BY <2>1, <2>3 DEF Effective, Certificate
<1>8. CASE WriteMarker
  <2>1. /\ plan \in Valid[recipe] /\ journal.new = plan /\ journal.txn # NoTxn
        /\ \A r \in Roots : disk[r].live = journal.new[r]
    BY <1>8 DEF WriteMarker, AInv, OpenAtSteps, OpenSteps, CommitSteps, PlanAccepted, Validated,
       Advanced, Open
  <2>2. ~Open' /\ Live' = plan
    <3>1. journal' = journal /\ disk' = disk /\ marker'.txn = journal.txn
      BY <1>8 DEF WriteMarker, Disk
    <3> QED
      BY <1>0, <2>1, <3>1 DEF Live, Open
  <2>3. Effective' = plan /\ Certificate' = [recipe |-> recipe, items |-> plan]
    BY <1>8, <2>1, <2>2 DEF Effective, Certificate, WriteMarker
  <2> QED
    BY <1>0, <2>1, <2>3 DEF Abstract!Next, Abstract!Publish
<1>9. CASE Adopt
  <2>1. Live \in Valid[recipe]
    BY <1>9 DEF Adopt
  <2>2. PICK t \in FreshTxn : marker' = [txn |-> t, recipe |-> recipe, items |-> Live]
    BY <1>9 DEF Adopt
  <2>3. ~Open /\ ~Open' /\ Live' = Live
    BY <1>9 DEF Adopt, AInv, IInv, JournalMatchesStep, JournalGone, Open, Disk, Live
  <2>4. marker'.txn # NoTxn
    BY <2>2, TxnAssumption DEF FreshTxn
  <2>5. /\ Effective = Live /\ Effective' = Live
        /\ Certificate' = [recipe |-> recipe, items |-> Live]
    BY <2>2, <2>3, <2>4 DEF Effective, Certificate
  <2> QED
    BY <1>0, <2>1, <2>5 DEF Abstract!Next, Abstract!Adopt
<1>10. CASE Kill \/ PowerCut
  <2>1. marker' = marker /\ journal' = journal
    BY <1>10 DEF Kill, PowerCut
  <2>2. CASE Open
    BY <2>1, <2>2, HiddenWhileOpen
  <2>3. CASE ~Open
    <3>1. \A r \in Roots : disk'[r] \in mayBe[r] \cup Halfway(r)
      BY <1>10 DEF Kill, PowerCut
    <3>2. \A r \in Roots : disk'[r].live = disk[r].live
      BY <2>3, <3>1, HalfwayLive DEF AInv, LiveSettled
    <3>3. ~Open'
      BY <2>1, <2>3 DEF Open
    <3> QED
      BY <2>1, <2>3, <3>2, <3>3, HiddenOtherwise
  <2> QED
    BY <2>2, <2>3
<1>11. CASE Tamper
  <2>1. ~Open /\ ~Open' /\ marker' = marker
    BY <1>11 DEF Tamper, AStep, AInv, IInv, TypeOK, Open
  <2>2. PICK r \in Roots, c \in TamperTo : disk' = [disk EXCEPT ![r].live = c]
    BY <1>11 DEF Tamper
  <2>3. disk'[r].live = c /\ \A q \in Roots \ {r} : disk'[q] = disk[q]
    BY <1>0, <2>2 DEF Position
  <2>4. Live' = [Live EXCEPT ![r] = c]
    BY <2>3 DEF Live
  <2>5. Effective' = [Effective EXCEPT ![r] = c] /\ Certificate' = Certificate
    BY <2>1, <2>4 DEF Effective, Certificate
  <2> QED
    BY <2>5 DEF Abstract!Next, Abstract!Tamper
<1> QED
  BY <1>2, <1>3, <1>4, <1>5, <1>6, <1>7, <1>8, <1>9, <1>10, <1>11
     DEF AStep, Next, Importer, Failure, Commit, Rollback

LEMMA MapsInit ==
    ASSUME Init
    PROVE  Abstract!Init
<1>1. PICK payload \in InitialPayloads : disk = [r \in Roots |->
                      [live |-> payload[r], staged |-> None, saved |-> None]]
  BY DEF Init
<1>2. payload \in [Roots -> Contents \cup {None}]
  BY UserAssumption
<1>3. Live = payload
  BY <1>1, <1>2 DEF Live
<1>4. journal.txn = NoTxn /\ marker.txn = NoTxn
  BY DEF Init, NoJournal, NoMarker
<1> QED
  BY <1>3, <1>4 DEF Abstract!Init, Effective, Certificate, Open

\* The importer implements an atomic switch of the payload, through every kill, power
\* cut and exception before its marker is written, and however many roots the recipe
\* has, while the user leaves an open transaction alone and no transaction finds a
\* root that already holds its new payload.
THEOREM AtomicSwitch ==
    ASSUME ~LateFailure
    PROVE  Spec /\ []ReplacesAll /\ LeftAlone => Atomic
<1>1. Init /\ IInv => AInv /\ Abstract!Init
  BY AInvInit, MapsInit
<1>2. /\ AInv /\ ReplacesAll /\ [Next]_vars /\ [Open => tampers' = tampers]_vars /\ IInv'
      => AInv' /\ [Abstract!Next]_<<Effective, Certificate>>
  <2> SUFFICES ASSUME AInv, ReplacesAll, [Next]_vars, [Open => tampers' = tampers]_vars, IInv'
               PROVE  AInv' /\ [Abstract!Next]_<<Effective, Certificate>>
    OBVIOUS
  <2>1. AStep
    BY DEF AStep, vars
  <2>2. AInv'
    BY <2>1, AInvStep
  <2> QED
    BY <2>1, <2>2, Maps
<1> QED
  BY <1>1, <1>2, SpecIInv, PTL DEF Spec, LeftAlone, Atomic, Abstract!Spec

\* The same of the recipe that ships, which has one root: a run that was not told to
\* import whatever it finds never begins over a root that holds the new payload, so
\* the only hypotheses left are that the marker is not written and then disowned, and
\* that the user waits.
THEOREM AtomicOneRoot ==
    ASSUME N = 1, ~LateFailure, ~ForceImport
    PROVE  Spec /\ LeftAlone => Atomic
<1>1. Init => NotAccepted
  BY DEF Init, NotAccepted
<1>2. IInv /\ NotAccepted /\ [Next]_vars => NotAccepted'
  BY NotAcceptedStep DEF IInv
<1>3. Init /\ IInv => AInv
  BY AInvInit
<1>4. AInv /\ NotAccepted => ReplacesAll
  BY OneRootReplaced DEF AInv, IInv, TypeOK
<1>5. /\ AInv /\ ReplacesAll /\ [Next]_vars /\ [Open => tampers' = tampers]_vars /\ IInv'
      => AInv'
  BY AInvStep DEF AStep, vars
<1>6. Spec /\ LeftAlone => []ReplacesAll
  BY <1>1, <1>2, <1>3, <1>4, <1>5, SpecIInv, PTL DEF Spec, LeftAlone
<1> QED
  BY <1>6, AtomicSwitch, PTL

-----------------------------------------------------------------------------
(* A start of the port.                                                    *)

HIDE NAssumption

-----------------------------------------------------------------------------
(* Neither property is inductive: what the importer calls ready was        *)
(* planned, measured and certified several steps before.                   *)

\* The marker names a payload that its recipe accepts.
MarkerValid == marker.txn # NoTxn => /\ marker.recipe \in Recipes
                                     /\ marker.items \in Valid[marker.recipe]

\* Steps of a run whose stage has been validated, and those after its last look
\* at the live tree, and those after its marker.
AfterValidation == {"clear-backup", "begin", "finish-backup", "finish-stage"} \cup CommitSteps
AfterVerify     == {"sync", "publish", "discard", "finish-backup", "finish-stage"}
AfterMarker     == {"discard", "finish-backup", "finish-stage"}

PlanValid   == pc \in AfterValidation => plan \in Valid[recipe]
PlanInPlace == pc \in AfterVerify => SizesMatch(plan)
PlanMarked  == pc \in AfterMarker => /\ marker.txn # NoTxn /\ marker.recipe = recipe
                                     /\ marker.items = plan

\* A journal is on disk from Begin to DiscardJournal or EndRollback, and none
\* otherwise: a record without a transaction is no journal at all.
JournalHeld ==
    /\ pc \in CommitSteps \cup {"undo", "restore", "end-rollback"} => journal.txn # NoTxn
    /\ journal.txn = NoTxn => journal = NoJournal

\* The verdict "ready" is the last word of a run.
ReadyRests == outcome = "ready" => pc = "down" /\ journal = NoJournal /\ FastPath

RunInv == /\ TypeOK /\ JournalMatchesStep
          /\ MarkerValid /\ PlanValid /\ PlanInPlace /\ PlanMarked /\ JournalHeld /\ ReadyRests

\* The importer works only under a launcher that waits for it.
StageOK == /\ stage \in {"off", "importing", "playing"}
           /\ stage # "importing" => pc = "down"

LInv == RunInv /\ StageOK

\* Two trees with the same sizes are both accepted or both refused: all that the
\* fast path and the look at the installed tree compare are the sizes.
SizesTell ==
    \A rec \in Recipes : \A v \in Valid[rec], p \in Whole :
        (\A r \in Roots : SizeOf[p[r]] = SizeOf[v[r]]) => p \in Valid[rec]

-----------------------------------------------------------------------------
(* One step of the importer.                                               *)

\* Sizes are read in the live tree only.
LEMMA SizesKept ==
    ASSUME NEW items, SizesMatch(items), \A r \in Roots : disk'[r].live = disk[r].live
    PROVE  \A r \in Roots : disk'[r].live \in Contents /\ SizeOf[disk'[r].live] = SizeOf[items[r]]
  BY DEF SizesMatch

LEMMA MarkerStep ==
    ASSUME RunInv, [Next]_vars
    PROVE  MarkerValid'
<1> USE DEF RunInv, MarkerValid
<1>1. CASE marker' = marker
  BY <1>1
<1>2. CASE Adopt
  BY <1>2 DEF Adopt, TypeOK
<1>3. CASE WriteMarker
  BY <1>3 DEF WriteMarker, TypeOK, PlanValid, AfterValidation, CommitSteps
<1>4. CASE Start \/ Recover \/ CleanBackup \/ CleanStage \/ CleanJournal \/ AcceptMarker \/ GoImport
           \/ Resolve \/ PrepareStage \/ ExtractRoot \/ ValidateStage \/ ClearBackup \/ Begin
  BY <1>1, <1>4 DEF Start, Recover, CleanBackup, CleanStage, CleanJournal, AcceptMarker, GoImport,
     Resolve, PrepareStage, ExtractRoot, ValidateStage, ClearBackup, Begin, Stored
<1>5. CASE IntendBackup \/ BackUp \/ BackedUp \/ IntendInstall \/ Install \/ Installed
           \/ VerifyInstalled \/ SyncParents \/ DiscardJournal \/ FinishBackup \/ FinishStage
  BY <1>1, <1>5 DEF IntendBackup, BackUp, BackedUp, IntendInstall, Install, Installed,
     VerifyInstalled, SyncParents, DiscardJournal, FinishBackup, FinishStage, Stored
<1>6. CASE Rollback \/ Failure \/ Tamper \/ ShipRecipe \/ UNCHANGED vars
  BY <1>1, <1>6 DEF Rollback, UndoInstall, RestoreOriginal, RefuseToTouch, EndRollback, DropBackup,
     Failure, RefuseImport, ExtractFails, Raise, Kill, PowerCut, Tamper, ShipRecipe, Stored, vars
<1> QED
  BY <1>2, <1>3, <1>4, <1>5, <1>6 DEF Next, Importer, Commit

LEMMA PlanValidStep ==
    ASSUME RunInv, [Next]_vars
    PROVE  PlanValid'
<1> USE DEF RunInv, PlanValid, AfterValidation, CommitSteps
<1>1. CASE pc' \notin AfterValidation
  BY <1>1
<1>2. CASE ValidateStage
  BY <1>2 DEF ValidateStage, StageValid, Exit, Outside
<1>3. CASE ClearBackup \/ Begin
  BY <1>3 DEF ClearBackup, Begin, Outside
<1>4. CASE Commit
  BY <1>4 DEF Commit, IntendBackup, BackUp, BackedUp, IntendInstall, Install, Installed,
     VerifyInstalled, SyncParents, WriteMarker, DiscardJournal, FinishBackup, FinishStage, Exit,
     Outside
<1>5. CASE Start \/ Recover \/ CleanBackup \/ CleanStage \/ CleanJournal \/ AcceptMarker \/ Adopt
           \/ GoImport \/ Resolve \/ PrepareStage \/ ExtractRoot
  BY <1>1, <1>5 DEF Start, Recover, CleanBackup, CleanStage, CleanJournal, AcceptMarker, Adopt,
     GoImport, Resolve, PrepareStage, ExtractRoot, Exit
<1>6. CASE Rollback \/ Failure \/ Tamper \/ ShipRecipe
  BY <1>1, <1>6 DEF Rollback, UndoInstall, RestoreOriginal, RefuseToTouch, EndRollback, DropBackup,
     Failure, RefuseImport, ExtractFails, Raise, Kill, PowerCut, Die, Exit, Tamper, ShipRecipe
<1>7. CASE UNCHANGED vars
  BY <1>7 DEF vars
<1> QED
  BY <1>2, <1>3, <1>4, <1>5, <1>6, <1>7 DEF Next, Importer

LEMMA PlanInPlaceStep ==
    ASSUME RunInv, [Next]_vars
    PROVE  PlanInPlace'
<1> USE DEF RunInv, PlanInPlace, AfterVerify
<1>0. disk \in [Roots -> Position]
  BY DEF TypeOK
<1>1. CASE pc' \notin AfterVerify
  BY <1>1
<1>2. CASE VerifyInstalled
  BY <1>2 DEF VerifyInstalled, SizesMatch, Stored
<1>3. CASE SyncParents \/ WriteMarker \/ DiscardJournal \/ FinishBackup
  <2>1. /\ plan' = plan /\ pc \in AfterVerify
        /\ \A r \in Roots : disk'[r].live = disk[r].live
    BY <1>0, <1>3 DEF SyncParents, WriteMarker, DiscardJournal, FinishBackup, Disk, DropSaved,
       Position
  <2> QED
    BY <2>1, SizesKept DEF SizesMatch
<1>4. CASE Start \/ Recover \/ CleanBackup \/ CleanStage \/ CleanJournal \/ AcceptMarker \/ Adopt
           \/ GoImport \/ Resolve \/ PrepareStage \/ ExtractRoot \/ ValidateStage \/ ClearBackup
           \/ Begin
  BY <1>1, <1>4 DEF Start, Recover, CleanBackup, CleanStage, CleanJournal, AcceptMarker, Adopt,
     GoImport, Resolve, PrepareStage, ExtractRoot, ValidateStage, ClearBackup, Begin, Exit
<1>5. CASE IntendBackup \/ BackUp \/ BackedUp \/ IntendInstall \/ Install \/ Installed \/ FinishStage
  BY <1>1, <1>5 DEF IntendBackup, BackUp, BackedUp, IntendInstall, Install, Installed, FinishStage,
     Exit
<1>6. CASE Rollback \/ Failure \/ Tamper \/ ShipRecipe
  BY <1>1, <1>6 DEF Rollback, UndoInstall, RestoreOriginal, RefuseToTouch, EndRollback, DropBackup,
     Failure, RefuseImport, ExtractFails, Raise, Kill, PowerCut, Die, Exit, Tamper, ShipRecipe
<1>7. CASE UNCHANGED vars
  BY <1>7 DEF vars, SizesMatch
<1> QED
  BY <1>2, <1>3, <1>4, <1>5, <1>6, <1>7 DEF Next, Importer, Commit

LEMMA PlanMarkedStep ==
    ASSUME RunInv, [Next]_vars
    PROVE  PlanMarked'
<1> USE DEF RunInv, PlanMarked, AfterMarker
<1>1. CASE pc' \notin AfterMarker
  BY <1>1
<1>2. CASE WriteMarker
  BY <1>2 DEF WriteMarker, JournalHeld, CommitSteps, Outside
<1>3. CASE DiscardJournal \/ FinishBackup
  BY <1>3 DEF DiscardJournal, FinishBackup, Outside
<1>4. CASE Start \/ Recover \/ CleanBackup \/ CleanStage \/ CleanJournal \/ AcceptMarker \/ Adopt
           \/ GoImport \/ Resolve \/ PrepareStage \/ ExtractRoot \/ ValidateStage \/ ClearBackup
           \/ Begin
  BY <1>1, <1>4 DEF Start, Recover, CleanBackup, CleanStage, CleanJournal, AcceptMarker, Adopt,
     GoImport, Resolve, PrepareStage, ExtractRoot, ValidateStage, ClearBackup, Begin, Exit
<1>5. CASE IntendBackup \/ BackUp \/ BackedUp \/ IntendInstall \/ Install \/ Installed
           \/ VerifyInstalled \/ SyncParents \/ FinishStage
  BY <1>1, <1>5 DEF IntendBackup, BackUp, BackedUp, IntendInstall, Install, Installed,
     VerifyInstalled, SyncParents, FinishStage, Exit
<1>6. CASE Rollback \/ Failure \/ Tamper \/ ShipRecipe
  BY <1>1, <1>6 DEF Rollback, UndoInstall, RestoreOriginal, RefuseToTouch, EndRollback, DropBackup,
     Failure, RefuseImport, ExtractFails, Raise, Kill, PowerCut, Die, Exit, Tamper, ShipRecipe
<1>7. CASE UNCHANGED vars
  BY <1>7 DEF vars
<1> QED
  BY <1>2, <1>3, <1>4, <1>5, <1>6, <1>7 DEF Next, Importer, Commit

LEMMA JournalHeldStep ==
    ASSUME RunInv, [Next]_vars
    PROVE  JournalHeld'
<1> USE DEF RunInv, JournalHeld, CommitSteps
<1>1. CASE UNCHANGED vars \/ Start \/ Recover \/ CleanBackup \/ CleanStage
  BY <1>1 DEF vars, Start, Recover, CleanBackup, CleanStage, Stored
<1>2. CASE CleanJournal \/ DiscardJournal \/ EndRollback
  BY <1>2 DEF CleanJournal, DiscardJournal, EndRollback, NoJournal
<1>3. CASE AcceptMarker \/ Adopt \/ GoImport \/ Resolve \/ PrepareStage \/ ExtractRoot
           \/ ValidateStage \/ ClearBackup
  BY <1>3 DEF AcceptMarker, Adopt, GoImport, Resolve, PrepareStage, ExtractRoot, ValidateStage,
     ClearBackup, Exit, Stored
<1>4. CASE Begin
  BY <1>4, TxnAssumption DEF Begin, FreshTxn
<1>5. CASE IntendBackup \/ BackedUp \/ IntendInstall \/ Installed \/ RestoreOriginal
  <2>1. journal.txn # NoTxn /\ journal'.txn = journal.txn
    BY <1>5 DEF IntendBackup, BackedUp, IntendInstall, Installed, RestoreOriginal, SetState, TypeOK
  <2> QED
    BY <2>1
<1>6. CASE BackUp \/ Install \/ VerifyInstalled \/ SyncParents \/ WriteMarker \/ UndoInstall
           \/ RefuseToTouch
  BY <1>6 DEF BackUp, Install, VerifyInstalled, SyncParents, WriteMarker, UndoInstall,
     RefuseToTouch, Exit, Stored
<1>7. CASE FinishBackup \/ FinishStage \/ DropBackup
  BY <1>7 DEF FinishBackup, FinishStage, DropBackup, Exit
<1>8. CASE Failure
  BY <1>8 DEF Failure, RefuseImport, ExtractFails, Raise, Kill, PowerCut, Die, Exit, Stored
<1>9. CASE Tamper \/ ShipRecipe
  BY <1>9 DEF Tamper, ShipRecipe, Stored
<1> QED
  BY <1>1, <1>2, <1>3, <1>4, <1>5, <1>6, <1>7, <1>8, <1>9
     DEF Next, Importer, Commit, Rollback

LEMMA ReadyStep ==
    ASSUME RunInv, [Next]_vars
    PROVE  ReadyRests'
<1> USE DEF RunInv, ReadyRests
<1>0. disk \in [Roots -> Position]
  BY DEF TypeOK
<1>1. CASE outcome' # "ready"
  BY <1>1
<1>2. CASE pc # "down" /\ outcome' = outcome
  BY <1>2
<1>3. CASE UNCHANGED vars
  BY <1>3 DEF vars, FastPath, SizesMatch
<1>4. CASE AcceptMarker
  <2>1. journal = NoJournal
    BY <1>4 DEF AcceptMarker, JournalMatchesStep, JournalGone, JournalHeld
  <2> QED
    BY <1>4, <2>1 DEF AcceptMarker, Exit, FastPath, SizesMatch, Stored, Outside
<1>5. CASE Adopt
  <2>1. journal = NoJournal
    BY <1>5 DEF Adopt, JournalMatchesStep, JournalGone, JournalHeld
  <2>2. PICK t \in FreshTxn : marker' = [txn |-> t, recipe |-> recipe, items |-> Live]
    BY <1>5 DEF Adopt
  <2>3. \A r \in Roots : disk[r].live = Live[r] /\ Live[r] \in Contents
    BY <1>5, PayloadFacts DEF Adopt, TypeOK, Live, Whole
  <2>4. marker'.txn # NoTxn /\ marker'.recipe = recipe /\ marker'.items = Live
    BY <2>2, TxnAssumption DEF FreshTxn
  <2> QED
    BY <1>5, <2>1, <2>3, <2>4 DEF Adopt, Exit, FastPath, SizesMatch, Disk, Outside
<1>6. CASE FinishStage
  <2>1. journal = NoJournal
    BY <1>6 DEF FinishStage, JournalMatchesStep, JournalGone, JournalHeld
  <2>2. \A r \in Roots : disk'[r].live = disk[r].live
    BY <1>0, <1>6 DEF FinishStage, DropStaged, Position
  <2>3. /\ marker.txn # NoTxn /\ marker.recipe = recipe /\ marker.items = plan
        /\ SizesMatch(plan)
    BY <1>6 DEF FinishStage, PlanMarked, AfterMarker, PlanInPlace, AfterVerify
  <2>4. \A r \in Roots : disk'[r].live \in Contents /\ SizeOf[disk'[r].live] = SizeOf[plan[r]]
    BY <2>2, <2>3, SizesKept
  <2> QED
    BY <1>6, <2>1, <2>3, <2>4 DEF FinishStage, Exit, FastPath, SizesMatch, Outside
<1>7. CASE Start \/ RefuseImport \/ ExtractFails \/ RefuseToTouch \/ Kill \/ PowerCut \/ Tamper
           \/ ShipRecipe
  BY <1>1, <1>7 DEF Start, RefuseImport, ExtractFails, RefuseToTouch, Kill, PowerCut, Die, Exit,
     Tamper, ShipRecipe
<1>8. CASE Recover \/ CleanBackup \/ CleanStage \/ CleanJournal \/ GoImport \/ Resolve
           \/ PrepareStage \/ ExtractRoot \/ ClearBackup \/ Begin
  BY <1>2, <1>8 DEF Recover, CleanBackup, CleanStage, CleanJournal, GoImport, Resolve, PrepareStage,
     ExtractRoot, ClearBackup, Begin
<1>9. CASE ValidateStage \/ DropBackup
  BY <1>1, <1>2, <1>9 DEF ValidateStage, DropBackup, Exit
<1>10. CASE IntendBackup \/ BackUp \/ BackedUp \/ IntendInstall \/ Install \/ Installed
            \/ VerifyInstalled \/ SyncParents \/ WriteMarker \/ DiscardJournal \/ FinishBackup
  BY <1>2, <1>10 DEF IntendBackup, BackUp, BackedUp, IntendInstall, Install, Installed,
     VerifyInstalled, SyncParents, WriteMarker, DiscardJournal, FinishBackup
<1>11. CASE UndoInstall \/ RestoreOriginal \/ EndRollback \/ Raise
  BY <1>2, <1>11 DEF UndoInstall, RestoreOriginal, EndRollback, Raise, CommitSteps
<1> QED
  BY <1>3, <1>4, <1>5, <1>6, <1>7, <1>8, <1>9, <1>10, <1>11
     DEF Next, Importer, Failure, Commit, Rollback

LEMMA RunStep ==
    ASSUME RunInv, [Next]_vars
    PROVE  RunInv'
<1>1. TypeOK' /\ JournalMatchesStep'
  BY TypedStep, JournalStep DEF RunInv
<1> QED
  BY <1>1, MarkerStep, PlanValidStep, PlanInPlaceStep, PlanMarkedStep, JournalHeldStep, ReadyStep
     DEF RunInv

-----------------------------------------------------------------------------
(* One step of a start.                                                    *)

\* Every step of a start but the game's is one of the importer's, of a failure's, or
\* takes the last verdict away.
Forget == /\ outcome' = "none"
          /\ UNCHANGED <<Stored, Outside, pc, i, plan, recovering>>

LEMMA StartSteps ==
    ASSUME LInv, [LaunchNext]_lvars
    PROVE  [Next]_vars \/ Save \/ (Forget /\ pc = "down")
<1>1. CASE Launch
  BY <1>1 DEF Launch, Forget, Next, Importer, LInv, StageOK
<1>2. CASE Import
  BY <1>2 DEF Import, Next, Failure
<1>3. CASE Quit \/ UNCHANGED lvars
  BY <1>3 DEF Quit, lvars
<1>4. CASE Crash \/ BetweenStarts
  BY <1>4 DEF Crash, BetweenStarts, Next, Failure
<1> QED
  BY <1>1, <1>2, <1>3, <1>4 DEF LaunchNext

LEMMA WrittenTyped ==
    ASSUME NEW p \in Position, NEW c \in Contents
    PROVE  Written(p, c) \in Position
<1> DEFINE l == IF p.live = c THEN WithSaves[c] ELSE p.live
           s == IF p.staged = c /\ p.live # c THEN WithSaves[c] ELSE p.staged
<1>1. l \in Payload /\ s \in Payload
  BY SavesAssumption, UserAssumption DEF Payload, Position
<1> HIDE DEF l, s
<1>2. WithStaged(p, l, s) \in Position
  BY <1>1, Renames DEF Position
<1>3. Written(p, c) = WithStaged(p, l, s)
  BY DEF Written, WithStaged, l, s
<1> QED
  BY <1>2, <1>3

LEMMA SaveStep ==
    ASSUME LInv, Save
    PROVE  RunInv'
<1> USE DEF LInv, RunInv
<1>1. PICK r \in Roots :
         /\ disk[r].live \in Contents
         /\ disk' = [disk EXCEPT ![r].live = WithSaves[disk[r].live]]
         /\ mayBe' = [mayBe EXCEPT ![r] = {Written(p, disk[r].live) : p \in @}]
         /\ touched' = touched \cup {r}
  BY DEF Save
<1>2. pc = "down" /\ pc' = "down" /\ outcome' = "none"
  BY DEF Save, StageOK
<1>3. disk' \in [Roots -> Position]
  <2>1. [disk[r] EXCEPT !.live = WithSaves[disk[r].live]] \in Position
    BY <1>1, SavesAssumption, UserAssumption, PositionUpdates DEF Payload, TypeOK
  <2> QED
    BY <1>1, <2>1 DEF TypeOK
<1>4. mayBe' \in [Roots -> SUBSET Position]
  <2>1. {Written(p, disk[r].live) : p \in mayBe[r]} \subseteq Position
    BY <1>1, WrittenTyped DEF TypeOK
  <2> QED
    BY <1>1, <2>1 DEF TypeOK
<1>5. TypeOK'
  BY <1>1, <1>2, <1>3, <1>4 DEF Save, TypeOK
<1> QED
  BY <1>2, <1>5 DEF Save, JournalMatchesStep, JournalGone, JournalPublished, MarkerValid, PlanValid,
     AfterValidation, CommitSteps, PlanInPlace, AfterVerify, PlanMarked, AfterMarker, JournalHeld,
     ReadyRests

LEMMA ForgetStep ==
    ASSUME RunInv, Forget, pc = "down"
    PROVE  RunInv'
  BY DEF Forget, Stored, Outside, RunInv, TypeOK, JournalMatchesStep, JournalGone, JournalPublished,
     MarkerValid, PlanValid, AfterValidation, CommitSteps, PlanInPlace, AfterVerify, PlanMarked,
     AfterMarker, JournalHeld, ReadyRests

LEMMA StageStep ==
    ASSUME LInv, [LaunchNext]_lvars
    PROVE  StageOK'
<1> USE DEF LInv, StageOK
<1>1. CASE Launch
  BY <1>1 DEF Launch
<1>2. CASE Import
  BY <1>2 DEF Import
<1>3. CASE Save \/ Quit \/ UNCHANGED lvars
  BY <1>3 DEF Save, Quit, lvars, vars
<1>4. CASE Crash
  BY <1>4 DEF Crash, Kill, PowerCut, Die
<1>5. CASE BetweenStarts
  BY <1>5 DEF BetweenStarts, Tamper, ShipRecipe
<1> QED
  BY <1>1, <1>2, <1>3, <1>4, <1>5 DEF LaunchNext

LEMMA SpecLInv == LaunchSpec => []LInv
<1>1. LaunchInit => LInv
  <2> SUFFICES ASSUME LaunchInit PROVE LInv
    OBVIOUS
  <2>1. Init /\ TypeOK
    BY TypedInit DEF LaunchInit
  <2>2. journal = NoJournal /\ marker = NoMarker /\ pc = "down" /\ outcome = "none"
    BY <2>1 DEF Init
  <2> QED
    BY <2>1, <2>2 DEF LaunchInit, LInv, StageOK, RunInv, JournalMatchesStep, JournalGone,
       JournalPublished, MarkerValid, NoMarker, PlanValid, AfterValidation, CommitSteps, PlanInPlace,
       AfterVerify, PlanMarked, AfterMarker, JournalHeld, ReadyRests
<1>2. LInv /\ [LaunchNext]_lvars => LInv'
  <2> SUFFICES ASSUME LInv, [LaunchNext]_lvars PROVE LInv'
    OBVIOUS
  <2>1. RunInv'
    BY StartSteps, RunStep, SaveStep, ForgetStep DEF LInv
  <2> QED
    BY <2>1, StageStep DEF LInv
<1> QED
  BY <1>1, <1>2, PTL DEF LaunchSpec

\* A tree the importer has called ready has no journal left and a marker that sends
\* the next import down the fast path, through kills, power cuts, late exceptions and
\* whatever the user or a port update has done before.
THEOREM ReadyImportsOnce == LaunchSpec => []ImportedOnce
<1>1. LInv => ImportedOnce
  BY DEF LInv, RunInv, ReadyRests, ImportedOnce
<1> QED
  BY <1>1, SpecLInv, PTL

\* Where sizes tell the trees a recipe accepts from the others, the launcher is told
\* "ready" only over a tree that the recipe accepts as a whole.
THEOREM ReadyOverWhole ==
    ASSUME SizesTell
    PROVE  LaunchSpec => []ReadyIsWhole
<1>1. LInv => ReadyIsWhole
  <2> SUFFICES ASSUME LInv, outcome = "ready" PROVE Live \in Valid[recipe]
    BY DEF ReadyIsWhole
  <2>1. FastPath
    BY DEF LInv, RunInv, ReadyRests
  <2>2. recipe \in Recipes /\ marker.items \in Valid[recipe]
    BY <2>1 DEF FastPath, LInv, RunInv, MarkerValid
  <2>3. \A r \in Roots : disk[r].live \in Contents /\ SizeOf[disk[r].live] = SizeOf[marker.items[r]]
    BY <2>1 DEF FastPath, SizesMatch
  <2>4. Live \in Whole /\ \A r \in Roots : Live[r] = disk[r].live
    BY <2>3 DEF Live, Whole
  <2> QED
    BY <2>2, <2>3, <2>4, SizesTell DEF SizesTell
<1> QED
  BY <1>1, SpecLInv, PTL

-----------------------------------------------------------------------------
(* What the game wrote stays.                                              *)

Shared == Roots \ Exclusive

\* The steps of a run that knows what it will install, before and in commit().
Preparing  == {"prepare", "extract", "validate", "clear-backup", "begin"}
Publishing == {"clear-backup", "begin"} \cup CommitSteps

\* From check_foreign_files on, no shared root of a run has foreign files, in the
\* live tree or in what goes into it; and no journal ever names any as new.
Clean ==
    /\ pc \in Preparing => plan \in Packages
    /\ pc \in Preparing \cup CommitSteps => \A r \in Shared : disk[r].live \notin Foreign
    /\ pc \in Publishing => \A r \in Shared : disk[r].staged \notin Foreign
    /\ \A r \in Shared : journal.new[r] \notin Foreign

LEMMA NoneIsClean == None \notin Foreign
  BY UserAssumption, PlaceAssumption

\* One step of the importer, of a failure, the user or a port update.
LEMMA CleanStep ==
    ASSUME RunInv, Clean, [Next]_vars
    PROVE  Clean'
<1> USE DEF RunInv, Clean, Preparing, Publishing, CommitSteps
<1>0. /\ disk \in [Roots -> Position] /\ i \in Roots /\ Shared \subseteq Roots
      /\ journal \in [txn : TxnIds \cup {NoTxn}, state : [Roots -> RecordStates],
                      new : [Roots -> Payload], old : [Roots -> Payload]]
  BY DEF TypeOK, Shared
<1>1. CASE journal' = journal /\ pc' \notin Preparing \cup CommitSteps
  BY <1>1
<1>2. CASE journal' = NoJournal /\ pc' \notin Preparing \cup CommitSteps
  BY <1>0, <1>2, NoneIsClean DEF NoJournal
<1>3. CASE Start \/ Recover \/ CleanBackup \/ CleanStage \/ AcceptMarker \/ Adopt \/ GoImport
           \/ RefuseImport \/ ExtractFails \/ Raise \/ Kill \/ PowerCut
  BY <1>1, <1>3 DEF Start, Recover, CleanBackup, CleanStage, AcceptMarker, Adopt, GoImport,
     RefuseImport, ExtractFails, Raise, Kill, PowerCut, Die, Exit, Stored
<1>4. CASE FinishBackup \/ FinishStage \/ UndoInstall \/ RefuseToTouch \/ DropBackup
           \/ Tamper \/ ShipRecipe
  BY <1>1, <1>4 DEF FinishBackup, FinishStage, UndoInstall, RefuseToTouch, DropBackup, Tamper,
     ShipRecipe, Exit, Stored
<1>5. CASE CleanJournal \/ DiscardJournal \/ EndRollback
  BY <1>2, <1>5 DEF CleanJournal, DiscardJournal, EndRollback
<1>6. CASE Resolve
  BY <1>6 DEF Resolve, ForeignFiles, Shared, Stored
<1>7. CASE PrepareStage \/ ExtractRoot
  <2>1. \A r \in Roots : disk'[r].live = disk[r].live
    BY <1>0, <1>7 DEF PrepareStage, ExtractRoot, DropStaged, Position
  <2> QED
    BY <1>0, <1>7, <2>1 DEF PrepareStage, ExtractRoot
<1>8. CASE ValidateStage
  <2>1. CASE pc' = "clear-backup"
    <3>1. /\ pc = "validate" /\ plan' = plan /\ disk' = disk /\ journal' = journal
          /\ \A r \in Roots : disk[r].staged = plan[r]
      BY <1>8, <2>1 DEF ValidateStage, StageValid, Exit, Stored
    <3>2. \A r \in Shared : plan[r] \notin Foreign
      BY <3>1, ForeignAssumption DEF Shared
    <3> QED
      BY <1>0, <2>1, <3>1, <3>2
  <2>2. CASE pc' # "clear-backup"
    BY <1>1, <1>8, <2>2 DEF ValidateStage, Exit, Stored
  <2> QED
    BY <2>1, <2>2
<1>9. CASE ClearBackup
  <2>1. \A r \in Roots : disk'[r].live = disk[r].live /\ disk'[r].staged = disk[r].staged
    BY <1>0, <1>9 DEF ClearBackup, DropSaved, Position
  <2> QED
    BY <1>0, <1>9, <2>1 DEF ClearBackup
<1>10. CASE Begin
  BY <1>0, <1>10 DEF Begin, Disk
<1>11. CASE IntendBackup \/ BackedUp \/ IntendInstall \/ Installed
  <2>1. disk' = disk /\ journal'.new = journal.new /\ pc \in CommitSteps /\ pc' \in CommitSteps
    BY <1>0, <1>11 DEF IntendBackup, BackedUp, IntendInstall, Installed, SetState, Disk
  <2> QED
    BY <2>1
<1>12. CASE BackUp \/ Install
  <2>1. disk'[i].live \in {None, disk[i].staged} /\ disk'[i].staged \in {None, disk[i].staged}
        /\ \A r \in Roots \ {i} : disk'[r] = disk[r]
    <3> DEFINE q == IF BackUp THEN [disk[i] EXCEPT !.live = None, !.saved = disk[i].live]
                    ELSE [disk[i] EXCEPT !.live = disk[i].staged, !.staged = None]
    <3>1. disk[i] \in Position
      BY <1>0
    <3>2. q.live \in {None, disk[i].staged} /\ q.staged \in {None, disk[i].staged}
      BY <3>1 DEF Position
    <3>3. disk' = [disk EXCEPT ![i] = q]
      BY <1>12 DEF BackUp, Install, MoveTo
    <3> HIDE DEF q
    <3> QED
      BY <1>0, <3>2, <3>3
  <2>2. pc \in CommitSteps /\ pc' \in CommitSteps /\ journal' = journal
    BY <1>12 DEF BackUp, Install
  <2> QED
    BY <1>0, <2>1, <2>2, NoneIsClean
<1>13. CASE VerifyInstalled \/ SyncParents \/ WriteMarker
  BY <1>13 DEF VerifyInstalled, SyncParents, WriteMarker, Stored, Disk
<1>14. CASE RestoreOriginal
  <2>1. journal'.new = journal.new /\ pc' \notin Preparing \cup CommitSteps
    BY <1>0, <1>14 DEF RestoreOriginal, SetState
  <2> QED
    BY <2>1
<1>15. CASE UNCHANGED vars
  BY <1>15 DEF vars
<1> QED
  BY <1>3, <1>4, <1>5, <1>6, <1>7, <1>8, <1>9, <1>10, <1>11, <1>12, <1>13, <1>14, <1>15
     DEF Next, Importer, Failure, Commit, Rollback

\* The importer takes no foreign files of a shared root from the live tree.
LEMMA LiveKept ==
    ASSUME RunInv, Clean, [Next]_vars, NEW r \in Shared, disk[r].live \in Foreign,
           disk'[r].live # disk[r].live
    PROVE  <<tampers, crashes>>' # <<tampers, crashes>>
<1> USE DEF RunInv
<1>0. /\ disk \in [Roots -> Position] /\ i \in Roots /\ r \in Roots
      /\ tampers \in Nat /\ crashes \in Nat
  BY DEF TypeOK, Shared
<1>1. disk' # disk
  OBVIOUS
<1>2. CASE Kill \/ PowerCut \/ Tamper
  BY <1>0, <1>2 DEF Kill, PowerCut, Die, Tamper
<1>3. ~(BackUp \/ Install)
  <2>1. pc \notin CommitSteps
    BY DEF Clean
  <2> QED
    BY <2>1 DEF BackUp, Install, CommitSteps
<1>4. ~UndoInstall
  <2> SUFFICES ASSUME UndoInstall PROVE FALSE
    OBVIOUS
  <2>1. MoveTo(i, [disk[i] EXCEPT !.live = None, !.staged = journal.new[i]])
        /\ disk[i].live = journal.new[i]
    BY <1>1 DEF UndoInstall, Disk
  <2>2. r = i
    BY <1>0, <2>1 DEF MoveTo
  <2> QED
    BY <2>1, <2>2 DEF Clean
<1>5. ~RestoreOriginal
  <2> SUFFICES ASSUME RestoreOriginal PROVE FALSE
    OBVIOUS
  <2>1. MoveTo(i, [disk[i] EXCEPT !.live = disk[i].saved, !.saved = None]) /\ disk[i].live = None
    BY <1>1 DEF RestoreOriginal, Restorable, Disk
  <2>2. r = i
    BY <1>0, <2>1 DEF MoveTo
  <2> QED
    BY <2>1, <2>2, NoneIsClean
<1>6. ~(CleanBackup \/ CleanStage \/ PrepareStage \/ ExtractRoot \/ ClearBackup \/ FinishBackup
        \/ FinishStage \/ DropBackup \/ ExtractFails)
  BY <1>0 DEF CleanBackup, CleanStage, PrepareStage, ExtractRoot, ClearBackup, FinishBackup,
     FinishStage, DropBackup, ExtractFails, DropStaged, DropSaved, Position
<1>7. ~(Start \/ Recover \/ CleanJournal \/ AcceptMarker \/ Adopt \/ GoImport \/ Resolve
        \/ ValidateStage \/ Begin \/ IntendBackup \/ BackedUp \/ IntendInstall)
  BY <1>1 DEF Start, Recover, CleanJournal, AcceptMarker, Adopt, GoImport, Resolve, ValidateStage,
     Begin, IntendBackup, BackedUp, IntendInstall, Stored, Disk
<1>8. ~(Installed \/ VerifyInstalled \/ SyncParents \/ WriteMarker \/ DiscardJournal
        \/ RefuseToTouch \/ EndRollback \/ RefuseImport \/ Raise \/ ShipRecipe \/ UNCHANGED vars)
  BY <1>1 DEF Installed, VerifyInstalled, SyncParents, WriteMarker, DiscardJournal, RefuseToTouch,
     EndRollback, RefuseImport, Raise, ShipRecipe, Stored, Disk, vars
<1> QED
  BY <1>2, <1>3, <1>4, <1>5, <1>6, <1>7, <1>8 DEF Next, Importer, Failure, Commit, Rollback

LEMMA SpecClean == LaunchSpec => []Clean
<1>1. LaunchInit => Clean
  BY NoneIsClean DEF LaunchInit, Init, NoJournal, Clean, Preparing, Publishing, CommitSteps, Shared
<1>2. LInv /\ Clean /\ [LaunchNext]_lvars => Clean'
  <2> SUFFICES ASSUME LInv, Clean, [LaunchNext]_lvars PROVE Clean'
    OBVIOUS
  <2>1. CASE [Next]_vars
    BY <2>1, CleanStep DEF LInv
  <2>2. CASE Save
    BY <2>2 DEF Save, Clean, LInv, StageOK, Preparing, Publishing, CommitSteps
  <2>3. CASE Forget /\ pc = "down"
    BY <2>3 DEF Forget, Stored, Clean, Preparing, Publishing, CommitSteps
  <2> QED
    BY <2>1, <2>2, <2>3, StartSteps
<1> QED
  BY <1>1, <1>2, SpecLInv, PTL DEF LaunchSpec

\* What the game wrote into a tree is taken from it by no import and no rollback,
\* whatever transaction is open behind the game; only a power cut or the user may
\* (check_foreign_files, rollback()'s comparison with the journal's new digest).
THEOREM SavesStay == LaunchSpec => SavesKept
<1>1. ASSUME LInv, Clean, [LaunchNext]_lvars, NEW r \in Roots \ Exclusive,
             disk[r].live \in Foreign /\ disk'[r].live # disk[r].live
      PROVE  stage = "playing" \/ <<tampers, crashes>>' # <<tampers, crashes>>
  <2>1. CASE [Next]_vars
    BY <1>1, <2>1, LiveKept DEF LInv, Shared
  <2>2. CASE Save
    BY <2>2 DEF Save
  <2>3. CASE Forget
    BY <1>1, <2>3 DEF Forget, Stored
  <2> QED
    BY <1>1, <2>1, <2>2, <2>3, StartSteps
<1>2. LInv /\ Clean /\ [LaunchNext]_lvars =>
        [\A r \in Roots \ Exclusive :
           disk[r].live \in Foreign /\ disk'[r].live # disk[r].live
              => stage = "playing" \/ <<tampers, crashes>>' # <<tampers, crashes>>]_lvars
  BY <1>1
<1> QED
  BY <1>2, SpecLInv, SpecClean, PTL DEF LaunchSpec, SavesKept

-----------------------------------------------------------------------------
(* The game plays what a recipe accepts: the shipped recipe, whose one     *)
(* root is data/.                                                          *)

\* The root that is the whole payload, as a payload.
Of(c) == [r \in Roots |-> c]

\* A tree that was there before the importer passes the launcher's test only if
\* a recipe accepts it, and the game's own files spoil no accepted tree.
HandMadeAccepted == \A p \in InitialPayloads : (\A r \in Roots : p[r] \in Tested) => p \in Accepted
SavesAccepted    == \A v \in Accepted : [r \in Roots |-> WithSaves[v[r]]] \in Accepted

ShippedRecipe == N = 1 /\ Exclusive = {} /\ ~ForceImport

\* What may be live while the user leaves the tree alone: the launcher's test finds it
\* out if no recipe accepts it.
Sane(c) == c = None \/ (c \in Contents /\ (c \in Tested => Of(c) \in Accepted))

\* Where the root is or may be found: sane, and not in the live tree and in the stage
\* at once, which an undo cut off in its rmtree would leave torn.
Orderly(p) ==
    /\ Sane(p.live)
    /\ journal.txn # NoTxn /\ p.live = journal.new[1] => p.staged # journal.new[1]

\* The journal names an original and a new payload that differs from it.
JournalSane ==
    /\ Sane(journal.old[1])
    /\ journal.txn # NoTxn => /\ journal.new[1] \in Contents
                              /\ journal.old[1] # journal.new[1]

StagedSteps == {"clear-backup", "begin", "intend-backup", "back-up", "backed-up",
                "intend-install", "install"}

PlanStaged ==
    /\ pc \in StagedSteps => disk[1].staged = plan[1]
    /\ pc = "begin" => mayBe[1] = {disk[1]}

TreeSane == tampers = 0 => /\ \A p \in mayBe[1] \cup {disk[1]} : Orderly(p)
                           /\ JournalSane

PlayInv == NotAccepted /\ PlanStaged /\ TreeSane /\ PlaysWhole

LEMMA OneRootFacts ==
    ASSUME N = 1
    PROVE  /\ Roots = {1}
           /\ \A v \in Whole : v = Of(v[1]) /\ v[1] \in Contents
           /\ \A c, d : Of(c) = Of(d) => c = d
           /\ \A c : Of(c)[1] = c
<1>1. Roots = {1}
  BY DEF Roots
<1> QED
  BY <1>1 DEF Of, Whole

LEMMA AcceptedIsSane ==
    ASSUME N = 1, NEW rec \in Recipes, NEW v \in Valid[rec]
    PROVE  Sane(v[1]) /\ v[1] \in Contents
<1>1. v \in Whole /\ v \in Accepted
  BY RecipeAssumption DEF Accepted
<1> QED
  BY <1>1, OneRootFacts DEF Sane

LEMMA PlanStagedStep ==
    ASSUME N = 1, RunInv, PlanStaged, [Next]_vars
    PROVE  PlanStaged'
<1> USE DEF RunInv, PlanStaged, StagedSteps
<1>0. disk \in [Roots -> Position] /\ i \in Roots /\ Roots = {1} /\ i = 1
  BY OneRootFacts DEF TypeOK
<1>1. CASE pc' \notin StagedSteps
  BY <1>1
<1>2. CASE ValidateStage
  BY <1>0, <1>1, <1>2 DEF ValidateStage, StageValid, Exit, Stored
<1>3. CASE ClearBackup
  <2>1. disk'[1].staged = disk[1].staged /\ mayBe'[1] = {disk'[1]}
    BY <1>0, <1>3 DEF ClearBackup, DropSaved, Settled, Position
  <2> QED
    BY <1>3, <2>1 DEF ClearBackup
<1>4. CASE Begin
  BY <1>4 DEF Begin, Disk
<1>5. CASE IntendBackup \/ BackedUp \/ IntendInstall
  BY <1>5 DEF IntendBackup, BackedUp, IntendInstall, Disk
<1>6. CASE BackUp
  <2>1. disk'[1].staged = disk[1].staged
    BY <1>0, <1>6 DEF BackUp, MoveTo, Position
  <2> QED
    BY <1>6, <2>1 DEF BackUp
<1>7. CASE Start \/ Recover \/ CleanBackup \/ CleanStage \/ CleanJournal \/ AcceptMarker \/ Adopt
           \/ GoImport \/ Resolve \/ PrepareStage \/ ExtractRoot
  BY <1>1, <1>7 DEF Start, Recover, CleanBackup, CleanStage, CleanJournal, AcceptMarker, Adopt,
     GoImport, Resolve, PrepareStage, ExtractRoot, Exit
<1>8. CASE Install \/ Installed \/ VerifyInstalled \/ SyncParents \/ WriteMarker \/ DiscardJournal
           \/ FinishBackup \/ FinishStage
  BY <1>0, <1>1, <1>8 DEF Install, Installed, VerifyInstalled, SyncParents, WriteMarker,
     DiscardJournal, FinishBackup, FinishStage, Exit
<1>9. CASE Rollback \/ Failure
  BY <1>1, <1>9 DEF Rollback, UndoInstall, RestoreOriginal, RefuseToTouch, EndRollback, DropBackup,
     Failure, RefuseImport, ExtractFails, Raise, Kill, PowerCut, Die, Exit
<1>10. CASE Tamper \/ ShipRecipe
  BY <1>1, <1>10 DEF Tamper, ShipRecipe
<1>11. CASE UNCHANGED vars
  BY <1>11 DEF vars
<1> QED
  BY <1>2, <1>3, <1>4, <1>5, <1>6, <1>7, <1>8, <1>9, <1>10, <1>11 DEF Next, Importer, Commit

\* A root stays orderly under the same transaction when its live place is emptied or
\* sane, and its stage does not come to hold what is live.
LEMMA Moved ==
    ASSUME JournalSane, NEW p, Orderly(p), NEW q,
           q.live = p.live \/ q.live = None,
           q.staged = p.staged \/ q.staged \in {None, Torn} \/ q.live = None
    PROVE  Orderly(q)
  BY PlaceAssumption DEF Orderly, JournalSane, Sane

\* The importer's steps that rename nothing and write no journal.
LEMMA TreeSaneQuiet ==
    ASSUME N = 1, TypeOK, TreeSane, journal' = journal, tampers' = tampers,
           \A q \in mayBe'[1] \cup {disk'[1]} : \E p \in mayBe[1] \cup {disk[1]} :
              /\ q.live = p.live \/ q.live = None
              /\ q.staged = p.staged \/ q.staged \in {None, Torn} \/ q.live = None
    PROVE  TreeSane'
<1> SUFFICES ASSUME tampers = 0
             PROVE  (\A q \in mayBe'[1] \cup {disk'[1]} : Orderly(q)) /\ JournalSane
  BY DEF TreeSane, Orderly, JournalSane
<1>1. JournalSane /\ \A p \in mayBe[1] \cup {disk[1]} : Orderly(p)
  BY DEF TreeSane
<1> QED
  BY <1>1, Moved

\* Without a transaction all that matters is what is live.
LEMMA TreeSaneFree ==
    ASSUME N = 1, TypeOK, TreeSane, tampers' = tampers, journal'.txn = NoTxn,
           Sane(journal'.old[1]),
           \A q \in mayBe'[1] \cup {disk'[1]} : \E p \in mayBe[1] \cup {disk[1]} : q.live = p.live
    PROVE  TreeSane'
  BY DEF TreeSane, Orderly, JournalSane

LEMMA TreeSaneStep ==
    ASSUME N = 1, RunInv, NotAccepted, PlanStaged, TreeSane, [Next]_vars
    PROVE  TreeSane'
<1> USE DEF RunInv
<1>0. /\ disk \in [Roots -> Position] /\ mayBe \in [Roots -> SUBSET Position]
      /\ Roots = {1} /\ i = 1 /\ recipe \in Recipes /\ tampers \in Nat
      /\ journal \in [txn : TxnIds \cup {NoTxn}, state : [Roots -> RecordStates],
                      new : [Roots -> Payload], old : [Roots -> Payload]]
  BY OneRootFacts DEF TypeOK
<1>1. CASE UNCHANGED <<disk, mayBe, journal, tampers>>
  BY <1>1 DEF TreeSane, Orderly, JournalSane
<1>2. CASE Start \/ Recover \/ AcceptMarker \/ Adopt \/ GoImport \/ Resolve \/ ValidateStage
           \/ VerifyInstalled \/ WriteMarker \/ RefuseToTouch \/ RefuseImport \/ Raise \/ ShipRecipe
           \/ UNCHANGED vars
  BY <1>1, <1>2 DEF Start, Recover, AcceptMarker, Adopt, GoImport, Resolve, ValidateStage,
     VerifyInstalled, WriteMarker, RefuseToTouch, RefuseImport, Raise, ShipRecipe, Stored, Disk,
     Outside, vars
<1>3. CASE CleanBackup \/ CleanStage \/ ClearBackup \/ FinishBackup \/ FinishStage
           \/ DropBackup
  <2>1. /\ disk'[1].live = disk[1].live
        /\ disk'[1].staged \in {disk[1].staged, None}
        /\ mayBe'[1] = {disk'[1]}
    BY <1>0, <1>3 DEF CleanBackup, CleanStage, ClearBackup, FinishBackup, FinishStage,
       DropBackup, DropStaged, DropSaved, Settled, Position
  <2>2. journal' = journal /\ tampers' = tampers
    BY <1>3 DEF CleanBackup, CleanStage, ClearBackup, FinishBackup, FinishStage,
       DropBackup, Outside
  <2> QED
    BY <2>1, <2>2, TreeSaneQuiet
<1>4. CASE PrepareStage \/ ExtractRoot \/ ExtractFails
  <2>1. journal' = journal /\ tampers' = tampers /\ journal.txn = NoTxn
    BY <1>4 DEF PrepareStage, ExtractRoot, ExtractFails, Outside, JournalMatchesStep, JournalGone
  <2>2. CASE UNCHANGED Disk
    BY <1>1, <2>1, <2>2 DEF Disk
  <2>3. CASE ~UNCHANGED Disk
    <3>1. /\ mayBe' = Settled(disk')
          /\ \/ disk' = DropStaged
             \/ disk' = [disk EXCEPT ![i].staged = plan[i]]
             \/ disk' = [disk EXCEPT ![i].staged = Torn]
      BY <1>4, <2>3, StagingEffects DEF ExtractFails
    <3>2. disk'[1].live = disk[1].live /\ mayBe'[1] = {disk'[1]}
      BY <1>0, <3>1 DEF DropStaged, Settled, Position
    <3> QED
      BY <2>1, <3>2, TreeSaneFree DEF TreeSane, JournalSane
  <2> QED
    BY <2>2, <2>3
<1>5. CASE CleanJournal \/ DiscardJournal
  <2>1. journal' = NoJournal /\ UNCHANGED <<disk, mayBe, tampers>>
    BY <1>5 DEF CleanJournal, DiscardJournal, Disk, Outside
  <2>2. journal'.txn = NoTxn /\ Sane(journal'.old[1])
    BY <1>0, <2>1 DEF NoJournal, Sane
  <2> QED
    BY <2>1, <2>2, TreeSaneFree
<1>6. CASE EndRollback
  <2>1. journal' = NoJournal /\ disk' = disk /\ tampers' = tampers /\ mayBe'[1] = {disk[1]}
    BY <1>0, <1>6 DEF EndRollback, Outside, Settled
  <2>2. journal'.txn = NoTxn /\ Sane(journal'.old[1])
    BY <1>0, <2>1 DEF NoJournal, Sane
  <2> QED
    BY <2>1, <2>2, TreeSaneFree
<1>7. CASE Begin
  <2> SUFFICES ASSUME tampers = 0
               PROVE  (\A q \in mayBe'[1] \cup {disk'[1]} : Orderly(q)') /\ JournalSane'
    BY <1>7 DEF Begin, TreeSane, Orderly, JournalSane
  <2>1. /\ journal'.new[1] = disk[1].staged /\ journal'.old[1] = disk[1].live
        /\ disk' = disk /\ mayBe' = mayBe /\ mayBe[1] = {disk[1]}
        /\ disk[1].staged = plan[1]
    BY <1>0, <1>7 DEF Begin, Disk, PlanStaged, StagedSteps
  <2>2. plan \in Valid[recipe] /\ Live \notin Valid[recipe]
    BY <1>7 DEF Begin, PlanValid, AfterValidation, NotAccepted
  <2>3. plan = Of(plan[1]) /\ plan[1] \in Contents
    BY <1>0, <2>2, RecipeAssumption, OneRootFacts
  <2>4. Live = Of(disk[1].live)
    BY <1>0 DEF Live, Of
  <2>5. disk[1].live # plan[1]
    BY <2>2, <2>3, <2>4
  <2>6. Sane(disk[1].live)
    BY DEF TreeSane, Orderly
  <2> QED
    BY <2>1, <2>3, <2>5, <2>6 DEF Orderly, JournalSane
<1>8. CASE IntendBackup \/ BackedUp \/ IntendInstall \/ Installed
  <2>1. journal'.txn = journal.txn /\ journal'.old = journal.old /\ journal'.new = journal.new
        /\ UNCHANGED <<disk, mayBe, tampers>>
    BY <1>0, <1>8 DEF IntendBackup, BackedUp, IntendInstall, Installed, SetState, Disk, Outside
  <2> QED
    BY <2>1 DEF TreeSane, Orderly, JournalSane
<1>9. CASE BackUp \/ UndoInstall
  <2>1. journal' = journal /\ tampers' = tampers
    BY <1>9 DEF BackUp, UndoInstall, Outside
  <2>2. CASE UNCHANGED Disk
    BY <1>1, <2>1, <2>2 DEF Disk
  <2>3. CASE ~UNCHANGED Disk
    <3> DEFINE q == IF BackUp THEN [disk[1] EXCEPT !.live = None, !.saved = disk[1].live]
                    ELSE [disk[1] EXCEPT !.live = None, !.staged = journal.new[1]]
    <3>1. q.live = None
      BY <1>0 DEF Position
    <3>2. MoveTo(1, q)
      BY <1>0, <1>9, <2>3 DEF BackUp, UndoInstall
    <3> HIDE DEF q
    <3>3. disk'[1] = q /\ mayBe'[1] = mayBe[1] \cup {q}
      BY <1>0, <3>2 DEF MoveTo
    <3> QED
      BY <2>1, <3>1, <3>3, TreeSaneQuiet
  <2> QED
    BY <2>2, <2>3
<1>10. CASE Install
  <2> DEFINE q == [disk[1] EXCEPT !.live = disk[1].staged, !.staged = None]
  <2>1. q.live = disk[1].staged /\ q.staged = None
    BY <1>0 DEF Position
  <2>2. MoveTo(1, q) /\ journal' = journal /\ tampers' = tampers
    BY <1>0, <1>10 DEF Install, Outside
  <2> HIDE DEF q
  <2>3. disk'[1] = q /\ mayBe'[1] = mayBe[1] \cup {q}
    BY <1>0, <2>2 DEF MoveTo
  <2>4. disk[1].staged = plan[1] /\ plan \in Valid[recipe]
    BY <1>10 DEF Install, PlanStaged, StagedSteps, PlanValid, AfterValidation, CommitSteps
  <2>5. Sane(q.live)
    BY <1>0, <2>1, <2>4, AcceptedIsSane
  <2> SUFFICES ASSUME tampers = 0
               PROVE  (\A p \in mayBe[1] \cup {q} : Orderly(p)) /\ JournalSane
    BY <2>2, <2>3 DEF TreeSane, Orderly, JournalSane
  <2>6. Orderly(q)
    BY <2>1, <2>5, PlaceAssumption DEF TreeSane, JournalSane, Orderly
  <2> QED
    BY <2>6 DEF TreeSane
<1>11. CASE RestoreOriginal
  <2>1. /\ journal'.txn = journal.txn /\ journal'.old = journal.old /\ journal'.new = journal.new
        /\ tampers' = tampers
    BY <1>0, <1>11 DEF RestoreOriginal, SetState, Outside
  <2>2. CASE UNCHANGED Disk
    BY <2>1, <2>2 DEF TreeSane, Orderly, JournalSane, Disk
  <2>3. CASE ~UNCHANGED Disk
    <3> DEFINE q == [disk[1] EXCEPT !.live = disk[1].saved, !.saved = None]
    <3>1. q.live = journal.old[1]
      BY <1>0, <1>11, <2>3 DEF RestoreOriginal, Restorable, Position
    <3>2. MoveTo(1, q)
      BY <1>0, <1>11, <2>3 DEF RestoreOriginal
    <3> HIDE DEF q
    <3>3. disk'[1] = q /\ mayBe'[1] = mayBe[1] \cup {q}
      BY <1>0, <3>2 DEF MoveTo
    <3> SUFFICES ASSUME tampers = 0
                 PROVE  (\A p \in mayBe[1] \cup {q} : Orderly(p)) /\ JournalSane
      BY <2>1, <3>3 DEF TreeSane, Orderly, JournalSane
    <3> QED
      BY <3>1 DEF TreeSane, JournalSane, Orderly
  <2> QED
    BY <2>2, <2>3
<1>12. CASE SyncParents
  <2>1. disk' = disk /\ mayBe'[1] = {disk[1]} /\ journal' = journal /\ tampers' = tampers
    BY <1>0, <1>12 DEF SyncParents, Settled, Outside
  <2> QED
    BY <2>1, TreeSaneQuiet
<1>13. CASE Kill \/ PowerCut
  <2>1. journal' = journal /\ tampers' = tampers
    BY <1>13 DEF Kill, PowerCut
  <2>2. /\ disk'[1] \in mayBe[1] \cup Halfway(1)
        /\ mayBe'[1] \subseteq mayBe[1] \cup {disk'[1]}
    BY <1>0, <1>13 DEF Kill, PowerCut, Settled
  <2> SUFFICES ASSUME tampers = 0
               PROVE  (\A q \in mayBe[1] \cup Halfway(1) : Orderly(q)) /\ JournalSane
    BY <2>1, <2>2 DEF TreeSane, Orderly, JournalSane
  <2>3. JournalSane /\ Orderly(disk[1]) /\ \A q \in mayBe[1] : Orderly(q)
    BY DEF TreeSane
  <2>4. ASSUME NEW q \in Halfway(1)
        PROVE  q.live = disk[1].live /\ q.staged \in {disk[1].staged, Torn}
    <3>1. ~(pc = "undo" /\ disk[1].live = journal.new[1] /\ disk[1].staged = journal.new[1])
      BY <2>3 DEF Orderly, JournalHeld
    <3>2. q \in {disk[1], [disk[1] EXCEPT !.saved = Torn], [disk[1] EXCEPT !.staged = Torn]}
      BY <2>4, <3>1 DEF Halfway
    <3> QED
      BY <1>0, <3>2 DEF Position
  <2> QED
    BY <2>3, <2>4, Moved
<1>14. CASE Tamper
  BY <1>0, <1>14 DEF Tamper, TreeSane
<1> QED
  BY <1>2, <1>3, <1>4, <1>5, <1>6, <1>7, <1>8, <1>9, <1>10, <1>11, <1>12, <1>13, <1>14
     DEF Next, Importer, Failure, Commit, Rollback

\* The game's own writes: they are foreign files, so no journal's new payload.
LEMMA TreeSaneSave ==
    ASSUME N = 1, Exclusive = {}, SavesAccepted, LInv, Clean, TreeSane, PlaysWhole, Save
    PROVE  TreeSane' /\ PlaysWhole'
<1>0. /\ disk \in [Roots -> Position] /\ mayBe \in [Roots -> SUBSET Position] /\ Roots = {1}
  BY OneRootFacts DEF LInv, RunInv, TypeOK
<1> DEFINE c == disk[1].live
           w == WithSaves[c]
<1>1. /\ c \in Contents /\ tampers' = tampers /\ journal' = journal
      /\ disk' = [disk EXCEPT ![1] = [disk[1] EXCEPT !.live = w]]
      /\ mayBe' = [mayBe EXCEPT ![1] = {Written(p, c) : p \in mayBe[1]}]
      /\ stage = "playing" /\ tree = "data" /\ stage' = stage /\ tree' = tree
  BY <1>0 DEF Save
<1>2. disk'[1].live = w /\ disk'[1].staged = disk[1].staged
      /\ mayBe'[1] = {Written(p, c) : p \in mayBe[1]}
  BY <1>0, <1>1 DEF Position
<1>3. w \in Foreign /\ w \in Contents
  BY <1>1, SavesAssumption, UserAssumption
<1>4. journal.new[1] # w
  BY <1>0, <1>3 DEF Clean, Shared
<1> SUFFICES ASSUME tampers = 0
             PROVE  /\ \A q \in mayBe'[1] \cup {disk'[1]} : Orderly(q)
                    /\ JournalSane /\ Live' \in Accepted
  BY <1>1 DEF TreeSane, Orderly, JournalSane, PlaysWhole
<1>5. Live = Of(c) /\ Live' = Of(w)
  BY <1>0, <1>2 DEF Live, Of
<1>6. Live \in Accepted
  BY <1>1 DEF PlaysWhole
<1>7. Of(w) \in Accepted
  <2>1. [r \in Roots |-> WithSaves[Live[r]]] \in Accepted
    BY <1>6 DEF SavesAccepted
  <2>2. [r \in Roots |-> WithSaves[Live[r]]] = Of(w)
    BY <1>5 DEF Of
  <2> QED
    BY <2>1, <2>2
<1>8. Sane(w)
  BY <1>3, <1>7 DEF Sane
<1>9. Orderly(disk'[1])
  BY <1>2, <1>4, <1>8 DEF Orderly
<1>10. ASSUME NEW p \in mayBe[1]
       PROVE  Orderly(Written(p, c))
  <2>1. p \in Position /\ Orderly(p)
    BY <1>0 DEF TreeSane
  <2>2. /\ Written(p, c).live = IF p.live = c THEN w ELSE p.live
        /\ Written(p, c).staged = IF p.staged = c /\ p.live # c THEN w ELSE p.staged
    BY <2>1 DEF Written, Position
  <2> HIDE DEF c, w
  <2> QED
    BY <1>4, <1>8, <2>1, <2>2 DEF Orderly
<1> HIDE DEF c, w
<1> QED
  BY <1>2, <1>5, <1>7, <1>9, <1>10 DEF TreeSane

\* The launcher starts the game over a tree that passes its test or that the importer
\* has called ready.
LEMMA PlaysStep ==
    ASSUME N = 1, LInv, TreeSane, PlaysWhole, [LaunchNext]_lvars, ~Save, LInv', ReadyIsWhole'
    PROVE  PlaysWhole'
<1>0. disk \in [Roots -> Position] /\ Roots = {1} /\ recipe' \in Recipes
  BY OneRootFacts DEF LInv, RunInv, TypeOK
<1>1. CASE Launch
  <2> SUFFICES ASSUME stage' = "playing", tree' = "data", tampers' = 0
               PROVE  Live' \in Accepted
    BY DEF PlaysWhole
  <2>1. PICK found \in BOOLEAN :
          /\ Ready(found)
          /\ tree' = IF flat = "none" THEN "data" ELSE "flat"
          /\ UNCHANGED <<Stored, Outside>>
    BY <1>1 DEF Launch
  <2>2. flat = "none" /\ disk' = disk /\ tampers = 0
    BY <2>1 DEF Stored, Outside
  <2>3. disk[1].live \in Tested \/ disk[1].live = Torn
    BY <1>0, <2>1, <2>2 DEF Ready
  <2>4. Sane(disk[1].live)
    BY <2>2 DEF TreeSane, Orderly
  <2>5. Of(disk[1].live) \in Accepted
    BY <2>3, <2>4, PlaceAssumption, TestedAssumption DEF Sane
  <2>6. Live' = Of(disk[1].live)
    BY <1>0, <2>2 DEF Live, Of
  <2> QED
    BY <2>5, <2>6
<1>2. CASE Import
  <2> SUFFICES ASSUME stage' = "playing"
               PROVE  Live' \in Accepted
    BY DEF PlaysWhole
  <2>1. outcome' = "ready"
    BY <1>2 DEF Import
  <2>2. Live' \in Valid[recipe']
    BY <2>1 DEF ReadyIsWhole
  <2> QED
    BY <1>0, <2>2 DEF Accepted
<1>3. CASE Crash
  BY <1>3 DEF Crash, PlaysWhole
<1>4. CASE BetweenStarts
  BY <1>4 DEF BetweenStarts, PlaysWhole
<1>5. CASE Quit \/ UNCHANGED lvars
  BY <1>5 DEF Quit, lvars, vars, PlaysWhole, Live
<1> QED
  BY <1>1, <1>2, <1>3, <1>4, <1>5 DEF LaunchNext

LEMMA PlayInvInit ==
    ASSUME N = 1, HandMadeAccepted, LaunchInit
    PROVE  PlayInv
<1>0. Roots = {1}
  BY OneRootFacts
<1>1. PICK payload \in InitialPayloads :
        /\ disk = [r \in Roots |-> [live |-> payload[r], staged |-> None, saved |-> None]]
        /\ mayBe = [r \in Roots |-> {[live |-> payload[r], staged |-> None, saved |-> None]}]
        /\ journal = NoJournal /\ pc = "down"
  BY DEF LaunchInit, Init
<1>2. payload \in [Roots -> Contents \cup {None}]
  BY UserAssumption
<1>3. payload[1] \in Tested => Of(payload[1]) \in Accepted
  <2>1. payload = Of(payload[1])
    BY <1>0, <1>2 DEF Of
  <2> QED
    BY <1>0, <2>1 DEF HandMadeAccepted
<1>4. Sane(payload[1])
  BY <1>0, <1>2, <1>3 DEF Sane
<1>5. TreeSane
  BY <1>0, <1>1, <1>4 DEF TreeSane, Orderly, JournalSane, NoJournal, Sane
<1> QED
  BY <1>1, <1>5 DEF LaunchInit, PlayInv, NotAccepted, PlanStaged, StagedSteps, PlaysWhole

LEMMA PlayInvStep ==
    ASSUME ShippedRecipe, SavesAccepted, LInv, Clean, PlayInv, [LaunchNext]_lvars,
           LInv', ReadyIsWhole'
    PROVE  PlayInv'
<1> USE DEF PlayInv, ShippedRecipe
<1>1. CASE Save
  <2>1. pc = "down" /\ pc' = "down"
    BY <1>1 DEF Save, LInv, StageOK
  <2> QED
    BY <1>1, <2>1, TreeSaneSave DEF NotAccepted, PlanStaged, StagedSteps
<1>2. CASE [Next]_vars /\ ~Save
  BY <1>2, NotAcceptedStep, PlanStagedStep, TreeSaneStep, PlaysStep DEF LInv, RunInv
<1>3. CASE Forget /\ pc = "down" /\ ~Save
  <2>1. UNCHANGED <<disk, mayBe, journal, tampers, pc>>
    BY <1>3 DEF Forget, Stored, Outside
  <2>2. TreeSane' /\ NotAccepted' /\ PlanStaged'
    BY <1>3, <2>1 DEF TreeSane, Orderly, JournalSane, NotAccepted, PlanStaged, StagedSteps
  <2> QED
    BY <1>3, <2>2, PlaysStep
<1> QED
  BY <1>1, <1>2, <1>3, StartSteps

\* While the user leaves the tree alone, the game that the launcher starts plays a tree
\* that a recipe accepts, through every kill, power cut and late exception, although
\* the launcher tests three names only and may play a tree whose transaction is still
\* open: of the shipped recipe's one root, where a hand-made tree that passes the test
\* is accepted, saves spoil no accepted tree, and sizes tell (the launcher's GAME_SO
\* test, eapx.py's commit, rollback and marker_fast_path).
THEOREM PlaysAccepted ==
    ASSUME ShippedRecipe, HandMadeAccepted, SavesAccepted, SizesTell
    PROVE  LaunchSpec => []PlaysWhole
<1>1. LaunchInit => PlayInv
  BY PlayInvInit DEF ShippedRecipe
<1>2. LInv /\ Clean /\ PlayInv /\ [LaunchNext]_lvars /\ LInv' /\ ReadyIsWhole' => PlayInv'
  BY PlayInvStep
<1>3. PlayInv => PlaysWhole
  BY DEF PlayInv
<1> QED
  BY <1>1, <1>2, <1>3, SpecLInv, SpecClean, ReadyOverWhole, PTL DEF LaunchSpec
=============================================================================
