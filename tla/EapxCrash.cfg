SPECIFICATION Spec
CONSTANTS
  N = 2
  None = None
  Torn = Torn
  NoTxn = NoTxn
  a = a
  b = b
  c = c
  t1 = t1
  t2 = t2
  r1 = r1
  r2 = r2
  Contents <- MCContents
  SizeOf <- MCSizeOf
  Recipes <- MCRecipes
  Valid <- MCValid
  Packages <- MCPackages
  Foreign = {}
  Exclusive = {}
  InitialPayloads <- FreshPayloads
  TxnIds <- MCTxnIds
  TamperTo <- TakenAway
  MaxTampers = 1
  MaxCrashes = 2
  LateFailure = FALSE
  PowerCuts = TRUE
  ForceImport = FALSE
INVARIANT OriginalRecoverable
PROPERTIES Atomic RecoveryEnds
