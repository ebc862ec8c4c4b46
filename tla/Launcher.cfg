SPECIFICATION LaunchSpec
CONSTANTS
  N = 1
  None = None
  Torn = Torn
  NoTxn = NoTxn
  a = a
  as = as
  b = b
  bs = bs
  dm = dm
  dms = dms
  t1 = t1
  t2 = t2
  t3 = t3
  r1 = r1
  r2 = r2
  Contents <- MCContents
  SizeOf <- MCSizeOf
  Recipes <- MCRecipes
  Valid <- MCValid
  Packages <- MCPackages
  Foreign <- MCForeign
  Exclusive = {}
  InitialPayloads <- MCInitial
  TxnIds <- MCTxnIds
  TamperTo <- MCTamperTo
  MaxTampers = 2
  MaxCrashes = 2
  LateFailure = TRUE
  PowerCuts = TRUE
  ForceImport = FALSE
  Tested <- MCTested
  WithSaves <- MCSaves
INVARIANTS ReadyIsWhole PlaysWhole ImportedOnce
PROPERTIES SavesKept StartsEnd
