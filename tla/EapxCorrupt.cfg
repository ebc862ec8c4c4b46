SPECIFICATION Spec
CONSTANTS
  v7 = v7
  v8 = v8
  so7 = so7
  so8 = so8
  fm7 = fm7
  fm8 = fm8
  asset = asset
  game = game
  old = old
  fmod = fmod
  data = data
  data2 = data2
  rr3 = rr3
  another = another
  NoManifest = NoManifest
  Unreadable = Unreadable
  Corrupt = Corrupt
  Copy <- MCCopy
  Nothing = Nothing
  Donors <- MCDonors
  What <- MCWhat
  Rules <- MCRules
  Matching <- MCMatching
  Abis <- MCAbis
  SizeOf <- MCSizeOf
  Limit = 2
  MaxDonors = 3
  MaxCuts = 1
INVARIANT HintNeverFails
