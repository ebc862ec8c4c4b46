SPECIFICATION Spec
CONSTANTS
  p1 = p1
  p2 = p2
  NoPlayer = NoPlayer
  Players = {p1, p2}
  Devices <- OneRealized
  Sizes = {1, 2}
  TargetLow = 1
  TargetHigh = 2
  MaxCalls = 2
  Word = 5
  MaxGap = 1
  MaxPending = 1
  MaxCarry = 1
INVARIANT PopsWhatIsThere
