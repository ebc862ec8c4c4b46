SPECIFICATION Spec
CONSTANTS
  w1 = w1
  w2 = w2
  s1 = s1
  s2 = s2
  Nobody = Nobody
  Producers = {s1, s2}
  Consumers = {w1, w2}
  Timed = {w2}
  Want <- Twice
  SignalLocked = TRUE
  Types <- BothTypes
INVARIANT HoldersOwn
PROPERTY EveryoneServed
