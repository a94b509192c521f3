CONSTANTS
  Nodes = {1, 2, 3, 4, 5}
  Slots = {1, 2, 3}
  InitViews <- Rivals
  Dead = {3}
  MayFail = {3}
  Links <- Split45
  PingPairs <- NoPairs
  MayForce = FALSE
  MaxTakeovers = 0
  MaxEpoch = 2
  MayRestart = {}
  MaxCrashes = 0
SPECIFICATION Spec
CHECK_DEADLOCK FALSE
INVARIANT OneWinnerPerEpoch
