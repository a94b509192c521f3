CONSTANTS
  Nodes = {1, 2, 3, 4, 5, 6, 7}
  Slots = {1, 2, 3, 4, 5}
  InitViews <- HalfHeard
  Dead = {5}
  MayFail = {5, 6, 7}
  Links <- HalfLinks
  PingPairs <- NoPairs
  MayForce = TRUE
  MaxTakeovers = 0
  MaxEpoch = 1
  MayRestart = {}
  MaxCrashes = 0
SPECIFICATION Spec
INVARIANT WinnersOutnumber
PROPERTIES RebindsToNewer
CHECK_DEADLOCK FALSE
