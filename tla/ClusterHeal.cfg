CONSTANTS
  Nodes = {1, 2, 3}
  Slots = {1, 2}
  InitViews <- Heals
  Dead = {}
  MayFail = {}
  Links <- AllLinks
  PingPairs <- Ring
  MayForce = FALSE
  MaxTakeovers = 1
  MaxEpoch = 5
  MayRestart = {1, 2, 3}
  MaxCrashes = 1
SPECIFICATION FairSpec
INVARIANTS EpochsOrdered SlaveServesNothing
PROPERTIES Converges EpochsDiffer
