CONSTANTS
  s1 = s1
  s2 = s2
  Slaves = {s1, s2}
  Dbs = {0, 1}
  Conns = {1, 2}
  Sizes = {2, 3}
  Cases <- SafetyCases
SPECIFICATION FairSpec
INVARIANTS TypeOK InSync BacklogHoldsTail PsyncSendsMissing
           SlavesHaveBacklog
PROPERTY WaitCountsHolders Converges
CHECK_DEADLOCK FALSE
