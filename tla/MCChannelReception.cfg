SPECIFICATION FairSpec
CONSTANTS
  Seeds = {1, 2}
  U32Max = 6
  MAX_SKIP = 1
  MAX_SKIPPED_TOTAL = 1
  Events <- AllEvents
  Ev <- MCEv
  Parents <- MCParents
  Bodies = 2
  Pages = 3
  MaxJobs = 1
  MaxCrashes = 1
  None = None
  k = k
  a0 = a0
  f1 = f1
  a3 = a3
  s2 = s2
  b0 = b0
  b1 = b1
  b3 = b3
  s0 = s0
CHECK_DEADLOCK FALSE
CONSTRAINT OneCase
INVARIANTS ExactlyOnce ConsumedIsOpened
PROPERTIES AuthorityFence UndroppedDrain
