CONSTANTS
  NoThread = NoThread
  Thread = {t1, t2, t3}
  Rogue = {}
  NestedWait = FALSE
  MaxNest = 2
SPECIFICATION FairSpec
INVARIANTS
  NeverRefused
  WaitReleases
  StateTellsBlocking
PROPERTIES
  JavaSpec
  NoLockout
