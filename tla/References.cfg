CONSTANTS
  o1 = o1
  o2 = o2
  o3 = o3
  t1 = t1
  t2 = t2
  Thread = {t1, t2}
  Object <- Two
  Null = Null
  Depth <- Depths
  MaxRefs = 2
CHECK_DEADLOCK FALSE
SYMMETRY Symmetric
SPECIFICATION Spec
INVARIANTS
  HeldStaysAlive
  ListsHoldTheHeld
PROPERTIES
  CollectsExactly
