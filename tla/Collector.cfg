CONSTANTS
  Object = {o1, o2, o3}
  Null = Null
  Programs = {{}, {"stale"}}
SPECIFICATION FairCollectorSpec
INVARIANTS
  LiveStayInHeap
PROPERTIES
  CollectsExactly
  FinalizerDrains
