CONSTANTS
  Nobody = Nobody
  Collector = Collector
  Mutator = {m1, m2}
  Programs = {{}, {"native", "spurious"},
              {"lock", "native", "callback", "throw", "spurious", "finalizer"}}
SPECIFICATION FairSpec
INVARIANTS
  StopTheWorld
  AllReleased
PROPERTIES
  CollectionEnds
CHECK_DEADLOCK FALSE
