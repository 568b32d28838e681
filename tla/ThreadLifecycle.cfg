CONSTANTS
  Nobody = Nobody
  Main = main
  Thread = {main, a, b, d}
  Daemon = {d}
  Modulus = 5
  Programs = {{"race"}, {"collect"}, {"join"}}
SPECIFICATION FairLifecycleSpec
PROPERTIES
  NoEarlyEnd
  WaitEnds
CHECK_DEADLOCK FALSE
