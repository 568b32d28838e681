SPECIFICATION Spec
CONSTANTS
  Files <- Everything
  NameOf <- Names
  Counter = 4
  Strays = {0, 1}
  Beyond = 12
INVARIANTS
  ReadsAsWritten
CHECK_DEADLOCK FALSE
