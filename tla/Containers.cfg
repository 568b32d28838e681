SPECIFICATION Spec
CONSTANTS
  n1 = n1  n2 = n2  n3 = n3  n4 = n4  a = a  b = b
  Key = {1, 2, 3, 4, 5}
  Val = {a, b}
  Absent = Absent
  Hash <- MCHash
  InitialCount = 4
  Node = {n1, n2, n3, n4}
  Element = {a, b}
  Null = Null
  Capacity = 12
  Reserve = 6
  Usual = {1, 2}
  Large = {4}
  Limit = 16
  Object = {1, 2, 3, 4, 5, 6}
  InitialCapacity = 7
  Least = 3
  Thread = {1, 2}
  Text <- MCText
  LengthLimit = 6
  Asks = 2
  Deeds <- MCDeeds
INVARIANTS
  NothingIsLost
  OneForEach
CHECK_DEADLOCK FALSE
