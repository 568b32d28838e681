SPECIFICATION Spec
CONSTANTS
  None = None
  Failed = Failed
  Boot = Boot
  Obj = Obj
  Cls = Cls
  Clone = Clone
  A = A
  B = B
  I = I
  J = J
  ArrA = ArrA
  ArrB = ArrB
  Long = Long
  m = m
  init = init
  l1 = l1
  Object = Obj
  Class = Cls
  OfArrays = {Clone}
  Constructor = init
  Hidden = {}
  Loader = {l1}
  Array = {ArrA, ArrB}
  Primitive = {Long}
  ElementOf <- ElementIn
  Programs <- All
INVARIANTS
  NoneInItself
  LinkedOrBroken
  SizesAdd
  CastsAsJava
  RunsOnItsObjects
PROPERTIES
  KeepsIdentity
CHECK_DEADLOCK FALSE
