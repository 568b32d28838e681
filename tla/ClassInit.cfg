CONSTANTS
  t1 = t1
  t2 = t2
  A = A
  B = B
  C = C
  NoClass = NoClass
  Nobody = Nobody
  Thread <- Threads
  Class <- Classes
  Super <- BExtendsA
  Programs <- Everything
SPECIFICATION FairSpec
INVARIANTS
  SuperFirst
  SafeUse
PROPERTIES
  OnceOnly
  LockComesFree
