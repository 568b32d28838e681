CONSTANTS
  run = run
  work = work
  open = open
  nat = nat
  lock = lock
  e1 = e1
  e2 = e2
  Method <- Methods
  Native = {nat}
  Length <- Lengths
  Handlers <- Tables
  Lock = {lock}
  Sync <- Syncs
  NoLock = NoLock
  Exception = {e1, e2}
  StackOverflow = e2
  NoException = NoException
  Capacity = 3
  Depth = 4
  Programs <- Tame
SPECIFICATION Spec
INVARIANTS
  EveryCallHasItsFrame
  LocksBalanced
PROPERTIES
  GoesOnInHandler
  RightHandler
