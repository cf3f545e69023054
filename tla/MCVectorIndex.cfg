CONSTANTS
  Files = {f1, f2}
  Chunks = {a, b}
  MaxLength = 2
  Capacity = 1
  MaxChanges = 2
  MaxFaults = 2
  MaxStarts = 2
SPECIFICATION FairSpec
INVARIANTS IndexedIsStored CaughtUp
PROPERTIES CatchesUp
CHECK_DEADLOCK FALSE
