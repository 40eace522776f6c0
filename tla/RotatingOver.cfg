SPECIFICATION Spec
CONSTANTS
  Lens = {1}
  MaxFileSize = 1  MaxFileAge = 0
  MinAge = 0  MaxTotalSize = 0  MaxTotalAge = 0  MaxTotalFiles = 2
  TypedNil = FALSE
  Base = 10  Wide = 1000
  InitDisks <- NoDisk
  Ticks = {1}  MaxNum = 5  MaxClock = 0  MaxFaults = 0
  Nil = Nil  Bad = Bad
INVARIANTS AtMostMaxTotalFiles
