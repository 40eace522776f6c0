SPECIFICATION Spec
CONSTANTS
  Lens = {1, 2}
  MaxFileSize = 3  MaxFileAge = 0
  MinAge = 0  MaxTotalSize = 2  MaxTotalAge = 0  MaxTotalFiles = 2
  TypedNil = TRUE
  Base = 10  Wide = 1000
  InitDisks <- Disks
  Ticks = {1}  MaxNum = 4  MaxClock = 0  MaxFaults = 1
  Nil = Nil  Bad = Bad
INVARIANTS RetentionKept CurrentKept LatestSound
PROPERTIES NumbersNeverReused
