SPECIFICATION FairSpec
CONSTANTS
  Lens = {2}
  MaxFileSize = 3  MaxFileAge = 1
  MinAge = 1  MaxTotalSize = 0  MaxTotalAge = 1  MaxTotalFiles = 2
  TypedNil = TRUE
  Base = 10  Wide = 1000
  InitDisks <- NoDisk
  Ticks = {2}  MaxNum = 3  MaxClock = 2  MaxFaults = 1
  Nil = Nil  Bad = Bad
PROPERTIES CleanupEnds WriterRecovers YoungKept
