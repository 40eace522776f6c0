SPECIFICATION FairSpec
CONSTANTS
  MaxEvents = 3  MaxConns = 2
  Requests <- RunRequests  MaxOut = 3
  Packets <- RunPackets
  Scenarios <- RunScenarios

INVARIANTS NothingBehindCut AckedWhole StoredWhole AnsweredOnce
PROPERTIES EndsIdle StopEnds EventuallyStored
