SPECIFICATION Spec
CONSTANTS
  LabelSets <- Two  Sum <- SumTwo
  Stamps = {0, 2}
  Lens = {1, 2}
  Partition = 2  FileSize = 6  BlockSize = 4
  MaxEvents = 4  MaxFaults = 1  MaxSubs = 3  MaxCalls = 5
  None = None
INVARIANTS AckedKept Decodable BlocksAlone SubscriptionsKept
PROPERTIES ImplementsEventStore
