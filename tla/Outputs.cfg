SPECIFICATION Spec
CONSTANTS
  Lists <- RunLists  Sources <- RunSources  Batches <- RunBatches
  MaxWrites = 3  MaxFaults = 1
INVARIANTS HandlesBalanced AcceptedShown LabelsReadable PageWellFormed
