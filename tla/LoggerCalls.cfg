SPECIFICATION FairSpec
CONSTANTS
  Threads = {t1, t2}
  LabelSets = {l0, l1}  Torn = Torn
  Panics = {"message", "start", "labels"}
  Kinds <- RunKinds
  WriterFails = TRUE
  MaxCalls = 3  MaxClock = 1
INVARIANTS LockHeld EventsWhole StartFirst StampsOrdered
PROPERTIES ImplementsEventLog EveryCallReturns
