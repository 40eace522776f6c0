SPECIFICATION MCSpec
CONSTANTS
  Events <- MapsOpen  MaxDepth = 16
  GoValues <- MCGoValues  Heap <- MCHeap  Attrs <- MCAttrs  GroupNames = {0, 3}  LabelPairs <- MCLabels  RuleSets <- MCRuleSets
  MaxOps = 2
  MaxArgs = 4
  MaxSent = 2  MaxPiece = 8  MaxFaults = 1  PSizes = {0, 7}
INVARIANTS NothingLost EventsFramed EncodedAsMeant RewrittenAsRuled LabelsMade
