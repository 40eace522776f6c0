SPECIFICATION MCSpec
CONSTANTS
  Events <- SelfRefs  MaxDepth = 16
  GoValues <- MCGoValues  Heap <- MCHeap  Attrs <- MCAttrs  GroupNames = {0, 3}  LabelPairs <- MCLabels  RuleSets <- MCRuleSets
  MaxOps = 2
  MaxArgs = 0
  MaxSent = 1  MaxPiece = 8  MaxFaults = 0  PSizes = {0}
INVARIANTS NeverBadFormat
