SPECIFICATION FilterFairSpec
CONSTANTS
  Askers = {t1, t2}
  Texts <- RunTexts  Keys <- TwoKeys
  MaxFilters = 2  MaxAsks = 3
  Star = Star  Broken = Broken
INVARIANTS AnswersRight MatchedOnce
PROPERTIES EveryAskReturns
