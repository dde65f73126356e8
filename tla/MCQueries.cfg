SPECIFICATION Spec
CONSTANTS
  Ids = {1, 2, 3}
  Cards <- SomeCards
  Weights <- SomeWeights
  TopN = 2
  LastDay = 1
  None = None
INVARIANTS
  LowerBarNeverCostsMore
  BestIsUndominated
  ValueRankingIsFair
  RankingsAgree
PROPERTY WinnersDependOnWinners
