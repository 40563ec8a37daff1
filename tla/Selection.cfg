SPECIFICATION Spec
CONSTANTS
  Size = 3
  Label <- Doubled
  Finalists = 2
  Limit = 2
  Targets <- SixTargets
  Level = {90, 900}
  MaxWeight = 3
  MaxAge = 1
INVARIANTS SweepIsFair ScoreFollowsRank
PROPERTIES SwitchesToAPasser HistoryIsTheirOwn
