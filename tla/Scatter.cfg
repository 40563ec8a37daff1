SPECIFICATION Spec
CONSTANTS
  Operator = {plain, portal}
  Site = {wiki, forge}
  RealCount = 1
  NeedsBody = {portal}
  MinVerified = 2
  Worker = {w1, w2}
INVARIANT ReportSound
PROPERTY TrialEnds
CHECK_DEADLOCK FALSE
