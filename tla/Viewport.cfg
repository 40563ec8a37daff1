SPECIFICATION ViewportSpec
CONSTANTS
  View = {byName, byLatency}
  NoView = none
  MetricSorted = {byLatency}
  Row = {r1, r2}
  Imports = 2
  Results = 2
  Batches = 1
INVARIANT WorkPending
PROPERTIES CatchesUp RowsRepainted
