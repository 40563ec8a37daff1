SPECIFICATION TestbedSpec
CONSTANTS
  Thread = {watchdog, click}
  Node = {n1, n2, bad}
  Broken = {bad}
  Port = {p1, p2}
  None = none
  Torn = torn
INVARIANT MeasuresOwnNode
