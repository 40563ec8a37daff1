SPECIFICATION Safety
CONSTANTS
  Session = {s1, s2}
  Config = {c1}
  Watchdog = watchdog
  NoSession = noSession
  NoConfig = noConfig
  Timeout = 1
  Interval = 1
  MayFail <- SomeMayFail
  Prompt = TRUE
  MaxCrashes = 1
SYMMETRY SessionSymmetry
INVARIANTS NoLockout OwnedRoutingIntercepts DeadmanBound
PROPERTY LeaseSpec
