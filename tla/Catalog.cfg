SPECIFICATION Spec
CONSTANTS
  n1 = n1
  n2 = n2
  n3 = n3
  p1 = p1
  p2 = p2
  None = None
  Bad = Bad
  Proc = {p1, p2}
  Node = {n1, n2, n3}
  Name <- Names
  Country <- Countries
  Payload <- Payloads
  Arenas <- ArenaSet
  Legacy <- OldFile
  Unreadable = {n2}
  MayEmpty = {2}
  MaxSub = 2
  MaxId = 4
  MaxEntries = 3
  MaxFailures = 1
INVARIANTS NothingLost IdNamesOneNode ShownIsStored
PROPERTIES AtomicRefresh ImportAdds
SYMMETRY Instances
