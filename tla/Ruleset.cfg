SPECIFICATION Spec
CONSTANTS
  FromLan = TRUE
  Entries <- AllEntries
INVARIANTS NothingTakenBack BypassUntouched NoDnsInTheClear ThroughTheNode FaithfulOutbound
