SPECIFICATION Spec
CONSTANTS
  Node = {n1, n2, dead}
  None = none
  Dead = {dead}
  Reachable = {n1, n2, dead}
  Finalists = 2
  Fast = {n2}
  Required = 2
  Window = 2
  Cooldown = 2
  Samples <- Samples6
  Floor = 35
  AutoSelect = TRUE
  RescoreMayFail = TRUE
  SwitchMayFail = TRUE
  Twins = {n1, dead}
  Label <- Labels
INVARIANT NoHastyDegrade
PROPERTIES OnlyOnEvidence CooldownRespected OnlyTheOvertaken TunnelComesBack DeadNodeReplaced
