CONSTANTS
  Euid = 0
  Egid = 0
  Patterns <- MCPatterns
  ImpPatterns <- MCImpPatterns
  UserKeys = {"user"}
  UserData = {u1, u2}
  MaxConfigs = 2
  MaxCalls = 2
  MaxSize = 1
SYMMETRY Symmetry
SPECIFICATION Spec
CHECK_DEADLOCK FALSE
INVARIANTS
  MechStateIsLive
