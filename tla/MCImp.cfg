\* One descendant and one signal; the kv has one body piece or is too long.
CONSTANTS
  MaxLen = 1
  PipeCap = 1
  MaxMissing = 1
  Sigs = {"TERM", "USR1", "SEGV", "KILL"}
  SelfSigs = {"SEGV"}
  Kid = kid
  Desc = {d1}
  MaxSends = 1
SPECIFICATION MCSpec
CHECK_DEADLOCK FALSE
INVARIANTS
  TypeOK
  JobIsContained
  PamSpansJob
PROPERTY
  ImplementsContract
