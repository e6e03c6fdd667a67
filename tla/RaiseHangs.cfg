\* A job that dies of a signal the IMP keeps blocked.
CONSTANTS
  Sigs = {"TERM", "USR1", "SEGV", "KILL"}
  SelfSigs = {"TERM", "SEGV"}
  Kid = kid
  Desc = {d1, d2}
  MaxSends = 0
SPECIFICATION Spec
CHECK_DEADLOCK FALSE
PROPERTY
  AlwaysEndsAfterJob
