\* A signal for the run command before the child has called setpgrp.
CONSTANTS
  Sigs = {"TERM", "USR1", "SEGV", "KILL"}
  SelfSigs = {"TERM", "SEGV"}
  Kid = kid
  Desc = {d1, d2}
  MaxSends = 1
SPECIFICATION Spec
CHECK_DEADLOCK FALSE
INVARIANT
  LosesNoSignal
