\* A process that forks and exits between the read of cgroup.procs and the probe.
CONSTANTS
  Sigs = {"TERM", "USR1", "SEGV", "KILL"}
  SelfSigs = {"TERM", "SEGV"}
  Kid = kid
  Desc = {d1, d2}
  MaxSends = 1
SPECIFICATION Spec
CHECK_DEADLOCK FALSE
INVARIANT
  CgroupEmptyAtEnd
