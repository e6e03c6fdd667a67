\* Two descendants, two signals sent.  A job can die of a signal that the IMP
\* forwards and of one that it keeps blocked.  A job that dies of the latter
\* leaves the IMP in pause(2), so the system may stop.
CONSTANTS
  Sigs = {"TERM", "USR1", "SEGV", "KILL"}
  SelfSigs = {"TERM", "SEGV"}
  Kid = kid
  Desc = {d1, d2}
  MaxSends = 2
SPECIFICATION Spec
CHECK_DEADLOCK FALSE
INVARIANTS
  TypeOK
  MirrorsJob
  ExecLosesNoSignal
  KillReachesAllFound
  OutlivesJob
PROPERTIES
  EndsAfterJob
  ForwardedAreTaken
