\* A kv of up to two body pieces through a pipe that holds one.
CONSTANTS
  MaxLen = 2
  PipeCap = 1
  MaxMissing = 1
SPECIFICATION MCSpec
INVARIANTS
  TypeOK
  WorkAuthorised
  JobAfterGoodChild
  ExitTellsOfChild
PROPERTIES
  ParentTerminates
  ChildTerminates
