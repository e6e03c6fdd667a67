CONSTANTS
  Slots = {a, b}
  KeyPairs = {k1, k2}
  NoKey = nokey
  Metadata <- MCMetadata
  MaxEdits = 3
  MaxUses = 2
  MaxLoads = 1
SYMMETRY Symmetry
SPECIFICATION Spec
CHECK_DEADLOCK FALSE
INVARIANTS
  TypeOK
  EncodingsAreOwned
  LoadedIsStored
PROPERTIES
  HeaderKeepsCert
