\* Lists of at most two items, environments of at most three variables, buffers of
\* at most eight symbols.
CONSTANTS
  Nodes <- MCNodes
  ProcDevices <- MCProcDevices
  Standard <- MCStandard
  MaxEntries = 4
  Numerals <- MCNumerals
  AllowAll = allow_all
  Malformed = malformed
  Allowed <- MCAllowed
  Unset = unset
  LongNames = {"LONG"}
  Environs <- MCEnvirons
  Options <- MCOptions
  Argvs <- MCArgvs
  HelperOptions <- MCHelperOptions
  PipeSize = 1
  Outputs <- MCOutputs
  Garbage <- MCGarbage
  Forged <- MCForged
SPECIFICATION Spec
INVARIANTS
  TypeOK
  DecodeIsExact
  BufferMeansEntries
  OwnVarsPrevail
  
  AllowedSurvive
  VerdictIsPolicy
  RequestIsWhole
PROPERTY
  InputIsDecided
