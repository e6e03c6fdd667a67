\* The filter of the environment, on kvs of the child and others.
CONSTANTS
  Nodes <- MCNodes
  ProcDevices <- MCProcDevices
  Standard <- MCStandard
  MaxEntries = 4
  Numerals <- MCNumerals
  AllowAll = allow_all
  Malformed = malformed
  Allowed <- MCAllowed
  Unset = unset
  LongNames = {"LONG"}
  Environs <- MCEnvirons
  Options <- MCOptions
  Argvs <- MCArgvs
  HelperOptions <- MCHelperOptions
  PipeSize = 1
  Outputs <- MCOutputs
  Garbage <- MCGarbage
  Forged <- MCForged
SPECIFICATION Spec
INVARIANT
  OnlyAllowedRemain
