CONSTANTS
  Busy_bit = 1
  Row <- MCRows
  PageBytes = 3
  ParamBytes = 2
  Writes <- MCShortWrites
  Reads <- MCReads
  HostByte <- MCHostByte
  Id <- MCId
  ParamPage <- MCParamPage
  X = 999
  MaxCalls = 4
  MaxResets = 1
SPECIFICATION Spec
PROPERTIES StoresPages
CHECK_DEADLOCK FALSE
