CONSTANTS
  Busy_bit = 1
  Row <- MCRows
  PageBytes = 3
  ParamBytes = 2
  Writes <- MCWrites
  Reads <- MCReads
  HostByte <- MCHostByte
  Id <- MCId
  ParamPage <- MCParamPage
  X = 999
  MaxCalls = 4
  MaxResets = 1
SPECIFICATION FairSpec
INVARIANTS TypeInvariant ProtectedOutsideWrites
PROPERTIES OnlyAskedPageChanges StoresPages CallsReturn
CHECK_DEADLOCK FALSE
