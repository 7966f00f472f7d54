CONSTANTS
  Busy_bit = 0
  Operations <- MCOperations
  Registers <- MCRegisters
  PowerUp = {0}
  MaxCalls = 4
  MaxResets = 1
SPECIFICATION FairSpec
INVARIANT ReturnMeansDone
