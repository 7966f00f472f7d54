CONSTANTS
  Busy_bit = 1
  Operations <- MCOperations
  Registers <- MCRegisters
  PowerUp = {0}
  MaxCalls = 4
  MaxResets = 1
SPECIFICATION FairSpec
INVARIANTS TypeInvariant ReturnMeansDone
PROPERTIES DataIsFresh CallsReturn
