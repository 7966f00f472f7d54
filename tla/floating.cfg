CONSTANTS
  t_clh = 2
  t_wp = 5
  t_wh = 3
  t_rr = 4
  t_rea = 4
  t_reh = 3
  t_wb = 20
  t_whr = 12
  t_adl = 20
  t_prog = 6
  t_bers = 7
  InitCycles = 15
  PageDepth = 3
  DefaultData = 2
  DefaultOob = 1
  ParamBytes = 102
  ParamIndex <- MCParamIndex
  HostBytes <- MCHostBytes
  EraseMax = 7
  ChipWord <- MCNarrowWord
  HoldsBus = FALSE
  HostEarly = FALSE
  MaxResets = 0
  Commands <- MCTransfers
  MaxCommands = 2
SPECIFICATION Spec
INVARIANTS TransferFaithful
