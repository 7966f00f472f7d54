----------------------------- MODULE OnfiPackage -----------------------------
(***************************************************************************)
(* onfi_package.v: the delays of the NAND interface, counted in cycles of  *)
(* PCLK, and the names of the states and substates of the master FSM.      *)
(* Every timing parameter the RTL uses is a CONSTANT here; the .cfg files  *)
(* give the values the package computes for clock_cycle = 10 ns, except    *)
(* for t_prog and t_bers (60 000 and 70 000 cycles), which are scaled.     *)
(***************************************************************************)
EXTENDS Integers

CONSTANTS
  t_clh,        \* CLE hold after WE# rises
  t_wp,         \* WE# low
  t_wh,         \* WE# high
  t_rr,         \* R/B# high to RE# low
  t_rea,        \* length the IO unit gives to RE# low
  t_reh,        \* RE# high
  t_wb,         \* WE# high to R/B# low, at most
  t_whr,        \* WE# high to RE# low
  t_adl,        \* last address cycle to first data cycle
  t_prog,       \* page program
  t_bers,       \* block erase
  InitCycles    \* last value of the 4-bit init_counter of each unit (15)

(***************************************************************************)
(* Every delay is a positive number of cycles: clock_cycle never exceeds   *)
(* the shortest interval the package names.                                *)
(***************************************************************************)
ASSUME TimingAssumption ==
  \A t \in {t_clh, t_wp, t_wh, t_rr, t_rea, t_reh, t_wb, t_whr, t_adl,
            t_prog, t_bers, InitCycles} : t \in Nat \ {0}

\* States of the master FSM that run one operation on the NAND bus.
BusStates ==
  {"M_NAND_RESET", "M_NAND_READ_PARAM_PAGE", "M_NAND_READ_ID",
   "M_NAND_BLOCK_ERASE", "M_NAND_READ_STATUS", "M_NAND_READ",
   "M_NAND_PAGE_PROGRAM", "MI_BYPASS_ADDRESS", "MI_BYPASS_COMMAND",
   "MI_BYPASS_DATA_WR", "MI_BYPASS_DATA_RD"}

\* States that finish in the cycle after the command is taken.
RegisterStates ==
  {"MI_GET_STATUS", "MI_CHIP1_ENABLE", "MI_CHIP_DISABLE", "MI_CHIP2_ENABLE",
   "MI_WRITE_PROTECT", "MI_WRITE_ENABLE", "MI_RESET_INDEX", "MI_GET_ID_BYTE",
   "MI_GET_PARAM_PAGE_BYTE", "MI_GET_DATA_PAGE_BYTE", "MI_SET_DATA_PAGE_BYTE",
   "MI_GET_CURRENT_ADDRESS_BYTE", "MI_SET_CURRENT_ADDRESS_BYTE"}

MasterStates ==
  BusStates \union RegisterStates \union {"M_IDLE", "M_RESET", "M_WAIT", "M_DELAY"}

Substates ==
  {"MS_BEGIN", "MS_SUBMIT_COMMAND", "MS_SUBMIT_COMMAND1", "MS_SUBMIT_ADDRESS",
   "MS_WRITE_DATA0", "MS_WRITE_DATA1", "MS_WRITE_DATA2", "MS_WRITE_DATA3",
   "MS_READ_DATA0", "MS_READ_DATA1", "MS_READ_DATA2", "MS_DELAY", "MS_WAIT",
   "MS_END", "MS_WAIT_tRR"}
=============================================================================
