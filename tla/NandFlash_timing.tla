--------------------------- MODULE NandFlash_timing ---------------------------
(***************************************************************************)
(* When the controller may put a cycle on the bus: how long after an       *)
(* address the first byte of a program comes, that no cycle reaches a chip *)
(* that is at work, and that a word is read only from a chip that has had  *)
(* its time; and, from that, that what a transfer stores is what the chip  *)
(* sent. The delays are any numbers the assumptions name.                  *)
(***************************************************************************)
EXTENDS NandFlash_proofs

-----------------------------------------------------------------------------
(* The place of the FSM *)

\* A wait leads back to an operation or to M_IDLE, and between operations the substate is
\* MS_BEGIN.
Placed ==
  /\ n_state \notin {"M_WAIT", "M_DELAY"}
  /\ Doing \in AtRest => substate = "MS_BEGIN"

LEMMA PlacedStep ==
  ASSUME Placed, NEW activate, NEW cmd_in, NEW data_in, NEW r,
         MasterTick(activate, cmd_in, data_in, r)
  PROVE  Placed'
<1> USE DEF Placed, Doing, AtRest, WaitFor, DelayFor, Continue, Finish, Return
<1>1. CASE UNCHANGED master BY <1>1 DEF master, control
<1>2. CASE MasterReset BY <1>2, SMT DEF MasterReset
<1>3. CASE MasterIdle(activate, cmd_in)
  BY <1>3 DEF MasterIdle
<1>4. CASE RegisterCommand(data_in)
  <2>1. state \in RegisterStates /\ Return
    BY <1>4, SMT DEF RegisterCommand, GetStatus, SelectChip, SetProtection, ResetIndex,
       GetIdByte, GetParamPageByte, GetDataPageByte, GetCurrentAddressByte, SetDataPageByte,
       SetCurrentAddressByte, GetByte, AdvanceIndex, RegisterStates
  <2> QED BY <2>1, SMT DEF RegisterStates
<1>5. CASE NandReset BY <1>5, SMT DEF NandReset, RegisterStates
<1>6. CASE PageProgram BY <1>6, SMT DEF PageProgram, RegisterStates
<1>7. CASE ReadPage BY <1>7, SMT DEF ReadPage, RegisterStates
<1>8. CASE ReadStatus \/ BlockErase
  BY <1>8, SMT DEF ReadStatus, BlockErase, RegisterStates
<1>9. CASE ReadId \/ ReadParamPage
  BY <1>9, SMT DEF ReadId, ReadParamPage, RegisterStates
<1>10. CASE BypassLatch(data_in)
  BY <1>10, SMT DEF BypassLatch, RegisterStates
<1>11. CASE BypassDataWr(data_in) \/ BypassDataRd
  BY <1>11, SMT DEF BypassDataWr, BypassDataRd, RegisterStates
<1>12. CASE Wait(r) \/ Delay
  BY <1>12, SMT DEF Wait, Delay, Countdown
<1> QED BY <1>1, <1>2, <1>3, <1>4, <1>5, <1>6, <1>7, <1>8, <1>9, <1>10, <1>11, <1>12, Zenon
        DEF MasterTick, BusOperation

LEMMA PlacedInvariant == Spec => []Placed
<1>1. Init => Placed BY SMT DEF Init, MasterInit, Placed, Doing, AtRest
<1>2. Placed /\ [Next]_vars => Placed'
  <2> SUFFICES ASSUME Placed, [Next]_vars PROVE Placed'
    OBVIOUS
  <2>1. CASE Clock
    <3>1. PICK activate, cmd_in, data_in, r : MasterTick(activate, cmd_in, data_in, r)
      BY <2>1 DEF Clock, Edge, Step
    <3> QED BY <3>1, PlacedStep
  <2>2. CASE Reset
    BY <2>2, SMT DEF Reset, HardReset, Placed, Doing, AtRest, RegisterStates
  <2>3. CASE UNCHANGED master BY <2>3 DEF Placed, Doing, master, control
  <2> QED BY <2>1, <2>2, <2>3 DEF Next, GoBusy, BecomeReady, vars
<1> QED BY <1>1, <1>2, PTL DEF Spec

\* What waiting leaves alone, and when it ends.
LEMMA WaitEdge ==
  ASSUME Placed, NEW r, Wait(r) \/ Delay
  PROVE  /\ n_state' = n_state /\ substate' = substate /\ Doing' = Doing
         /\ pins' = pins /\ drive' = drive
         /\ delay > 1 => delay' = delay - 1 /\ state' = state
         /\ ~(delay > 1) => delay' = delay /\ state' \in {state, n_state}
         /\ state = "M_WAIT" /\ state' # "M_WAIT" => ~unit_busy /\ r = 1
BY SMT DEF Placed, Wait, Delay, Countdown, WaitOver, Doing, config

LEMMA WaitOnly ==
  ASSUME UnitDiscipline, state \in {"M_WAIT", "M_DELAY"},
         NEW activate, NEW cmd_in, NEW data_in, NEW r, MasterTick(activate, cmd_in, data_in, r)
  PROVE  Wait(r) \/ Delay
<1>1. enable # 1 BY DEF UnitDiscipline
<1>2. ~MasterReset /\ ~MasterIdle(activate, cmd_in) /\ ~RegisterCommand(data_in)
  BY SMT DEF MasterReset, MasterIdle, RegisterCommand, GetStatus, SelectChip, SetProtection,
     ResetIndex, GetIdByte, GetParamPageByte, GetDataPageByte, GetCurrentAddressByte,
     SetDataPageByte, SetCurrentAddressByte
<1>3. ~BusOperation(data_in)
  BY SMT DEF BusOperation, NandReset, PageProgram, ReadPage, ReadStatus, BlockErase, ReadId,
     ReadParamPage, BypassLatch, BypassDataWr, BypassDataRd
<1> QED BY <1>1, <1>2, <1>3 DEF MasterTick

\* In each of its states the FSM takes the step of that state.
LEMMA OperationOnly ==
  ASSUME UnitDiscipline,
         NEW activate, NEW cmd_in, NEW data_in, NEW r, MasterTick(activate, cmd_in, data_in, r)
  PROVE  /\ state = "M_NAND_RESET" => NandReset
         /\ state = "M_NAND_READ_PARAM_PAGE" => ReadParamPage
         /\ state = "M_NAND_READ_ID" => ReadId
         /\ state = "M_NAND_BLOCK_ERASE" => BlockErase
         /\ state = "M_NAND_READ_STATUS" => ReadStatus
         /\ state = "M_NAND_READ" => ReadPage
         /\ state = "M_NAND_PAGE_PROGRAM" => PageProgram
BY SMT DEF UnitDiscipline, MasterTick, MasterReset, MasterIdle, RegisterCommand, GetStatus,
   SelectChip, SetProtection, ResetIndex, GetIdByte, GetParamPageByte, GetDataPageByte,
   GetCurrentAddressByte, SetDataPageByte, SetCurrentAddressByte, BusOperation, NandReset,
   PageProgram, ReadPage, ReadStatus, BlockErase, ReadId, ReadParamPage, BypassLatch,
   BypassDataWr, BypassDataRd, Wait, Delay

\* Where the FSM stands while a strobe of WE# is low.
LEMMA StrobePlace ==
  ASSUME UnitDiscipline
  PROVE  /\ ACL!write_enable = 0 \/ AAL!write_enable = 0 \/ IO_WR!io_ctrl = 0 => unit_busy
         /\ ACL!write_enable = 0 \/ IO_WR!io_ctrl = 0 => state = "M_WAIT"
         /\ AAL!write_enable = 0 =>
              state = "M_WAIT" \/ At("M_NAND_READ", {"MS_SUBMIT_ADDRESS"})
<1>1. /\ ACL!write_enable = 0 => ACL!active /\ ACL!busy
      /\ AAL!write_enable = 0 => AAL!active /\ AAL!busy
      /\ IO_WR!io_ctrl = 0 => IO_WR!active /\ IO_WR!busy
  BY SMT DEF ACL!write_enable, AAL!write_enable, IO_WR!io_ctrl, ACL!active, AAL!active,
     IO_WR!active, ACL!busy, AAL!busy, IO_WR!busy
<1> QED BY <1>1, Zenon DEF UnitDiscipline, Quiet, unit_busy

\* The strobes of an edge: each falls only when its unit is activated, and the FSM waits for it.
LEMMA StrobeEdge ==
  ASSUME TypeInvariant, UnitDiscipline, Placed,
         NEW activate, NEW cmd_in, NEW data_in, Edge(activate, cmd_in, data_in)
  PROVE  /\ ACL!write_enable' = 0 => ACL!write_enable = 0 \/ cle_activate
         /\ AAL!write_enable' = 0 => AAL!write_enable = 0 \/ ale_activate
         /\ IO_WR!io_ctrl' = 0 => IO_WR!io_ctrl = 0 \/ io_wr_activate
         /\ /\ state = "M_WAIT"
            /\ ACL!write_enable = 0 \/ AAL!write_enable = 0 \/ IO_WR!io_ctrl = 0
            => state' = state /\ n_state' = n_state /\ substate' = substate /\ Doing' = Doing
               /\ pins' = pins /\ drive' = drive
<1>1. /\ ACL!write_enable' = 0 => ACL!write_enable = 0 \/ cle_activate
      /\ AAL!write_enable' = 0 => AAL!write_enable = 0 \/ ale_activate
      /\ IO_WR!io_ctrl' = 0 => IO_WR!io_ctrl = 0 \/ io_wr_activate
  <2>1. ACL!write_enable \in {0, 1} /\ AAL!write_enable \in {0, 1} /\ IO_WR!io_ctrl \in {0, 1}
    BY SMT DEF ACL!write_enable, AAL!write_enable, IO_WR!io_ctrl
  <2>2. ~cle_activate /\ ACL!write_enable = 1 => ACL!write_enable' = 1
    BY EdgeUnits, CommandLatchEdge
  <2>3. ~ale_activate /\ AAL!write_enable = 1 => AAL!write_enable' = 1
    BY EdgeUnits, AddressLatchEdge
  <2>4. ~io_wr_activate /\ IO_WR!io_ctrl = 1 => IO_WR!io_ctrl' = 1
    BY EdgeUnits, WriterEdge
  <2> QED BY <2>1, <2>2, <2>3, <2>4, SMT
<1>2. ASSUME state = "M_WAIT",
             ACL!write_enable = 0 \/ AAL!write_enable = 0 \/ IO_WR!io_ctrl = 0
      PROVE  state' = state /\ n_state' = n_state /\ substate' = substate /\ Doing' = Doing
             /\ pins' = pins /\ drive' = drive
  <2>1. unit_busy BY <1>2, StrobePlace
  <2>2. Wait(rnb) \/ Delay BY <1>2, EdgeUnits, WaitOnly
  <2> QED BY <1>2, <2>1, <2>2, WaitEdge
<1> QED BY <1>1, <1>2

\* Where an operation goes: on, or to the end.
LEMMA DoingStays ==
  ASSUME Placed, state # "M_IDLE",
         NEW activate, NEW cmd_in, NEW data_in, NEW r, MasterTick(activate, cmd_in, data_in, r)
  PROVE  Doing' \in {Doing, "M_IDLE"}
<1> USE DEF Placed, Doing, WaitFor, DelayFor, Continue, Finish, Return
<1>1. CASE UNCHANGED master BY <1>1 DEF master, control
<1>2. CASE MasterReset \/ MasterIdle(activate, cmd_in) BY <1>2, SMT DEF MasterReset, MasterIdle
<1>3. CASE RegisterCommand(data_in)
  BY <1>3, SMT DEF RegisterCommand, GetStatus, SelectChip, SetProtection, ResetIndex,
     GetIdByte, GetParamPageByte, GetDataPageByte, GetCurrentAddressByte, SetDataPageByte,
     SetCurrentAddressByte, GetByte, AdvanceIndex
<1>4. CASE NandReset \/ PageProgram BY <1>4, SMT DEF NandReset, PageProgram
<1>5. CASE ReadPage BY <1>5, SMT DEF ReadPage
<1>6. CASE ReadStatus \/ BlockErase BY <1>6, SMT DEF ReadStatus, BlockErase
<1>7. CASE ReadId \/ ReadParamPage BY <1>7, SMT DEF ReadId, ReadParamPage
<1>8. CASE BypassLatch(data_in) BY <1>8, SMT DEF BypassLatch
<1>9. CASE BypassDataWr(data_in) \/ BypassDataRd BY <1>9, SMT DEF BypassDataWr, BypassDataRd
<1>10. CASE Wait(r) \/ Delay BY <1>10, WaitEdge
<1> QED BY <1>1, <1>2, <1>3, <1>4, <1>5, <1>6, <1>7, <1>8, <1>9, <1>10, Zenon
        DEF MasterTick, BusOperation

\* While the substate is not the one that activates a unit of the operation, WE# stays high.
LEMMA HighElsewhere ==
  ASSUME TypeInvariant, UnitDiscipline, InitTogether,
         NEW activate, NEW cmd_in, NEW data_in, Edge(activate, cmd_in, data_in),
         nand_nwe = 1, ~cle_activate, ~ale_activate, ~io_wr_activate
  PROVE  nand_nwe' = 1 /\ ~WeRises
<1>1. nand_nwe' = 1 BY NoWriteStarts
<1> QED BY <1>1, SMT DEF WeRises

-----------------------------------------------------------------------------
(* The address before the data *)

Bypass == {"MI_BYPASS_ADDRESS", "MI_BYPASS_COMMAND", "MI_BYPASS_DATA_WR", "MI_BYPASS_DATA_RD"}

\* A program that has come to its data.
Writing ==
  /\ op # 0 /\ Doing = "M_NAND_PAGE_PROGRAM"
  /\ substate \in {"MS_WRITE_DATA1", "MS_WRITE_DATA2", "MS_WRITE_DATA3", "MS_SUBMIT_COMMAND1"}

LastKind == cycles[Len(cycles)].kind

DataInv ==
  /\ cycles \in Seq(Cycle)
  /\ op # 0 => Doing \notin Bypass
  /\ IO_WR!io_ctrl = 0 /\ op # 0 => state = "M_WAIT" /\ Writing
  /\ AAL!write_enable = 0 => ~Writing
  /\ Writing => \/ we_age >= t_adl \/ LastKind # "address"
                \/ At("M_DELAY", {"MS_WRITE_DATA1"}) /\ we_age + delay > t_adl

\* The age of the last cycle goes up to AgeCap, which is more than any wait.
LEMMA AgeEdge ==
  ASSUME TypeInvariant, NEW activate, NEW cmd_in, NEW data_in, Edge(activate, cmd_in, data_in),
         ~WeRises
  PROVE  /\ we_age \in Nat /\ we_age' \in Nat /\ AgeCap \in Nat
         /\ we_age' = we_age + 1 \/ (we_age' = we_age /\ we_age = AgeCap)
         /\ t_adl <= AgeCap /\ t_whr <= AgeCap /\ t_wb <= AgeCap /\ 1 <= AgeCap
<1>1. t_wb \in Nat \ {0} /\ t_adl \in Nat \ {0} /\ t_whr \in Nat \ {0}
  BY TimingAssumption, SMT
<1>2. AgeCap \in Nat /\ t_adl <= AgeCap /\ t_whr <= AgeCap /\ t_wb <= AgeCap /\ 1 <= AgeCap
  BY <1>1, SMT DEF AgeCap
<1>3. we_age \in Nat /\ we_age <= AgeCap
  BY <1>2, SMT DEF TypeInvariant
<1>4. we_age' = IF we_age < AgeCap THEN we_age + 1 ELSE we_age
  BY DEF Edge, Record
<1> QED BY <1>2, <1>3, <1>4, SMT

\* The steps of a program from its last address on.
LEMMA WritingStep ==
  ASSUME TypeInvariant, UnitDiscipline, Placed, DataInv, Writing', op' = op,
         NEW activate, NEW cmd_in, NEW data_in, Edge(activate, cmd_in, data_in), PageProgram
  PROVE  \/ substate = "MS_WRITE_DATA0" /\ At("M_DELAY", {"MS_WRITE_DATA1"})' /\ delay' = t_adl
         \/ Writing /\ ~At("M_DELAY", {"MS_WRITE_DATA1"})
BY SMT DEF PageProgram, Writing, Doing, At, WaitFor, DelayFor, Continue

LEMMA DataEdge ==
  ASSUME HostEarly = FALSE, TypeInvariant, UnitDiscipline, InitTogether, Placed, DataInv,
         NEW activate, NEW cmd_in, NEW data_in, Edge(activate, cmd_in, data_in)
  PROVE  DataInv'
<1>1. MasterTick(activate, cmd_in, data_in, rnb) BY EdgeUnits
<1>2. cycles' \in Seq(Cycle)
  <2>1. cycles' \in {cycles, Append(cycles, BusCycle), <<>>} BY DEF Edge, Record
  <2>2. BusCycle \in Cycle BY CycleOnBus
  <2>3. cycles \in Seq(Cycle) BY DEF DataInv
  <2>4. Append(cycles, BusCycle) \in Seq(Cycle) BY <2>2, <2>3, AppendProperties
  <2>5. <<>> \in Seq(Cycle) BY EmptySeq
  <2> QED BY <2>1, <2>3, <2>4, <2>5
<1>3. CASE state = "M_IDLE"
  <2>1. op' = (IF activate /\ cmd_in \in BusCommands THEN cmd_in ELSE 0)
    BY <1>3, SMT DEF Edge, Record
  <2>2. MasterIdle(activate, cmd_in)
    <3>1. enable # 1 BY <1>3 DEF UnitDiscipline
    <3> QED BY <1>1, <1>3, <3>1, IdleIsIdle
  <2>3. substate' = "MS_BEGIN" BY <1>3, <2>2, SMT DEF MasterIdle, Placed, Doing, AtRest
  <2>4. ~Writing' BY <2>3 DEF Writing
  <2>5. IO_WR!io_ctrl' # 0
    <3>1. ~io_wr_activate BY <1>3, OneActivation
    <3>2. IO_WR!io_ctrl # 0 BY <1>3, StrobePlace
    <3> QED BY <3>1, <3>2, StrobeEdge
  <2>6. op' # 0 => Doing' \notin Bypass
    <3>1. ASSUME op' # 0 PROVE Doing' \notin Bypass
      <4>1. op' = cmd_in /\ activate /\ cmd_in \in {1, 2, 3, 4, 5, 6, 7}
        BY <2>1, <3>1, SMT DEF BusCommands
      <4>2. state' = Target(cmd_in) BY <2>2, <4>1 DEF MasterIdle
      <4>3. state' \in {"M_NAND_RESET", "M_NAND_READ_PARAM_PAGE", "M_NAND_READ_ID",
                        "M_NAND_BLOCK_ERASE", "M_NAND_READ_STATUS", "M_NAND_READ",
                        "M_NAND_PAGE_PROGRAM"}
        BY <4>1, <4>2, Targets
      <4> QED BY <4>3, SMT DEF Doing, Bypass
    <3> QED BY <3>1
  <2> QED BY <1>2, <2>4, <2>5, <2>6 DEF DataInv
<1>4. CASE state # "M_IDLE" /\ op' = 0
  BY <1>2, <1>4, StrobeEdge DEF DataInv, Writing
<1>5. CASE state # "M_IDLE" /\ op' # 0
  <2>1. /\ op' = op /\ op # 0 /\ state' \notin {"M_IDLE", "M_RESET"}
        /\ cycles' = IF WeRises /\ op # 0 THEN Append(cycles, BusCycle) ELSE cycles
    BY <1>5, Recorded
  <2>2. Doing' \in {Doing, "M_IDLE"} BY <1>1, <1>5, DoingStays
  <2>3. Doing' \notin Bypass BY <2>1, <2>2, SMT DEF DataInv, Bypass
  <2>4. Doing \notin Bypass BY <2>1 DEF DataInv
  <2>5. ASSUME io_wr_activate PROVE state' = "M_WAIT" /\ Writing'
    <3>1. At("M_NAND_PAGE_PROGRAM", {"MS_WRITE_DATA3"})
      BY <2>4, <2>5, SMT DEF io_wr_activate, At, Bypass, Doing
    <3>2. PageProgram
      BY <1>1, <3>1, OperationOnly DEF At
    <3> QED BY <2>1, <3>1, <3>2, SMT DEF At, PageProgram, WaitFor, Writing, Doing
  <2>6. IO_WR!io_ctrl' = 0 => state' = "M_WAIT" /\ Writing'
    <3>1. ASSUME IO_WR!io_ctrl = 0 PROVE state' = "M_WAIT" /\ Writing'
      BY <2>1, <3>1, StrobeEdge DEF DataInv, Writing
    <3> QED BY <2>5, <3>1, StrobeEdge
  <2>7. AAL!write_enable' = 0 => ~Writing'
    <3>1. ASSUME AAL!write_enable = 0 PROVE ~Writing'
      <4>1. CASE state = "M_WAIT" BY <2>1, <3>1, <4>1, StrobeEdge DEF DataInv, Writing
      <4>2. CASE At("M_NAND_READ", {"MS_SUBMIT_ADDRESS"})
        BY <2>2, <4>2, SMT DEF At, Writing, Doing
      <4> QED BY <3>1, <4>1, <4>2, StrobePlace
    <3>2. ASSUME ale_activate PROVE ~Writing'
      <4>1. CASE state = "M_NAND_PAGE_PROGRAM"
        <5>1. PageProgram BY <1>1, <4>1, OperationOnly
        <5>2. substate = "MS_SUBMIT_ADDRESS" BY <3>2, <4>1, SMT DEF ale_activate, At
        <5> QED BY <5>1, <5>2, SMT DEF PageProgram, WaitFor, Writing
      <4>2. CASE state # "M_NAND_PAGE_PROGRAM"
        <5>1. Doing # "M_NAND_PAGE_PROGRAM"
          BY <3>2, <4>2, SMT DEF ale_activate, At, Doing
        <5> QED BY <2>2, <5>1 DEF Writing
      <4> QED BY <4>1, <4>2
    <3> QED BY <3>1, <3>2, StrobeEdge
  <2>8. ASSUME Writing'
        PROVE  \/ we_age' >= t_adl \/ LastKind' # "address"
               \/ At("M_DELAY", {"MS_WRITE_DATA1"})' /\ we_age' + delay' > t_adl
    <3>1. Doing = "M_NAND_PAGE_PROGRAM" BY <2>2, <2>8 DEF Writing
    <3>2. CASE WeRises
      <4>1. cycles' = Append(cycles, BusCycle) BY <2>1, <3>2
      <4>2. BusCycle \in Cycle /\ cycles \in Seq(Cycle) BY CycleOnBus DEF DataInv
      <4>3. cycles'[Len(cycles')] = BusCycle
        BY <4>1, <4>2, AppendProperties
      <4>4. AAL!write_enable # 0
        <5>1. CASE state = "M_WAIT" BY <2>1, <2>8, <5>1, StrobeEdge DEF DataInv, Writing
        <5>2. CASE At("M_NAND_READ", {"MS_SUBMIT_ADDRESS"}) BY <3>1, <5>2, SMT DEF At, Doing
        <5> QED BY <5>1, <5>2, StrobePlace
      <4>5. ACL!write_enable = 0 \/ IO_WR!io_ctrl = 0
        BY <3>2, <4>4, SMT DEF WeRises, nand_nwe
      <4>6. BusCycle.kind # "address"
        <5>1. CASE ACL!write_enable = 0
          <6>1. nand_cle BY <5>1, SMT DEF nand_cle, ACL!latch_ctrl, ACL!write_enable
          <6> QED BY <6>1, SMT DEF BusCycle
        <5>2. CASE IO_WR!io_ctrl = 0
          <6>1. IO_WR!active BY <5>2, SMT DEF IO_WR!io_ctrl, IO_WR!active
          <6>2. ~AAL!active BY <6>1 DEF UnitDiscipline, OneUnitAtATime
          <6>3. ~nand_ale BY <6>2, SMT DEF nand_ale, AAL!active, AAL!latch_ctrl
          <6> QED BY <6>3, SMT DEF BusCycle
        <5> QED BY <4>5, <5>1, <5>2
      <4> QED BY <4>3, <4>6 DEF LastKind
    <3>3. CASE ~WeRises
      <4>1. LastKind' = LastKind BY <2>1, <3>3 DEF LastKind
      <4>2. PICK a, b \in Nat : a = we_age /\ b = we_age' BY <3>3, AgeEdge
      <4>3. /\ AgeCap \in Nat
            /\ b = a + 1 \/ (b = a /\ a = AgeCap)
            /\ t_adl <= AgeCap /\ 1 <= AgeCap
        BY <3>3, <4>2, AgeEdge
      <4>4. t_adl \in Nat \ {0} BY TimingAssumption, SMT
      <4>5. CASE state = "M_NAND_PAGE_PROGRAM"
        <5>1. PageProgram BY <1>1, <4>5, OperationOnly
        <5>2. \/ At("M_DELAY", {"MS_WRITE_DATA1"})' /\ delay' = t_adl
              \/ Writing /\ ~At("M_DELAY", {"MS_WRITE_DATA1"})
          BY <2>1, <2>8, <5>1, WritingStep
        <5>3. ASSUME Writing, ~At("M_DELAY", {"MS_WRITE_DATA1"})
              PROVE  a >= t_adl \/ LastKind # "address"
          BY <4>2, <5>3 DEF DataInv
        <5> QED BY <4>1, <4>2, <4>3, <4>4, <5>2, <5>3, SMT
      <4>6. CASE state \in {"M_WAIT", "M_DELAY"}
        <5>1. Wait(rnb) \/ Delay BY <1>1, <4>6, WaitOnly
        <5>2. Writing /\ substate' = substate /\ delay \in Nat
          BY <2>1, <2>8, <5>1, WaitEdge DEF Writing, TypeInvariant, MasterType, CounterType
        <5>3. /\ delay > 1 => delay' = delay - 1 /\ state' = state
              /\ ~(delay > 1) => delay' = delay
          BY <5>1, WaitEdge
        <5>4. \/ a >= t_adl \/ LastKind # "address"
              \/ At("M_DELAY", {"MS_WRITE_DATA1"}) /\ a + delay > t_adl
          BY <4>2, <5>2 DEF DataInv
        <5> QED BY <4>1, <4>2, <4>3, <4>4, <5>2, <5>3, <5>4, SMT DEF At
      <4> QED BY <3>1, <4>5, <4>6 DEF Doing
    <3> QED BY <3>2, <3>3
  <2> QED BY <1>2, <2>3, <2>6, <2>7, <2>8 DEF DataInv
<1> QED BY <1>3, <1>4, <1>5

\* The first byte of a program reaches the chip t_adl clocks after the last byte of its address
\* (nand_master.v:363, MS_WRITE_DATA0), whatever the delays, the host and the chips are; for a
\* host that waits for the units and does not use the bypass read.
THEOREM DataTimely ==
  ASSUME 23 \notin Commands, HostEarly = FALSE
  PROVE  Spec => DataAfterAddress
<1>1. Init => DataInv
  <2> SUFFICES ASSUME Init PROVE DataInv
    OBVIOUS
  <2>1. op = 0 /\ cycles = <<>> BY DEF Init
  <2>2. cycles \in Seq(Cycle) BY <2>1, EmptySeq
  <2>3. state = "M_RESET" BY DEF Init, MasterInit
  <2> QED BY <2>1, <2>2, <2>3 DEF DataInv, Writing
<1>2. TypeInvariant /\ UnitDiscipline /\ InitTogether /\ Placed /\ DataInv /\ [Next]_vars =>
        DataInv'
  <2> SUFFICES ASSUME TypeInvariant, UnitDiscipline, InitTogether, Placed, DataInv, [Next]_vars
               PROVE  DataInv'
    OBVIOUS
  <2>1. CASE Clock BY <2>1, DataEdge DEF Clock
  <2>2. CASE Reset
    <3>1. op' = 0 /\ cycles' = <<>> BY <2>2 DEF Reset
    <3>2. cycles' \in Seq(Cycle) BY <3>1, EmptySeq
    <3> QED BY <3>1, <3>2 DEF DataInv, Writing
  <2>3. CASE UNCHANGED <<master, enable, units, history>>
    BY <2>3 DEF DataInv, Writing, LastKind, Doing, At, IO_WR!io_ctrl, AAL!write_enable, master,
       control, units, history
  <2> QED BY <2>1, <2>2, <2>3 DEF Next, GoBusy, BecomeReady, vars
<1>3. TypeInvariant /\ UnitDiscipline /\ DataInv =>
        (WeRises /\ op # 0 /\ BusCycle.kind = "data" /\ LastKind = "address" => we_age >= t_adl)
  <2> SUFFICES ASSUME TypeInvariant, UnitDiscipline, DataInv, WeRises, op # 0,
                      BusCycle.kind = "data", LastKind = "address"
               PROVE  we_age >= t_adl
    OBVIOUS
  <2>1. ~nand_cle /\ ~nand_ale BY SMT DEF BusCycle
  <2>2. ACL!write_enable # 0 /\ AAL!write_enable # 0
    BY <2>1, SMT DEF nand_cle, nand_ale, ACL!write_enable, AAL!write_enable, ACL!latch_ctrl,
       AAL!latch_ctrl
  <2>3. IO_WR!io_ctrl = 0 BY <2>2, SMT DEF WeRises, nand_nwe
  <2>4. state = "M_WAIT" /\ Writing BY <2>3 DEF DataInv
  <2> QED BY <2>4 DEF DataInv, At
<1>4. TypeInvariant /\ UnitDiscipline /\ DataInv /\ [Next]_vars =>
        [WeRises /\ op # 0 /\ BusCycle.kind = "data" /\ cycles[Len(cycles)].kind = "address"
           => we_age >= t_adl]_vars
  BY <1>3 DEF LastKind
<1> QED BY <1>1, <1>2, <1>4, TypeCorrect, UnitsDisciplined, Together, PlacedInvariant, PTL
     DEF Spec, DataAfterAddress

-----------------------------------------------------------------------------
(* The chips at a clock edge *)

\* What the delays of onfi_package.v satisfy: the rest after a cycle covers the rest after R/B#
\* rises and is covered by the time R/B# has to fall; WE# is low for less than the eight clocks
\* that M_NAND_RESET adds (nand_master.v:216); and a block erase ends within t_bers.
Timely ==
  /\ t_rr <= t_whr /\ t_whr <= t_wb
  /\ t_wp <= 7
  /\ EraseMax <= t_bers

\* Never both chips: the R/B# the master looks at is that of the selected one.
OnePin == ~(pins.nce = 0 /\ pins.nce2 = 0)

NoBypass == Doing \notin Bypass

LEMMA PinsEdge ==
  ASSUME TypeInvariant, UnitDiscipline, OnePin,
         NEW activate, NEW cmd_in, NEW data_in, NEW r, MasterTick(activate, cmd_in, data_in, r)
  PROVE  /\ OnePin'
         /\ state \notin RegisterStates \union {"M_RESET"} => pins' = pins
<1>1. pins \in [nce : {0, 1}, nce2 : {0, 1}, nwp : {0, 1}]
  BY DEF TypeInvariant, MasterType, ConfigType, Bit
<1>2. CASE UNCHANGED master BY <1>2 DEF master, config, OnePin
<1>3. CASE MasterReset BY <1>3, SMT DEF MasterReset, OnePin
<1>4. CASE MasterIdle(activate, cmd_in) BY <1>4 DEF MasterIdle, config, OnePin
<1>5. CASE SelectChip BY <1>1, <1>5, SMT DEF SelectChip, OnePin, RegisterStates
<1>6. CASE SetProtection BY <1>1, <1>6, SMT DEF SetProtection, OnePin, RegisterStates
<1>7. CASE GetStatus \/ ResetIndex BY <1>7, SMT DEF GetStatus, ResetIndex, config, OnePin
<1>8. CASE \/ GetIdByte \/ GetParamPageByte \/ GetDataPageByte \/ GetCurrentAddressByte
           \/ SetDataPageByte(data_in) \/ SetCurrentAddressByte(data_in)
  <2>1. pins' = pins
    BY <1>8 DEF GetIdByte, GetParamPageByte, GetDataPageByte, GetCurrentAddressByte, GetByte,
       SetDataPageByte, SetCurrentAddressByte, AdvanceIndex
  <2> QED BY <2>1 DEF OnePin
<1>9. CASE BusOperation(data_in)
  <2>1. pins' = pins
    BY <1>9, SMT DEF BusOperation, NandReset, PageProgram, ReadPage, ReadStatus, BlockErase, ReadId,
       ReadParamPage, BypassLatch, BypassDataWr, BypassDataRd, config
  <2> QED BY <2>1 DEF OnePin
<1>10. CASE Wait(r) \/ Delay BY <1>10 DEF Wait, Delay, config, OnePin
<1> QED BY <1>2, <1>3, <1>4, <1>5, <1>6, <1>7, <1>8, <1>9, <1>10 DEF MasterTick, RegisterCommand

LEMMA SelectedLine ==
  ASSUME OnePin, NEW c \in Selected
  PROVE  c \in Chip /\ rnb = rb(c)
BY SMT DEF OnePin, Selected, Chip, rnb

\* An age that grows until it has reached what is looked at.
Grows(a, b, least) == b = a + 1 \/ (b = a /\ a >= least)

LEMMA AgedFields ==
  ASSUME NEW chip \in OneChip
  PROVE  /\ Aged(chip) \in OneChip
         /\ Aged(chip).phase = chip.phase /\ Aged(chip).cmd = chip.cmd
         /\ Aged(chip).task = chip.task
         /\ chip.phase = "ready" => Grows(chip.age, Aged(chip).age, t_rr)
         /\ chip.phase = "settling" => Aged(chip).age = chip.age + 1
         /\ chip.phase = "busy" /\ chip.task = 208 => Aged(chip).age = chip.age + 1
         /\ Aged(chip).age = chip.age \/ Aged(chip).age = chip.age + 1
<1>1. Aged(chip) \in OneChip BY AgedType
<1>2. t_rr \in Nat /\ chip.age \in Nat BY TimingAssumption, SMT DEF OneChip
<1>3. CASE chip.phase = "ready" /\ chip.age < t_rr
  <2>1. Aged(chip) = [chip EXCEPT !.age = chip.age + 1] BY <1>3, SMT DEF Aged
  <2> QED BY <1>1, <1>2, <1>3, <2>1, SMT DEF Grows, OneChip
<1>4. CASE chip.phase = "ready" /\ ~(chip.age < t_rr)
  <2>1. Aged(chip) = [chip EXCEPT !.age = chip.age] BY <1>4, SMT DEF Aged
  <2> QED BY <1>1, <1>2, <1>4, <2>1, SMT DEF Grows, OneChip
<1>5. CASE chip.phase # "ready" /\ (chip.phase = "settling" \/ chip.task = 208)
  <2>1. Aged(chip) = [chip EXCEPT !.age = chip.age + 1] BY <1>5, SMT DEF Aged
  <2> QED BY <1>1, <1>2, <1>5, <2>1, SMT DEF Grows, OneChip
<1>6. CASE chip.phase # "ready" /\ ~(chip.phase = "settling" \/ chip.task = 208)
  <2>1. Aged(chip) = chip BY <1>6, SMT DEF Aged
  <2> QED BY <1>1, <1>2, <1>6, <2>1, SMT
<1> QED BY <1>3, <1>4, <1>5, <1>6

\* A cycle that a ready chip latches.
LEMMA LatchedFields ==
  ASSUME NEW chip \in OneChip, chip.phase = "ready", NEW cycle \in Cycle
  PROVE  /\ Latched(chip, cycle).phase = IF Starts(chip, cycle) THEN "settling" ELSE "ready"
         /\ Latched(chip, cycle).cmd = IF cycle.kind = "command" THEN cycle.value ELSE chip.cmd
         /\ Starts(chip, cycle) => Latched(chip, cycle).age = 0
                                   /\ Latched(chip, cycle).task = Latched(chip, cycle).cmd
<1>1. PICK cmd \in Word : cmd = IF cycle.kind = "command" THEN cycle.value ELSE chip.cmd
  BY SMT DEF OneChip, Cycle
<1>2. cmd = IF cycle.kind # "command" THEN chip.cmd
            ELSE IF chip.phase = "ready" \/ cycle.value \in {112, 255} THEN cycle.value
            ELSE chip.cmd
  BY <1>1
<1>3. CASE Starts(chip, cycle)
  <2>1. Latched(chip, cycle) = [chip EXCEPT !.phase = IF @ = "busy" THEN "busy" ELSE "settling",
                                            !.age = 0, !.cmd = cmd, !.task = cmd, !.out = 0]
    BY <1>2, <1>3, Zenon DEF Latched
  <2>2. /\ Latched(chip, cycle).phase = "settling" /\ Latched(chip, cycle).age = 0
        /\ Latched(chip, cycle).cmd = cmd /\ Latched(chip, cycle).task = cmd
    BY <2>1, SMT DEF OneChip
  <2> QED BY <1>1, <1>3, <2>2
<1>4. CASE ~Starts(chip, cycle)
  <2>1. PICK out : Latched(chip, cycle) = [chip EXCEPT !.cmd = cmd, !.out = out]
    <3>1. Latched(chip, cycle) =
            [chip EXCEPT !.cmd = cmd, !.out = IF cycle.kind = "command" THEN 0 ELSE chip.out]
      BY <1>2, <1>4, SMT DEF Latched
    <3> QED BY <3>1
  <2>2. Latched(chip, cycle).phase = chip.phase /\ Latched(chip, cycle).cmd = cmd
    BY <2>1, SMT DEF OneChip
  <2> QED BY <1>1, <1>4, <2>2
<1> QED BY <1>3, <1>4

LEMMA StartsAged ==
  ASSUME NEW chip \in OneChip, NEW cycle
  PROVE  Starts(Aged(chip), cycle) <=> Starts(chip, cycle)
BY AgedFields DEF Starts

\* What an edge does to a chip that latches nothing.
LEMMA ChipAges ==
  ASSUME TypeInvariant, NEW activate, NEW cmd_in, NEW data_in, Edge(activate, cmd_in, data_in),
         NEW c \in Chip, c \notin Selected \/ ~WeRises
  PROVE  /\ chips[c] \in OneChip
         /\ chips'[c].phase = chips[c].phase /\ chips'[c].cmd = chips[c].cmd
         /\ chips'[c].task = chips[c].task /\ chips'[c].age = Aged(chips[c]).age
<1>1. chips[c] \in OneChip BY DEF TypeInvariant, ChipType, OneChip
<1>2. Aged(chips[c]) \in OneChip BY <1>1, AgedType
<1>3. chips'[c] \in {Aged(chips[c]), [Aged(chips[c]) EXCEPT !.out = @ + 1]}
  BY DEF Edge, ChipsTick
<1>4. \A chip \in OneChip : \A k \in {chip, [chip EXCEPT !.out = @ + 1]} :
        k.phase = chip.phase /\ k.cmd = chip.cmd /\ k.task = chip.task /\ k.age = chip.age
  BY SMT DEF OneChip
<1>5. PICK chip \in OneChip : chip = Aged(chips[c]) BY <1>2
<1>6. \A k \in {chip, [chip EXCEPT !.out = @ + 1]} :
        k.phase = chip.phase /\ k.cmd = chip.cmd /\ k.task = chip.task /\ k.age = chip.age
  BY <1>4, Zenon
<1>7. /\ chips'[c].phase = chip.phase /\ chips'[c].cmd = chip.cmd
      /\ chips'[c].task = chip.task /\ chips'[c].age = chip.age
  BY <1>3, <1>5, <1>6, Zenon
<1> QED BY <1>1, <1>5, <1>7, AgedFields

\* What it does to a chip that is ready and latches a cycle.
LEMMA ChipLatches ==
  ASSUME TypeInvariant, NEW activate, NEW cmd_in, NEW data_in, Edge(activate, cmd_in, data_in),
         NEW c \in Chip, c \in Selected, WeRises, chips[c].phase = "ready"
  PROVE  /\ chips'[c].phase = IF Starts(chips[c], BusCycle) THEN "settling" ELSE "ready"
         /\ chips'[c].cmd = IF BusCycle.kind = "command" THEN BusCycle.value ELSE chips[c].cmd
         /\ Starts(chips[c], BusCycle) => chips'[c].age = 0 /\ chips'[c].task = chips'[c].cmd
<1>1. chips[c] \in OneChip BY DEF TypeInvariant, ChipType, OneChip
<1>2. /\ Aged(chips[c]) \in OneChip /\ Aged(chips[c]).phase = "ready"
      /\ Aged(chips[c]).cmd = chips[c].cmd
      /\ Starts(Aged(chips[c]), BusCycle) <=> Starts(chips[c], BusCycle)
  BY <1>1, AgedFields, StartsAged
<1>3. chips'[c] = Latched(Aged(chips[c]), BusCycle) BY DEF Edge, ChipsTick
<1>4. BusCycle \in Cycle BY CycleOnBus
<1> QED BY <1>2, <1>3, <1>4, LatchedFields

-----------------------------------------------------------------------------
(* What is on the bus, and for whom the FSM waits *)

\* The time a chip has to fall busy, and the longest erase.
WithinTime(chip) ==
  /\ chip.phase = "settling" => chip.age <= t_wb
  /\ chip.phase = "busy" /\ chip.task = 208 => chip.age <= EraseMax

\* When delay has run down R/B# has fallen, or the erase is over.
Settled(chip) == chip.phase = "settling" => chip.age + delay > t_wb
Erasing(chip) ==
  /\ chip.task = 208
  /\ chip.age + delay > (IF chip.phase = "settling" THEN t_wb + t_bers ELSE t_bers)

\* Where the FSM stands while a chip is at work or about to be.
Awaited(chip) ==
  \/ state = "M_WAIT" /\ n_state = "M_IDLE" /\ Settled(chip)
  \/ state = "M_DELAY" /\ n_state = "M_IDLE" /\ Erasing(chip)
  \/ Doing = "M_NAND_READ" /\ substate = "MS_DELAY"
  \/ Doing = "M_NAND_READ_PARAM_PAGE" /\ substate = "MS_SUBMIT_ADDRESS"
  \/ /\ state = "M_WAIT" /\ n_state \in {"M_NAND_READ", "M_NAND_READ_PARAM_PAGE"}
     /\ substate = "MS_WAIT_tRR" /\ Settled(chip)
  \/ Doing = "M_NAND_BLOCK_ERASE" /\ substate = "MS_END" /\ chip.task = 208
  \/ Doing = "M_NAND_PAGE_PROGRAM" /\ substate = "MS_WAIT"
  \/ Doing = "M_NAND_PAGE_PROGRAM" /\ substate = "MS_END" /\ Settled(chip)

\* A chip that is not ready is selected, the FSM waits for it, and WE# is high.
Watched ==
  \A c \in Chip :
    /\ WithinTime(chips[c])
    /\ chips[c].phase # "ready" => c \in Selected /\ nand_nwe = 1 /\ Awaited(chips[c])

\* The byte of a command cycle, and where the FSM goes after it.
CommandByte ==
  \/ n_state = "M_IDLE" /\ drive.cle_data_in = 255
  \/ n_state = "M_NAND_READ_PARAM_PAGE" /\ drive.cle_data_in = 236
  \/ n_state = "M_NAND_READ_ID" /\ drive.cle_data_in = 144
  \/ n_state = "M_NAND_READ_STATUS" /\ drive.cle_data_in = 112
  \/ n_state = "M_NAND_BLOCK_ERASE" /\ drive.cle_data_in = 96
  \/ n_state = "M_NAND_BLOCK_ERASE" /\ substate = "MS_END" /\ drive.cle_data_in = 208
  \/ n_state = "M_NAND_READ" /\ drive.cle_data_in = 0
  \/ n_state = "M_NAND_READ" /\ substate = "MS_DELAY" /\ drive.cle_data_in = 48
  \/ n_state = "M_NAND_PAGE_PROGRAM" /\ drive.cle_data_in = 128
  \/ n_state = "M_NAND_PAGE_PROGRAM" /\ substate = "MS_WAIT" /\ drive.cle_data_in = 16

\* After a reset the wait outlasts the strobe by more than t_wb.
CommandOnBus ==
  ACL!write_enable = 0 =>
    /\ state = "M_WAIT" /\ CommandByte
    /\ n_state = "M_IDLE" => cle.delay >= 1 /\ delay > t_wb + cle.delay

Addressing == {"M_NAND_READ", "M_NAND_PAGE_PROGRAM", "M_NAND_BLOCK_ERASE", "M_NAND_READ_ID"}

AddressOnBus ==
  AAL!write_enable = 0 =>
    \/ Doing \in Addressing /\ substate # "MS_BEGIN"
    \/ state = "M_WAIT" /\ n_state = "M_NAND_READ_PARAM_PAGE" /\ substate = "MS_SUBMIT_ADDRESS"

\* The chips have left the parameter page when another operation comes to its address.
Commanded ==
  Doing \in Addressing /\ substate # "MS_BEGIN" /\ ACL!write_enable = 1 =>
    \A c \in Selected : chips[c].cmd # 236

OnBus == CommandOnBus /\ AddressOnBus /\ Commanded

\* What a delay of least clocks has come to.
Elapsed(age, least) ==
  age >= least \/ (state \in {"M_WAIT", "M_DELAY"} /\ age + delay > least)

Reading ==
  Doing \in {"M_NAND_READ", "M_NAND_READ_PARAM_PAGE", "M_NAND_READ_ID", "M_NAND_READ_STATUS"}

\* A word is asked for when WE# and R/B# have been high for their time.
Rested ==
  /\ Doing \in {"M_NAND_READ", "M_NAND_READ_PARAM_PAGE"} /\ substate = "MS_WAIT_tRR" =>
       nand_nwe = 1 /\ Elapsed(we_age, t_wb)
  /\ Reading /\ substate = "MS_READ_DATA0" =>
       /\ nand_nwe = 1 /\ Elapsed(we_age, t_whr)
       /\ \A c \in Selected : Elapsed(chips[c].age, t_rr)
  /\ Reading /\ substate \in {"MS_READ_DATA1", "MS_READ_DATA2"} =>
       nand_nwe = 1 /\ we_age >= t_whr /\ \A c \in Selected : chips[c].age >= t_rr

TimingInv == OnePin /\ NoBypass /\ Watched /\ OnBus /\ Rested

\* What everything below assumes of the delays and the host, and of a state.
Assumed ==
  /\ {20, 21, 22, 23} \cap Commands = {} /\ HostEarly = FALSE
  /\ Timely

Inv == TypeInvariant /\ UnitDiscipline /\ InitTogether /\ Placed /\ TimingInv

\* The kinds of the cycles, by the unit whose strobe is low.
LEMMA RiseKinds ==
  ASSUME UnitDiscipline
  PROVE  /\ ACL!write_enable = 0 =>
              BusCycle.kind = "command" /\ BusCycle.value = drive.cle_data_in
         /\ AAL!write_enable = 0 => BusCycle.kind = "address"
         /\ IO_WR!io_ctrl = 0 => BusCycle.kind = "data"
<1>1. ACL!write_enable = 0 => BusCycle.kind = "command" /\ BusCycle.value = drive.cle_data_in
  <2> SUFFICES ASSUME ACL!write_enable = 0
               PROVE  BusCycle.kind = "command" /\ BusCycle.value = drive.cle_data_in
    OBVIOUS
  <2>1. nand_cle /\ ACL!busy /\ ACL!presents
    BY SMT DEF nand_cle, ACL!latch_ctrl, ACL!write_enable, ACL!busy, ACL!presents
  <2>2. bus_out = drive.cle_data_in BY <2>1 DEF bus_out
  <2> QED BY <2>1, <2>2 DEF BusCycle
<1>2. AAL!write_enable = 0 => BusCycle.kind = "address"
  <2> SUFFICES ASSUME AAL!write_enable = 0 PROVE BusCycle.kind = "address"
    OBVIOUS
  <2>1. nand_ale /\ AAL!active
    BY SMT DEF nand_ale, AAL!latch_ctrl, AAL!write_enable, AAL!active
  <2>2. ~ACL!active BY <2>1, Zenon DEF UnitDiscipline, OneUnitAtATime
  <2>3. ~nand_cle BY <2>2, SMT DEF nand_cle, ACL!active, ACL!latch_ctrl
  <2> QED BY <2>1, <2>3, SMT DEF BusCycle
<1>3. IO_WR!io_ctrl = 0 => BusCycle.kind = "data"
  <2> SUFFICES ASSUME IO_WR!io_ctrl = 0 PROVE BusCycle.kind = "data"
    OBVIOUS
  <2>1. IO_WR!active BY SMT DEF IO_WR!io_ctrl, IO_WR!active
  <2>2. ~ACL!active /\ ~AAL!active BY <2>1, Zenon DEF UnitDiscipline, OneUnitAtATime
  <2>3. ~nand_cle /\ ~nand_ale
    BY <2>2, SMT DEF nand_cle, nand_ale, ACL!active, ACL!latch_ctrl, AAL!active, AAL!latch_ctrl
  <2> QED BY <2>3, SMT DEF BusCycle
<1> QED BY <1>1, <1>2, <1>3

\* The strobe of a command, clock by clock.
LEMMA CommandStrobe ==
  ASSUME NEW a \in BOOLEAN, ACL!LatchType, ACL!Tick(a)
  PROVE  /\ a /\ ~ACL!busy => cle'.delay = t_wp
         /\ ACL!write_enable = 0 /\ ACL!write_enable' = 0 =>
              cle.delay > 1 /\ cle'.delay = cle.delay - 1
<1>1. ASSUME a, ~ACL!busy PROVE cle'.delay = t_wp
  <2>1. cle' = [cle EXCEPT !.state = "LATCH_DELAY", !.n_state = "LATCH_HOLD", !.delay = t_wp]
    BY <1>1, SMT DEF ACL!busy, ACL!Tick, ACL!Initialise, ACL!Idle, ACL!Hold, ACL!Release, ACL!Delay
  <2> QED BY <2>1, SMT DEF ACL!LatchType
<1>2. ASSUME ACL!write_enable = 0, ACL!write_enable' = 0
      PROVE  cle.delay > 1 /\ cle'.delay = cle.delay - 1
  <2>1. cle' = IF cle.delay > 1 THEN [cle EXCEPT !.delay = @ - 1]
                                ELSE [cle EXCEPT !.state = cle.n_state]
    BY <1>2, SMT DEF ACL!write_enable, ACL!Tick, ACL!Initialise, ACL!Idle, ACL!Hold, ACL!Release,
       ACL!Delay
  <2>2. CASE cle.delay > 1
    <3>1. cle' = [cle EXCEPT !.delay = cle.delay - 1] BY <2>1, <2>2
    <3> QED BY <2>2, <3>1, SMT DEF ACL!LatchType
  <2>3. CASE ~(cle.delay > 1)
    <3>1. cle' = [cle EXCEPT !.state = cle.n_state] BY <2>1, <2>3
    <3>2. cle'.state = cle.n_state /\ cle.n_state = "LATCH_HOLD"
      BY <1>2, <3>1, SMT DEF ACL!LatchType, ACL!write_enable
    <3> QED BY <1>2, <3>2, SMT DEF ACL!write_enable
  <2> QED BY <2>2, <2>3
<1> QED BY <1>1, <1>2

LEMMA BypassStays ==
  ASSUME Assumed, Placed, NoBypass, NEW activate, NEW cmd_in, NEW data_in, NEW r,
         activate => cmd_in \in Commands, UnitDiscipline,
         MasterTick(activate, cmd_in, data_in, r)
  PROVE  NoBypass'
<1>1. CASE state # "M_IDLE"
  BY <1>1, DoingStays, SMT DEF NoBypass, Bypass
<1>2. CASE state = "M_IDLE"
  <2>1. MasterIdle(activate, cmd_in)
    <3>1. enable # 1 BY <1>2 DEF UnitDiscipline
    <3> QED BY <1>2, <3>1, IdleIsIdle
  <2>2. state' = IF activate THEN Target(cmd_in) ELSE "M_IDLE" BY <2>1 DEF MasterIdle
  <2>3. activate => cmd_in \notin {20, 21, 22, 23} BY DEF Assumed
  <2>4. cmd_in \notin {20, 21, 22, 23} => Target(cmd_in) \notin Bypass \union {"M_WAIT", "M_DELAY"}
    BY SMT DEF Target, CommandStates, Bypass
  <2> QED BY <2>2, <2>3, <2>4, SMT DEF NoBypass, Doing, Bypass
<1> QED BY <1>1, <1>2

\* An operation that starts a command cycle.
LEMMA CommandIssued ==
  ASSUME Assumed, TypeInvariant, UnitDiscipline, Placed, NoBypass,
         NEW activate, NEW cmd_in, NEW data_in, NEW r, MasterTick(activate, cmd_in, data_in, r),
         cle_activate
  PROVE  /\ state' = "M_WAIT" /\ CommandByte'
         /\ n_state' = "M_IDLE" => delay' = t_wb + 8
         /\ state \in Addressing => n_state' = state
<1>1. drive \in [cle_data_in : Word, ale_data_in : Word, io_wr_data_in : Word]
  BY SMT DEF TypeInvariant, MasterType, DataType
<1> DEFINE Drive(k) == drive'.cle_data_in = k
<1>2. \A k : Command(k) => Drive(k)
  BY <1>1, SMT DEF Command
<1> HIDE DEF Drive
<1>3. CASE state = "M_NAND_RESET"
  <2>1. NandReset BY <1>3, OperationOnly
  <2>2. state' = "M_WAIT" /\ n_state' = "M_IDLE" /\ delay' = t_wb + 8 /\ Drive(255)
    BY <1>2, <2>1 DEF NandReset
  <2> QED BY <1>3, <2>2, SMT DEF CommandByte, Drive, Addressing
<1>4. CASE state \in {"M_NAND_READ_PARAM_PAGE", "M_NAND_READ_ID", "M_NAND_READ_STATUS"}
  <2>1. substate = "MS_BEGIN" BY <1>4, SMT DEF cle_activate, At
  <2>2. CASE state = "M_NAND_READ_PARAM_PAGE"
    <3>1. ReadParamPage BY <2>2, OperationOnly
    <3>2. Command(236) /\ WaitFor("MS_SUBMIT_COMMAND") BY <2>1, <3>1, SMT DEF ReadParamPage
    <3>3. Drive(236) /\ state' = "M_WAIT" /\ n_state' = state BY <1>2, <3>2 DEF WaitFor
    <3> QED BY <2>2, <3>3, SMT DEF CommandByte, Drive
  <2>3. CASE state = "M_NAND_READ_ID"
    <3>1. ReadId BY <2>3, OperationOnly
    <3>2. Command(144) /\ WaitFor("MS_SUBMIT_COMMAND") BY <2>1, <3>1, SMT DEF ReadId
    <3>3. Drive(144) /\ state' = "M_WAIT" /\ n_state' = state BY <1>2, <3>2 DEF WaitFor
    <3> QED BY <2>3, <3>3, SMT DEF CommandByte, Drive
  <2>4. CASE state = "M_NAND_READ_STATUS"
    <3>1. ReadStatus BY <2>4, OperationOnly
    <3>2. Command(112) /\ WaitFor("MS_SUBMIT_COMMAND") BY <2>1, <3>1, SMT DEF ReadStatus
    <3>3. Drive(112) /\ state' = "M_WAIT" /\ n_state' = state BY <1>2, <3>2 DEF WaitFor
    <3> QED BY <2>4, <3>3, SMT DEF CommandByte, Drive
  <2> QED BY <1>4, <2>2, <2>3, <2>4
<1>5. CASE state = "M_NAND_BLOCK_ERASE"
  <2>1. BlockErase BY <1>5, OperationOnly
  <2>2. CASE substate = "MS_BEGIN"
    <3>1. Command(96) /\ WaitFor("MS_SUBMIT_COMMAND") BY <2>1, <2>2, SMT DEF BlockErase
    <3>2. Drive(96) /\ state' = "M_WAIT" /\ n_state' = state BY <1>2, <3>1 DEF WaitFor
    <3> QED BY <1>5, <3>2, SMT DEF CommandByte, Drive
  <2>3. CASE substate = "MS_SUBMIT_COMMAND1"
    <3>1. Command(208) /\ WaitFor("MS_END") BY <2>1, <2>3, SMT DEF BlockErase
    <3>2. Drive(208) /\ state' = "M_WAIT" /\ n_state' = state /\ substate' = "MS_END"
      BY <1>2, <3>1 DEF WaitFor
    <3> QED BY <1>5, <3>2, SMT DEF CommandByte, Drive
  <2> QED BY <1>5, <2>2, <2>3, SMT DEF cle_activate, At
<1>6. CASE state = "M_NAND_READ"
  <2>1. ReadPage BY <1>6, OperationOnly
  <2>2. CASE substate = "MS_BEGIN"
    <3>1. Command(0) /\ WaitFor("MS_SUBMIT_COMMAND") BY <2>1, <2>2, SMT DEF ReadPage
    <3>2. Drive(0) /\ state' = "M_WAIT" /\ n_state' = state BY <1>2, <3>1 DEF WaitFor
    <3> QED BY <1>6, <3>2, SMT DEF CommandByte, Drive
  <2>3. CASE substate = "MS_SUBMIT_COMMAND1"
    <3>1. Command(48) /\ WaitFor("MS_DELAY") BY <2>1, <2>3, SMT DEF ReadPage
    <3>2. Drive(48) /\ state' = "M_WAIT" /\ n_state' = state /\ substate' = "MS_DELAY"
      BY <1>2, <3>1 DEF WaitFor
    <3> QED BY <1>6, <3>2, SMT DEF CommandByte, Drive
  <2> QED BY <1>6, <2>2, <2>3, SMT DEF cle_activate, At
<1>7. CASE state = "M_NAND_PAGE_PROGRAM"
  <2>1. PageProgram BY <1>7, OperationOnly
  <2>2. CASE substate = "MS_BEGIN"
    <3>1. Command(128) /\ WaitFor("MS_SUBMIT_COMMAND") BY <2>1, <2>2, SMT DEF PageProgram
    <3>2. Drive(128) /\ state' = "M_WAIT" /\ n_state' = state BY <1>2, <3>1 DEF WaitFor
    <3> QED BY <1>7, <3>2, SMT DEF CommandByte, Drive
  <2>3. CASE substate = "MS_SUBMIT_COMMAND1"
    <3>1. Command(16) /\ WaitFor("MS_WAIT") BY <2>1, <2>3, SMT DEF PageProgram
    <3>2. Drive(16) /\ state' = "M_WAIT" /\ n_state' = state /\ substate' = "MS_WAIT"
      BY <1>2, <3>1 DEF WaitFor
    <3> QED BY <1>7, <3>2, SMT DEF CommandByte, Drive
  <2> QED BY <1>7, <2>2, <2>3, SMT DEF cle_activate, At
<1>8. state # "MI_BYPASS_COMMAND" BY SMT DEF NoBypass, Doing, Bypass
<1> QED BY <1>3, <1>4, <1>5, <1>6, <1>7, <1>8, SMT DEF cle_activate, At

LEMMA CommandEdge ==
  ASSUME Assumed, Inv, NEW activate, NEW cmd_in, NEW data_in, Edge(activate, cmd_in, data_in)
  PROVE  CommandOnBus'
<1> USE DEF Inv, TimingInv, OnBus
<1> SUFFICES ASSUME ACL!write_enable' = 0
             PROVE  /\ state' = "M_WAIT" /\ CommandByte'
                    /\ n_state' = "M_IDLE" => cle'.delay >= 1 /\ delay' > t_wb + cle'.delay
  BY DEF CommandOnBus
<1>1. /\ ACL!LatchType /\ ACL!Tick(cle_activate) /\ cle_activate \in BOOLEAN
      /\ MasterTick(activate, cmd_in, data_in, rnb)
  BY EdgeUnits
<1>2. t_wb \in Nat /\ t_wp \in Nat \ {0} /\ t_wp <= 7
  BY TimingAssumption, SMT DEF Assumed, Timely
<1>3. CASE cle_activate
  <2>1. /\ state' = "M_WAIT" /\ CommandByte'
        /\ n_state' = "M_IDLE" => delay' = t_wb + 8
    BY <1>1, <1>3, CommandIssued, SMT
  <2>2. cle'.delay = t_wp BY <1>1, <1>3, UnitsIdle, CommandStrobe DEF Assumed
  <2> QED BY <1>2, <2>1, <2>2, SMT
<1>4. CASE ACL!write_enable = 0
  <2>1. /\ state = "M_WAIT" /\ CommandByte
        /\ n_state = "M_IDLE" => cle.delay >= 1 /\ delay > t_wb + cle.delay
    BY <1>4 DEF CommandOnBus
  <2>2. state' = state /\ n_state' = n_state /\ substate' = substate /\ drive' = drive
    BY <1>4, <2>1, StrobeEdge
  <2>3. CommandByte' BY <2>1, <2>2 DEF CommandByte
  <2>4. cle.delay > 1 /\ cle'.delay = cle.delay - 1 BY <1>1, <1>4, CommandStrobe
  <2>5. Wait(rnb) \/ Delay BY <1>1, <2>1, WaitOnly
  <2>6. delay > 1 => delay' = delay - 1 BY <2>5, WaitEdge
  <2>7. cle.delay \in Nat /\ delay \in Nat
    BY <1>1, SMT DEF ACL!LatchType, TypeInvariant, MasterType, CounterType
  <2> QED BY <1>2, <2>1, <2>2, <2>3, <2>4, <2>6, <2>7, SMT
<1> QED BY <1>3, <1>4, StrobeEdge

LEMMA AddressEdge ==
  ASSUME Assumed, Inv, NEW activate, NEW cmd_in, NEW data_in, Edge(activate, cmd_in, data_in)
  PROVE  AddressOnBus'
<1> USE DEF Inv, TimingInv, OnBus
<1>1. MasterTick(activate, cmd_in, data_in, rnb) BY EdgeUnits
<1>2. CASE ale_activate
  <2>1. CASE state = "M_NAND_READ"
    <3>1. ReadPage BY <1>1, <2>1, OperationOnly
    <3> QED BY <1>2, <2>1, <3>1, SMT
            DEF ale_activate, At, ReadPage, Continue, AddressOnBus, Doing, Addressing
  <2>2. CASE state = "M_NAND_READ_PARAM_PAGE"
    <3>1. ReadParamPage BY <1>1, <2>2, OperationOnly
    <3>2. substate = "MS_SUBMIT_COMMAND" BY <1>2, <2>2, SMT DEF ale_activate, At
    <3>3. WaitFor("MS_SUBMIT_ADDRESS") BY <3>1, <3>2, SMT DEF ReadParamPage
    <3> QED BY <2>2, <3>3, SMT DEF WaitFor, AddressOnBus
  <2>3. CASE state = "M_NAND_READ_ID"
    <3>1. ReadId BY <1>1, <2>3, OperationOnly
    <3>2. substate = "MS_SUBMIT_COMMAND" BY <1>2, <2>3, SMT DEF ale_activate, At
    <3>3. WaitFor("MS_SUBMIT_ADDRESS") BY <3>1, <3>2, SMT DEF ReadId
    <3> QED BY <2>3, <3>3, SMT DEF WaitFor, AddressOnBus, Doing, Addressing
  <2>4. CASE state = "M_NAND_BLOCK_ERASE"
    <3>1. BlockErase BY <1>1, <2>4, OperationOnly
    <3>2. substate = "MS_SUBMIT_COMMAND" BY <1>2, <2>4, SMT DEF ale_activate, At
    <3>3. WaitFor("MS_SUBMIT_ADDRESS") BY <3>1, <3>2, SMT DEF BlockErase
    <3> QED BY <2>4, <3>3, SMT DEF WaitFor, AddressOnBus, Doing, Addressing
  <2>5. CASE state = "M_NAND_PAGE_PROGRAM"
    <3>1. PageProgram BY <1>1, <2>5, OperationOnly
    <3>2. substate = "MS_SUBMIT_ADDRESS" BY <1>2, <2>5, SMT DEF ale_activate, At
    <3>3. state' = "M_WAIT" /\ n_state' = state /\ substate' # "MS_BEGIN"
      BY <3>1, <3>2, SMT DEF PageProgram, WaitFor
    <3> QED BY <2>5, <3>3, SMT DEF AddressOnBus, Doing, Addressing
  <2>6. state # "MI_BYPASS_ADDRESS" BY SMT DEF NoBypass, Doing, Bypass
  <2> QED BY <1>2, <2>1, <2>2, <2>3, <2>4, <2>5, <2>6, SMT DEF ale_activate, At
<1>3. CASE AAL!write_enable = 0
  <2>1. CASE state = "M_WAIT"
    <3>1. state' = state /\ n_state' = n_state /\ substate' = substate /\ Doing' = Doing
      BY <1>3, <2>1, StrobeEdge
    <3> QED BY <1>3, <3>1 DEF AddressOnBus
  <2>2. CASE At("M_NAND_READ", {"MS_SUBMIT_ADDRESS"})
    <3>1. ReadPage BY <1>1, <2>2, OperationOnly DEF At
    <3>2. state' = "M_WAIT" /\ n_state' = state /\ substate' # "MS_BEGIN"
      BY <2>2, <3>1, SMT DEF At, ReadPage, WaitFor
    <3> QED BY <2>2, <3>2, SMT DEF At, AddressOnBus, Doing, Addressing
  <2> QED BY <1>3, <2>1, <2>2, StrobePlace
<1> QED BY <1>2, <1>3, StrobeEdge DEF AddressOnBus

\* A strobe that ends finds the chips that are selected ready.
LEMMA ReadyAtRise ==
  ASSUME Watched, WeRises, NEW c \in Selected
  PROVE  c \in Chip /\ chips[c].phase = "ready"
BY SMT DEF Watched, WeRises, Selected, Chip

\* Only a strobe of the command unit changes the command a chip has.
LEMMA CommandKept ==
  ASSUME Inv, NEW activate, NEW cmd_in, NEW data_in, Edge(activate, cmd_in, data_in),
         NEW c \in Selected, ACL!write_enable = 1
  PROVE  chips'[c].cmd = chips[c].cmd
<1> USE DEF Inv, TimingInv
<1>1. c \in Chip BY DEF Selected
<1>2. CASE WeRises
  <2>1. chips[c].phase = "ready" BY <1>2, ReadyAtRise
  <2>2. AAL!write_enable = 0 \/ IO_WR!io_ctrl = 0
    BY <1>2, SMT DEF WeRises, nand_nwe
  <2>3. BusCycle.kind # "command"
    <3>1. BusCycle.kind = "address" \/ BusCycle.kind = "data" BY <2>2, RiseKinds
    <3> QED BY <3>1, SMT
  <2> QED BY <1>1, <1>2, <2>1, <2>3, ChipLatches
<1>3. CASE ~WeRises BY <1>1, <1>3, ChipAges
<1> QED BY <1>2, <1>3

LEMMA PinsKept ==
  ASSUME Inv, NEW activate, NEW cmd_in, NEW data_in, Edge(activate, cmd_in, data_in),
         state \notin RegisterStates \union {"M_RESET"}
  PROVE  pins' = pins /\ Selected' = Selected
<1>1. MasterTick(activate, cmd_in, data_in, rnb) BY EdgeUnits DEF Inv
<1>2. pins' = pins BY <1>1, PinsEdge DEF Inv, TimingInv
<1> QED BY <1>2 DEF Selected

LEMMA CommandedEdge ==
  ASSUME Assumed, Inv, NEW activate, NEW cmd_in, NEW data_in, Edge(activate, cmd_in, data_in)
  PROVE  Commanded'
<1> USE DEF Inv, TimingInv, OnBus
<1> SUFFICES ASSUME Doing' \in Addressing, substate' # "MS_BEGIN", ACL!write_enable' = 1,
                    NEW c \in Selected'
             PROVE  chips'[c].cmd # 236
  BY DEF Commanded
<1>1. MasterTick(activate, cmd_in, data_in, rnb) BY EdgeUnits
<1>2. state # "M_IDLE"
  <2> SUFFICES ASSUME state = "M_IDLE" PROVE FALSE
    OBVIOUS
  <2>1. MasterIdle(activate, cmd_in)
    <3>1. enable # 1 BY DEF UnitDiscipline
    <3> QED BY <1>1, <3>1, IdleIsIdle
  <2> QED BY <2>1, SMT DEF MasterIdle, Placed, Doing, AtRest
<1>3. Doing = Doing' /\ Doing \in Addressing
  <2>1. Doing' \in {Doing, "M_IDLE"} BY <1>1, <1>2, DoingStays
  <2> QED BY <2>1, SMT DEF Addressing
<1>4. c \in Selected
  <2>1. state \notin RegisterStates \union {"M_RESET"}
    BY <1>3, SMT DEF Doing, Addressing, RegisterStates
  <2> QED BY <2>1, PinsKept
<1>5. substate # "MS_BEGIN"
  <2> SUFFICES ASSUME substate = "MS_BEGIN" PROVE FALSE
    OBVIOUS
  <2>1. CASE state \in {"M_WAIT", "M_DELAY"}
    <3>1. Wait(rnb) \/ Delay BY <1>1, <2>1, WaitOnly
    <3> QED BY <3>1, WaitEdge
  <2>2. CASE state \notin {"M_WAIT", "M_DELAY"}
    <3>1. cle_activate BY <1>3, <2>2, SMT DEF Doing, Addressing, cle_activate
    <3>2. ~ACL!busy BY <3>1, UnitsIdle DEF Assumed
    <3>3. ACL!write_enable' = 0 BY <3>1, <3>2, EdgeUnits, CommandLatchEdge
    <3> QED BY <3>3
  <2> QED BY <2>1, <2>2
<1>6. CASE ACL!write_enable = 1
  <2>1. chips[c].cmd # 236 BY <1>3, <1>4, <1>5, <1>6 DEF Commanded
  <2> QED BY <1>4, <1>6, <2>1, CommandKept
<1>7. CASE ACL!write_enable = 0
  <2>1. state = "M_WAIT" /\ CommandByte BY <1>7 DEF CommandOnBus
  <2>2. AAL!write_enable = 1 /\ IO_WR!io_ctrl = 1
    <3>1. ACL!active BY <1>7, SMT DEF ACL!write_enable, ACL!active
    <3>2. ~AAL!active /\ ~IO_WR!active BY <3>1, Zenon DEF UnitDiscipline, OneUnitAtATime
    <3> QED BY <3>2, SMT DEF AAL!write_enable, AAL!active, IO_WR!io_ctrl, IO_WR!active
  <2>3. ~ale_activate /\ ~io_wr_activate BY <2>1, OneActivation
  <2>4. AAL!write_enable' = 1 /\ IO_WR!io_ctrl' = 1
    <3>1. AAL!write_enable' # 0 /\ IO_WR!io_ctrl' # 0 BY <2>2, <2>3, StrobeEdge
    <3> QED BY <3>1, SMT DEF AAL!write_enable, IO_WR!io_ctrl
  <2>5. WeRises BY <1>7, <2>4, SMT DEF WeRises, nand_nwe
  <2>6. c \in Chip /\ chips[c].phase = "ready" BY <1>4, <2>5, ReadyAtRise
  <2>7. chips'[c].cmd = drive.cle_data_in
    BY <1>4, <1>7, <2>5, <2>6, ChipLatches, RiseKinds
  <2>8. drive.cle_data_in # 236
    BY <1>3, <2>1, SMT DEF CommandByte, Doing, Addressing
  <2> QED BY <2>7, <2>8
<1> QED BY <1>6, <1>7, SMT DEF ACL!write_enable

LEMMA AwaitedPlace ==
  ASSUME NEW chip, Awaited(chip)
  PROVE  /\ state \notin RegisterStates \union {"M_RESET", "M_IDLE", "M_NAND_RESET"}
         /\ ~cle_activate /\ ~ale_activate /\ ~io_wr_activate /\ ~io_rd_activate
         /\ Reading => substate \notin {"MS_READ_DATA0", "MS_READ_DATA1", "MS_READ_DATA2"}
         /\ substate = "MS_WAIT_tRR" => state \notin {"M_NAND_READ", "M_NAND_READ_PARAM_PAGE"}
         /\ state \in {"M_WAIT", "M_DELAY"} \/ state = Doing
BY SMT DEF Awaited, Doing, RegisterStates, Reading, cle_activate, ale_activate, io_wr_activate,
   io_rd_activate, At

\* One clock of a chip at work.
LEMMA ChipWorks ==
  ASSUME Assumed, Inv, NEW activate, NEW cmd_in, NEW data_in, Edge(activate, cmd_in, data_in),
         NEW c \in Chip, chips[c].phase # "ready", ~Due(chips[c])
  PROVE  /\ c \in Selected /\ Selected' = Selected /\ nand_nwe' = 1 /\ ~WeRises
         /\ chips[c] \in OneChip
         /\ chips'[c].phase = chips[c].phase /\ chips'[c].task = chips[c].task
         /\ chips[c].phase = "settling" => chips'[c].age = chips[c].age + 1 /\ chips[c].age < t_wb
         /\ chips[c].phase = "busy" /\ chips[c].task = 208 =>
              chips'[c].age = chips[c].age + 1 /\ chips[c].age < EraseMax
<1> USE DEF Inv, TimingInv
<1>1. c \in Selected /\ nand_nwe = 1 /\ Awaited(chips[c]) /\ WithinTime(chips[c]) BY DEF Watched
<1>2. Selected' = Selected BY <1>1, AwaitedPlace, PinsKept
<1>3. nand_nwe' = 1 /\ ~WeRises BY <1>1, AwaitedPlace, HighElsewhere
<1>4. /\ chips[c] \in OneChip
      /\ chips'[c].phase = chips[c].phase /\ chips'[c].task = chips[c].task
      /\ chips'[c].age = Aged(chips[c]).age
  BY <1>3, ChipAges
<1>5. chips[c].phase = "settling" \/ (chips[c].phase = "busy" /\ chips[c].task = 208) =>
        chips'[c].age = chips[c].age + 1
  BY <1>4, AgedFields
<1>6. t_wb \in Nat /\ EraseMax \in Nat BY TimingAssumption, HostAssumption, SMT
<1>7. chips[c].age \in Nat BY <1>4, SMT DEF OneChip
<1> QED BY <1>1, <1>2, <1>3, <1>4, <1>5, <1>6, <1>7, SMT DEF Due, WithinTime

\* The FSM stays in its wait until R/B# has fallen and risen again, and in its delay until the
\* erase is over.
LEMMA StillWaits ==
  ASSUME Assumed, Inv, NEW activate, NEW cmd_in, NEW data_in, Edge(activate, cmd_in, data_in),
         NEW c \in Chip, chips[c].phase # "ready", ~Due(chips[c]), Wait(rnb) \/ Delay
  PROVE  /\ Settled(chips[c]) => Settled(chips[c])'
         /\ Settled(chips[c]) /\ state = "M_WAIT" => state' = "M_WAIT"
         /\ Erasing(chips[c]) => Erasing(chips[c])'
         /\ Erasing(chips[c]) /\ state = "M_DELAY" => state' = "M_DELAY"
<1> USE DEF Inv, TimingInv
<1>1. /\ delay > 1 => delay' = delay - 1 /\ state' = state
      /\ ~(delay > 1) => delay' = delay /\ state' \in {state, n_state}
      /\ state = "M_WAIT" /\ state' # "M_WAIT" => rnb = 1
  BY WaitEdge
<1>2. /\ chips'[c].phase = chips[c].phase /\ chips'[c].task = chips[c].task
      /\ chips[c].phase = "settling" => chips'[c].age = chips[c].age + 1 /\ chips[c].age < t_wb
      /\ chips[c].phase = "busy" /\ chips[c].task = 208 =>
           chips'[c].age = chips[c].age + 1 /\ chips[c].age < EraseMax
      /\ c \in Selected /\ chips[c] \in OneChip
  BY ChipWorks
<1>3. chips[c].phase \in {"settling", "busy"} /\ chips[c].age \in Nat BY <1>2, SMT DEF OneChip
<1>4. rnb = 1 => chips[c].phase = "settling"
  BY <1>2, <1>3, SelectedLine, SMT DEF rb
<1>5. /\ delay \in Nat /\ t_wb \in Nat \ {0} /\ t_bers \in Nat \ {0} /\ EraseMax \in Nat
      /\ EraseMax <= t_bers
  BY TimingAssumption, HostAssumption, SMT
     DEF TypeInvariant, MasterType, CounterType, Assumed, Timely
<1>6. Settled(chips[c]) => Settled(chips[c])' BY <1>1, <1>2, <1>3, <1>5, SMT DEF Settled
<1>7. Settled(chips[c]) /\ state = "M_WAIT" => state' = "M_WAIT"
  BY <1>1, <1>2, <1>3, <1>4, <1>5, SMT DEF Settled
<1>8. Erasing(chips[c]) => Erasing(chips[c])' BY <1>1, <1>2, <1>3, <1>5, SMT DEF Erasing
<1>9. Erasing(chips[c]) /\ state = "M_DELAY" => state' = "M_DELAY"
  BY <1>1, <1>2, <1>3, <1>5, SMT DEF Erasing
<1> QED BY <1>6, <1>7, <1>8, <1>9

\* While a chip is at work the FSM goes from one of its waits for it to the next.
LEMMA AwaitedEdge ==
  ASSUME Assumed, Inv, NEW activate, NEW cmd_in, NEW data_in, Edge(activate, cmd_in, data_in),
         NEW c \in Chip, chips[c].phase # "ready", ~Due(chips[c])
  PROVE  Awaited(chips[c])'
<1> USE DEF Inv, TimingInv
<1>1. MasterTick(activate, cmd_in, data_in, rnb) BY EdgeUnits
<1>2. Awaited(chips[c]) BY DEF Watched
<1>3. /\ chips'[c].phase = chips[c].phase /\ chips'[c].task = chips[c].task
      /\ chips[c].phase = "settling" => chips'[c].age = chips[c].age + 1
      /\ chips[c].phase = "busy" /\ chips[c].task = 208 => chips'[c].age = chips[c].age + 1
      /\ chips[c].age \in Nat /\ chips[c].phase \in {"settling", "busy"}
  BY ChipWorks, SMT DEF OneChip
<1>4. t_wb \in Nat \ {0} /\ t_bers \in Nat \ {0} /\ t_prog \in Nat \ {0}
  BY TimingAssumption, SMT
<1>5. CASE state \in {"M_WAIT", "M_DELAY"}
  <2>1. Wait(rnb) \/ Delay BY <1>1, <1>5, WaitOnly
  <2>2. n_state' = n_state /\ substate' = substate /\ Doing' = Doing BY <2>1, WaitEdge
  <2>3. /\ Settled(chips[c]) => Settled(chips[c])'
        /\ Settled(chips[c]) /\ state = "M_WAIT" => state' = "M_WAIT"
        /\ Erasing(chips[c]) => Erasing(chips[c])'
        /\ Erasing(chips[c]) /\ state = "M_DELAY" => state' = "M_DELAY"
    BY <2>1, StillWaits
  <2> QED BY <1>2, <1>3, <2>2, <2>3, SMT DEF Awaited
<1>6. CASE state = "M_NAND_READ" /\ substate = "MS_DELAY"
  <2>1. ReadPage BY <1>1, <1>6, OperationOnly
  <2>2. state' = "M_WAIT" /\ n_state' = state /\ substate' = "MS_WAIT_tRR" /\ delay' = t_wb
    BY <1>6, <2>1, SMT DEF ReadPage, WaitFor
  <2>3. Settled(chips[c])' BY <1>3, <1>4, <2>2, SMT DEF Settled
  <2> QED BY <1>6, <2>2, <2>3, SMT DEF Awaited
<1>7. CASE state = "M_NAND_READ_PARAM_PAGE" /\ substate = "MS_SUBMIT_ADDRESS"
  <2>1. ReadParamPage BY <1>1, <1>7, OperationOnly
  <2>2. state' = "M_WAIT" /\ n_state' = state /\ substate' = "MS_WAIT_tRR" /\ delay' = t_wb
    BY <1>7, <2>1, SMT DEF ReadParamPage, WaitFor
  <2>3. Settled(chips[c])' BY <1>3, <1>4, <2>2, SMT DEF Settled
  <2> QED BY <1>7, <2>2, <2>3, SMT DEF Awaited
<1>8. CASE state = "M_NAND_BLOCK_ERASE" /\ substate = "MS_END" /\ chips[c].task = 208
  <2>1. BlockErase BY <1>1, <1>8, OperationOnly
  <2>2. state' = "M_DELAY" /\ n_state' = "M_IDLE" /\ delay' = t_wb + t_bers
    BY <1>8, <2>1, SMT DEF BlockErase
  <2>3. Erasing(chips[c])' BY <1>3, <1>4, <1>8, <2>2, SMT DEF Erasing
  <2> QED BY <2>2, <2>3 DEF Awaited
<1>9. CASE state = "M_NAND_PAGE_PROGRAM" /\ substate = "MS_WAIT"
  <2>1. PageProgram BY <1>1, <1>9, OperationOnly
  <2>2. /\ state' = "M_DELAY" /\ n_state' = state /\ substate' = "MS_END"
        /\ delay' = t_wb + t_prog
    BY <1>9, <2>1, SMT DEF PageProgram, DelayFor
  <2>3. Settled(chips[c])' BY <1>3, <1>4, <2>2, SMT DEF Settled
  <2> QED BY <1>9, <2>2, <2>3, SMT DEF Awaited, Doing
<1>10. CASE state = "M_NAND_PAGE_PROGRAM" /\ substate = "MS_END" /\ Settled(chips[c])
  <2>1. PageProgram BY <1>1, <1>10, OperationOnly
  <2>2. state' = "M_WAIT" /\ n_state' = "M_IDLE" /\ delay' = delay
    BY <1>10, <2>1, SMT DEF PageProgram
  <2>3. delay \in Nat BY DEF TypeInvariant, MasterType, CounterType
  <2>4. Settled(chips[c])' BY <1>3, <1>4, <1>10, <2>2, <2>3, SMT DEF Settled
  <2> QED BY <2>2, <2>4 DEF Awaited
<1> QED BY <1>2, <1>5, <1>6, <1>7, <1>8, <1>9, <1>10, SMT DEF Awaited, Doing

\* A cycle that puts a ready chip to work is one the FSM waits for.
LEMMA StartsAwaited ==
  ASSUME Assumed, Inv, NEW activate, NEW cmd_in, NEW data_in, Edge(activate, cmd_in, data_in),
         NEW c \in Selected, WeRises, chips[c].phase = "ready", Starts(chips[c], BusCycle)
  PROVE  Awaited(chips[c])' /\ Selected' = Selected
<1> USE DEF Inv, TimingInv, OnBus
<1>1. MasterTick(activate, cmd_in, data_in, rnb) BY EdgeUnits
<1>2. c \in Chip BY DEF Selected
<1>3. /\ chips'[c].phase = "settling" /\ chips'[c].age = 0 /\ chips'[c].task = chips'[c].cmd
      /\ chips'[c].cmd = IF BusCycle.kind = "command" THEN BusCycle.value ELSE chips[c].cmd
  BY <1>2, ChipLatches
<1>4. t_wb \in Nat \ {0} BY TimingAssumption, SMT
<1>5. CASE ACL!write_enable = 0
  <2>1. BusCycle.kind = "command" /\ BusCycle.value = drive.cle_data_in BY <1>5, RiseKinds
  <2>2. drive.cle_data_in \in {255, 48, 16, 208}
    BY <2>1, SMT DEF Starts
  <2>3. /\ state = "M_WAIT" /\ CommandByte
        /\ n_state = "M_IDLE" => cle.delay >= 1 /\ delay > t_wb + cle.delay
    BY <1>5 DEF CommandOnBus
  <2>4. state' = state /\ n_state' = n_state /\ substate' = substate /\ Doing' = Doing
        /\ pins' = pins
    BY <1>5, <2>3, StrobeEdge
  <2>5. Doing = n_state BY <2>3 DEF Doing
  <2>6. CASE drive.cle_data_in = 255
    <3>1. n_state = "M_IDLE" BY <2>3, <2>6, SMT DEF CommandByte
    <3>2. Wait(rnb) \/ Delay BY <1>1, <2>3, WaitOnly
    <3>3. delay > 1 => delay' = delay - 1 BY <3>2, WaitEdge
    <3>4. delay \in Nat /\ cle.delay \in Nat
      BY SMT DEF TypeInvariant, MasterType, CounterType, UnitsType, ACL!LatchType
    <3>5. delay' \in Nat /\ delay' > t_wb BY <1>4, <2>3, <3>1, <3>3, <3>4, SMT
    <3>6. chips'[c].age = 0 BY <1>3
    <3>7. chips'[c].age + delay' > t_wb BY <1>4, <3>5, <3>6, SMT
    <3>8. Settled(chips[c])' BY <3>7, Zenon DEF Settled
    <3> QED BY <2>3, <2>4, <3>1, <3>8 DEF Awaited, Selected
  <2>7. CASE drive.cle_data_in = 48
    <3>1. Doing = "M_NAND_READ" /\ substate = "MS_DELAY" BY <2>3, <2>5, <2>7, SMT DEF CommandByte
    <3> QED BY <2>4, <3>1 DEF Awaited, Selected
  <2>8. CASE drive.cle_data_in = 16
    <3>1. Doing = "M_NAND_PAGE_PROGRAM" /\ substate = "MS_WAIT"
      BY <2>3, <2>5, <2>8, SMT DEF CommandByte
    <3> QED BY <2>4, <3>1 DEF Awaited, Selected
  <2>9. CASE drive.cle_data_in = 208
    <3>1. Doing = "M_NAND_BLOCK_ERASE" /\ substate = "MS_END"
      BY <2>3, <2>5, <2>9, SMT DEF CommandByte
    <3>2. chips'[c].task = 208 BY <1>3, <2>1, <2>9
    <3> QED BY <2>4, <3>1, <3>2 DEF Awaited, Selected
  <2> QED BY <2>2, <2>6, <2>7, <2>8, <2>9
<1>6. CASE AAL!write_enable = 0
  <2>1. BusCycle.kind = "address" BY <1>6, RiseKinds
  <2>2. chips[c].cmd = 236 BY <2>1, SMT DEF Starts
  <2>3. ACL!write_enable = 1
    <3>1. AAL!active BY <1>6, SMT DEF AAL!write_enable, AAL!active
    <3>2. ~ACL!active BY <3>1, Zenon DEF UnitDiscipline, OneUnitAtATime
    <3> QED BY <3>2, SMT DEF ACL!write_enable, ACL!active
  <2>4. ~(Doing \in Addressing /\ substate # "MS_BEGIN") BY <2>2, <2>3 DEF Commanded
  <2>5. state = "M_WAIT" /\ n_state = "M_NAND_READ_PARAM_PAGE" /\ substate = "MS_SUBMIT_ADDRESS"
    BY <1>6, <2>4 DEF AddressOnBus
  <2>6. Doing' = Doing /\ substate' = substate /\ pins' = pins BY <1>6, <2>5, StrobeEdge
  <2>7. Doing = "M_NAND_READ_PARAM_PAGE" BY <2>5, SMT DEF Doing
  <2> QED BY <2>5, <2>6, <2>7 DEF Awaited, Selected
<1>7. CASE IO_WR!io_ctrl = 0
  <2>1. BusCycle.kind = "data" BY <1>7, RiseKinds
  <2> QED BY <2>1, SMT DEF Starts
<1> QED BY <1>5, <1>6, <1>7, SMT DEF WeRises, nand_nwe

LEMMA WatchedEdge ==
  ASSUME Assumed, Inv, NEW activate, NEW cmd_in, NEW data_in, Edge(activate, cmd_in, data_in),
         \A c \in Chip : ~Due(chips[c])
  PROVE  Watched'
<1> USE DEF Inv, TimingInv
<1> SUFFICES ASSUME NEW c \in Chip
             PROVE  /\ WithinTime(chips[c])'
                    /\ (chips[c].phase # "ready")' =>
                         c \in Selected' /\ nand_nwe' = 1 /\ Awaited(chips[c])'
  BY DEF Watched
<1>1. t_wb \in Nat /\ EraseMax \in Nat BY TimingAssumption, HostAssumption, SMT
<1>2. CASE chips[c].phase # "ready"
  <2>1. c \in Selected' /\ nand_nwe' = 1 BY <1>2, ChipWorks
  <2>2. Awaited(chips[c])' BY <1>2, AwaitedEdge
  <2>3. /\ chips'[c].phase = chips[c].phase /\ chips'[c].task = chips[c].task
        /\ chips[c].phase = "settling" => chips'[c].age = chips[c].age + 1 /\ chips[c].age < t_wb
        /\ chips[c].phase = "busy" /\ chips[c].task = 208 =>
             chips'[c].age = chips[c].age + 1 /\ chips[c].age < EraseMax
        /\ chips[c].age \in Nat
    BY <1>2, ChipWorks, SMT DEF OneChip
  <2>4. WithinTime(chips[c])' BY <1>1, <2>3, SMT DEF WithinTime
  <2> QED BY <2>1, <2>2, <2>4
<1>3. CASE chips[c].phase = "ready" /\ (c \notin Selected \/ ~WeRises)
  <2>1. chips'[c].phase = "ready" BY <1>3, ChipAges
  <2> QED BY <2>1 DEF WithinTime
<1>4. CASE chips[c].phase = "ready" /\ c \in Selected /\ WeRises
  <2>1. chips'[c].phase = IF Starts(chips[c], BusCycle) THEN "settling" ELSE "ready"
    BY <1>4, ChipLatches
  <2>2. CASE ~Starts(chips[c], BusCycle) BY <2>1, <2>2 DEF WithinTime
  <2>3. CASE Starts(chips[c], BusCycle)
    <3>1. chips'[c].age = 0 BY <1>4, <2>3, ChipLatches
    <3>2. WithinTime(chips[c])' BY <1>1, <2>1, <2>3, <3>1, SMT DEF WithinTime
    <3>3. nand_nwe' = 1 BY <1>4 DEF WeRises
    <3> QED BY <1>4, <2>3, <3>2, <3>3, StartsAwaited
  <2> QED BY <2>2, <2>3
<1> QED BY <1>2, <1>3, <1>4

\* What a delay has come to, one clock later.
LEMMA ElapsedEdge ==
  ASSUME NEW a \in Nat, NEW b \in Nat, NEW least \in Nat, NEW d \in Nat, NEW d2,
         Grows(a, b, least), d2 = (IF d > 1 THEN d - 1 ELSE d), a >= least \/ a + d > least
  PROVE  /\ b >= least \/ b + d2 > least
         /\ ~(d > 1) => b >= least
BY SMT DEF Grows

\* While no strobe of WE# ends, its age and that of the chips that are ready grow.
LEMMA AgesGrow ==
  ASSUME TypeInvariant, NEW activate, NEW cmd_in, NEW data_in, Edge(activate, cmd_in, data_in),
         ~WeRises
  PROVE  /\ we_age \in Nat /\ we_age' \in Nat
         /\ Grows(we_age, we_age', t_wb) /\ Grows(we_age, we_age', t_whr)
         /\ we_age' >= 1
         /\ \A c \in Selected : chips[c].phase = "ready" =>
              /\ chips[c].age \in Nat /\ chips'[c].age \in Nat
              /\ Grows(chips[c].age, chips'[c].age, t_rr)
<1>1. /\ we_age \in Nat /\ we_age' \in Nat /\ AgeCap \in Nat
      /\ we_age' = we_age + 1 \/ (we_age' = we_age /\ we_age = AgeCap)
      /\ t_whr <= AgeCap /\ t_wb <= AgeCap /\ 1 <= AgeCap
  BY AgeEdge
<1>2. t_wb \in Nat /\ t_whr \in Nat BY TimingAssumption, SMT
<1>3. Grows(we_age, we_age', t_wb) /\ Grows(we_age, we_age', t_whr) /\ we_age' >= 1
  BY <1>1, <1>2, SMT DEF Grows
<1>4. ASSUME NEW c \in Selected, chips[c].phase = "ready"
      PROVE  /\ chips[c].age \in Nat /\ chips'[c].age \in Nat
             /\ Grows(chips[c].age, chips'[c].age, t_rr)
  <2>1. c \in Chip BY DEF Selected
  <2>2. chips[c] \in OneChip /\ chips'[c].age = Aged(chips[c]).age BY <2>1, ChipAges
  <2>3. Aged(chips[c]) \in OneChip /\ Grows(chips[c].age, Aged(chips[c]).age, t_rr)
    BY <1>4, <2>2, AgedFields
  <2> QED BY <2>2, <2>3, SMT DEF OneChip
<1> QED BY <1>1, <1>3, <1>4

\* How a read comes to its words, when it does not wait.
LEMMA ReadingStep ==
  ASSUME UnitDiscipline, Placed, state \notin {"M_WAIT", "M_DELAY"}, Reading',
         NEW activate, NEW cmd_in, NEW data_in, NEW r, MasterTick(activate, cmd_in, data_in, r)
  PROVE  /\ substate' = "MS_WAIT_tRR" =>
              /\ \/ state = "M_NAND_READ" /\ substate = "MS_DELAY"
                 \/ state = "M_NAND_READ_PARAM_PAGE" /\ substate = "MS_SUBMIT_ADDRESS"
              /\ state' = "M_WAIT" /\ delay' = t_wb
         /\ substate' = "MS_READ_DATA0" =>
              \/ /\ state \in {"M_NAND_READ", "M_NAND_READ_PARAM_PAGE"} /\ substate = "MS_WAIT_tRR"
                 /\ state' = "M_WAIT" /\ delay' = t_rr
              \/ /\ state = "M_NAND_READ_ID" /\ substate = "MS_SUBMIT_ADDRESS"
                 /\ state' = "M_DELAY" /\ delay' = t_wb
              \/ /\ state = "M_NAND_READ_STATUS" /\ substate = "MS_SUBMIT_COMMAND"
                 /\ state' = "M_DELAY" /\ delay' = t_whr
              \/ Reading /\ substate \in {"MS_READ_DATA1", "MS_READ_DATA2"}
         /\ substate' = "MS_READ_DATA1" => Reading /\ substate = "MS_READ_DATA0"
         /\ substate' = "MS_READ_DATA2" => Reading /\ substate = "MS_READ_DATA1"
<1>1. CASE state = "M_IDLE"
  <2>1. MasterIdle(activate, cmd_in)
    <3>1. enable # 1 BY <1>1 DEF UnitDiscipline
    <3> QED BY <1>1, <3>1, IdleIsIdle
  <2>2. substate' = "MS_BEGIN" BY <1>1, <2>1, SMT DEF MasterIdle, Placed, Doing, AtRest
  <2> QED BY <2>2
<1>2. CASE state # "M_IDLE"
  <2>1. Doing = state /\ Doing' = Doing /\ Reading
    BY <1>2, DoingStays, SMT DEF Reading, Doing
  <2>2. CASE state = "M_NAND_READ"
    <3>1. ReadPage BY <2>2, OperationOnly
    <3> QED BY <2>1, <2>2, <3>1, SMT DEF ReadPage, WaitFor, Continue, Finish, Doing
  <2>3. CASE state = "M_NAND_READ_PARAM_PAGE"
    <3>1. ReadParamPage BY <2>3, OperationOnly
    <3> QED BY <2>1, <2>3, <3>1, SMT DEF ReadParamPage, WaitFor, Continue, Finish, Doing
  <2>4. CASE state = "M_NAND_READ_ID"
    <3>1. ReadId BY <2>4, OperationOnly
    <3> QED BY <2>1, <2>4, <3>1, SMT DEF ReadId, WaitFor, DelayFor, Continue, Finish, Doing
  <2>5. CASE state = "M_NAND_READ_STATUS"
    <3>1. ReadStatus BY <2>5, OperationOnly
    <3> QED BY <2>1, <2>5, <3>1, SMT DEF ReadStatus, WaitFor, DelayFor, Continue, Finish, Doing
  <2> QED BY <2>1, <2>2, <2>3, <2>4, <2>5, SMT DEF Reading
<1> QED BY <1>1, <1>2

\* A read that has come to a pause or to its words.
AtPause ==
  /\ state \notin {"M_WAIT", "M_DELAY"} /\ Reading
  /\ \/ substate \in {"MS_WAIT_tRR", "MS_READ_DATA0", "MS_READ_DATA1", "MS_READ_DATA2", "MS_DELAY"}
     \/ state \in {"M_NAND_READ_PARAM_PAGE", "M_NAND_READ_ID"} /\ substate = "MS_SUBMIT_ADDRESS"
     \/ state = "M_NAND_READ_STATUS" /\ substate = "MS_SUBMIT_COMMAND"

LEMMA ReadingIsQuiet ==
  ASSUME Inv, NEW activate, NEW cmd_in, NEW data_in, Edge(activate, cmd_in, data_in), AtPause
  PROVE  nand_nwe' = 1 /\ ~WeRises /\ Selected' = Selected
<1> USE DEF Inv, AtPause
<1>1. ~cle_activate /\ ~ale_activate /\ ~io_wr_activate
  BY SMT DEF cle_activate, ale_activate, io_wr_activate, At, Reading, Doing
<1>2. nand_nwe = 1
  <2>1. ACL!write_enable # 0 /\ AAL!write_enable # 0 /\ IO_WR!io_ctrl # 0
    BY StrobePlace, SMT DEF At
  <2> QED BY <2>1, SMT DEF nand_nwe
<1>3. state \notin RegisterStates \union {"M_RESET"} BY SMT DEF Reading, Doing, RegisterStates
<1> QED BY <1>1, <1>2, <1>3, HighElsewhere, PinsKept

LEMMA RestedWaits ==
  ASSUME Assumed, Inv, NEW activate, NEW cmd_in, NEW data_in, Edge(activate, cmd_in, data_in),
         state \in {"M_WAIT", "M_DELAY"}
  PROVE  Rested'
<1> USE DEF Inv, TimingInv
<1>1. Wait(rnb) \/ Delay BY EdgeUnits, WaitOnly
<1>2. substate' = substate /\ Doing' = Doing BY <1>1, WaitEdge
<1>3. /\ delay' = (IF delay > 1 THEN delay - 1 ELSE delay) /\ delay \in Nat
      /\ delay > 1 => state' = state
  BY <1>1, WaitEdge DEF TypeInvariant, MasterType, CounterType
<1>4. ~cle_activate /\ ~ale_activate /\ ~io_wr_activate BY OneActivation
<1>5. nand_nwe = 1 => nand_nwe' = 1 /\ ~WeRises BY <1>4, HighElsewhere
<1>6. Selected' = Selected BY PinsKept, SMT DEF RegisterStates
<1>7. t_wb \in Nat /\ t_whr \in Nat /\ t_rr \in Nat BY TimingAssumption, SMT
<1>8. ASSUME NEW a \in Nat, NEW b \in Nat, NEW least \in Nat, Grows(a, b, least),
             a >= least \/ a + delay > least
      PROVE  b >= least \/ (state' \in {"M_WAIT", "M_DELAY"} /\ b + delay' > least)
  <2>1. /\ b >= least \/ b + delay' > least
        /\ ~(delay > 1) => b >= least
    BY <1>3, <1>8, ElapsedEdge
  <2> QED BY <1>3, <2>1
<1>9. ASSUME nand_nwe = 1
      PROVE  /\ Elapsed(we_age, t_wb) => Elapsed(we_age, t_wb)'
             /\ Elapsed(we_age, t_whr) => Elapsed(we_age, t_whr)'
             /\ we_age >= t_whr => we_age' >= t_whr
  <2>1. PICK a \in Nat, b \in Nat : a = we_age /\ b = we_age'
    BY <1>5, <1>9, AgesGrow
  <2>2. Grows(a, b, t_wb) /\ Grows(a, b, t_whr) BY <1>5, <1>9, <2>1, AgesGrow
  <2>3. /\ Elapsed(a, t_wb) => Elapsed(b, t_wb)'
        /\ Elapsed(a, t_whr) => Elapsed(b, t_whr)'
    BY <1>7, <1>8, <2>2, Zenon DEF Elapsed
  <2>4. a >= t_whr => b >= t_whr BY <1>7, <2>2, SMT DEF Grows
  <2> QED BY <2>1, <2>3, <2>4 DEF Elapsed
<1>10. ASSUME nand_nwe = 1, NEW c \in Selected, chips[c].phase = "ready"
       PROVE  /\ Elapsed(chips[c].age, t_rr) => Elapsed(chips[c].age, t_rr)'
              /\ chips[c].age >= t_rr => chips'[c].age >= t_rr
  <2>1. PICK a \in Nat, b \in Nat : a = chips[c].age /\ b = chips'[c].age
    BY <1>5, <1>10, AgesGrow
  <2>2. Grows(a, b, t_rr) BY <1>5, <1>10, <2>1, AgesGrow
  <2>3. Elapsed(a, t_rr) => Elapsed(b, t_rr)' BY <1>7, <1>8, <2>2, Zenon DEF Elapsed
  <2>4. a >= t_rr => b >= t_rr BY <1>7, <2>2, SMT DEF Grows
  <2> QED BY <2>1, <2>3, <2>4 DEF Elapsed
<1>11. Reading /\ substate \in {"MS_READ_DATA0", "MS_READ_DATA1", "MS_READ_DATA2"} =>
         \A c \in Selected : chips[c].phase = "ready"
  BY AwaitedPlace DEF Watched, Selected
<1>12. ASSUME Doing \in {"M_NAND_READ", "M_NAND_READ_PARAM_PAGE"}, substate = "MS_WAIT_tRR"
       PROVE  nand_nwe' = 1 /\ Elapsed(we_age, t_wb)'
  BY <1>5, <1>9, <1>12 DEF Rested
<1>13. ASSUME Reading, substate = "MS_READ_DATA0"
       PROVE  /\ nand_nwe' = 1 /\ Elapsed(we_age, t_whr)'
              /\ \A c \in Selected : Elapsed(chips[c].age, t_rr)'
  BY <1>5, <1>9, <1>10, <1>11, <1>13 DEF Rested
<1>14. ASSUME Reading, substate \in {"MS_READ_DATA1", "MS_READ_DATA2"}
       PROVE  /\ nand_nwe' = 1 /\ we_age' >= t_whr
              /\ \A c \in Selected : chips'[c].age >= t_rr
  BY <1>5, <1>9, <1>10, <1>11, <1>14 DEF Rested
<1> QED BY <1>2, <1>6, <1>12, <1>13, <1>14 DEF Rested, Reading

LEMMA RestedEdge ==
  ASSUME Assumed, Inv, NEW activate, NEW cmd_in, NEW data_in, Edge(activate, cmd_in, data_in),
         state \notin {"M_WAIT", "M_DELAY"}
  PROVE  Rested'
<1> USE DEF Inv, TimingInv
<1>1. MasterTick(activate, cmd_in, data_in, rnb) BY EdgeUnits
<1>2. /\ t_wb \in Nat \ {0} /\ t_whr \in Nat \ {0} /\ t_rr \in Nat \ {0}
      /\ t_rr <= t_whr /\ t_whr <= t_wb
  BY TimingAssumption, SMT DEF Assumed, Timely
<1>3. ASSUME NEW a \in Nat, NEW b \in Nat, NEW least \in Nat, Grows(a, b, least), a >= least
      PROVE  b >= least
  BY <1>3, SMT DEF Grows
<1>4. ASSUME NEW a \in Nat, NEW b \in Nat, NEW d \in Nat \ {0}, Grows(a, b, t_rr), t_rr <= d
      PROVE  b >= t_rr \/ b + d > t_rr
  BY <1>2, <1>4, SMT DEF Grows
<1>5. ASSUME NEW b \in Nat, b >= 1, NEW d \in Nat, NEW least \in Nat, least <= d
      PROVE  b + d > least
  BY <1>5, SMT
<1>6. ASSUME Reading', substate' = "MS_WAIT_tRR" PROVE nand_nwe' = 1 /\ Elapsed(we_age, t_wb)'
  <2>1. /\ \/ state = "M_NAND_READ" /\ substate = "MS_DELAY"
           \/ state = "M_NAND_READ_PARAM_PAGE" /\ substate = "MS_SUBMIT_ADDRESS"
        /\ state' = "M_WAIT" /\ delay' = t_wb
    BY <1>1, <1>6, ReadingStep
  <2>2. Reading BY <2>1, SMT DEF Reading, Doing
  <2>3. nand_nwe' = 1 /\ ~WeRises
    <3>1. AtPause BY <2>1, <2>2, SMT DEF AtPause, Reading, Doing
    <3> QED BY <3>1, ReadingIsQuiet
  <2>4. PICK b \in Nat : b = we_age' /\ b >= 1 BY <2>3, AgesGrow
  <2>5. b + t_wb > t_wb
    <3>1. t_wb \in Nat /\ t_wb <= t_wb BY <1>2, SMT
    <3> QED BY <1>5, <2>4, <3>1
  <2> QED BY <2>1, <2>3, <2>4, <2>5 DEF Elapsed
<1>7. ASSUME Reading', substate' = "MS_READ_DATA0"
      PROVE  /\ nand_nwe' = 1 /\ Elapsed(we_age, t_whr)'
             /\ \A c \in Selected' : Elapsed(chips[c].age, t_rr)'
  <2>1. CASE /\ state \in {"M_NAND_READ", "M_NAND_READ_PARAM_PAGE"} /\ substate = "MS_WAIT_tRR"
             /\ state' = "M_WAIT" /\ delay' = t_rr
    <3>1. Reading /\ Doing = state BY <2>1, SMT DEF Reading, Doing
    <3>2. nand_nwe' = 1 /\ ~WeRises /\ Selected' = Selected
      <4>1. AtPause BY <2>1, <3>1, SMT DEF AtPause, Reading, Doing
      <4> QED BY <4>1, ReadingIsQuiet
    <3>3. we_age >= t_wb BY <2>1, <3>1 DEF Rested, Elapsed
    <3>4. we_age \in Nat /\ we_age' \in Nat /\ Grows(we_age, we_age', t_whr) BY <3>2, AgesGrow
    <3>5. we_age' >= t_whr BY <1>2, <3>3, <3>4, SMT DEF Grows
    <3>6. ASSUME NEW c \in Selected PROVE Elapsed(chips[c].age, t_rr)'
      <4>1. chips[c].phase = "ready" BY <2>1, AwaitedPlace DEF Watched, Selected
      <4>2. PICK a \in Nat, b \in Nat : b = chips'[c].age /\ Grows(a, b, t_rr)
        BY <3>2, <4>1, AgesGrow
      <4>3. b >= t_rr \/ b + t_rr > t_rr BY <1>2, <1>4, <4>2
      <4> QED BY <2>1, <4>2, <4>3 DEF Elapsed
    <3> QED BY <3>2, <3>5, <3>6 DEF Elapsed
  <2>2. CASE \/ /\ state = "M_NAND_READ_ID" /\ substate = "MS_SUBMIT_ADDRESS"
                /\ state' = "M_DELAY" /\ delay' = t_wb
             \/ /\ state = "M_NAND_READ_STATUS" /\ substate = "MS_SUBMIT_COMMAND"
                /\ state' = "M_DELAY" /\ delay' = t_whr
    <3>1. Reading /\ Doing = state BY <2>2, SMT DEF Reading, Doing
    <3>2. nand_nwe' = 1 /\ ~WeRises /\ Selected' = Selected
      <4>1. AtPause BY <2>2, <3>1, SMT DEF AtPause, Reading, Doing
      <4> QED BY <4>1, ReadingIsQuiet
    <3>3. PICK b \in Nat : b = we_age' /\ b >= 1 BY <3>2, AgesGrow
    <3>4. PICK d \in Nat \ {0} : d = delay' /\ t_whr <= d /\ t_rr <= d
      BY <1>2, <2>2, SMT
    <3>5. b + d > t_whr
      <4>1. d \in Nat /\ t_whr \in Nat BY <1>2, SMT
      <4> QED BY <1>5, <3>3, <3>4, <4>1
    <3>6. ASSUME NEW c \in Selected PROVE Elapsed(chips[c].age, t_rr)'
      <4>1. chips[c].phase = "ready"
        <5>1. ~Awaited(chips[c]) BY <2>2, SMT DEF Awaited, Doing
        <5> QED BY <5>1 DEF Watched, Selected
      <4>2. PICK a \in Nat, e \in Nat : e = chips'[c].age /\ Grows(a, e, t_rr)
        BY <3>2, <4>1, AgesGrow
      <4>3. e >= t_rr \/ e + d > t_rr BY <1>4, <3>4, <4>2
      <4> QED BY <2>2, <3>4, <4>2, <4>3 DEF Elapsed
    <3> QED BY <2>2, <3>2, <3>3, <3>4, <3>5, <3>6 DEF Elapsed
  <2>3. CASE Reading /\ substate \in {"MS_READ_DATA1", "MS_READ_DATA2"}
    <3>1. nand_nwe' = 1 /\ ~WeRises /\ Selected' = Selected
      <4>1. AtPause BY <2>3, SMT DEF AtPause, Reading, Doing
      <4> QED BY <4>1, ReadingIsQuiet
    <3>2. we_age >= t_whr /\ \A c \in Selected : chips[c].age >= t_rr BY <2>3 DEF Rested
    <3>3. we_age' >= t_whr BY <1>2, <1>3, <3>1, <3>2, AgesGrow
    <3>4. ASSUME NEW c \in Selected PROVE Elapsed(chips[c].age, t_rr)'
      <4>1. chips[c].phase = "ready" BY <2>3, AwaitedPlace DEF Watched, Selected
      <4>2. chips'[c].age >= t_rr BY <1>2, <1>3, <3>1, <3>2, <4>1, AgesGrow
      <4> QED BY <4>2 DEF Elapsed
    <3> QED BY <3>1, <3>3, <3>4 DEF Elapsed
  <2> QED BY <1>1, <1>7, <2>1, <2>2, <2>3, ReadingStep
<1>8. ASSUME Reading', substate' \in {"MS_READ_DATA1", "MS_READ_DATA2"}
      PROVE  /\ nand_nwe' = 1 /\ we_age' >= t_whr
             /\ \A c \in Selected' : chips'[c].age >= t_rr
  <2>1. Reading /\ substate \in {"MS_READ_DATA0", "MS_READ_DATA1"} BY <1>1, <1>8, ReadingStep
  <2>2. nand_nwe' = 1 /\ ~WeRises /\ Selected' = Selected
    <3>1. AtPause BY <2>1, SMT DEF AtPause, Reading, Doing
    <3> QED BY <3>1, ReadingIsQuiet
  <2>3. we_age >= t_whr /\ \A c \in Selected : chips[c].age >= t_rr BY <2>1 DEF Rested, Elapsed
  <2>4. we_age' >= t_whr BY <1>2, <1>3, <2>2, <2>3, AgesGrow
  <2>5. ASSUME NEW c \in Selected PROVE chips'[c].age >= t_rr
    <3>1. chips[c].phase = "ready" BY <2>1, AwaitedPlace DEF Watched, Selected
    <3> QED BY <1>2, <1>3, <2>2, <2>3, <3>1, AgesGrow
  <2> QED BY <2>2, <2>4, <2>5
<1> QED BY <1>6, <1>7, <1>8 DEF Rested, Reading

\* R/B# falls and rises: the FSM waits on, and reads no word meanwhile.
LEMMA ChipStep ==
  ASSUME Assumed, Inv, NEW c \in Chip, GoBusy(c) \/ BecomeReady(c)
  PROVE  TimingInv'
<1> USE DEF Inv, TimingInv
<1>1. UNCHANGED <<master, units, history>> BY DEF GoBusy, BecomeReady
<1>2. /\ UNCHANGED <<state, n_state, substate, delay, pins, drive, cle, ale, iowr, we_age>>
      /\ Doing' = Doing /\ Selected' = Selected /\ nand_nwe' = nand_nwe
  BY <1>1 DEF master, control, config, units, history, Doing, Selected, nand_nwe, ACL!write_enable,
     AAL!write_enable, IO_WR!io_ctrl
<1>3. /\ chips \in [Chip -> OneChip] /\ chips[c] \in OneChip /\ chips[c].phase # "ready"
      /\ chips[c].phase \in {"settling", "busy"}
  BY SMT DEF TypeInvariant, ChipType, OneChip, GoBusy, BecomeReady
<1>4. /\ \A d \in Chip \ {c} : chips'[d] = chips[d]
      /\ chips'[c].cmd = chips[c].cmd
      /\ \/ chips[c].phase = "settling" /\ chips'[c].phase = "busy" /\ chips'[c].age = 0
            /\ chips'[c].task = chips[c].task
         \/ chips'[c].phase = "ready"
  <2>1. CASE GoBusy(c)
    <3>1. \A d \in Chip \ {c} : chips'[d] = chips[d] BY <1>3, <2>1, SMT DEF GoBusy
    <3>2. /\ chips[c].phase = "settling" /\ chips'[c].phase = "busy" /\ chips'[c].age = 0
          /\ chips'[c].cmd = chips[c].cmd /\ chips'[c].task = chips[c].task
      BY <1>3, <2>1, SMT DEF GoBusy, OneChip
    <3> QED BY <3>1, <3>2
  <2>2. CASE BecomeReady(c)
    <3>1. \A d \in Chip \ {c} : chips'[d] = chips[d] BY <1>3, <2>2, SMT DEF BecomeReady
    <3>2. chips'[c].phase = "ready" /\ chips'[c].cmd = chips[c].cmd
      BY <1>3, <2>2, SMT DEF BecomeReady, OneChip
    <3> QED BY <3>1, <3>2
  <2> QED BY <2>1, <2>2
<1>5. c \in Selected /\ nand_nwe = 1 /\ Awaited(chips[c]) /\ WithinTime(chips[c])
  BY <1>3 DEF Watched
<1>6. OnePin' /\ NoBypass' BY <1>2 DEF OnePin, NoBypass
<1>7. Watched'
  <2> SUFFICES ASSUME NEW d \in Chip
               PROVE  /\ WithinTime(chips[d])'
                      /\ (chips[d].phase # "ready")' =>
                           d \in Selected' /\ nand_nwe' = 1 /\ Awaited(chips[d])'
    BY DEF Watched
  <2>1. CASE d # c
    <3>1. chips'[d] = chips[d] BY <1>4, <2>1
    <3> QED BY <1>2, <3>1 DEF Watched, WithinTime, Awaited, Settled, Erasing
  <2>2. CASE d = c /\ chips'[c].phase = "ready" BY <2>2 DEF WithinTime
  <2>3. CASE d = c /\ chips'[c].phase # "ready"
    <3>1. /\ chips[c].phase = "settling" /\ chips'[c].phase = "busy" /\ chips'[c].age = 0
          /\ chips'[c].task = chips[c].task
      BY <1>4, <2>3
    <3>2. /\ t_wb \in Nat /\ t_bers \in Nat /\ EraseMax \in Nat /\ delay \in Nat
          /\ chips[c].age \in Nat
      BY <1>3, TimingAssumption, HostAssumption, SMT
         DEF TypeInvariant, MasterType, CounterType, OneChip
    <3>3. WithinTime(chips[c])' BY <3>1, <3>2, SMT DEF WithinTime
    <3>4. Settled(chips[c])' BY <3>1 DEF Settled
    <3>5. Erasing(chips[c]) => Erasing(chips[c])'
      BY <1>2, <1>5, <3>1, <3>2, SMT DEF Erasing, WithinTime
    <3>6. Awaited(chips[c])' BY <1>2, <1>5, <3>1, <3>4, <3>5 DEF Awaited
    <3> QED BY <1>2, <1>5, <2>3, <3>3, <3>6
  <2> QED BY <2>1, <2>2, <2>3
<1>8. CommandOnBus' /\ AddressOnBus'
  BY <1>2 DEF OnBus, CommandOnBus, CommandByte, AddressOnBus, ACL!write_enable, AAL!write_enable
<1>9. Commanded'
  <2>1. \A d \in Chip : chips'[d].cmd = chips[d].cmd BY <1>4
  <2> QED BY <1>2, <2>1 DEF OnBus, Commanded, ACL!write_enable, Selected
<1>10. Rested'
  <2>1. Reading => substate \notin {"MS_READ_DATA0", "MS_READ_DATA1", "MS_READ_DATA2"}
    BY <1>5, AwaitedPlace
  <2> QED BY <1>2, <2>1 DEF Rested, Reading, Elapsed
<1> QED BY <1>6, <1>7, <1>8, <1>9, <1>10 DEF OnBus

\* Whatever the chips take, the FSM waits for them: a chip that is not ready is selected, WE# is
\* high, and what the wait has left outlasts what the chip still needs (M_WAIT looks at R/B#,
\* M_DELAY counts); and a read stands where WE# and R/B# have been high long enough.
THEOREM TimingInvariant ==
  ASSUME Assumed, MaxResets = 0
  PROVE  Spec => []Inv
<1>1. 23 \notin Commands /\ HostEarly = FALSE BY DEF Assumed
<1>2. Init => TimingInv
  <2> SUFFICES ASSUME Init PROVE TimingInv
    OBVIOUS
  <2>1. state = "M_RESET" /\ pins.nce = 1 /\ cle = ACL!PowerOn /\ ale = AAL!PowerOn
        /\ n_state = "M_RESET"
    BY SMT DEF Init, MasterInit
  <2>2. \A c \in Chip : chips[c].phase = "ready" BY SMT DEF Init, FreshChip
  <2>3. ACL!write_enable = 1 /\ AAL!write_enable = 1
    BY <2>1, SMT DEF ACL!write_enable, AAL!write_enable, ACL!PowerOn, AAL!PowerOn
  <2>4. Watched BY <2>2 DEF Watched, WithinTime
  <2> QED BY <2>1, <2>3, <2>4, SMT DEF TimingInv, OnePin, NoBypass, Doing, Bypass, OnBus,
          CommandOnBus, AddressOnBus, Commanded, Addressing, Rested, Reading
<1>3. TypeInvariant /\ UnitDiscipline /\ InitTogether /\ Placed /\ TimingInv /\ [Next]_vars
        => TimingInv'
  <2> SUFFICES ASSUME Inv, [Next]_vars PROVE TimingInv'
    BY DEF Inv
  <2>1. CASE Clock
    <3>1. PICK activate, cmd_in, data_in :
            activate \in BOOLEAN /\ Edge(activate, cmd_in, data_in)
            /\ (activate => cmd_in \in Commands)
      BY <2>1 DEF Clock
    <3>2. \A c \in Chip : ~Due(chips[c]) BY <2>1 DEF Clock
    <3>3. MasterTick(activate, cmd_in, data_in, rnb) BY <3>1, EdgeUnits DEF Inv
    <3>4. OnePin' BY <3>3, PinsEdge DEF Inv, TimingInv
    <3>5. NoBypass' BY <3>1, <3>3, BypassStays DEF Inv, TimingInv
    <3>6. Watched' BY <3>1, <3>2, WatchedEdge
    <3>7. OnBus' BY <3>1, CommandEdge, AddressEdge, CommandedEdge DEF OnBus
    <3>8. Rested' BY <3>1, RestedWaits, RestedEdge
    <3> QED BY <3>4, <3>5, <3>6, <3>7, <3>8 DEF TimingInv
  <2>2. CASE Reset
    <3>1. resets \in Nat /\ resets < 0 BY <1>1, <2>2 DEF Inv, TypeInvariant, Reset
    <3> QED BY <3>1, SMT
  <2>3. CASE \E c \in Chip : GoBusy(c) \/ BecomeReady(c) BY <2>3, ChipStep
  <2>4. CASE UNCHANGED vars
    <3>1. UNCHANGED <<master, units, chips, history>> BY <2>4 DEF vars
    <3> QED BY <3>1 DEF Inv, TimingInv, OnePin, NoBypass, Watched, WithinTime, Awaited, Settled,
            Erasing, OnBus, CommandOnBus, CommandByte, AddressOnBus, Commanded, Rested, Reading,
            Elapsed, Doing, Selected, nand_nwe, ACL!write_enable, AAL!write_enable, IO_WR!io_ctrl,
            master, control, config, units, history
  <2> QED BY <2>1, <2>2, <2>3, <2>4 DEF Next
<1> QED BY <1>1, <1>2, <1>3, TypeCorrect, UnitsDisciplined, Together, PlacedInvariant, PTL
     DEF Spec, Inv

-----------------------------------------------------------------------------
(* What the bus and the host can rely on *)

\* Only a chip that is ready latches a cycle: the waits of M_WAIT on R/B# and of M_DELAY cover
\* each busy time and the t_wb in which R/B# has yet to fall. No bypass command, no reset pulse.
THEOREM ChipsLeftAlone ==
  ASSUME Assumed, MaxResets = 0
  PROVE  Spec => NoLatchWhileBusy
<1>1. Inv /\ [Next]_vars =>
        [WeRises => \A c \in Selected :
           chips[c].phase # "ready" => nand_cle /\ bus_out \in {112, 255}]_vars
  BY ReadyAtRise DEF Inv, TimingInv
<1> QED BY <1>1, TimingInvariant, PTL DEF Spec, NoLatchWhileBusy

\* A busy flag that is low tells the host that the bus is quiet and both chips are done.
THEOREM DoneAtIdle ==
  ASSUME Assumed, MaxResets = 0
  PROVE  Spec => []IdleMeansDone
<1>1. Inv => IdleMeansDone
  <2> SUFFICES ASSUME Inv, state = "M_IDLE" PROVE Quiet /\ \A c \in Chip : chips[c].phase = "ready"
    BY DEF IdleMeansDone, busy, Quiet
  <2> USE DEF Inv, TimingInv
  <2>1. Quiet BY SMT DEF UnitDiscipline, At
  <2>2. \A c \in Chip : chips[c].phase = "ready" BY AwaitedPlace DEF Watched
  <2> QED BY <2>1, <2>2
<1> QED BY <1>1, TimingInvariant, PTL

\* A read takes a word t_whr after WE# rose at least, from a chip that is ready and has been for
\* t_rr: the FSM looks at R/B# only once it has had the time to fall (MS_WAIT_tRR).
THEOREM ReadsTimely ==
  ASSUME Assumed, MaxResets = 0
  PROVE  Spec => ReadsAreTimely
<1>1. ASSUME Inv, ReFalls,
             NEW activate, NEW cmd_in, NEW data_in, Edge(activate, cmd_in, data_in)
      PROVE  we_age >= t_whr /\ \A c \in Selected : chips[c].phase = "ready" /\ chips[c].age >= t_rr
  <2> USE DEF Inv, TimingInv
  <2>1. io_rd_activate BY <1>1, ReadStrobe
  <2>2. Reading /\ substate = "MS_READ_DATA0" /\ state \notin {"M_WAIT", "M_DELAY"}
    BY <1>1, <2>1, SMT DEF io_rd_activate, At, Reading, Doing, NoBypass, Bypass
  <2>3. we_age >= t_whr /\ \A c \in Selected : chips[c].age >= t_rr
    BY <1>1, <2>2 DEF Rested, Elapsed
  <2>4. ASSUME NEW c \in Selected PROVE chips[c].phase = "ready"
    BY <1>1, <2>1, AwaitedPlace DEF Watched, Selected
  <2> QED BY <2>3, <2>4
<1>2. Inv /\ [Next]_vars =>
        [ReFalls => we_age >= t_whr /\ \A c \in Selected :
           chips[c].phase = "ready" /\ chips[c].age >= t_rr]_vars
  <2> SUFFICES ASSUME Inv, Next, ReFalls
               PROVE  we_age >= t_whr /\ \A c \in Selected :
                        chips[c].phase = "ready" /\ chips[c].age >= t_rr
    OBVIOUS
  <2>1. CASE Clock BY <1>1, <2>1 DEF Clock
  <2>2. CASE Reset
    <3>1. resets \in Nat /\ resets < 0 BY <2>2 DEF Inv, TypeInvariant, Reset
    <3> QED BY <3>1, SMT
  <2>3. CASE \E c \in Chip : GoBusy(c) \/ BecomeReady(c)
    <3>1. iord' = iord BY <2>3 DEF GoBusy, BecomeReady, units
    <3> QED BY <3>1, SMT DEF ReFalls, nand_nre, IO_RD!io_ctrl
  <2> QED BY <2>1, <2>2, <2>3 DEF Next
<1> QED BY <1>2, TimingInvariant, PTL DEF Spec, ReadsAreTimely

-----------------------------------------------------------------------------
(* The words of a transfer *)

\* The commands whose words fill a buffer, and what the chip has been told when it sends them.
Transfers == {2, 3, 6}
Code == IF op = 2 THEN 236 ELSE IF op = 3 THEN 144 ELSE 48
Told == IF op = 6 THEN Len(cycles) = 2 + geometry.addr_cycles ELSE op \in {2, 3} /\ cycles # <<>>
ReadingData == {"MS_READ_DATA0", "MS_READ_DATA1", "MS_READ_DATA2"}

\* The chip sends the words of the command, and has sent as many as RE# has asked for.
ChipTold == Told => \A c \in Selected : chips[c].cmd = Code /\ chips[c].out = reads

\* The k-th word of a chip.
WordSent(chip, cmd, k) == ChipWord[chip, cmd, k]

\* The reading unit has the word asked for last, or has yet to sample it.
Taken ==
  op \in Transfers /\ substate \in {"MS_READ_DATA1", "MS_READ_DATA2"} =>
    /\ reads >= 1
    /\ \A c \in Selected :
         \/ iord.data_reg = WordSent(c, Code, reads - 1)
         \/ iord.state = "IO_DELAY" /\ iord.n_state = "IO_HOLD" /\ iord.delay >= 2

\* The cells below the index hold what the chip sent.
Filled ==
  /\ op = 6 /\ substate \in ReadingData \union {"MS_END"} =>
       Delivered(buf.page_data, 48, page_idx)
  /\ op = 3 /\ substate \in ReadingData => Delivered(buf.chip_id, 144, page_idx)
  /\ op = 3 /\ substate = "MS_END" => Delivered(buf.chip_id, 144, 5)
  /\ op = 2 /\ substate \in ReadingData => Delivered(buf.page_param, 236, page_idx)
  /\ op = 2 /\ substate = "MS_END" => Delivered(buf.page_param, 236, ParamBytes)

TransferInv == ChipTold /\ Taken /\ Filled

Full == Inv /\ Regular /\ IndexInv /\ OperationInv

\* The words a chip has sent, one clock later.
LEMMA AgedOut ==
  ASSUME NEW chip \in OneChip
  PROVE  Aged(chip).out = chip.out
<1>1. PICK age : Aged(chip) = [chip EXCEPT !.age = age]
  <2>1. CASE chip.phase = "ready"
    <3>1. Aged(chip) = [chip EXCEPT !.age = IF chip.age < t_rr THEN chip.age + 1 ELSE chip.age]
      BY <2>1, SMT DEF Aged
    <3> QED BY <3>1
  <2>2. CASE chip.phase # "ready" /\ (chip.phase = "settling" \/ chip.task = 208)
    <3>1. Aged(chip) = [chip EXCEPT !.age = chip.age + 1] BY <2>2, SMT DEF Aged
    <3> QED BY <3>1
  <2>3. CASE chip.phase # "ready" /\ ~(chip.phase = "settling" \/ chip.task = 208)
    <3>1. Aged(chip) = chip BY <2>3, SMT DEF Aged
    <3>2. chip = [chip EXCEPT !.age = chip.age] BY SMT DEF OneChip
    <3> QED BY <3>1, <3>2
  <2> QED BY <2>1, <2>2, <2>3
<1> QED BY <1>1, SMT DEF OneChip

LEMMA LatchedOut ==
  ASSUME NEW chip \in OneChip, NEW cycle
  PROVE  Latched(chip, cycle).out =
           IF Starts(chip, cycle) \/ cycle.kind = "command" THEN 0 ELSE chip.out
<1>1. PICK cmd : cmd = IF cycle.kind # "command" THEN chip.cmd
                       ELSE IF chip.phase = "ready" \/ cycle.value \in {112, 255} THEN cycle.value
                       ELSE chip.cmd
  OBVIOUS
<1>2. CASE Starts(chip, cycle)
  <2>1. Latched(chip, cycle) = [chip EXCEPT !.phase = IF @ = "busy" THEN "busy" ELSE "settling",
                                            !.age = 0, !.cmd = cmd, !.task = cmd, !.out = 0]
    BY <1>1, <1>2, Zenon DEF Latched
  <2> QED BY <1>2, <2>1, SMT DEF OneChip
<1>3. CASE ~Starts(chip, cycle)
  <2>1. Latched(chip, cycle) =
          [chip EXCEPT !.cmd = cmd, !.out = IF cycle.kind = "command" THEN 0 ELSE chip.out]
    BY <1>1, <1>3, SMT DEF Latched
  <2> QED BY <1>3, <2>1, SMT DEF OneChip
<1> QED BY <1>2, <1>3

LEMMA OutAged ==
  ASSUME TypeInvariant, NEW activate, NEW cmd_in, NEW data_in, Edge(activate, cmd_in, data_in),
         NEW c \in Selected, ~WeRises
  PROVE  chips'[c].cmd = chips[c].cmd
         /\ chips'[c].out = (IF ReFalls THEN chips[c].out + 1 ELSE chips[c].out)
<1>1. c \in Chip BY DEF Selected
<1>2. chips[c] \in OneChip /\ chips'[c].cmd = chips[c].cmd BY <1>1, ChipAges
<1>3. Aged(chips[c]) \in OneChip /\ Aged(chips[c]).out = chips[c].out BY <1>2, AgedType, AgedOut
<1>4. CASE ReFalls
  <2>1. chips'[c] = [Aged(chips[c]) EXCEPT !.out = @ + 1] BY <1>1, <1>4 DEF Edge, ChipsTick
  <2>2. \A chip \in OneChip : [chip EXCEPT !.out = @ + 1].out = chip.out + 1
    BY SMT DEF OneChip
  <2>3. chips'[c].out = Aged(chips[c]).out + 1 BY <1>3, <2>1, <2>2
  <2> QED BY <1>2, <1>3, <1>4, <2>3
<1>5. CASE ~ReFalls
  <2>1. chips'[c] = Aged(chips[c]) BY <1>1, <1>5 DEF Edge, ChipsTick
  <2> QED BY <1>2, <1>3, <1>5, <2>1
<1> QED BY <1>4, <1>5

LEMMA OutLatched ==
  ASSUME TypeInvariant, NEW activate, NEW cmd_in, NEW data_in, Edge(activate, cmd_in, data_in),
         NEW c \in Selected, WeRises, chips[c].phase = "ready"
  PROVE  /\ chips'[c].cmd = IF BusCycle.kind = "command" THEN BusCycle.value ELSE chips[c].cmd
         /\ chips'[c].out = 0 \/ (BusCycle.kind # "command" /\ chips'[c].out = chips[c].out)
<1>1. c \in Chip BY DEF Selected
<1>2. chips'[c].cmd = IF BusCycle.kind = "command" THEN BusCycle.value ELSE chips[c].cmd
  BY <1>1, ChipLatches
<1>3. chips[c] \in OneChip BY <1>1 DEF TypeInvariant, ChipType, OneChip
<1>4. Aged(chips[c]) \in OneChip /\ Aged(chips[c]).out = chips[c].out BY <1>3, AgedType, AgedOut
<1>5. chips'[c] = Latched(Aged(chips[c]), BusCycle) BY <1>1 DEF Edge, ChipsTick
<1>6. chips'[c].out = IF Starts(Aged(chips[c]), BusCycle) \/ BusCycle.kind = "command"
                        THEN 0 ELSE chips[c].out
  BY <1>4, <1>5, LatchedOut
<1> QED BY <1>2, <1>6

-----------------------------------------------------------------------------
(* The reading unit and the cycles of a transfer *)

LEMMA ReaderSamples ==
  ASSUME NEW a \in BOOLEAN, NEW w \in Word, IO_RD!IoType(Word), IO_RD!Tick(a, w),
         iord.state # "IO_INIT"
  PROVE  /\ iord'.data_reg = IF IO_RD!Samples THEN w ELSE iord.data_reg
         /\ iord.state = "IO_DELAY" /\ iord.n_state = "IO_HOLD" /\ iord.delay >= 2 =>
              \/ IO_RD!Samples
              \/ iord'.state = "IO_DELAY" /\ iord'.n_state = "IO_HOLD" /\ iord'.delay >= 2
         /\ a /\ ~IO_RD!busy =>
              iord'.state = "IO_DELAY" /\ iord'.n_state = "IO_HOLD" /\ iord'.delay = t_rea
<1>1. CASE iord.state = "IO_IDLE"
  <2>1. iord' = IF a THEN [iord EXCEPT !.state = "IO_DELAY", !.n_state = "IO_HOLD", !.delay = t_rea]
                     ELSE iord
    BY <1>1, SMT DEF IO_RD!Tick, IO_RD!Initialise, IO_RD!Idle, IO_RD!Hold, IO_RD!Delay
  <2> QED BY <1>1, <2>1, SMT DEF IO_RD!IoType, IO_RD!Samples
<1>2. CASE iord.state = "IO_HOLD"
  <2>1. iord' = [iord EXCEPT !.state = "IO_DELAY", !.n_state = "IO_IDLE", !.delay = t_reh]
    BY <1>2, SMT DEF IO_RD!Tick, IO_RD!Initialise, IO_RD!Idle, IO_RD!Hold, IO_RD!Delay
  <2> QED BY <1>2, <2>1, SMT DEF IO_RD!IoType, IO_RD!Samples, IO_RD!busy
<1>3. CASE iord.state = "IO_DELAY"
  <2>1. iord' = IF iord.delay > 1
                  THEN [iord EXCEPT !.delay = @ - 1, !.data_reg = IF IO_RD!Samples THEN w ELSE @]
                  ELSE [iord EXCEPT !.state = iord.n_state]
    BY <1>3, SMT DEF IO_RD!Tick, IO_RD!Initialise, IO_RD!Idle, IO_RD!Hold, IO_RD!Delay
  <2>2. iord.delay \in Nat BY SMT DEF IO_RD!IoType
  <2>3. CASE iord.delay > 1
    <3>1. iord' = [iord EXCEPT !.delay = iord.delay - 1,
                               !.data_reg = IF IO_RD!Samples THEN w ELSE iord.data_reg]
      BY <2>1, <2>3
    <3>2. /\ iord'.state = iord.state /\ iord'.n_state = iord.n_state
          /\ iord'.delay = iord.delay - 1
          /\ iord'.data_reg = IF IO_RD!Samples THEN w ELSE iord.data_reg
      BY <3>1, SMT DEF IO_RD!IoType
    <3>3. IO_RD!Samples <=> iord.delay = 2 BY <1>3, SMT DEF IO_RD!Samples
    <3> QED BY <1>3, <2>2, <2>3, <3>2, <3>3, SMT DEF IO_RD!busy
  <2>4. CASE ~(iord.delay > 1)
    <3>1. iord' = [iord EXCEPT !.state = iord.n_state] BY <2>1, <2>4
    <3>2. iord'.data_reg = iord.data_reg BY <3>1, SMT DEF IO_RD!IoType
    <3>3. ~IO_RD!Samples BY <2>2, <2>4, SMT DEF IO_RD!Samples
    <3> QED BY <1>3, <2>2, <2>4, <3>2, <3>3, SMT DEF IO_RD!busy
  <2> QED BY <2>3, <2>4
<1> QED BY <1>1, <1>2, <1>3, SMT DEF IO_RD!IoType, IO_RD!IoStates

\* An edge at which an operation that reads goes on.
Carrying(activate, cmd_in, data_in) ==
  /\ Assumed /\ Full /\ OperationInv' /\ Edge(activate, cmd_in, data_in)
  /\ op \in Transfers /\ state # "M_IDLE" /\ state' \notin {"M_IDLE", "M_RESET"}

LEMMA CarryingStep ==
  ASSUME NEW activate, NEW cmd_in, NEW data_in, Carrying(activate, cmd_in, data_in)
  PROVE  /\ op' = op /\ Code' = Code /\ Selected' = Selected /\ UNCHANGED config
         /\ cycles' = IF WeRises THEN Append(cycles, BusCycle) ELSE cycles
         /\ reads' = IF ReFalls THEN reads + 1 ELSE reads
         /\ Doing = Target(op)
         /\ \/ state \in {"M_WAIT", "M_DELAY"} /\ (Wait(rnb) \/ Delay)
            \/ op = 6 /\ state = "M_NAND_READ" /\ ReadPage
            \/ op = 3 /\ state = "M_NAND_READ_ID" /\ ReadId
            \/ op = 2 /\ state = "M_NAND_READ_PARAM_PAGE" /\ ReadParamPage
<1> USE DEF Carrying, Full
<1>1. op \in {2, 3, 6} BY DEF Transfers
<1>2. /\ op' = op /\ op # 0
      /\ cycles' = IF WeRises THEN Append(cycles, BusCycle) ELSE cycles
      /\ reads' = IF ReFalls THEN reads + 1 ELSE reads
  BY <1>1, Recorded
<1>3. MasterTick(activate, cmd_in, data_in, rnb) BY EdgeUnits DEF Inv
<1>4. /\ Doing = Target(op) /\ Target(2) = "M_NAND_READ_PARAM_PAGE"
      /\ Target(3) = "M_NAND_READ_ID" /\ Target(6) = "M_NAND_READ"
  BY <1>1, Targets DEF OperationInv
<1>5. \/ state \in {"M_WAIT", "M_DELAY"} /\ (Wait(rnb) \/ Delay)
      \/ op = 6 /\ state = "M_NAND_READ" /\ ReadPage
      \/ op = 3 /\ state = "M_NAND_READ_ID" /\ ReadId
      \/ op = 2 /\ state = "M_NAND_READ_PARAM_PAGE" /\ ReadParamPage
  <2>1. CASE state \in {"M_WAIT", "M_DELAY"} BY <1>3, <2>1, WaitOnly DEF Inv
  <2>2. CASE state \notin {"M_WAIT", "M_DELAY"}
    <3>1. state = Target(op) BY <1>4, <2>2 DEF Doing
    <3> QED BY <1>1, <1>3, <1>4, <3>1, OperationOnly DEF Inv
  <2> QED BY <2>1, <2>2
<1>6. state \notin RegisterStates \union {"M_RESET"} BY <1>5, SMT DEF RegisterStates
<1>7. Selected' = Selected BY <1>6, PinsKept
<1>8. UNCHANGED config
  <2>1. CASE Wait(rnb) \/ Delay BY <2>1 DEF Wait, Delay
  <2>2. CASE ReadPage \/ ReadId BY <2>2 DEF ReadPage, ReadId
  <2>3. CASE ReadParamPage
    <3>1. substate # "MS_END" BY <2>3, SMT DEF ReadParamPage, Finish
    <3> QED BY <2>3, <3>1, SMT DEF ReadParamPage, config
  <2> QED BY <1>5, <2>1, <2>2, <2>3
<1> QED BY <1>2, <1>4, <1>5, <1>7, <1>8 DEF Code

LEMMA StandingStrobe ==
  ASSUME NEW n, NEW r, NEW done, NEW asked, NEW nwe, NEW cycle, NEW plan,
         Standing(n, r, done, asked, nwe, cycle, plan)
  PROVE  /\ n \in Nat /\ r \in Nat /\ asked = r
         /\ nwe = 0 => asked = 0 /\ 1 <= n /\ n <= Len(plan) /\ Len(done) = n - 1 /\ cycle = plan[n]
         /\ nwe # 0 => Len(done) = n
BY SMT DEF Standing

\* While WE# is low the word of the plan that follows what the chip has taken is on the bus.
LEMMA AtStrobe ==
  ASSUME Full, op \in Transfers, nand_nwe = 0
  PROVE  /\ reads = 0
         /\ \E n \in Nat : /\ 1 <= n /\ n <= Len(Operation!Plan)
                           /\ Len(cycles) = n - 1 /\ BusCycle = Operation!Plan[n]
<1>1. nand_nwe # 1 BY SMT
<1>2. \E n, r : Stage(n, r)
  <2>1. CASE op = 6
    <3>1. ReadStages BY <2>1 DEF Full, OperationInv
    <3> QED BY <1>1, <3>1, Zenon DEF ReadStages, Fresh
  <2>2. CASE op = 3
    <3>1. CountdownStages(5) BY <2>2 DEF Full, OperationInv
    <3> QED BY <1>1, <3>1, Zenon DEF CountdownStages, Fresh
  <2>3. CASE op = 2
    <3>1. CountdownStages(ParamBytes) BY <2>3 DEF Full, OperationInv
    <3> QED BY <1>1, <3>1, Zenon DEF CountdownStages, Fresh
  <2> QED BY <2>1, <2>2, <2>3 DEF Transfers
<1>3. PICK n, r : Stage(n, r) BY <1>2
<1>4. /\ n \in Nat /\ reads = 0 /\ 1 <= n /\ n <= Len(Operation!Plan)
      /\ Len(cycles) = n - 1 /\ BusCycle = Operation!Plan[n]
  BY <1>3, StandingStrobe DEF Stage
<1> QED BY <1>4

\* Where an operation reads, the chip has all of the plan, and reads counts the words.
LEMMA AtRead ==
  ASSUME Full, op \in Transfers, substate \in ReadingData, nand_nwe = 1 \/ reads > 0
  PROVE  /\ nand_nwe = 1 /\ Told
         /\ op = 6 => reads = byte_count
         /\ op = 3 => reads = 5 - byte_count
         /\ op = 2 => reads = ParamBytes - byte_count
<1>1. nand_nwe # 0 /\ nand_nwe = 1
  <2>1. CASE nand_nwe = 1 BY <2>1, SMT
  <2>2. CASE reads > 0
    <3>1. nand_nwe # 0
      <4>1. nand_nwe = 0 => reads = 0 BY AtStrobe
      <4> QED BY <2>2, <4>1, SMT
    <3> QED BY <3>1, Strobes
  <2> QED BY <2>1, <2>2
<1>2. CASE op = 6
  <2>1. ReadStages BY <1>2 DEF Full, OperationInv
  <2>2. Stage(2 + geometry.addr_cycles, byte_count) BY <2>1, Zenon DEF ReadStages, ReadingData
  <2>3. Len(cycles) = 2 + geometry.addr_cycles /\ reads = byte_count
    BY <1>1, <2>2, StandingStrobe DEF Stage
  <2> QED BY <1>1, <1>2, <2>3, SMT DEF Told
<1>3. CASE op \in {2, 3}
  <2>1. PICK size : size = IF op = 3 THEN 5 ELSE ParamBytes OBVIOUS
  <2>2. CountdownStages(size) BY <1>3, <2>1, SMT DEF Full, OperationInv
  <2>3. Stage(2, size - byte_count) BY <2>2, SMT DEF CountdownStages, ReadingData
  <2>4. PICK n, r : n = 2 /\ r = size - byte_count OBVIOUS
  <2>5. Standing(n, r, cycles, reads, nand_nwe, BusCycle, Operation!Plan)
    BY <2>3, <2>4 DEF Stage
  <2>6. Len(cycles) = n /\ reads = r BY <1>1, <2>5, StandingStrobe
  <2>7. cycles # <<>>
    <3>1. Len(<<>>) # 2 BY EmptySeq, SMT
    <3> QED BY <2>4, <2>6, <3>1
  <2> QED BY <1>1, <1>3, <2>1, <2>4, <2>6, <2>7, SMT DEF Told
<1> QED BY <1>2, <1>3 DEF Transfers

\* The cycles the chip latches make it send the words of the command.
LEMMA ChipToldEdge ==
  ASSUME NEW activate, NEW cmd_in, NEW data_in, Carrying(activate, cmd_in, data_in), ChipTold
  PROVE  ChipTold'
<1>1. /\ op' = op /\ Code' = Code /\ Selected' = Selected /\ UNCHANGED config
      /\ cycles' = IF WeRises THEN Append(cycles, BusCycle) ELSE cycles
      /\ reads' = IF ReFalls THEN reads + 1 ELSE reads
  BY CarryingStep
<1>2. /\ TypeInvariant /\ Edge(activate, cmd_in, data_in) /\ Full /\ Watched /\ UnitDiscipline
      /\ HostEarly = FALSE /\ op \in Transfers /\ cycles \in Seq(Cycle)
  BY DEF Carrying, Full, Inv, TimingInv, Assumed, OperationInv
<1>3. geometry' = geometry BY <1>1, Unmoved
<1>4. CASE ~WeRises
  <2>1. Told' <=> Told BY <1>1, <1>3, <1>4 DEF Told
  <2>2. ASSUME Told, NEW c \in Selected
        PROVE  chips'[c].cmd = Code /\ chips'[c].out = reads'
    <3>1. chips[c].cmd = Code /\ chips[c].out = reads BY <2>2 DEF ChipTold
    <3>2. chips'[c].cmd = chips[c].cmd
          /\ chips'[c].out = (IF ReFalls THEN chips[c].out + 1 ELSE chips[c].out)
      BY <1>2, <1>4, OutAged
    <3> QED BY <1>1, <3>1, <3>2
  <2> QED BY <1>1, <2>1, <2>2 DEF ChipTold
<1>5. CASE WeRises
  <2>1. nand_nwe = 0 BY <1>5 DEF WeRises
  <2>2. reads = 0 /\ \E n \in Nat : /\ 1 <= n /\ n <= Len(Operation!Plan)
                                    /\ Len(cycles) = n - 1 /\ BusCycle = Operation!Plan[n]
    BY <1>2, <2>1, AtStrobe
  <2>3. PICK n \in Nat : /\ 1 <= n /\ n <= Len(Operation!Plan)
                         /\ Len(cycles) = n - 1 /\ BusCycle = Operation!Plan[n]
    BY <2>2
  <2>4. ~ReFalls
    <3>1. io_rd_activate => nand_nwe = 1 BY <1>2, ReadStrobe
    <3>2. ~io_rd_activate BY <2>1, <3>1, SMT
    <3> QED BY <1>2, <3>2, ReadStrobe
  <2>5. reads' = 0 BY <1>1, <2>2, <2>4
  <2>6. Len(cycles') = n
    <3>1. BusCycle \in Cycle BY <1>2, CycleOnBus
    <3>2. Len(Append(cycles, BusCycle)) = Len(cycles) + 1 BY <1>2, <3>1, AppendProperties
    <3> QED BY <1>1, <1>5, <2>3, <3>2, SMT
  <2> SUFFICES ASSUME Told', NEW c \in Selected
               PROVE  chips'[c].cmd = Code /\ chips'[c].out = 0
    BY <1>1, <2>5 DEF ChipTold
  <2>7. /\ chips'[c].cmd = IF BusCycle.kind = "command" THEN BusCycle.value ELSE chips[c].cmd
        /\ chips'[c].out = 0 \/ (BusCycle.kind # "command" /\ chips'[c].out = chips[c].out)
    <3>1. chips[c].phase = "ready" BY <1>2, <1>5, ReadyAtRise
    <3> QED BY <1>2, <1>5, <3>1, OutLatched
  <2>8. CASE op = 6
    <3>1. n = 2 + geometry.addr_cycles BY <1>1, <1>3, <2>6, <2>8 DEF Told
    <3>2. BusCycle = command(48) BY <1>2, <2>3, <2>8, <3>1, ReadPlan
    <3> QED BY <2>7, <2>8, <3>2, SMT DEF Code, command
  <2>9. CASE op \in {2, 3}
    <3>1. PICK code \in {236, 144} : op = (IF code = 236 THEN 2 ELSE 3) /\ code = Code
      BY <2>9, SMT DEF Code
    <3>2. /\ Len(Operation!Plan) = 2
          /\ Operation!Plan[1] = command(code) /\ Operation!Plan[2] = address(0)
      BY <3>1, IdentityPlan
    <3>3. n = 1 \/ n = 2 BY <2>3, <3>2, SMT
    <3>4. CASE n = 1
      <4>1. BusCycle = command(code) BY <2>3, <3>2, <3>4
      <4> QED BY <2>7, <3>1, <4>1, SMT DEF command
    <3>5. CASE n = 2
      <4>1. BusCycle = address(0) BY <2>3, <3>2, <3>5
      <4>2. cycles # <<>>
        <5>1. Len(cycles) = 1 BY <2>3, <3>5, SMT
        <5>2. Len(<<>>) # 1 BY EmptySeq, SMT
        <5> QED BY <5>1, <5>2
      <4>3. Told BY <2>9, <4>2, SMT DEF Told
      <4>4. chips[c].cmd = Code /\ chips[c].out = 0 BY <2>2, <4>3 DEF ChipTold
      <4> QED BY <2>7, <4>1, <4>4, SMT DEF address
    <3> QED BY <3>3, <3>4, <3>5
  <2> QED BY <1>2, <2>8, <2>9 DEF Transfers
<1> QED BY <1>4, <1>5

\* A transfer finds the units initialised, and its reader at rest where the FSM does not wait.
LEMMA ReaderReady ==
  ASSUME NEW activate, NEW cmd_in, NEW data_in, Carrying(activate, cmd_in, data_in)
  PROVE  /\ iord.state # "IO_INIT" /\ cle.state # "LATCH_INIT" /\ ale.state # "LATCH_INIT"
         /\ iowr.state # "IO_INIT"
         /\ state \notin {"M_WAIT", "M_DELAY"} /\ substate # "MS_SUBMIT_ADDRESS" =>
              iord.state = "IO_IDLE"
<1>1. /\ UnitDiscipline /\ HostEarly = FALSE /\ TypeInvariant
      /\ state # "M_IDLE" /\ op \in Transfers /\ OperationInv
  BY DEF Carrying, Full, Inv, Assumed
<1>2. state # "M_RESET" BY <1>1, SMT DEF OperationInv, Transfers
<1>3. Initialised BY <1>1, <1>2, SMT DEF UnitDiscipline
<1>4. state \notin {"M_WAIT", "M_DELAY"} /\ substate # "MS_SUBMIT_ADDRESS" => ~IO_RD!active
  BY <1>1, SMT DEF UnitDiscipline, Quiet, At
<1> QED BY <1>3, <1>4, SMT DEF Initialised, IO_RD!active

\* The word the reader samples is the one the chip was asked for last.
LEMMA WordOnBus ==
  ASSUME HoldsBus = TRUE, NEW activate, NEW cmd_in, NEW data_in,
         Carrying(activate, cmd_in, data_in), ChipTold,
         substate \in {"MS_READ_DATA1", "MS_READ_DATA2"}, reads >= 1, IO_RD!Samples,
         NEW c \in Selected, NEW w \in BusWords
  PROVE  w = WordSent(c, Code, reads - 1)
<1>1. /\ TypeInvariant /\ UnitDiscipline /\ OnePin /\ Watched /\ Full /\ op \in Transfers
      /\ reads \in Nat
  BY DEF Carrying, Full, Inv, TimingInv, TypeInvariant
<1>2. bus_out = X
  <2>1. IO_RD!active BY SMT DEF IO_RD!Samples, IO_RD!active
  <2>2. ~ACL!active /\ ~AAL!active /\ ~IO_WR!active
    BY <1>1, <2>1, Zenon DEF UnitDiscipline, OneUnitAtATime
  <2>3. ~ACL!busy /\ ~AAL!busy /\ ~IO_WR!busy
    BY <2>2, ReaderReady, SMT DEF ACL!active, ACL!busy, AAL!active, AAL!busy, IO_WR!active, IO_WR!busy
  <2> QED BY <2>3 DEF bus_out
<1>3. Selected = {c} BY <1>1, SMT DEF OnePin, Selected, Chip
<1>4. chips[c].phase = "ready"
  <2>1. Doing = Target(op) BY CarryingStep
  <2>2. Reading BY <1>1, <2>1, Targets, SMT DEF Reading, Transfers
  <2>3. ~Awaited(chips[c]) BY <2>2, AwaitedPlace
  <2> QED BY <1>1, <2>3 DEF Watched, Selected
<1>5. chips[c].cmd = Code /\ chips[c].out = reads
  <2>1. Told
    <3>1. reads > 0 BY <1>1, SMT
    <3> QED BY <1>1, <3>1, AtRead DEF ReadingData
  <2> QED BY <2>1 DEF ChipTold
<1>6. chips[c].out > 0 BY <1>1, <1>5, SMT
<1> DEFINE word(e) == IF chips[e].phase = "ready" /\ chips[e].out > 0
                        THEN WordSent(e, chips[e].cmd, chips[e].out - 1) ELSE X
           sent == {word(e) : e \in Selected}
<1>7. BusWords = sent
  <2>1. sent # {} BY <1>3
  <2>2. BusWords = IF ~IO_RD!Samples THEN {X}
                   ELSE IF bus_out # X THEN IF nand_nre = 0 /\ sent # {} THEN {X} ELSE {bus_out}
                   ELSE IF sent = {} THEN {X}
                   ELSE IF nand_nre = 0 \/ HoldsBus THEN sent ELSE sent \union {X}
    BY Zenon DEF BusWords, WordSent
  <2> HIDE DEF sent
  <2> QED BY <1>2, <2>1, <2>2
<1>8. word(c) = WordSent(c, Code, reads - 1) BY <1>4, <1>5, <1>6
<1> QED BY <1>3, <1>7, <1>8

\* The FSM waits for the word, and then looks at it.
LEMMA TakenEdge ==
  ASSUME HoldsBus = TRUE, 2 <= t_rea, NEW activate, NEW cmd_in, NEW data_in,
         Carrying(activate, cmd_in, data_in), ChipTold, Taken
  PROVE  Taken'
<1>1. /\ op' = op /\ Code' = Code /\ Selected' = Selected
      /\ reads' = IF ReFalls THEN reads + 1 ELSE reads
      /\ \/ state \in {"M_WAIT", "M_DELAY"} /\ (Wait(rnb) \/ Delay)
         \/ op = 6 /\ state = "M_NAND_READ" /\ ReadPage
         \/ op = 3 /\ state = "M_NAND_READ_ID" /\ ReadId
         \/ op = 2 /\ state = "M_NAND_READ_PARAM_PAGE" /\ ReadParamPage
  BY CarryingStep
<1>2. /\ TypeInvariant /\ Edge(activate, cmd_in, data_in) /\ Placed /\ UnitDiscipline
      /\ HostEarly = FALSE /\ op \in Transfers /\ reads \in Nat
  BY DEF Carrying, Full, Inv, Assumed, TypeInvariant
<1>3. io_rd_activate \in BOOLEAN /\ IO_RD!IoType(Word) BY <1>2, EdgeUnits
<1>4. PICK w \in Word : w \in BusWords /\ IO_RD!Tick(io_rd_activate, w)
  BY <1>2 DEF Edge, Step
<1>5. /\ iord'.data_reg = IF IO_RD!Samples THEN w ELSE iord.data_reg
      /\ iord.state = "IO_DELAY" /\ iord.n_state = "IO_HOLD" /\ iord.delay >= 2 =>
           \/ IO_RD!Samples
           \/ iord'.state = "IO_DELAY" /\ iord'.n_state = "IO_HOLD" /\ iord'.delay >= 2
      /\ io_rd_activate /\ ~IO_RD!busy =>
           iord'.state = "IO_DELAY" /\ iord'.n_state = "IO_HOLD" /\ iord'.delay = t_rea
  BY <1>3, <1>4, ReaderReady, ReaderSamples
<1> SUFFICES ASSUME substate' \in {"MS_READ_DATA1", "MS_READ_DATA2"}
             PROVE  /\ reads' >= 1
                    /\ \A c \in Selected :
                         \/ iord'.data_reg = WordSent(c, Code, reads' - 1)
                         \/ /\ iord'.state = "IO_DELAY" /\ iord'.n_state = "IO_HOLD"
                            /\ iord'.delay >= 2
  BY <1>1 DEF Taken
<1>6. CASE Wait(rnb) \/ Delay
  <2>1. substate' = substate /\ state \in {"M_WAIT", "M_DELAY"}
    BY <1>2, <1>6, WaitEdge DEF Wait, Delay
  <2>2. ~ReFalls BY <1>2, <2>1, OneActivation, ReadStrobe
  <2>3. reads' = reads BY <1>1, <2>2
  <2>4. /\ reads >= 1
        /\ \A c \in Selected :
             \/ iord.data_reg = WordSent(c, Code, reads - 1)
             \/ iord.state = "IO_DELAY" /\ iord.n_state = "IO_HOLD" /\ iord.delay >= 2
    BY <1>2, <2>1 DEF Taken
  <2>5. IO_RD!Samples => \A c \in Selected : w = WordSent(c, Code, reads - 1)
    BY <1>4, <2>1, <2>4, WordOnBus
  <2> QED BY <1>5, <2>3, <2>4, <2>5
<1>7. CASE state \notin {"M_WAIT", "M_DELAY"}
  <2>1. \/ substate = "MS_READ_DATA0" /\ io_rd_activate
        \/ substate = "MS_READ_DATA1" /\ substate' = "MS_READ_DATA2" /\ ~io_rd_activate
    <3>1. CASE op = 6 /\ state = "M_NAND_READ" /\ ReadPage
      BY <3>1, SMT DEF ReadPage, WaitFor, Continue, Finish, io_rd_activate, At
    <3>2. CASE op = 3 /\ state = "M_NAND_READ_ID" /\ ReadId
      BY <3>2, SMT DEF ReadId, WaitFor, DelayFor, Continue, Finish, io_rd_activate, At
    <3>3. CASE op = 2 /\ state = "M_NAND_READ_PARAM_PAGE" /\ ReadParamPage
      BY <3>3, SMT DEF ReadParamPage, WaitFor, Continue, Finish, io_rd_activate, At
    <3> QED BY <1>1, <1>7, <3>1, <3>2, <3>3
  <2>2. CASE substate = "MS_READ_DATA0" /\ io_rd_activate
    <3>1. ReFalls BY <1>2, <2>2, ReadStrobe
    <3>2. reads' >= 1 BY <1>1, <1>2, <3>1, SMT
    <3>3. ~IO_RD!busy BY <1>2, <2>2, UnitsIdle
    <3>4. iord'.state = "IO_DELAY" /\ iord'.n_state = "IO_HOLD" /\ iord'.delay >= 2
      BY <1>5, <2>2, <3>3
    <3> QED BY <3>2, <3>4
  <2>3. CASE substate = "MS_READ_DATA1" /\ substate' = "MS_READ_DATA2" /\ ~io_rd_activate
    <3>1. reads' = reads BY <1>1, <1>2, <2>3, ReadStrobe
    <3>2. iord.state = "IO_IDLE" BY <1>7, <2>3, ReaderReady
    <3>3. ~IO_RD!Samples BY <3>2, SMT DEF IO_RD!Samples
    <3>4. /\ reads >= 1
          /\ \A c \in Selected : iord.data_reg = WordSent(c, Code, reads - 1)
      BY <1>2, <2>3, <3>2, SMT DEF Taken
    <3> QED BY <1>5, <3>1, <3>3, <3>4
  <2> QED BY <2>1, <2>2, <2>3
<1> QED BY <1>1, <1>6, <1>7

-----------------------------------------------------------------------------
(* The cells a transfer fills *)

LEMMA SentBytes ==
  /\ \A chip, k : SentByte(chip, 48, k) =
       IF Wide THEN IF k % 2 = 0 THEN LowByte(WordSent(chip, 48, k \div 2))
                                 ELSE HighByte(WordSent(chip, 48, k \div 2))
               ELSE LowByte(WordSent(chip, 48, k))
  /\ \A chip, cmd, k : cmd # 48 => SentByte(chip, cmd, k) = LowByte(WordSent(chip, cmd, k))
BY Zenon DEF SentByte, WordSent

\* One byte more of what the chip sent.
LEMMA OneMore ==
  ASSUME NEW mem, DOMAIN mem \subseteq Nat, NEW i \in Nat, NEW b, NEW cmd,
         Delivered(mem, cmd, i), \A c \in Selected : b = SentByte(c, cmd, i)
  PROVE  Delivered([mem EXCEPT ![i] = b], cmd, i + 1)
<1> DEFINE more == [mem EXCEPT ![i] = b]
<1> SUFFICES ASSUME NEW c \in Selected, NEW k \in DOMAIN mem, k < i + 1
             PROVE  more[k] = SentByte(c, cmd, k)
  BY DEF Delivered
<1>1. k < i \/ k = i BY SMT
<1>2. CASE k = i BY <1>2
<1>3. CASE k < i
  <2>1. k # i BY <1>3, SMT
  <2>2. more[k] = mem[k] BY <2>1
  <2> QED BY <1>3, <2>2 DEF Delivered
<1> QED BY <1>1, <1>2, <1>3

LEMMA NothingYet ==
  ASSUME NEW mem, DOMAIN mem \subseteq Nat, NEW cmd
  PROVE  Delivered(mem, cmd, 0)
<1>1. \A k \in DOMAIN mem : ~(k < 0) BY SMT
<1> QED BY <1>1 DEF Delivered

\* What the memories are, and what writing to one of them leaves in it.
LEMMA Memories ==
  ASSUME TypeInvariant
  PROVE  /\ buf.page_data \in [0..(PageDepth - 1) -> Byte] /\ DOMAIN buf.page_data \subseteq Nat
         /\ DOMAIN buf.chip_id \subseteq Nat /\ DOMAIN buf.page_param \subseteq Nat
         /\ \A mem : [buf EXCEPT !.page_data = mem].page_data = mem
         /\ \A i, b : [buf EXCEPT !.chip_id[i] = b].chip_id = [buf.chip_id EXCEPT ![i] = b]
         /\ \A i, b : [buf EXCEPT !.page_param[i] = b].page_param = [buf.page_param EXCEPT ![i] = b]
<1>1. buf \in [page_data : [0..(PageDepth - 1) -> Byte], page_param : [ParamIndex -> Byte],
               chip_id : [0..4 -> Byte], current_address : [0..4 -> Byte]]
  BY DEF TypeInvariant, MasterType, DataType
<1>2. ParamIndex \subseteq Nat /\ PageDepth \in Nat /\ 0..(PageDepth - 1) \subseteq Nat /\ 0..4 \subseteq Nat
  BY GeometryAssumption, SMT
<1>3. /\ buf.page_data \in [0..(PageDepth - 1) -> Byte] /\ buf.page_param \in [ParamIndex -> Byte]
      /\ buf.chip_id \in [0..4 -> Byte]
  BY <1>1, Zenon
<1>4. DOMAIN buf = {"page_data", "page_param", "chip_id", "current_address"} BY <1>1, Zenon
<1>5. \A mem : [buf EXCEPT !.page_data = mem].page_data = mem BY <1>4, Zenon
<1>6. \A i, b : [buf EXCEPT !.chip_id[i] = b].chip_id = [buf.chip_id EXCEPT ![i] = b]
  BY <1>4, Zenon
<1>7. \A i, b : [buf EXCEPT !.page_param[i] = b].page_param = [buf.page_param EXCEPT ![i] = b]
  BY <1>4, Zenon
<1> QED BY <1>2, <1>3, <1>5, <1>6, <1>7, Zenon

\* The word an operation looks at is the one it asked for last.
LEMMA WordTaken ==
  ASSUME NEW activate, NEW cmd_in, NEW data_in, Carrying(activate, cmd_in, data_in), Taken,
         state \notin {"M_WAIT", "M_DELAY"}, substate \in {"MS_READ_DATA1", "MS_READ_DATA2"}
  PROVE  reads >= 1 /\ \A c \in Selected : iord.data_reg = WordSent(c, Code, reads - 1)
<1>1. iord.state = "IO_IDLE" BY ReaderReady
<1>2. op \in Transfers BY DEF Carrying
<1> QED BY <1>1, <1>2, SMT DEF Taken

\* A byte of a page, at the place of its word.
LEMMA PageCells ==
  ASSUME NEW n \in Nat, n >= 1
  PROVE  /\ (2 * (n - 1)) % 2 = 0 /\ (2 * (n - 1)) \div 2 = n - 1
         /\ (2 * n - 1) % 2 # 0 /\ (2 * n - 1) \div 2 = n - 1
         /\ Cells(n - 1) = IF Wide THEN 2 * (n - 1) ELSE n - 1
BY SMT DEF Cells

\* What the chips selected now sent, they sent one clock later too.
LEMMA SentStands ==
  ASSUME Selected' = Selected, Wide' = Wide, NEW mem, NEW n, NEW cmd, Delivered(mem, cmd, n)
  PROVE  \A c \in Selected', k \in DOMAIN mem : k < n => mem[k] = SentByte(c, cmd, k)'
<1>1. \A c \in Selected', k \in DOMAIN mem : k < n => mem[k] = SentByte(c, cmd, k)
  BY Zenon DEF Delivered
<1>2. ASSUME NEW c, NEW k PROVE SentByte(c, cmd, k)' = SentByte(c, cmd, k)
  BY Zenon DEF SentByte
<1> QED BY <1>1, <1>2, SMT

LEMMA PageStands ==
  ASSUME Selected' = Selected, Wide' = Wide, NEW mem, NEW n, mem = buf'.page_data, n = page_idx',
         NEW cmd, Delivered(mem, cmd, n)
  PROVE  Delivered(buf.page_data, cmd, page_idx)'
<1>1. \A c \in Selected', k \in DOMAIN (buf'.page_data) :
        k < page_idx' => buf'.page_data[k] = SentByte(c, cmd, k)'
  <2>1. \A c \in Selected', k \in DOMAIN mem : k < n => mem[k] = SentByte(c, cmd, k)'
    BY SentStands
  <2> QED BY <2>1, Zenon
<1> QED BY <1>1, Zenon DEF Delivered

LEMMA IdStands ==
  ASSUME Selected' = Selected, Wide' = Wide, NEW mem, NEW n, mem = buf'.chip_id, n = page_idx',
         NEW cmd, Delivered(mem, cmd, n)
  PROVE  Delivered(buf.chip_id, cmd, page_idx)'
<1>1. \A c \in Selected', k \in DOMAIN (buf'.chip_id) :
        k < page_idx' => buf'.chip_id[k] = SentByte(c, cmd, k)'
  <2>1. \A c \in Selected', k \in DOMAIN mem : k < n => mem[k] = SentByte(c, cmd, k)'
    BY SentStands
  <2> QED BY <2>1, Zenon
<1> QED BY <1>1, Zenon DEF Delivered

LEMMA IdStandsWhole ==
  ASSUME Selected' = Selected, Wide' = Wide, NEW mem, mem = buf'.chip_id,
         NEW cmd, Delivered(mem, cmd, 5)
  PROVE  Delivered(buf.chip_id, cmd, 5)'
<1>1. \A c \in Selected', k \in DOMAIN (buf'.chip_id) :
        k < 5 => buf'.chip_id[k] = SentByte(c, cmd, k)'
  <2>1. \A c \in Selected', k \in DOMAIN mem : k < 5 => mem[k] = SentByte(c, cmd, k)'
    BY SentStands
  <2> QED BY <2>1, Zenon
<1> QED BY <1>1, Zenon DEF Delivered

LEMMA ParamStands ==
  ASSUME Selected' = Selected, Wide' = Wide, NEW mem, NEW n, mem = buf'.page_param, n = page_idx',
         NEW cmd, Delivered(mem, cmd, n)
  PROVE  Delivered(buf.page_param, cmd, page_idx)'
<1>1. \A c \in Selected', k \in DOMAIN (buf'.page_param) :
        k < page_idx' => buf'.page_param[k] = SentByte(c, cmd, k)'
  <2>1. \A c \in Selected', k \in DOMAIN mem : k < n => mem[k] = SentByte(c, cmd, k)'
    BY SentStands
  <2> QED BY <2>1, Zenon
<1> QED BY <1>1, Zenon DEF Delivered

LEMMA ParamStandsWhole ==
  ASSUME Selected' = Selected, Wide' = Wide, NEW mem, mem = buf'.page_param,
         NEW cmd, Delivered(mem, cmd, ParamBytes)
  PROVE  Delivered(buf.page_param, cmd, ParamBytes)'
<1>1. \A c \in Selected', k \in DOMAIN (buf'.page_param) :
        k < ParamBytes => buf'.page_param[k] = SentByte(c, cmd, k)'
  <2>1. \A c \in Selected', k \in DOMAIN mem : k < ParamBytes => mem[k] = SentByte(c, cmd, k)'
    BY SentStands
  <2> QED BY <2>1, Zenon
<1> QED BY <1>1, Zenon DEF Delivered

\* It is enough that the cells hold what the chips selected now sent.
LEMMA FilledNow ==
  ASSUME op' = op, Selected' = Selected, UNCHANGED config,
         op = 6 /\ substate' \in ReadingData \union {"MS_END"} =>
           Delivered(buf'.page_data, 48, page_idx'),
         op = 3 /\ substate' \in ReadingData => Delivered(buf'.chip_id, 144, page_idx'),
         op = 3 /\ substate' = "MS_END" => Delivered(buf'.chip_id, 144, 5),
         op = 2 /\ substate' \in ReadingData => Delivered(buf'.page_param, 236, page_idx'),
         op = 2 /\ substate' = "MS_END" => Delivered(buf'.page_param, 236, ParamBytes)
  PROVE  Filled'
<1>1. PICK page, id, par, n : /\ page = buf'.page_data /\ id = buf'.chip_id
                              /\ par = buf'.page_param /\ n = page_idx'
  OBVIOUS
<1>2. Wide' = Wide BY Unmoved
<1>3. PICK read, code, cmd : read = 48 /\ code = 144 /\ cmd = 236
  BY SMT
<1>4. op = 6 /\ substate' \in ReadingData \union {"MS_END"} =>
        Delivered(buf.page_data, read, page_idx)'
  BY <1>1, <1>2, <1>3, PageStands
<1>5. op = 3 /\ substate' \in ReadingData => Delivered(buf.chip_id, code, page_idx)'
  BY <1>1, <1>2, <1>3, IdStands
<1>6. op = 3 /\ substate' = "MS_END" => Delivered(buf.chip_id, code, 5)'
  BY <1>1, <1>2, <1>3, IdStandsWhole
<1>7. op = 2 /\ substate' \in ReadingData => Delivered(buf.page_param, cmd, page_idx)'
  BY <1>1, <1>2, <1>3, ParamStands
<1>8. op = 2 /\ substate' = "MS_END" => Delivered(buf.page_param, cmd, ParamBytes)'
  BY <1>1, <1>2, <1>3, ParamStandsWhole
<1> QED BY <1>3, <1>4, <1>5, <1>6, <1>7, <1>8 DEF Filled, ReadingData

\* A step that moves neither the index nor the cells.
LEMMA FilledStays ==
  ASSUME Filled, UNCHANGED <<op, substate, page_idx, buf>>, UNCHANGED config, Selected' = Selected
  PROVE  Filled'
<1>1. /\ op = 6 /\ substate \in ReadingData \union {"MS_END"} =>
           Delivered(buf.page_data, 48, page_idx)
      /\ op = 3 /\ substate \in ReadingData => Delivered(buf.chip_id, 144, page_idx)
      /\ op = 3 /\ substate = "MS_END" => Delivered(buf.chip_id, 144, 5)
      /\ op = 2 /\ substate \in ReadingData => Delivered(buf.page_param, 236, page_idx)
      /\ op = 2 /\ substate = "MS_END" => Delivered(buf.page_param, 236, ParamBytes)
  BY DEF Filled
<1> QED BY <1>1, FilledNow

\* The next cell gets a byte of the word that was asked for last, the one that is due there.
LEMMA ReadPageFills ==
  ASSUME NEW activate, NEW cmd_in, NEW data_in, Carrying(activate, cmd_in, data_in), Taken, Filled,
         op = 6, state = "M_NAND_READ", ReadPage,
         substate' \in ReadingData \union {"MS_END"}
  PROVE  Delivered(buf'.page_data, 48, page_idx')
<1>1. /\ TypeInvariant /\ IndexInv /\ Fits /\ Full /\ op \in Transfers
      /\ byte_count \in Int /\ page_idx \in Nat /\ PageBytes \in Nat /\ Code = 48
      /\ state' # "M_IDLE"
  BY FullIsFit, SMT DEF Carrying, Full, Inv, TypeInvariant, MasterType, CounterType, ConfigType,
     PageBytes, Code
<1>2. AddressIndex /\ ReadIndex BY <1>1, SMT DEF IndexInv, Doing
<1>3. substate \in {"MS_WAIT_tRR", "MS_READ_DATA0", "MS_READ_DATA1", "MS_READ_DATA2"}
  BY <1>1, SMT DEF ReadPage, WaitFor, Continue, Finish, ReadingData
<1>4. CASE substate = "MS_WAIT_tRR"
  <2>1. buf' = buf /\ page_idx' = 0 BY <1>4, SMT DEF ReadPage
  <2>2. PICK mem : mem = buf.page_data OBVIOUS
  <2>3. Delivered(mem, 48, 0) BY <1>1, <2>2, NothingYet, Memories
  <2> QED BY <2>1, <2>2, <2>3
<1>5. CASE substate = "MS_READ_DATA0"
  <2>1. buf' = buf /\ page_idx' = page_idx BY <1>5, SMT DEF ReadPage
  <2>2. Delivered(buf.page_data, 48, page_idx) BY <1>5 DEF Filled, ReadingData
  <2> QED BY <2>1, <2>2
<1>6. CASE substate \in {"MS_READ_DATA1", "MS_READ_DATA2"}
  <2>1. page_idx < PageDepth
    <3>1. IndexInBounds BY <1>1, IndexWithin
    <3> QED BY <1>6, <3>1 DEF IndexInBounds
  <2>2. /\ page_idx' = page_idx + 1
        /\ \E mem \in Store(buf.page_data, page_idx,
                            IF substate = "MS_READ_DATA1" THEN LowByte(iord.data_reg)
                                                          ELSE HighByte(iord.data_reg)) :
             buf' = [buf EXCEPT !.page_data = mem]
    BY <1>6, SMT DEF ReadPage
  <2>3. PICK mem, b, i : /\ mem = buf.page_data /\ i = page_idx
                         /\ b = IF substate = "MS_READ_DATA1" THEN LowByte(iord.data_reg)
                                                              ELSE HighByte(iord.data_reg)
    OBVIOUS
  <2>4. mem \in [0..(PageDepth - 1) -> Byte] /\ DOMAIN mem \subseteq Nat
    BY <1>1, <2>3, Memories
  <2>5. i \in DOMAIN mem /\ i \in Nat
    <3>1. i \in 0..(PageDepth - 1) BY <1>1, <2>1, <2>3, GeometryAssumption, SMT
    <3> QED BY <1>1, <2>3, <2>4, <3>1
  <2>6. buf'.page_data = [mem EXCEPT ![i] = b]
    <3>1. Store(mem, i, b) = {[mem EXCEPT ![i] = b]} BY <2>5 DEF Store
    <3>2. buf' = [buf EXCEPT !.page_data = [mem EXCEPT ![i] = b]] BY <2>2, <2>3, <3>1
    <3> QED BY <1>1, <3>2, Memories
  <2>7. reads >= 1 /\ \A c \in Selected : iord.data_reg = WordSent(c, 48, reads - 1)
    BY <1>1, <1>6, WordTaken
  <2>8. reads = byte_count
    <3>1. reads > 0 BY <1>1, <2>7, SMT DEF TypeInvariant
    <3> QED BY <1>1, <1>6, <3>1, AtRead DEF ReadingData
  <2>9. PICK n \in Nat : n = byte_count /\ n >= 1 BY <1>1, <2>7, <2>8, SMT
  <2>10. \A c \in Selected : b = SentByte(c, 48, i)
    <3> SUFFICES ASSUME NEW c \in Selected PROVE b = SentByte(c, 48, i)
      OBVIOUS
    <3>1. PICK w : w = WordSent(c, 48, n - 1) OBVIOUS
    <3>2. iord.data_reg = w BY <2>7, <2>8, <2>9, <3>1
    <3>3. SentByte(c, 48, i) =
            IF Wide THEN IF i % 2 = 0 THEN LowByte(WordSent(c, 48, i \div 2))
                                      ELSE HighByte(WordSent(c, 48, i \div 2))
                    ELSE LowByte(WordSent(c, 48, i))
      BY SentBytes
    <3>4. CASE substate = "MS_READ_DATA1"
      <4>1. i = IF Wide THEN 2 * (n - 1) ELSE n - 1
        BY <1>2, <2>3, <2>9, <3>4, PageCells, SMT DEF ReadIndex
      <4>2. b = LowByte(w) BY <2>3, <3>2, <3>4
      <4>3. CASE Wide
        <5>1. i % 2 = 0 /\ i \div 2 = n - 1 BY <2>9, <4>1, <4>3, PageCells
        <5> QED BY <3>1, <3>3, <4>2, <4>3, <5>1
      <4>4. CASE ~Wide BY <3>1, <3>3, <4>1, <4>2, <4>4
      <4> QED BY <4>3, <4>4
    <3>5. CASE substate = "MS_READ_DATA2"
      <4>1. Wide /\ i = 2 * n - 1 BY <1>2, <2>3, <2>9, <3>5, SMT DEF ReadIndex
      <4>2. b = HighByte(w) BY <2>3, <3>2, <3>5, SMT
      <4>3. i % 2 # 0 /\ i \div 2 = n - 1 BY <2>9, <4>1, PageCells
      <4> QED BY <3>1, <3>3, <4>1, <4>2, <4>3
    <3> QED BY <1>6, <3>4, <3>5
  <2>11. Delivered(mem, 48, i) BY <1>6, <2>3 DEF Filled, ReadingData
  <2>12. PICK cmd : cmd = 48 OBVIOUS
  <2>13. Delivered([mem EXCEPT ![i] = b], cmd, i + 1)
    BY <2>4, <2>5, <2>10, <2>11, <2>12, OneMore
  <2> QED BY <2>2, <2>3, <2>6, <2>12, <2>13
<1> QED BY <1>3, <1>4, <1>5, <1>6

\* The five bytes of the identity; the index stays on the last cell.
LEMMA ReadIdFills ==
  ASSUME NEW activate, NEW cmd_in, NEW data_in, Carrying(activate, cmd_in, data_in), Taken, Filled,
         op = 3, state = "M_NAND_READ_ID", ReadId
  PROVE  /\ substate' \in ReadingData => Delivered(buf'.chip_id, 144, page_idx')
         /\ substate' = "MS_END" => Delivered(buf'.chip_id, 144, 5)
<1>1. /\ TypeInvariant /\ IndexInv /\ Full /\ op \in Transfers
      /\ byte_count \in Int /\ page_idx \in Nat /\ Code = 144 /\ state' # "M_IDLE"
  BY SMT DEF Carrying, Full, Inv, TypeInvariant, MasterType, CounterType, Code
<1>2. CountdownIndex(5) BY <1>1, SMT DEF IndexInv, Doing
<1>3. CASE substate = "MS_SUBMIT_ADDRESS"
  <2>1. buf' = buf /\ page_idx' = 0 /\ substate' # "MS_END" BY <1>3, SMT DEF ReadId, DelayFor
  <2>2. PICK mem : mem = buf.chip_id OBVIOUS
  <2>3. Delivered(mem, 144, 0) BY <1>1, <2>2, NothingYet, Memories
  <2> QED BY <2>1, <2>2, <2>3
<1>4. CASE substate = "MS_READ_DATA0"
  <2>1. buf' = buf /\ page_idx' = page_idx /\ substate' # "MS_END" BY <1>4, SMT DEF ReadId, WaitFor
  <2>2. Delivered(buf.chip_id, 144, page_idx) BY <1>1, <1>4 DEF Filled, ReadingData
  <2> QED BY <2>1, <2>2
<1>5. CASE substate = "MS_READ_DATA1"
  <2>1. /\ buf' = [buf EXCEPT !.chip_id[page_idx] = LowByte(iord.data_reg)]
        /\ page_idx' = IF 0 < byte_count THEN page_idx + 1 ELSE page_idx
        /\ substate' = IF 0 < byte_count THEN "MS_READ_DATA0" ELSE "MS_END"
    BY <1>5, SMT DEF ReadId, Continue
  <2>2. PICK mem, b, i : mem = buf.chip_id /\ b = LowByte(iord.data_reg) /\ i = page_idx
    OBVIOUS
  <2>3. buf'.chip_id = [mem EXCEPT ![i] = b]
    <3>1. [buf EXCEPT !.chip_id[i] = b].chip_id = [buf.chip_id EXCEPT ![i] = b] BY <1>1, Memories
    <3> QED BY <2>1, <2>2, <3>1
  <2>4. reads >= 1 /\ \A c \in Selected : iord.data_reg = WordSent(c, 144, reads - 1)
    BY <1>1, <1>5, WordTaken
  <2>5. reads - 1 = i
    <3>1. reads > 0 BY <1>1, <2>4, SMT DEF TypeInvariant
    <3>2. reads = 5 - byte_count BY <1>1, <1>5, <3>1, AtRead DEF ReadingData
    <3> QED BY <1>1, <1>2, <1>5, <2>2, <3>2, SMT DEF CountdownIndex
  <2>6. \A c \in Selected : b = SentByte(c, 144, i)
    <3>1. PICK cmd : cmd = 144 OBVIOUS
    <3>2. \A c : SentByte(c, cmd, i) = LowByte(WordSent(c, cmd, i)) BY <3>1, SentBytes
    <3> QED BY <2>2, <2>4, <2>5, <3>1, <3>2
  <2>7. Delivered(mem, 144, i) BY <1>1, <1>5, <2>2 DEF Filled, ReadingData
  <2>8. PICK cmd, n : cmd = 144 /\ n = i + 1 OBVIOUS
  <2>9. Delivered([mem EXCEPT ![i] = b], cmd, n)
    <3>1. DOMAIN mem \subseteq Nat BY <1>1, <2>2, Memories
    <3> QED BY <1>1, <2>2, <2>6, <2>7, <2>8, <3>1, OneMore
  <2>10. IF 0 < byte_count THEN page_idx' = n ELSE n = 5
    BY <1>1, <1>2, <1>5, <2>1, <2>2, <2>8, SMT DEF CountdownIndex
  <2> QED BY <2>1, <2>3, <2>8, <2>9, <2>10, SMT DEF ReadingData
<1>6. CASE substate \notin {"MS_SUBMIT_ADDRESS", "MS_READ_DATA0", "MS_READ_DATA1"}
  BY <1>1, <1>6, SMT DEF ReadId, WaitFor, Finish, ReadingData
<1> QED BY <1>3, <1>4, <1>5, <1>6

\* The bytes of the parameter page. A cell that is not tracked is not written.
LEMMA ReadParamFills ==
  ASSUME NEW activate, NEW cmd_in, NEW data_in, Carrying(activate, cmd_in, data_in), Taken, Filled,
         op = 2, state = "M_NAND_READ_PARAM_PAGE", ReadParamPage
  PROVE  /\ substate' \in ReadingData => Delivered(buf'.page_param, 236, page_idx')
         /\ substate' = "MS_END" => Delivered(buf'.page_param, 236, ParamBytes)
<1>1. /\ TypeInvariant /\ IndexInv /\ Full /\ op \in Transfers /\ ParamBytes \in Nat
      /\ byte_count \in Int /\ page_idx \in Nat /\ Code = 236 /\ state' # "M_IDLE"
  BY GeometryAssumption, SMT DEF Carrying, Full, Inv, TypeInvariant, MasterType, CounterType, Code
<1>2. CountdownIndex(ParamBytes) BY <1>1, SMT DEF IndexInv, Doing
<1>3. CASE substate = "MS_WAIT_tRR"
  <2>1. buf' = buf /\ page_idx' = 0 /\ substate' # "MS_END"
    BY <1>3, SMT DEF ReadParamPage, WaitFor
  <2>2. PICK mem : mem = buf.page_param OBVIOUS
  <2>3. Delivered(mem, 236, 0) BY <1>1, <2>2, NothingYet, Memories
  <2> QED BY <2>1, <2>2, <2>3
<1>4. CASE substate = "MS_READ_DATA0"
  <2>1. buf' = buf /\ page_idx' = page_idx /\ substate' # "MS_END"
    BY <1>4, SMT DEF ReadParamPage, WaitFor
  <2>2. Delivered(buf.page_param, 236, page_idx) BY <1>1, <1>4 DEF Filled, ReadingData
  <2> QED BY <2>1, <2>2
<1>5. CASE substate = "MS_READ_DATA1"
  <2>1. /\ buf' = [buf EXCEPT !.page_param[page_idx] = LowByte(iord.data_reg)]
        /\ page_idx' = IF 0 < byte_count THEN page_idx + 1 ELSE page_idx
        /\ substate' = IF 0 < byte_count THEN "MS_READ_DATA0" ELSE "MS_END"
    BY <1>5, SMT DEF ReadParamPage, Continue
  <2>2. PICK mem, b, i : mem = buf.page_param /\ b = LowByte(iord.data_reg) /\ i = page_idx
    OBVIOUS
  <2>3. buf'.page_param = [mem EXCEPT ![i] = b]
    <3>1. [buf EXCEPT !.page_param[i] = b].page_param = [buf.page_param EXCEPT ![i] = b]
      BY <1>1, Memories
    <3> QED BY <2>1, <2>2, <3>1
  <2>4. reads >= 1 /\ \A c \in Selected : iord.data_reg = WordSent(c, 236, reads - 1)
    BY <1>1, <1>5, WordTaken
  <2>5. reads - 1 = i
    <3>1. reads > 0 BY <1>1, <2>4, SMT DEF TypeInvariant
    <3>2. reads = ParamBytes - byte_count BY <1>1, <1>5, <3>1, AtRead DEF ReadingData
    <3> QED BY <1>1, <1>2, <1>5, <2>2, <3>2, SMT DEF CountdownIndex
  <2>6. \A c \in Selected : b = SentByte(c, 236, i)
    <3>1. PICK cmd : cmd = 236 OBVIOUS
    <3>2. \A c : SentByte(c, cmd, i) = LowByte(WordSent(c, cmd, i)) BY <3>1, SentBytes
    <3> QED BY <2>2, <2>4, <2>5, <3>1, <3>2
  <2>7. Delivered(mem, 236, i) BY <1>1, <1>5, <2>2 DEF Filled, ReadingData
  <2>8. PICK cmd, n : cmd = 236 /\ n = i + 1 OBVIOUS
  <2>9. Delivered([mem EXCEPT ![i] = b], cmd, n)
    <3>1. DOMAIN mem \subseteq Nat BY <1>1, <2>2, Memories
    <3> QED BY <1>1, <2>2, <2>6, <2>7, <2>8, <3>1, OneMore
  <2>10. IF 0 < byte_count THEN page_idx' = n ELSE n = ParamBytes
    BY <1>1, <1>2, <1>5, <2>1, <2>2, <2>8, SMT DEF CountdownIndex
  <2> QED BY <2>1, <2>3, <2>8, <2>9, <2>10, SMT DEF ReadingData
<1>6. CASE substate \notin {"MS_WAIT_tRR", "MS_READ_DATA0", "MS_READ_DATA1"}
  BY <1>1, <1>6, SMT DEF ReadParamPage, WaitFor, Finish, ReadingData
<1> QED BY <1>3, <1>4, <1>5, <1>6

LEMMA FilledEdge ==
  ASSUME NEW activate, NEW cmd_in, NEW data_in, Carrying(activate, cmd_in, data_in), Taken, Filled
  PROVE  Filled'
<1>1. /\ op' = op /\ Selected' = Selected /\ UNCHANGED config
      /\ \/ state \in {"M_WAIT", "M_DELAY"} /\ (Wait(rnb) \/ Delay)
         \/ op = 6 /\ state = "M_NAND_READ" /\ ReadPage
         \/ op = 3 /\ state = "M_NAND_READ_ID" /\ ReadId
         \/ op = 2 /\ state = "M_NAND_READ_PARAM_PAGE" /\ ReadParamPage
  BY CarryingStep
<1>2. CASE Wait(rnb) \/ Delay
  <2>1. UNCHANGED <<substate, page_idx, buf>> BY <1>2 DEF Wait, Delay
  <2> QED BY <1>1, <2>1, FilledStays
<1>3. CASE op = 6 /\ state = "M_NAND_READ" /\ ReadPage
  <2>1. op # 3 /\ op # 2 BY <1>3, SMT
  <2>2. substate' \in ReadingData \union {"MS_END"} => Delivered(buf'.page_data, 48, page_idx')
    BY <1>3, ReadPageFills
  <2> QED BY <1>1, <2>1, <2>2, FilledNow
<1>4. CASE op = 3 /\ state = "M_NAND_READ_ID" /\ ReadId
  <2>1. op # 6 /\ op # 2 BY <1>4, SMT
  <2>2. /\ substate' \in ReadingData => Delivered(buf'.chip_id, 144, page_idx')
        /\ substate' = "MS_END" => Delivered(buf'.chip_id, 144, 5)
    BY <1>4, ReadIdFills
  <2> QED BY <1>1, <2>1, <2>2, FilledNow
<1>5. CASE op = 2 /\ state = "M_NAND_READ_PARAM_PAGE" /\ ReadParamPage
  <2>1. op # 6 /\ op # 3 BY <1>5, SMT
  <2>2. /\ substate' \in ReadingData => Delivered(buf'.page_param, 236, page_idx')
        /\ substate' = "MS_END" => Delivered(buf'.page_param, 236, ParamBytes)
    BY <1>5, ReadParamFills
  <2> QED BY <1>1, <2>1, <2>2, FilledNow
<1> QED BY <1>1, <1>2, <1>3, <1>4, <1>5

\* Before an operation has told the chip anything, and between operations.
LEMMA NothingSent ==
  ASSUME TypeInvariant',
         op' \notin Transfers \/ (substate' = "MS_BEGIN" /\ cycles' = <<>>)
  PROVE  TransferInv'
<1>1. CASE op' \notin Transfers
  <2>1. op' # 2 /\ op' # 3 /\ op' # 6 BY <1>1 DEF Transfers
  <2>2. ~Told' BY <2>1, SMT DEF Told
  <2> QED BY <1>1, <2>1, <2>2 DEF TransferInv, ChipTold, Taken, Filled
<1>2. CASE substate' = "MS_BEGIN" /\ cycles' = <<>>
  <2>1. geometry'.addr_cycles \in Nat
    BY SMT DEF TypeInvariant, MasterType, ConfigType
  <2>2. Len(cycles') # 2 + geometry'.addr_cycles
    <3>1. Len(cycles') = 0 BY <1>2, EmptySeq
    <3> QED BY <2>1, <3>1, SMT
  <2>3. ~Told' BY <1>2, <2>2 DEF Told
  <2>4. substate' \notin ReadingData \union {"MS_END"} BY <1>2, SMT DEF ReadingData
  <2> QED BY <1>2, <2>3, <2>4, SMT DEF TransferInv, ChipTold, Taken, Filled, ReadingData
<1> QED BY <1>1, <1>2

\* A chip that falls busy or gets ready has sent what it had sent.
LEMMA SentKept ==
  ASSUME TypeInvariant, TransferInv, NEW c \in Chip, GoBusy(c) \/ BecomeReady(c)
  PROVE  TransferInv'
<1>1. UNCHANGED <<master, units, history>> BY DEF GoBusy, BecomeReady
<1>2. /\ UNCHANGED <<substate, geometry, status, pins, buf, page_idx, iord, op, cycles, reads>>
      /\ Selected' = Selected
  BY <1>1 DEF master, control, config, units, history, Selected
<1>3. chips \in [Chip -> OneChip] /\ chips[c] \in OneChip
  BY SMT DEF TypeInvariant, ChipType, OneChip
<1>4. ASSUME NEW d \in Chip
      PROVE  chips'[d].cmd = chips[d].cmd /\ chips'[d].out = chips[d].out
  <2>1. CASE d # c
    <3>1. chips'[d] = chips[d] BY <1>3, <2>1, SMT DEF GoBusy, BecomeReady
    <3> QED BY <3>1
  <2>2. CASE d = c BY <1>3, <2>2, SMT DEF GoBusy, BecomeReady, OneChip
  <2> QED BY <2>1, <2>2
<1>5. Told' = Told /\ Code' = Code BY <1>2 DEF Told, Code
<1>6. ChipTold'
  BY <1>2, <1>4, <1>5 DEF TransferInv, ChipTold, Selected
<1>7. Taken' BY <1>2, <1>5 DEF TransferInv, Taken
<1>8. Filled'
  <2>1. Filled /\ UNCHANGED config BY <1>2 DEF TransferInv, config
  <2> QED BY <1>2, <2>1, FilledStays
<1> QED BY <1>6, <1>7, <1>8 DEF TransferInv

LEMMA TransferStep ==
  ASSUME Assumed, MaxResets = 0, HoldsBus = TRUE, 2 <= t_rea, Full, Full', TransferInv, [Next]_vars
  PROVE  TransferInv'
<1>1. Inv /\ OperationInv /\ TypeInvariant /\ TypeInvariant' /\ OperationInv' BY DEF Full, Inv
<1>2. CASE Clock
  <2>1. PICK activate, cmd_in, data_in : Edge(activate, cmd_in, data_in) BY <1>2 DEF Clock
  <2>2. CASE op' \notin Transfers BY <1>1, <2>2, NothingSent
  <2>3. CASE op' \in Transfers /\ state = "M_IDLE"
    <3>1. cycles' = <<>> BY <2>1, <2>3 DEF Edge, Record
    <3>2. substate' = "MS_BEGIN"
      <4>1. enable # 1 BY <1>1, <2>3, SMT DEF Inv, UnitDiscipline
      <4>2. MasterTick(activate, cmd_in, data_in, rnb) BY <1>1, <2>1, EdgeUnits
      <4>3. substate' = substate BY <2>3, <4>1, <4>2, IdleIsIdle DEF MasterIdle
      <4>4. substate = "MS_BEGIN" BY <1>1, <2>3, SMT DEF Inv, Placed, Doing, AtRest
      <4> QED BY <4>3, <4>4
    <3> QED BY <1>1, <3>1, <3>2, NothingSent
  <2>4. CASE op' \in Transfers /\ state # "M_IDLE"
    <3>1. state' \notin {"M_IDLE", "M_RESET"}
      <4>1. op' # 0 BY <2>4, SMT DEF Transfers
      <4> QED BY <2>1, <2>4, <4>1, Recorded
    <3>2. op' = op BY <2>1, <2>4, <3>1, Recorded
    <3>3. Carrying(activate, cmd_in, data_in) BY <1>1, <2>1, <2>4, <3>1, <3>2 DEF Carrying
    <3> QED BY <3>3, ChipToldEdge, TakenEdge, FilledEdge DEF TransferInv
  <2> QED BY <2>2, <2>3, <2>4
<1>3. CASE Reset
  <2>1. resets \in Nat /\ resets < 0 BY <1>1, <1>3 DEF TypeInvariant, Reset
  <2> QED BY <2>1, SMT
<1>4. CASE \E c \in Chip : GoBusy(c) \/ BecomeReady(c) BY <1>1, <1>4, SentKept
<1>5. CASE UNCHANGED vars
  <2>1. /\ UNCHANGED <<substate, geometry, status, pins, buf, page_idx, iord, op, cycles, reads, chips>>
        /\ Selected' = Selected
    BY <1>5 DEF vars, master, control, config, units, history, Selected
  <2>2. Told' = Told /\ Code' = Code BY <2>1 DEF Told, Code
  <2>3. ChipTold' /\ Taken' BY <2>1, <2>2 DEF TransferInv, ChipTold, Taken
  <2>4. Filled'
    <3>1. Filled /\ UNCHANGED config BY <2>1 DEF TransferInv, config
    <3> QED BY <2>1, <3>1, FilledStays
  <2> QED BY <2>3, <2>4 DEF TransferInv
<1> QED BY <1>2, <1>3, <1>4, <1>5 DEF Next

LEMMA TransferDelivers ==
  ASSUME Full, TransferInv
  PROVE  TransferFaithful
<1>1. ASSUME op = 6, reads > 0 PROVE Delivered(buf.page_data, 48, page_idx)
  <2>1. substate \in ReadingData \union {"MS_END"}
    <3>1. ReadStages BY <1>1 DEF Full, OperationInv
    <3>2. reads # 0 BY <1>1, SMT
    <3>3. \A n : ~Stage(n, 0) BY <3>2, Zenon, StandingStrobe DEF Stage
    <3>4. ~Fresh BY <3>2 DEF Fresh
    <3>5. substate \notin {"MS_BEGIN", "MS_SUBMIT_COMMAND", "MS_SUBMIT_ADDRESS",
                           "MS_SUBMIT_COMMAND1", "MS_DELAY", "MS_WAIT_tRR"}
      BY <3>1, <3>3, <3>4, Zenon DEF ReadStages
    <3> QED BY <3>1, <3>5, SMT DEF ReadStages, ReadingData
  <2> QED BY <1>1, <2>1 DEF TransferInv, Filled
<1> QED BY <1>1 DEF TransferInv, Filled, TransferFaithful

\* What a transfer stores is what the chip sent: through the delays of the reading unit and the
\* counters of the FSM no word is skipped, taken twice or put in the wrong cell, in any of the three
\* buffers (MS_READ_DATA0 to MS_READ_DATA2 of nand_master.v, and the sampling of io_unit.v), for
\* pads that keep the word until it is sampled and a page that fits.
THEOREM TransfersFaithful ==
  ASSUME Assumed, MaxResets = 0, HoldsBus = TRUE, 2 <= t_rea
  PROVE  Spec /\ []Regular => []TransferFaithful
<1>1. 23 \notin Commands /\ HostEarly = FALSE BY DEF Assumed
<1>2. Init => OperationInv /\ TransferInv
  <2> SUFFICES ASSUME Init PROVE OperationInv /\ TransferInv
    OBVIOUS
  <2>1. op = 0 /\ cycles = <<>> /\ reads = 0 BY DEF Init
  <2>2. OperationInv BY <2>1, SMT DEF OperationInv
  <2>3. TransferInv
    BY <2>1, SMT DEF TransferInv, ChipTold, Told, Taken, Filled, Transfers
  <2> QED BY <2>2, <2>3
<1>3. TypeInvariant /\ UnitDiscipline /\ InitTogether /\ Regular /\ IndexInv /\ OperationInv
        /\ [Next]_vars => OperationInv'
  BY <1>1, OperationStep
<1>4. Regular => Fits BY FullIsFit
<1>5. Spec /\ []Regular => []IndexInv BY <1>4, IndexInvariant, PTL
<1>6. Spec => []Inv BY TimingInvariant
<1>7. Inv => TypeInvariant /\ UnitDiscipline /\ InitTogether BY DEF Inv
<1>8. Inv /\ Regular /\ IndexInv /\ OperationInv => Full BY DEF Full
<1>9. Full /\ Full' /\ TransferInv /\ [Next]_vars => TransferInv' BY TransferStep
<1>10. Full /\ TransferInv => TransferFaithful BY TransferDelivers
<1> QED BY <1>2, <1>3, <1>5, <1>6, <1>7, <1>8, <1>9, <1>10, PTL DEF Spec

\* It is so for a host that leaves the default geometry in place.
THEOREM DefaultTransfersFaithful ==
  ASSUME Assumed, 2 \notin Commands, MaxResets = 0, HoldsBus = TRUE, 2 <= t_rea
  PROVE  Spec => []TransferFaithful
<1>1. DefaultGeometry => Regular
  BY GeometryAssumption, SMT DEF DefaultGeometry, Regular, Fits, PageBytes, Wide
<1> QED BY <1>1, GeometryInvariant, TransfersFaithful, PTL
==============================================================================
