--------------------------- MODULE NandFlash_proofs ---------------------------
(***************************************************************************)
(* Theorems about NandFlash, for every value of its constants: any timing, *)
(* any geometry, any host and any chips. Types and the bus come first;     *)
(* then what an operation of the controller does on the bus: where the FSM *)
(* stands in it, which cell of a buffer each step touches, and which       *)
(* cycles the chip has latched.                                            *)
(***************************************************************************)
EXTENDS NandFlash, NandMaster_proofs, SequenceTheorems

-----------------------------------------------------------------------------
(* Type correctness *)

LEMMA CycleType ==
  ASSUME MasterType, UnitsType
  PROVE  bus_out \in Word /\ BusCycle.value \in Word
<1>1. /\ drive.cle_data_in \in Word /\ drive.ale_data_in \in Word
      /\ iowr.data_reg \in Word
  BY SMT DEF MasterType, DataType, UnitsType, IO_WR!IoType
<1>2. bus_out \in Word
  BY <1>1, Literals, SMT DEF bus_out
<1> QED BY <1>2, SMT DEF BusCycle

LEMMA AgeCapType == t_rr \in Nat /\ AgeCap \in Nat
<1>1. t_rr \in Nat /\ t_wb \in Nat /\ t_adl \in Nat /\ t_whr \in Nat
  BY TimingAssumption, SMT
<1> QED BY <1>1, SMT DEF AgeCap

LEMMA InitType == Init => TypeInvariant
<1> SUFFICES ASSUME Init PROVE TypeInvariant
  OBVIOUS
<1> USE DEF Init, MasterInit
<1>1. ControlType /\ CounterType
  BY Names, SMT DEF ControlType, CounterType
<1>2. ConfigType
  BY SMT DEF ConfigType, Bit
<1>3. DataType
  BY Literals, SMT DEF DataType
<1>4. enable \in Bit
  BY SMT DEF Bit
<1>5. InitCycles \in Nat
  BY TimingAssumption, SMT
<1>6. UnitsType
  BY <1>5, Literals, SMT DEF UnitsType, ACL!LatchType, AAL!LatchType, IO_WR!IoType, IO_RD!IoType,
     ACL!PowerOn, AAL!PowerOn, IO_WR!PowerOn, IO_RD!PowerOn, ACL!LatchStates, AAL!LatchStates,
     IO_WR!IoStates, IO_RD!IoStates
<1>7. t_rr \in Nat /\ AgeCap \in Nat
  BY AgeCapType
<1>8. ChipType
  BY <1>7, Literals, SMT DEF ChipType, FreshChip
<1>9. op \in {0} \union BusCommands /\ reads \in Nat /\ we_age \in 0..AgeCap /\ issued \in Nat
      /\ resets \in Nat
  BY <1>7, SMT
<1> QED BY <1>1, <1>2, <1>3, <1>4, <1>6, <1>8, <1>9 DEF TypeInvariant, MasterType

\* One chip: its age and the cycle it latches.
OneChip == [phase : {"ready", "settling", "busy"}, age : Nat, cmd : Word, task : Word, out : Nat]

LEMMA AgedType == ASSUME NEW chip \in OneChip PROVE Aged(chip) \in OneChip
<1>1. chip.age \in Nat /\ chip.age + 1 \in Nat
  BY SMT DEF OneChip
<1> QED BY <1>1, SMT DEF Aged, OneChip

LEMMA LatchedType ==
  ASSUME NEW chip \in OneChip, NEW cycle, cycle.value \in Word
  PROVE  Latched(chip, cycle) \in OneChip
<1> DEFINE cmd == IF cycle.kind # "command" THEN chip.cmd
                  ELSE IF chip.phase = "ready" \/ cycle.value \in {112, 255} THEN cycle.value
                  ELSE chip.cmd
<1>1. cmd \in Word
  BY SMT DEF OneChip
<1>2. /\ (IF chip.phase = "busy" THEN "busy" ELSE "settling") \in {"ready", "settling", "busy"}
      /\ (IF cycle.kind = "command" THEN 0 ELSE chip.out) \in Nat /\ 0 \in Nat
  BY SMT DEF OneChip
<1>3. CASE Starts(chip, cycle)
  BY <1>1, <1>2, <1>3, ZenonT(20) DEF Latched, OneChip
<1>4. CASE ~Starts(chip, cycle)
  BY <1>1, <1>2, <1>4, Zenon DEF Latched, OneChip
<1> QED BY <1>3, <1>4

LEMMA ChipsTickType ==
  ASSUME ChipType, MasterType, UnitsType, ChipsTick
  PROVE  ChipType'
<1>1. chips \in [Chip -> OneChip]
  BY DEF ChipType, OneChip
<1>2. BusCycle.value \in Word
  BY CycleType
<1>3. ASSUME NEW c \in Chip PROVE chips'[c] \in OneChip
  <2>1. Aged(chips[c]) \in OneChip
    BY <1>1, AgedType
  <2>2. Latched(Aged(chips[c]), BusCycle) \in OneChip
    BY <1>2, <2>1, LatchedType
  <2>3. [Aged(chips[c]) EXCEPT !.out = @ + 1] \in OneChip
    BY <2>1, SMT DEF OneChip
  <2> QED BY <2>1, <2>2, <2>3, Zenon DEF ChipsTick
<1>4. chips' = [c \in Chip |-> chips'[c]]
  BY DEF ChipsTick
<1> QED BY <1>3, <1>4 DEF ChipType, OneChip

LEMMA EdgeType ==
  ASSUME TypeInvariant, NEW activate \in BOOLEAN, NEW cmd_in, NEW data_in \in Byte,
         Edge(activate, cmd_in, data_in)
  PROVE  TypeInvariant'
<1> USE DEF TypeInvariant
<1>1. PICK bus \in Word : Step(activate, cmd_in, data_in, rnb, bus)
  BY DEF Edge
<1>2. ControlType' /\ CounterType' /\ ConfigType' /\ DataType'
  BY <1>1, ControlStep, CounterStep, ConfigStep, DataStep DEF Step, MasterType, UnitsType
<1>3. enable' \in Bit
  BY SMT DEF Edge, Bit
<1>4. UnitsType'
  <2>1. /\ cle_activate \in BOOLEAN /\ ale_activate \in BOOLEAN
        /\ io_wr_activate \in BOOLEAN /\ io_rd_activate \in BOOLEAN
    BY DEF cle_activate, ale_activate, io_wr_activate, io_rd_activate, At
  <2>2. drive.io_wr_data_in \in Word
    BY SMT DEF MasterType, DataType
  <2> QED BY <1>1, <2>1, <2>2, CommandLatchStep, AddressLatchStep, WriterStep, ReaderStep
          DEF Step, UnitsType
<1>5. ChipType'
  BY ChipsTickType DEF Edge
<1>6. op' \in {0} \union BusCommands /\ reads' \in Nat /\ we_age' \in 0..AgeCap
  BY AgeCapType, SMT DEF Edge, Record
<1>7. issued' \in Nat /\ resets' \in Nat
  BY SMT DEF Edge
<1> QED BY <1>2, <1>3, <1>4, <1>5, <1>6, <1>7 DEF MasterType

LEMMA UnchangedType ==
  ASSUME TypeInvariant, ChipType', UNCHANGED <<master, enable, units, history, issued, resets>>
  PROVE  TypeInvariant'
BY DEF TypeInvariant, MasterType, ControlType, CounterType, ConfigType, DataType, UnitsType,
   ACL!LatchType, AAL!LatchType, IO_WR!IoType, IO_RD!IoType, master, control, config, units, history

\* The registers of the controller and its units, the chips and the counters
\* of the history have the values their declarations allow, whatever the
\* timing, the chips' answers and the host's bytes are.
THEOREM TypeCorrect == Spec => []TypeInvariant
<1>1. Init => TypeInvariant
  BY InitType
<1>2. TypeInvariant /\ [Next]_vars => TypeInvariant'
  <2> SUFFICES ASSUME TypeInvariant, [Next]_vars PROVE TypeInvariant'
    OBVIOUS
  <2>1. CASE Clock
    <3>1. ASSUME NEW data_in \in Byte, Edge(FALSE, 0, data_in) PROVE TypeInvariant'
      BY <3>1, EdgeType
    <3>2. ASSUME NEW cmd_in, Edge(TRUE, cmd_in, 0) PROVE TypeInvariant'
      BY <3>2, EdgeType, Literals, ZenonT(20)
    <3>3. 0 \in Byte
      BY Literals
    <3> QED BY <2>1, <3>1, <3>2, <3>3 DEF Clock
  <2>2. CASE Reset
    <3> USE DEF Reset, HardReset, TypeInvariant
    <3>1. MasterType'
      BY <2>2, Names, SMT DEF MasterType, ControlType, CounterType, ConfigType, DataType, config
    <3>2. InitCycles \in Nat
      BY TimingAssumption, SMT
    <3>3. UnitsType'
      BY <2>2, <3>2, Literals, SMT DEF UnitsType, ACL!LatchType, AAL!LatchType, IO_WR!IoType,
         IO_RD!IoType, ACL!PowerOn, AAL!PowerOn, IO_WR!PowerOn, IO_RD!PowerOn,
         ACL!LatchStates, AAL!LatchStates, IO_WR!IoStates, IO_RD!IoStates
    <3>4. ChipType'
      <4>1. chips \in [Chip -> OneChip]
        BY DEF ChipType, OneChip
      <4>2. \A c \in Chip : Latched(chips[c], BusCycle) \in OneChip
        BY <4>1, CycleType, LatchedType
      <4>3. chips' \in [Chip -> OneChip]
        BY <2>2, <4>1, <4>2, SMT
      <4> QED BY <4>3 DEF ChipType, OneChip
    <3>5. op' \in {0} \union BusCommands /\ reads' \in Nat /\ we_age' \in 0..AgeCap
          /\ issued' \in Nat /\ resets' \in Nat
      BY <2>2, AgeCapType, SMT
    <3> QED BY <3>1, <3>3, <3>4, <3>5
  <2>3. ASSUME NEW c \in Chip, GoBusy(c) \/ BecomeReady(c) PROVE TypeInvariant'
    <3>1. ChipType'
      <4>1. 0 \in Word
        BY Literals
      <4> QED BY <2>3, <4>1, SMT DEF TypeInvariant, ChipType, GoBusy, BecomeReady
    <3>2. UNCHANGED <<master, enable, units, history, issued, resets>>
      BY <2>3 DEF GoBusy, BecomeReady
    <3> QED BY <3>1, <3>2, UnchangedType
  <2>4. CASE UNCHANGED vars
    BY <2>4, UnchangedType DEF vars, TypeInvariant, ChipType
  <2> QED BY <2>1, <2>2, <2>3, <2>4 DEF Next
<1> QED BY <1>1, <1>2, PTL DEF Spec

-----------------------------------------------------------------------------
(* One unit at a time *)

LEMMA EdgeDiscipline ==
  ASSUME 23 \notin Commands, TypeInvariant, UnitDiscipline,
         NEW activate \in BOOLEAN, NEW cmd_in, NEW data_in \in Byte,
         Edge(activate, cmd_in, data_in), activate => MayIssue /\ cmd_in \in Commands,
         ~activate => cmd_in = 0
  PROVE  UnitDiscipline'
<1>1. PICK bus \in Word : Step(activate, cmd_in, data_in, rnb, bus)
  BY DEF Edge
<1>2. MasterTick(activate, cmd_in, data_in, rnb)
  BY <1>1 DEF Step
<1>3. enable' = 0
  BY DEF Edge
<1>4. /\ ACL!active' => ACL!active \/ cle_activate
      /\ AAL!active' => AAL!active \/ ale_activate
      /\ IO_WR!active' => IO_WR!active \/ io_wr_activate
      /\ IO_RD!active' => IO_RD!active \/ io_rd_activate
      /\ ACL!InitOnce' /\ AAL!InitOnce' /\ IO_WR!InitOnce' /\ IO_RD!InitOnce'
      /\ Initialised => Initialised'
  <2>1. /\ cle_activate \in BOOLEAN /\ ale_activate \in BOOLEAN
        /\ io_wr_activate \in BOOLEAN /\ io_rd_activate \in BOOLEAN
    BY DEF cle_activate, ale_activate, io_wr_activate, io_rd_activate, At
  <2>2. drive.io_wr_data_in \in Word
    BY SMT DEF TypeInvariant, MasterType, DataType
  <2>3. ACL!LatchType /\ AAL!LatchType /\ IO_WR!IoType(Word) /\ IO_RD!IoType(Word)
    BY DEF TypeInvariant, UnitsType
  <2>4. ACL!InitOnce /\ AAL!InitOnce /\ IO_WR!InitOnce /\ IO_RD!InitOnce
    BY DEF UnitDiscipline
  <2>5. /\ ACL!Tick(cle_activate) /\ AAL!Tick(ale_activate)
        /\ IO_WR!Tick(io_wr_activate, drive.io_wr_data_in) /\ IO_RD!Tick(io_rd_activate, bus)
    BY <1>1 DEF Step
  <2>6. /\ (ACL!active' => ACL!active \/ cle_activate)
        /\ ACL!InitOnce' /\ (cle.state' = "LATCH_INIT" => cle.state = "LATCH_INIT")
    BY <2>1, <2>3, <2>4, <2>5, CommandLatchStep, CommandLatchInit
  <2>7. /\ (AAL!active' => AAL!active \/ ale_activate)
        /\ AAL!InitOnce' /\ (ale.state' = "LATCH_INIT" => ale.state = "LATCH_INIT")
    BY <2>1, <2>3, <2>4, <2>5, AddressLatchStep, AddressLatchInit
  <2>8. /\ (IO_WR!active' => IO_WR!active \/ io_wr_activate)
        /\ IO_WR!InitOnce' /\ (iowr.state' = "IO_INIT" => iowr.state = "IO_INIT")
    BY <2>1, <2>2, <2>3, <2>4, <2>5, WriterStep, WriterInit
  <2>9. /\ (IO_RD!active' => IO_RD!active \/ io_rd_activate)
        /\ IO_RD!InitOnce' /\ (iord.state' = "IO_INIT" => iord.state = "IO_INIT")
    BY <2>1, <2>3, <2>4, <2>5, ReaderStep, ReaderInit
  <2> QED BY <2>6, <2>7, <2>8, <2>9, SMT DEF Initialised
<1>5. "MI_BYPASS_DATA_RD" \notin {state', n_state'}
  <2>1. cmd_in # 23
    BY SMT
  <2> QED BY <1>2, <2>1, NoBypassRead DEF UnitDiscipline
<1>6. CASE enable = 1
  <2>1. state = "M_RESET" /\ state' = "M_RESET"
    BY <1>2, <1>6, SMT DEF UnitDiscipline, MasterTick, master, control
  <2>2. ~cle_activate /\ ~ale_activate /\ ~io_wr_activate /\ ~io_rd_activate
    BY <2>1, OneActivation
  <2>3. Quiet
    BY <2>1, SMT DEF UnitDiscipline, At
  <2>4. Quiet'
    BY <1>4, <2>2, <2>3 DEF Quiet
  <2> QED BY <1>3, <1>4, <1>5, <2>1, <2>4, SMT DEF UnitDiscipline, OneUnitAtATime, Quiet
<1>7. CASE enable # 1
  <2>1. state # "MI_BYPASS_DATA_RD"
    BY SMT DEF UnitDiscipline
  <2>2. /\ cle_activate \/ io_wr_activate \/ io_rd_activate => state' = "M_WAIT"
        /\ ale_activate => state' = "M_WAIT" \/
                           (state' = "M_NAND_READ" /\ substate' = "MS_SUBMIT_ADDRESS")
        /\ state = "M_NAND_READ" /\ substate = "MS_SUBMIT_ADDRESS" => state' = "M_WAIT"
        /\ state = "M_WAIT" => state' = "M_WAIT" \/ ~unit_busy
        /\ state = "M_RESET" => state' = "M_IDLE"
        /\ state = "M_IDLE" /\ ~activate => state' = "M_IDLE"
    BY <1>2, <1>7, <2>1, ActivationIsAwaited
  <2>3. HostEarly' \/ Initialised' \/ state' \in {"M_RESET", "M_IDLE"}
    BY <1>4, <2>2, SMT DEF UnitDiscipline, MayIssue
  <2>4. OneUnitAtATime' /\ (state' = "M_WAIT" \/ Quiet'
          \/ (At("M_NAND_READ", {"MS_SUBMIT_ADDRESS"}) /\ ~ACL!active /\ ~IO_WR!active /\ ~IO_RD!active)')
    <3>1. CASE state = "M_WAIT"
      <4>1. ~unit_busy => Quiet
        BY SMT DEF unit_busy, Quiet, ACL!busy, AAL!busy, IO_WR!busy, IO_RD!busy,
           ACL!active, AAL!active, IO_WR!active, IO_RD!active
      <4> QED BY <1>4, <2>2, <3>1, <4>1, OneActivation, Zenon DEF UnitDiscipline, OneUnitAtATime, Quiet
    <3>2. CASE Quiet
      BY <1>4, <2>2, <3>2, OneActivation, SMT DEF OneUnitAtATime, Quiet, At
    <3>3. CASE At("M_NAND_READ", {"MS_SUBMIT_ADDRESS"}) /\ ~ACL!active /\ ~IO_WR!active /\ ~IO_RD!active
      <4>1. ~cle_activate /\ ~ale_activate /\ ~io_wr_activate /\ ~io_rd_activate
        BY <3>3, SMT DEF At, cle_activate, ale_activate, io_wr_activate, io_rd_activate
      <4> QED BY <1>4, <2>2, <3>3, <4>1, SMT DEF OneUnitAtATime, At
    <3> QED BY <3>1, <3>2, <3>3 DEF UnitDiscipline
  <2> QED BY <1>3, <1>4, <1>5, <2>3, <2>4, SMT DEF UnitDiscipline
<1> QED BY <1>6, <1>7

LEMMA PowerOnIsQuiet ==
  ASSUME cle = ACL!PowerOn, ale = AAL!PowerOn, iowr = IO_WR!PowerOn, iord = IO_RD!PowerOn
  PROVE  /\ Quiet /\ OneUnitAtATime
         /\ ACL!InitOnce /\ AAL!InitOnce /\ IO_WR!InitOnce /\ IO_RD!InitOnce
BY SMT DEF Quiet, OneUnitAtATime, ACL!PowerOn, AAL!PowerOn, IO_WR!PowerOn, IO_RD!PowerOn,
   ACL!active, AAL!active, IO_WR!active, IO_RD!active,
   ACL!InitOnce, AAL!InitOnce, IO_WR!InitOnce, IO_RD!InitOnce

\* For a host that does not use the bypass read, the master starts a unit only
\* when all four are done: M_WAIT, and the way every operation enters it,
\* serialise them, whatever the delays are.
THEOREM UnitsDisciplined ==
  ASSUME 23 \notin Commands
  PROVE  Spec => []UnitDiscipline
<1>1. Init => UnitDiscipline
  BY PowerOnIsQuiet, SMT DEF Init, MasterInit, UnitDiscipline
<1>2. TypeInvariant /\ UnitDiscipline /\ [Next]_vars => UnitDiscipline'
  <2> SUFFICES ASSUME TypeInvariant, UnitDiscipline, [Next]_vars PROVE UnitDiscipline'
    OBVIOUS
  <2>1. CASE Clock
    <3>1. ASSUME NEW data_in \in Byte, Edge(FALSE, 0, data_in) PROVE UnitDiscipline'
      BY <3>1, EdgeDiscipline
    <3>2. ASSUME NEW cmd_in \in Commands, MayIssue, Edge(TRUE, cmd_in, 0) PROVE UnitDiscipline'
      BY <3>2, EdgeDiscipline, Literals, ZenonT(20)
    <3> QED BY <2>1, <3>1, <3>2, Literals, ZenonT(30) DEF Clock
  <2>2. CASE Reset
    <3>1. /\ cle' = ACL!PowerOn /\ ale' = AAL!PowerOn /\ iowr' = IO_WR!PowerOn
          /\ iord' = IO_RD!PowerOn /\ state' = "M_RESET" /\ n_state' = n_state
      BY <2>2 DEF Reset, HardReset
    <3>2. /\ Quiet' /\ OneUnitAtATime'
          /\ ACL!InitOnce' /\ AAL!InitOnce' /\ IO_WR!InitOnce' /\ IO_RD!InitOnce'
      BY <3>1, SMT DEF Quiet, OneUnitAtATime, ACL!PowerOn, AAL!PowerOn, IO_WR!PowerOn,
         IO_RD!PowerOn, ACL!active, AAL!active, IO_WR!active, IO_RD!active,
         ACL!InitOnce, AAL!InitOnce, IO_WR!InitOnce, IO_RD!InitOnce
    <3> QED BY <3>1, <3>2, SMT DEF UnitDiscipline
  <2>3. CASE UNCHANGED <<master, enable, units>>
    BY <2>3 DEF UnitDiscipline, OneUnitAtATime, Quiet, At, Initialised, master, control, units,
       ACL!active, AAL!active, IO_WR!active, IO_RD!active,
       ACL!InitOnce, AAL!InitOnce, IO_WR!InitOnce, IO_RD!InitOnce
  <2> QED BY <2>1, <2>2, <2>3 DEF Next, GoBusy, BecomeReady, vars
<1> QED BY <1>1, <1>2, TypeCorrect, PTL DEF Spec

\* The multiplexer of nand_data and the AND of the WE# lines never see two
\* strobes at once.
THEOREM StrobesExclusive ==
  ASSUME 23 \notin Commands
  PROVE  Spec => []OneUnitAtATime
<1>1. UnitDiscipline => OneUnitAtATime
  BY DEF UnitDiscipline
<1> QED BY <1>1, UnitsDisciplined, PTL

\* If moreover the host waits for the initialisation of the units, every
\* activation finds its unit idle: no cycle of the bus is ever dropped.
THEOREM ActivationsTaken ==
  ASSUME 23 \notin Commands, HostEarly = FALSE
  PROVE  Spec => []NoActivationLost
<1>1. UnitDiscipline => NoActivationLost
  <2> SUFFICES ASSUME UnitDiscipline,
                      cle_activate \/ ale_activate \/ io_wr_activate \/ io_rd_activate
               PROVE  ~ACL!busy /\ ~AAL!busy /\ ~IO_WR!busy /\ ~IO_RD!busy
    BY Zenon DEF NoActivationLost
  <2>1. state \notin {"M_WAIT", "M_RESET", "M_IDLE"}
    BY OneActivation, SMT
  <2>2. ~At("M_NAND_READ", {"MS_SUBMIT_ADDRESS"})
    BY SMT DEF At, cle_activate, ale_activate, io_wr_activate, io_rd_activate
  <2>3. Quiet /\ Initialised
    BY <2>1, <2>2 DEF UnitDiscipline
  <2> QED BY <2>3, SMT DEF Quiet, Initialised, ACL!active, AAL!active, IO_WR!active, IO_RD!active,
             ACL!busy, AAL!busy, IO_WR!busy, IO_RD!busy
<1> QED BY <1>1, UnitsDisciplined, PTL

-----------------------------------------------------------------------------
(* The status register *)

Agrees ==
  (status[2] = 1 <=> 0 \in {pins.nce, pins.nce2}) /\ (status[3] = 1 <=> pins.nwp = 0)

\* Nothing leads to the decoding of the parameter page, which overwrites the status.
StatusInv ==
  /\ "M_NAND_READ_PARAM_PAGE" \notin {state, n_state}
  /\ state # "M_RESET" => Agrees

LEMMA TargetsOtherThanParamPage ==
  ASSUME NEW cmd, cmd # 2
  PROVE  Target(cmd) # "M_NAND_READ_PARAM_PAGE"
<1>1. \A i \in 1..25 : i # 3 => CommandStates[i] # "M_NAND_READ_PARAM_PAGE" BY SMT DEF CommandStates
<1>2. CASE cmd \in 0..24
  <2>1. cmd + 1 \in 1..25 /\ cmd + 1 # 3 BY <1>2, SMT
  <2> QED BY <1>1, <1>2, <2>1, SMT DEF Target
<1>3. CASE cmd \notin 0..24 BY <1>3, SMT DEF Target
<1> QED BY <1>2, <1>3

LEMMA MasterKeepsStatus ==
  ASSUME ConfigType, StatusInv, NEW activate, NEW cmd_in, NEW data_in, activate => cmd_in # 2,
         MasterTick(activate, cmd_in, data_in, rnb)
  PROVE  StatusInv'
<1>1. status \in [0..7 -> {0, 1}] /\ pins \in [nce : {0, 1}, nce2 : {0, 1}, nwp : {0, 1}]
  BY DEF ConfigType, Bit
<1>2. CASE enable = 1 /\ UNCHANGED master
  BY <1>2 DEF StatusInv, Agrees, master, control, config
<1>3. CASE MasterReset BY <1>1, <1>3, SMT DEF MasterReset, StatusInv, Agrees
<1>4. CASE MasterIdle(activate, cmd_in)
  <2>1. state' # "M_NAND_READ_PARAM_PAGE" BY <1>4, TargetsOtherThanParamPage DEF MasterIdle
  <2> QED BY <1>4, <2>1 DEF MasterIdle, StatusInv, Agrees, config
<1>5. CASE RegisterCommand(data_in)
  <2>1. CASE GetStatus BY <2>1 DEF GetStatus, Return, StatusInv, Agrees, config
  <2>2. CASE SelectChip BY <1>1, <2>2, SMT DEF SelectChip, Return, StatusInv, Agrees
  <2>3. CASE SetProtection BY <1>1, <2>3, SMT DEF SetProtection, Return, StatusInv, Agrees
  <2>4. CASE ResetIndex BY <2>4 DEF ResetIndex, Return, StatusInv, Agrees, config
  <2>5. ASSUME NEW size, AdvanceIndex(size), state # "M_RESET" PROVE StatusInv'
    BY <1>1, <2>5, SMT DEF AdvanceIndex, Return, StatusInv, Agrees
  <2>6. CASE GetIdByte \/ GetParamPageByte \/ GetDataPageByte \/ GetCurrentAddressByte
    BY <2>5, <2>6 DEF GetIdByte, GetParamPageByte, GetDataPageByte, GetCurrentAddressByte, GetByte
  <2>7. CASE SetDataPageByte(data_in) \/ SetCurrentAddressByte(data_in)
    BY <2>5, <2>7 DEF SetDataPageByte, SetCurrentAddressByte
  <2> QED BY <1>5, <2>1, <2>2, <2>3, <2>4, <2>6, <2>7 DEF RegisterCommand
<1>6. CASE BusOperation(data_in)
  <2>1. UNCHANGED config
    BY <1>6, SMT DEF BusOperation, StatusInv, NandReset, PageProgram, ReadPage, ReadStatus,
       BlockErase, ReadId, ReadParamPage, BypassLatch, BypassDataWr, BypassDataRd
  <2>2. state # "M_RESET"
    BY <1>6, SMT DEF BusOperation, NandReset, PageProgram, ReadPage, ReadStatus,
       BlockErase, ReadId, ReadParamPage, BypassLatch, BypassDataWr, BypassDataRd
  <2>3. {state', n_state'} \subseteq {state, n_state, "M_WAIT", "M_DELAY", "M_IDLE"}
    BY <1>6, SMT DEF BusOperation, NandReset, PageProgram, ReadPage, ReadStatus, BlockErase,
       ReadId, ReadParamPage, BypassLatch, BypassDataWr, BypassDataRd, WaitFor, DelayFor,
       Continue, Finish
  <2> QED BY <2>1, <2>2, <2>3 DEF StatusInv, Agrees, config
<1>7. CASE Wait(rnb) \/ Delay
  BY <1>7 DEF Wait, Delay, Countdown, StatusInv, Agrees, config
<1> QED BY <1>2, <1>3, <1>4, <1>5, <1>6, <1>7 DEF MasterTick

\* For a host that does not read the parameter page, bits 2 and 3 of the status register tell
\* whether a chip is selected and whether WP# is low (nand_master.v:224-256).
THEOREM StatusFollowsPins ==
  ASSUME 2 \notin Commands
  PROVE  Spec => []StatusTellsPins
<1>1. Init => StatusInv BY SMT DEF Init, MasterInit, StatusInv
<1>2. TypeInvariant /\ StatusInv /\ [Next]_vars => StatusInv'
  <2> SUFFICES ASSUME TypeInvariant, StatusInv, [Next]_vars PROVE StatusInv'
    OBVIOUS
  <2>1. ConfigType BY DEF TypeInvariant, MasterType
  <2>2. CASE Clock
    <3>1. PICK activate, cmd_in, data_in :
            activate \in BOOLEAN /\ Edge(activate, cmd_in, data_in) /\ (activate => cmd_in # 2)
      BY <2>2 DEF Clock
    <3>2. MasterTick(activate, cmd_in, data_in, rnb) BY <3>1 DEF Edge, Step
    <3> QED BY <2>1, <3>1, <3>2, MasterKeepsStatus
  <2>3. CASE Reset BY <2>3 DEF Reset, HardReset, StatusInv
  <2>4. CASE UNCHANGED master BY <2>4 DEF StatusInv, Agrees, master, control, config
  <2> QED BY <2>2, <2>3, <2>4 DEF Next, GoBusy, BecomeReady, vars
<1>3. StatusInv => StatusTellsPins BY DEF StatusInv, StatusTellsPins, Agrees
<1> QED BY <1>1, <1>2, <1>3, TypeCorrect, PTL DEF Spec

-----------------------------------------------------------------------------
(* The bus while WE# is low *)

\* The units that write leave their initialisation in the same clock.
InitTogether ==
  \/ cle.state # "LATCH_INIT" /\ ale.state # "LATCH_INIT" /\ iowr.state # "IO_INIT"
  \/ /\ cle.state = "LATCH_INIT" /\ ale.state = "LATCH_INIT" /\ iowr.state = "IO_INIT"
     /\ cle.init_counter = ale.init_counter /\ cle.init_counter = iowr.init_counter

LEMMA TogetherStep ==
  ASSUME TypeInvariant, UnitDiscipline, InitTogether,
         NEW activate \in BOOLEAN, NEW cmd_in, NEW data_in \in Byte,
         Edge(activate, cmd_in, data_in)
  PROVE  InitTogether'
<1>1. PICK bus \in Word : Step(activate, cmd_in, data_in, rnb, bus)
  BY DEF Edge
<1>2. /\ ACL!Tick(cle_activate) /\ AAL!Tick(ale_activate)
      /\ IO_WR!Tick(io_wr_activate, drive.io_wr_data_in)
  BY <1>1 DEF Step
<1>3. /\ cle_activate \in BOOLEAN /\ ale_activate \in BOOLEAN /\ io_wr_activate \in BOOLEAN
  BY DEF cle_activate, ale_activate, io_wr_activate, At
<1>4. drive.io_wr_data_in \in Word
  BY SMT DEF TypeInvariant, MasterType, DataType
<1>5. ACL!LatchType /\ AAL!LatchType /\ IO_WR!IoType(Word)
  BY DEF TypeInvariant, UnitsType
<1>6. ACL!InitOnce /\ AAL!InitOnce /\ IO_WR!InitOnce
  BY DEF UnitDiscipline
<1>7. CASE cle.state # "LATCH_INIT" /\ ale.state # "LATCH_INIT" /\ iowr.state # "IO_INIT"
  BY <1>2, <1>3, <1>4, <1>5, <1>6, <1>7, CommandLatchInit, AddressLatchInit, WriterInit
     DEF InitTogether
<1>8. CASE /\ cle.state = "LATCH_INIT" /\ ale.state = "LATCH_INIT" /\ iowr.state = "IO_INIT"
           /\ cle.init_counter = ale.init_counter /\ cle.init_counter = iowr.init_counter
  <2>1. ACL!Initialise /\ AAL!Initialise /\ IO_WR!Initialise
    BY <1>2, <1>8, SMT DEF ACL!Tick, AAL!Tick, IO_WR!Tick, ACL!Idle, AAL!Idle, IO_WR!Idle,
       ACL!Hold, AAL!Hold, IO_WR!Hold, ACL!Release, AAL!Release, ACL!Delay, AAL!Delay, IO_WR!Delay
  <2>2. CASE cle.init_counter < InitCycles
    <3>1. cle'.state = "LATCH_INIT" /\ cle'.init_counter = cle.init_counter + 1
      BY <1>5, <2>1, <2>2, SMT DEF ACL!Initialise, ACL!LatchType
    <3>2. ale'.state = "LATCH_INIT" /\ ale'.init_counter = cle.init_counter + 1
      <4>1. ale.init_counter < InitCycles BY <1>8, <2>2
      <4>2. ale' = [ale EXCEPT !.init_counter = @ + 1, !.delay = 0, !.n_state = "LATCH_INIT"]
        BY <2>1, <4>1, Zenon DEF AAL!Initialise
      <4>3. ale'.state = ale.state /\ ale'.init_counter = ale.init_counter + 1
        BY <1>5, <4>2, SMT DEF AAL!LatchType
      <4> QED BY <1>8, <4>3
    <3>3. iowr'.state = "IO_INIT" /\ iowr'.init_counter = cle.init_counter + 1
      BY <1>5, <1>8, <2>1, <2>2, SMT DEF IO_WR!Initialise, IO_WR!IoType
    <3> QED BY <3>1, <3>2, <3>3 DEF InitTogether
  <2>3. CASE ~(cle.init_counter < InitCycles)
    <3>1. cle'.state = "LATCH_IDLE"
      BY <1>5, <2>1, <2>3, SMT DEF ACL!Initialise, ACL!LatchType
    <3>2. ale'.state = "LATCH_IDLE"
      <4>1. ~(ale.init_counter < InitCycles) BY <1>8, <2>3
      <4>2. ale' = [ale EXCEPT !.state = "LATCH_IDLE", !.n_state = "LATCH_IDLE"]
        BY <2>1, <4>1, Zenon DEF AAL!Initialise
      <4> QED BY <1>5, <4>2, SMT DEF AAL!LatchType
    <3>3. iowr'.state = "IO_IDLE"
      BY <1>5, <1>8, <2>1, <2>3, SMT DEF IO_WR!Initialise, IO_WR!IoType
    <3> QED BY <3>1, <3>2, <3>3, SMT DEF InitTogether
  <2> QED BY <2>2, <2>3
<1> QED BY <1>7, <1>8 DEF InitTogether

LEMMA Together ==
  ASSUME 23 \notin Commands
  PROVE  Spec => []InitTogether
<1>1. Init => InitTogether
  BY SMT DEF Init, MasterInit, InitTogether, ACL!PowerOn, AAL!PowerOn, IO_WR!PowerOn
<1>2. TypeInvariant /\ UnitDiscipline /\ InitTogether /\ [Next]_vars => InitTogether'
  <2> SUFFICES ASSUME TypeInvariant, UnitDiscipline, InitTogether, [Next]_vars
               PROVE  InitTogether'
    OBVIOUS
  <2>1. CASE Clock
    <3>1. \A data_in \in Byte : Edge(FALSE, 0, data_in) => InitTogether' BY TogetherStep
    <3>2. \A cmd_in : Edge(TRUE, cmd_in, 0) => InitTogether' BY TogetherStep, Literals, ZenonT(20)
    <3> QED BY <2>1, <3>1, <3>2, Literals, ZenonT(20) DEF Clock
  <2>2. CASE Reset
    BY <2>2, SMT DEF Reset, HardReset, InitTogether, ACL!PowerOn, AAL!PowerOn, IO_WR!PowerOn
  <2>3. CASE UNCHANGED <<master, enable, units>>
    BY <2>3 DEF InitTogether, units
  <2> QED BY <2>1, <2>2, <2>3 DEF Next, GoBusy, BecomeReady, vars
<1> QED BY <1>1, <1>2, TypeCorrect, UnitsDisciplined, PTL DEF Spec

LEMMA CommandLatchHolds ==
  ASSUME ACL!LatchType, NEW a, ACL!Tick(a), ACL!write_enable = 0
  PROVE  ACL!busy /\ ACL!busy' /\ ACL!presents /\ ACL!presents' /\ ACL!latch_ctrl /\ ACL!latch_ctrl'
BY SMT DEF ACL!LatchType, ACL!Tick, ACL!Initialise, ACL!Idle, ACL!Hold, ACL!Release, ACL!Delay,
   ACL!write_enable, ACL!busy, ACL!presents, ACL!latch_ctrl

LEMMA AddressLatchHolds ==
  ASSUME AAL!LatchType, NEW a, AAL!Tick(a), AAL!write_enable = 0
  PROVE  AAL!busy /\ AAL!busy' /\ AAL!presents /\ AAL!presents' /\ AAL!latch_ctrl /\ AAL!latch_ctrl'
BY SMT DEF AAL!LatchType, AAL!Tick, AAL!Initialise, AAL!Idle, AAL!Hold, AAL!Release, AAL!Delay,
   AAL!write_enable, AAL!busy, AAL!presents, AAL!latch_ctrl

LEMMA WriterHolds ==
  ASSUME IO_WR!IoType(Word), NEW a, NEW d, IO_WR!Tick(a, d), IO_WR!io_ctrl = 0
  PROVE  IO_WR!busy /\ IO_WR!busy' /\ iowr'.data_reg = iowr.data_reg
<1>1. iowr.state = "IO_DELAY" /\ iowr.n_state = "IO_HOLD"
  BY SMT DEF IO_WR!io_ctrl
<1>2. IO_WR!Delay(d)
  BY <1>1, SMT DEF IO_WR!Tick, IO_WR!Initialise, IO_WR!Idle, IO_WR!Hold
<1>3. CASE iowr.delay > 1
  <2>1. iowr' = [iowr EXCEPT !.delay = iowr.delay - 1, !.data_reg = iowr.data_reg]
    BY <1>2, <1>3, Zenon DEF IO_WR!Delay, IO_WR!Samples
  <2> QED BY <1>1, <2>1, SMT DEF IO_WR!IoType, IO_WR!busy
<1>4. CASE ~(iowr.delay > 1)
  <2>1. iowr' = [iowr EXCEPT !.state = iowr.n_state]
    BY <1>2, <1>4, Zenon DEF IO_WR!Delay
  <2> QED BY <1>1, <2>1, SMT DEF IO_WR!IoType, IO_WR!busy
<1> QED BY <1>3, <1>4

LEMMA LatchesRest ==
  /\ \A a : ~ACL!busy /\ ACL!Tick(a) /\ ~a => cle' = cle
  /\ \A a : ~AAL!busy /\ AAL!Tick(a) /\ ~a => ale' = ale
BY SMT DEF ACL!busy, ACL!Tick, ACL!Initialise, ACL!Idle, ACL!Hold, ACL!Release, ACL!Delay,
   AAL!busy, AAL!Tick, AAL!Initialise, AAL!Idle, AAL!Hold, AAL!Release, AAL!Delay

\* While a unit strobes, the master waits in M_WAIT or, in a page read, comes to it: it does not
\* touch what it drives and starts no unit.
LEMMA MasterStandsBy ==
  ASSUME NEW activate, NEW cmd_in, NEW data_in, NEW r, MasterTick(activate, cmd_in, data_in, r),
         state = "M_WAIT" \/ At("M_NAND_READ", {"MS_SUBMIT_ADDRESS"})
  PROVE  /\ drive' = drive
         /\ ~cle_activate /\ ~ale_activate /\ ~io_wr_activate /\ ~io_rd_activate
<1>1. ~cle_activate /\ ~ale_activate /\ ~io_wr_activate /\ ~io_rd_activate
  BY SMT DEF At, cle_activate, ale_activate, io_wr_activate, io_rd_activate
<1>2. CASE UNCHANGED master BY <1>1, <1>2 DEF master
<1>3. CASE Wait(r) \/ Delay BY <1>1, <1>3 DEF Wait, Delay
<1>4. CASE ReadPage BY <1>1, <1>4, SMT DEF ReadPage, At
<1>5. ~MasterReset /\ ~MasterIdle(activate, cmd_in) /\ ~RegisterCommand(data_in)
  BY SMT DEF At, MasterReset, MasterIdle, RegisterCommand, GetStatus, SelectChip, SetProtection,
     ResetIndex, GetIdByte, GetParamPageByte, GetDataPageByte, GetCurrentAddressByte,
     SetDataPageByte, SetCurrentAddressByte
<1>6. BusOperation(data_in) => ReadPage
  BY SMT DEF At, BusOperation, NandReset, PageProgram, ReadStatus, BlockErase, ReadId,
     ReadParamPage, BypassLatch, BypassDataWr, BypassDataRd
<1> QED BY <1>2, <1>3, <1>4, <1>5, <1>6 DEF MasterTick

LEMMA StrobeKeepsBus ==
  ASSUME TypeInvariant, UnitDiscipline, InitTogether,
         NEW activate, NEW cmd_in, NEW data_in, Edge(activate, cmd_in, data_in), nand_nwe = 0
  PROVE  bus_out' = bus_out /\ nand_cle' = nand_cle /\ nand_ale' = nand_ale
<1>1. PICK bus \in Word : Step(activate, cmd_in, data_in, rnb, bus)
  BY DEF Edge
<1>2. /\ ACL!Tick(cle_activate) /\ AAL!Tick(ale_activate)
      /\ IO_WR!Tick(io_wr_activate, drive.io_wr_data_in)
      /\ MasterTick(activate, cmd_in, data_in, rnb)
  BY <1>1 DEF Step
<1>3. ACL!LatchType /\ AAL!LatchType /\ IO_WR!IoType(Word)
  BY DEF TypeInvariant, UnitsType
<1>4. /\ ACL!write_enable = 0 => ACL!active /\ cle.state # "LATCH_INIT"
      /\ AAL!write_enable = 0 => AAL!active /\ ale.state # "LATCH_INIT"
      /\ IO_WR!io_ctrl = 0 => IO_WR!active /\ iowr.state # "IO_INIT"
      /\ ACL!write_enable = 0 \/ AAL!write_enable = 0 \/ IO_WR!io_ctrl = 0
  BY SMT DEF nand_nwe, ACL!write_enable, AAL!write_enable, IO_WR!io_ctrl,
     ACL!active, AAL!active, IO_WR!active
<1>5. state = "M_WAIT" \/ At("M_NAND_READ", {"MS_SUBMIT_ADDRESS"})
  BY <1>4, Zenon DEF UnitDiscipline, Quiet
<1>6. /\ drive' = drive
      /\ ~cle_activate /\ ~ale_activate /\ ~io_wr_activate /\ ~io_rd_activate
  BY <1>2, <1>5, MasterStandsBy
<1>7. cle.state # "LATCH_INIT" /\ ale.state # "LATCH_INIT"
  BY <1>4, Zenon DEF InitTogether
<1>8. /\ ~ACL!active => ~ACL!busy /\ ~ACL!latch_ctrl /\ cle' = cle
      /\ ~AAL!active => ~AAL!busy /\ ~AAL!latch_ctrl /\ ale' = ale
  <2>1. ~ACL!active => ~ACL!busy /\ ~ACL!latch_ctrl
    BY <1>7, SMT DEF ACL!active, ACL!busy, ACL!latch_ctrl
  <2>2. ~AAL!active => ~AAL!busy /\ ~AAL!latch_ctrl
    BY <1>7, SMT DEF AAL!active, AAL!busy, AAL!latch_ctrl
  <2> QED BY <1>2, <1>6, <2>1, <2>2, LatchesRest
<1>9. CASE ACL!write_enable = 0
  <2>1. ~AAL!active BY <1>4, <1>9 DEF UnitDiscipline, OneUnitAtATime
  <2>2. ale' = ale BY <1>8, <2>1
  <2>3. ACL!busy /\ ACL!busy' /\ ACL!presents /\ ACL!presents' /\ ACL!latch_ctrl /\ ACL!latch_ctrl'
    BY <1>2, <1>3, <1>9, CommandLatchHolds
  <2>4. bus_out = drive.cle_data_in /\ bus_out' = drive'.cle_data_in BY <2>3 DEF bus_out
  <2> QED BY <1>6, <2>2, <2>3, <2>4 DEF nand_cle, nand_ale, AAL!latch_ctrl
<1>10. CASE AAL!write_enable = 0
  <2>1. ~ACL!active BY <1>4, <1>10 DEF UnitDiscipline, OneUnitAtATime
  <2>2. cle' = cle /\ ~ACL!busy BY <1>8, <2>1
  <2>3. ~ACL!busy' BY <2>2 DEF ACL!busy
  <2>4. AAL!busy /\ AAL!busy' /\ AAL!presents /\ AAL!presents' /\ AAL!latch_ctrl /\ AAL!latch_ctrl'
    BY <1>2, <1>3, <1>10, AddressLatchHolds
  <2>5. bus_out = drive.ale_data_in /\ bus_out' = drive'.ale_data_in BY <2>2, <2>3, <2>4 DEF bus_out
  <2> QED BY <1>6, <2>2, <2>4, <2>5 DEF nand_cle, nand_ale, ACL!latch_ctrl
<1>11. CASE IO_WR!io_ctrl = 0
  <2>1. ~ACL!active /\ ~AAL!active BY <1>4, <1>11 DEF UnitDiscipline, OneUnitAtATime
  <2>2. cle' = cle /\ ~ACL!busy /\ ale' = ale /\ ~AAL!busy BY <1>8, <2>1
  <2>3. ~ACL!busy' /\ ~AAL!busy' BY <2>2 DEF ACL!busy, AAL!busy
  <2>4. IO_WR!busy /\ IO_WR!busy' /\ iowr'.data_reg = iowr.data_reg
    BY <1>2, <1>3, <1>11, WriterHolds
  <2>5. bus_out = iowr.data_reg /\ bus_out' = iowr'.data_reg BY <2>2, <2>3, <2>4 DEF bus_out
  <2> QED BY <2>2, <2>4, <2>5 DEF nand_cle, nand_ale, ACL!latch_ctrl, AAL!latch_ctrl
<1> QED BY <1>4, <1>9, <1>10, <1>11

\* The word on nand_data, CLE and ALE stand still while WE# is low and at its rising edge, where
\* the chip latches them: the registers that feed the bus (nand_master.v:111-123) change only
\* between strobes, whatever the delays, the host's commands and the chips are; for a host that
\* does not use the bypass read.
THEOREM BusHeld ==
  ASSUME 23 \notin Commands
  PROVE  Spec => BusStable
<1>1. TypeInvariant /\ UnitDiscipline /\ InitTogether /\ [Next]_vars =>
        [nand_nwe = 0 /\ state' # "M_RESET" =>
           bus_out' = bus_out /\ nand_cle' = nand_cle /\ nand_ale' = nand_ale]_vars
  <2> SUFFICES ASSUME TypeInvariant, UnitDiscipline, InitTogether, [Next]_vars,
                      nand_nwe = 0, state' # "M_RESET"
               PROVE  bus_out' = bus_out /\ nand_cle' = nand_cle /\ nand_ale' = nand_ale
    OBVIOUS
  <2>1. CASE Clock BY <2>1, StrobeKeepsBus DEF Clock
  <2>2. CASE Reset BY <2>2 DEF Reset, HardReset
  <2>3. CASE UNCHANGED <<master, enable, units>>
    BY <2>3 DEF bus_out, nand_cle, nand_ale, ACL!busy, AAL!busy, IO_WR!busy, ACL!presents,
       AAL!presents, ACL!latch_ctrl, AAL!latch_ctrl, master, units
  <2> QED BY <2>1, <2>2, <2>3 DEF Next, GoBusy, BecomeReady, vars
<1> QED BY <1>1, TypeCorrect, UnitsDisciplined, Together, PTL DEF Spec, BusStable

-----------------------------------------------------------------------------
(* The index of the buffers *)

\* The geometry in use fits the memories: five address bytes, and a page that is not empty and
\* that page_data holds. The defaults do; what a parameter page says is not compared with them.
Fits ==
  state # "M_RESET" =>
    /\ geometry.addr_cycles <= 5 /\ 1 <= PageBytes
    /\ PageBytes <= PageDepth /\ (Wide => 2 * PageBytes <= PageDepth)

\* The operation in progress, seen through the waits.
Doing == IF state \in {"M_WAIT", "M_DELAY"} THEN n_state ELSE state

\* The cells that n transfers of the bus fill or empty.
Cells(n) == IF Wide THEN 2 * n ELSE n

\* How the counter and the index go together, substate by substate.
AddressIndex ==
  /\ substate = "MS_SUBMIT_COMMAND" =>
       0 <= byte_count /\ (byte_count = 0 \/ byte_count < geometry.addr_cycles)
  /\ substate = "MS_SUBMIT_ADDRESS" => 0 <= byte_count
ReadIndex ==
  /\ substate \notin {"MS_WRITE_DATA1", "MS_WRITE_DATA2"}
  /\ substate = "MS_READ_DATA0" =>
       0 <= byte_count /\ byte_count < PageBytes /\ page_idx = Cells(byte_count)
  /\ substate = "MS_READ_DATA1" =>
       1 <= byte_count /\ byte_count <= PageBytes /\ page_idx = Cells(byte_count - 1)
  /\ substate = "MS_READ_DATA2" =>
       Wide /\ 1 <= byte_count /\ byte_count <= PageBytes /\ page_idx = 2 * byte_count - 1
ProgramIndex ==
  /\ substate \notin {"MS_READ_DATA1", "MS_READ_DATA2"}
  /\ substate = "MS_WRITE_DATA1" =>
       0 <= byte_count /\ byte_count < PageBytes /\ page_idx = Cells(byte_count)
  /\ substate = "MS_WRITE_DATA2" =>
       Wide /\ 1 <= byte_count /\ byte_count <= PageBytes /\ page_idx = 2 * byte_count - 1
  /\ substate = "MS_WRITE_DATA3" =>
       1 <= byte_count /\ byte_count <= PageBytes /\ page_idx = Cells(byte_count)
EraseIndex ==
  /\ substate = "MS_SUBMIT_COMMAND" => 1 <= byte_count /\ byte_count <= 3
  /\ substate = "MS_SUBMIT_ADDRESS" => 0 <= byte_count /\ byte_count <= 2
CountdownIndex(size) ==
  /\ substate = "MS_READ_DATA0" =>
       1 <= byte_count /\ byte_count <= size /\ page_idx = size - byte_count
  /\ substate = "MS_READ_DATA1" =>
       0 <= byte_count /\ byte_count < size /\ page_idx = size - 1 - byte_count

IndexInv ==
  /\ n_state \notin {"M_WAIT", "M_DELAY"}
  /\ Doing \in RegisterStates \union {"M_IDLE", "M_NAND_RESET"} => substate = "MS_BEGIN"
  /\ Doing = "M_NAND_READ" => AddressIndex /\ ReadIndex
  /\ Doing = "M_NAND_PAGE_PROGRAM" => AddressIndex /\ ProgramIndex
  /\ Doing = "M_NAND_BLOCK_ERASE" => EraseIndex
  /\ Doing = "M_NAND_READ_ID" => CountdownIndex(5)
  /\ Doing = "M_NAND_READ_PARAM_PAGE" => CountdownIndex(ParamBytes)

LEMMA IndexWithin ==
  ASSUME TypeInvariant, IndexInv, Fits
  PROVE  IndexInBounds
<1>1. byte_count \in Int /\ page_idx \in Nat BY DEF TypeInvariant, MasterType, CounterType
<1>2. PageDepth \in Nat /\ ParamBytes \in Nat BY GeometryAssumption
<1>3. PageBytes \in Nat /\ geometry.addr_cycles \in Nat
  BY SMT DEF TypeInvariant, MasterType, ConfigType, PageBytes
<1>4. ASSUME state = "M_NAND_READ"
      PROVE  /\ substate \in {"MS_READ_DATA1", "MS_READ_DATA2", "MS_WRITE_DATA1", "MS_WRITE_DATA2"}
                  => page_idx < PageDepth
             /\ substate = "MS_SUBMIT_COMMAND" => byte_count < 5
  <2>1. AddressIndex /\ ReadIndex BY <1>4 DEF IndexInv, Doing
  <2> QED BY <1>1, <1>2, <1>3, <1>4, <2>1, SMT DEF AddressIndex, ReadIndex, Cells, Fits
<1>5. ASSUME state = "M_NAND_PAGE_PROGRAM"
      PROVE  /\ substate \in {"MS_READ_DATA1", "MS_READ_DATA2", "MS_WRITE_DATA1", "MS_WRITE_DATA2"}
                  => page_idx < PageDepth
             /\ substate = "MS_SUBMIT_COMMAND" => byte_count < 5
  <2>1. AddressIndex /\ ProgramIndex BY <1>5 DEF IndexInv, Doing
  <2> QED BY <1>1, <1>2, <1>3, <1>5, <2>1, SMT DEF AddressIndex, ProgramIndex, Cells, Fits
<1>6. state = "M_NAND_BLOCK_ERASE" /\ substate = "MS_SUBMIT_COMMAND" => byte_count \in 1..3
  BY <1>1, SMT DEF IndexInv, Doing, EraseIndex
<1>7. At("M_NAND_READ_ID", {"MS_READ_DATA1"}) => page_idx < 5
  BY <1>1, SMT DEF IndexInv, Doing, CountdownIndex, At
<1>8. At("M_NAND_READ_PARAM_PAGE", {"MS_READ_DATA1"}) => page_idx < ParamBytes
  BY <1>1, <1>2, SMT DEF IndexInv, Doing, CountdownIndex, At
<1>9. state = "MI_SET_CURRENT_ADDRESS_BYTE" /\ page_idx < geometry.addr_cycles => page_idx < 5
  BY <1>1, <1>3, SMT DEF Fits
<1>10. state \in {"MI_SET_DATA_PAGE_BYTE", "MI_GET_DATA_PAGE_BYTE"} /\ page_idx < PageBytes
         => page_idx < PageDepth
  BY <1>1, <1>2, <1>3, SMT DEF Fits
<1> QED BY <1>4, <1>5, <1>6, <1>7, <1>8, <1>9, <1>10, SMT DEF IndexInBounds, At

Indexed == {"M_NAND_READ", "M_NAND_PAGE_PROGRAM", "M_NAND_BLOCK_ERASE", "M_NAND_READ_ID",
            "M_NAND_READ_PARAM_PAGE"}
AtRest == RegisterStates \union {"M_IDLE", "M_NAND_RESET"}

LEMMA IndexFresh ==
  ASSUME n_state' \notin {"M_WAIT", "M_DELAY"}, substate' = "MS_BEGIN"
  PROVE  IndexInv'
BY SMT DEF IndexInv, AddressIndex, ReadIndex, ProgramIndex, EraseIndex, CountdownIndex

LEMMA IndexElsewhere ==
  ASSUME n_state' \notin {"M_WAIT", "M_DELAY"}, Doing' \notin Indexed \union AtRest
  PROVE  IndexInv'
BY Zenon DEF IndexInv, Indexed, AtRest

LEMMA IndexWaits ==
  ASSUME IndexInv, Doing' = Doing, n_state' \notin {"M_WAIT", "M_DELAY"},
         UNCHANGED <<substate, byte_count, page_idx, config>>
  PROVE  IndexInv'
BY SMTT(30) DEF IndexInv, AddressIndex, ReadIndex, ProgramIndex, EraseIndex, CountdownIndex, Cells,
   PageBytes, Wide, config

\* Where the ways of moving on lead.
LEMMA Moves ==
  ASSUME IndexInv, state \in BusStates
  PROVE  /\ \A next : WaitFor(next) => Doing' = state /\ substate' = next
         /\ \A n, next : DelayFor(n, next) => Doing' = state /\ substate' = next
         /\ \A next : Continue(next) => Doing' = state /\ substate' = next
         /\ Finish => Doing' = "M_IDLE" /\ substate' = "MS_BEGIN"
         /\ Doing = state
BY SMT DEF IndexInv, BusStates, WaitFor, DelayFor, Continue, Finish, Doing

LEMMA Unmoved ==
  ASSUME UNCHANGED config
  PROVE  PageBytes' = PageBytes /\ Wide' = Wide /\ geometry' = geometry
BY DEF config, PageBytes, Wide

LEMMA ReadIndexStep ==
  ASSUME TypeInvariant, IndexInv, Fits, ReadPage
  PROVE  IndexInv'
<1>1. byte_count \in Int /\ page_idx \in Nat /\ PageBytes \in Nat
  BY SMT DEF TypeInvariant, MasterType, CounterType, ConfigType, PageBytes
<1>2. state = "M_NAND_READ" /\ state \in BusStates /\ UNCHANGED config
  BY SMT DEF ReadPage, BusStates
<1>3. PageBytes' = PageBytes /\ Wide' = Wide /\ geometry' = geometry
  BY <1>2, Unmoved
<1>4. AddressIndex /\ ReadIndex /\ 1 <= PageBytes
  BY <1>2, SMT DEF IndexInv, Doing, Fits
<1>5. n_state' \notin {"M_WAIT", "M_DELAY"}
  BY <1>2, SMT DEF IndexInv, ReadPage, WaitFor, Continue, Finish
<1>6. ASSUME Doing' = "M_NAND_READ", AddressIndex', ReadIndex' PROVE IndexInv'
  BY <1>5, <1>6, SMT DEF IndexInv, RegisterStates
<1>7. CASE substate = "MS_BEGIN"
  <2>1. Doing' = "M_NAND_READ" /\ substate' = "MS_SUBMIT_COMMAND" /\ byte_count' = 0
    BY <1>2, <1>7, Moves, SMT DEF ReadPage
  <2> QED BY <1>6, <2>1, SMT DEF AddressIndex, ReadIndex
<1>8. CASE substate = "MS_SUBMIT_COMMAND"
  <2>1. Doing' = "M_NAND_READ" /\ substate' = "MS_SUBMIT_ADDRESS" /\ byte_count' = byte_count + 1
    BY <1>2, <1>8, Moves, SMT DEF ReadPage
  <2> QED BY <1>1, <1>4, <1>6, <1>8, <2>1, SMT DEF AddressIndex, ReadIndex
<1>9. CASE substate = "MS_SUBMIT_ADDRESS"
  <2>1. /\ Doing' = "M_NAND_READ" /\ byte_count' = byte_count
        /\ substate' = IF byte_count < geometry.addr_cycles THEN "MS_SUBMIT_COMMAND"
                                                            ELSE "MS_SUBMIT_COMMAND1"
    BY <1>2, <1>9, Moves, SMT DEF ReadPage
  <2> QED BY <1>1, <1>3, <1>4, <1>6, <1>9, <2>1, SMT DEF AddressIndex, ReadIndex
<1>10. CASE substate \in {"MS_SUBMIT_COMMAND1", "MS_DELAY"}
  <2>1. Doing' = "M_NAND_READ" /\ substate' \in {"MS_DELAY", "MS_WAIT_tRR"}
    BY <1>2, <1>10, Moves, SMT DEF ReadPage
  <2> QED BY <1>6, <2>1, SMT DEF AddressIndex, ReadIndex
<1>11. CASE substate = "MS_WAIT_tRR"
  <2>1. Doing' = "M_NAND_READ" /\ substate' = "MS_READ_DATA0" /\ byte_count' = 0 /\ page_idx' = 0
    BY <1>2, <1>11, Moves, SMT DEF ReadPage
  <2> QED BY <1>1, <1>3, <1>4, <1>6, <2>1, SMT DEF AddressIndex, ReadIndex, Cells
<1>12. CASE substate = "MS_READ_DATA0"
  <2>1. /\ Doing' = "M_NAND_READ" /\ substate' = "MS_READ_DATA1"
        /\ byte_count' = byte_count + 1 /\ page_idx' = page_idx
    BY <1>2, <1>12, Moves, SMT DEF ReadPage
  <2> QED BY <1>1, <1>3, <1>4, <1>6, <1>12, <2>1, SMT DEF AddressIndex, ReadIndex, Cells
<1>13. CASE substate = "MS_READ_DATA1"
  <2>1. /\ Doing' = "M_NAND_READ" /\ byte_count' = byte_count /\ page_idx' = page_idx + 1
        /\ substate' = IF Wide THEN "MS_READ_DATA2"
                       ELSE IF byte_count = PageBytes THEN "MS_END" ELSE "MS_READ_DATA0"
    BY <1>2, <1>13, Moves, SMT DEF ReadPage
  <2> QED BY <1>1, <1>3, <1>4, <1>6, <1>13, <2>1, SMT DEF AddressIndex, ReadIndex, Cells
<1>14. CASE substate = "MS_READ_DATA2"
  <2>1. /\ Doing' = "M_NAND_READ" /\ byte_count' = byte_count /\ page_idx' = page_idx + 1
        /\ substate' = IF byte_count = PageBytes THEN "MS_END" ELSE "MS_READ_DATA0"
    BY <1>2, <1>14, Moves, SMT DEF ReadPage
  <2> QED BY <1>1, <1>3, <1>4, <1>6, <1>14, <2>1, SMT DEF AddressIndex, ReadIndex, Cells
<1>15. CASE substate = "MS_END"
  BY <1>2, <1>5, <1>15, Moves, IndexFresh, SMT DEF ReadPage
<1> QED BY <1>7, <1>8, <1>9, <1>10, <1>11, <1>12, <1>13, <1>14, <1>15, SMT DEF ReadPage

LEMMA ProgramIndexStep ==
  ASSUME TypeInvariant, IndexInv, Fits, PageProgram
  PROVE  IndexInv'
<1>1. byte_count \in Int /\ page_idx \in Nat /\ PageBytes \in Nat
  BY SMT DEF TypeInvariant, MasterType, CounterType, ConfigType, PageBytes
<1>2. state = "M_NAND_PAGE_PROGRAM" /\ state \in BusStates /\ UNCHANGED config
  BY SMT DEF PageProgram, BusStates
<1>3. PageBytes' = PageBytes /\ Wide' = Wide /\ geometry' = geometry
  BY <1>2, Unmoved
<1>4. AddressIndex /\ ProgramIndex /\ 1 <= PageBytes
  BY <1>2, SMT DEF IndexInv, Doing, Fits
<1>5. n_state' \notin {"M_WAIT", "M_DELAY"}
  BY <1>2, SMT DEF IndexInv, PageProgram, WaitFor, DelayFor, Continue
<1>6. ASSUME Doing' = "M_NAND_PAGE_PROGRAM", AddressIndex', ProgramIndex' PROVE IndexInv'
  BY <1>5, <1>6, SMT DEF IndexInv, RegisterStates
<1>7. CASE substate = "MS_BEGIN"
  <2>1. Doing' = "M_NAND_PAGE_PROGRAM" /\ substate' = "MS_SUBMIT_COMMAND" /\ byte_count' = 0
    BY <1>2, <1>7, Moves, SMT DEF PageProgram
  <2> QED BY <1>6, <2>1, SMT DEF AddressIndex, ProgramIndex
<1>8. CASE substate = "MS_SUBMIT_COMMAND"
  <2>1. /\ Doing' = "M_NAND_PAGE_PROGRAM" /\ substate' = "MS_SUBMIT_ADDRESS"
        /\ byte_count' = byte_count + 1
    BY <1>2, <1>8, Moves, SMT DEF PageProgram
  <2> QED BY <1>1, <1>4, <1>6, <1>8, <2>1, SMT DEF AddressIndex, ProgramIndex
<1>9. CASE substate = "MS_SUBMIT_ADDRESS"
  <2>1. /\ Doing' = "M_NAND_PAGE_PROGRAM" /\ byte_count' = byte_count
        /\ substate' = IF byte_count < geometry.addr_cycles THEN "MS_SUBMIT_COMMAND"
                                                            ELSE "MS_WRITE_DATA0"
    BY <1>2, <1>9, Moves, SMT DEF PageProgram
  <2> QED BY <1>1, <1>3, <1>4, <1>6, <1>9, <2>1, SMT DEF AddressIndex, ProgramIndex
<1>10. CASE substate = "MS_WRITE_DATA0"
  <2>1. /\ Doing' = "M_NAND_PAGE_PROGRAM" /\ substate' = "MS_WRITE_DATA1"
        /\ byte_count' = 0 /\ page_idx' = 0
    BY <1>2, <1>10, Moves, SMT DEF PageProgram
  <2> QED BY <1>1, <1>3, <1>4, <1>6, <2>1, SMT DEF AddressIndex, ProgramIndex, Cells
<1>11. CASE substate = "MS_WRITE_DATA1"
  <2>1. /\ Doing' = "M_NAND_PAGE_PROGRAM"
        /\ byte_count' = byte_count + 1 /\ page_idx' = page_idx + 1
        /\ substate' = IF Wide THEN "MS_WRITE_DATA2" ELSE "MS_WRITE_DATA3"
    BY <1>2, <1>11, Moves, SMT DEF PageProgram
  <2> QED BY <1>1, <1>3, <1>4, <1>6, <1>11, <2>1, SMT DEF AddressIndex, ProgramIndex, Cells
<1>12. CASE substate = "MS_WRITE_DATA2"
  <2>1. /\ Doing' = "M_NAND_PAGE_PROGRAM" /\ substate' = "MS_WRITE_DATA3"
        /\ byte_count' = byte_count /\ page_idx' = page_idx + 1
    BY <1>2, <1>12, Moves, SMT DEF PageProgram
  <2> QED BY <1>1, <1>3, <1>4, <1>6, <1>12, <2>1, SMT DEF AddressIndex, ProgramIndex, Cells
<1>13. CASE substate = "MS_WRITE_DATA3"
  <2>1. /\ Doing' = "M_NAND_PAGE_PROGRAM" /\ byte_count' = byte_count /\ page_idx' = page_idx
        /\ substate' = IF byte_count < PageBytes THEN "MS_WRITE_DATA1" ELSE "MS_SUBMIT_COMMAND1"
    BY <1>2, <1>13, Moves, SMT DEF PageProgram
  <2> QED BY <1>1, <1>3, <1>4, <1>6, <1>13, <2>1, SMT DEF AddressIndex, ProgramIndex, Cells
<1>14. CASE substate \in {"MS_SUBMIT_COMMAND1", "MS_WAIT"}
  <2>1. Doing' = "M_NAND_PAGE_PROGRAM" /\ substate' \in {"MS_WAIT", "MS_END"}
    BY <1>2, <1>14, Moves, SMT DEF PageProgram
  <2> QED BY <1>6, <2>1, SMT DEF AddressIndex, ProgramIndex
<1>15. CASE substate = "MS_END"
  BY <1>2, <1>5, <1>15, IndexFresh, SMT DEF PageProgram
<1> QED BY <1>7, <1>8, <1>9, <1>10, <1>11, <1>12, <1>13, <1>14, <1>15, SMT DEF PageProgram

LEMMA EraseIndexStep ==
  ASSUME TypeInvariant, IndexInv, BlockErase
  PROVE  IndexInv'
<1>1. byte_count \in Int
  BY SMT DEF TypeInvariant, MasterType, CounterType
<1>2. state = "M_NAND_BLOCK_ERASE" /\ state \in BusStates
  BY SMT DEF BlockErase, BusStates
<1>3. EraseIndex
  BY <1>2, SMT DEF IndexInv, Doing
<1>4. n_state' \notin {"M_WAIT", "M_DELAY"}
  BY <1>2, SMT DEF IndexInv, BlockErase, WaitFor, Continue
<1>5. ASSUME Doing' = "M_NAND_BLOCK_ERASE", EraseIndex' PROVE IndexInv'
  BY <1>4, <1>5, SMT DEF IndexInv, RegisterStates
<1>6. CASE substate = "MS_BEGIN"
  <2>1. Doing' = "M_NAND_BLOCK_ERASE" /\ substate' = "MS_SUBMIT_COMMAND" /\ byte_count' = 3
    BY <1>2, <1>6, Moves, SMT DEF BlockErase
  <2> QED BY <1>5, <2>1, SMT DEF EraseIndex
<1>7. CASE substate = "MS_SUBMIT_COMMAND"
  <2>1. /\ Doing' = "M_NAND_BLOCK_ERASE" /\ substate' = "MS_SUBMIT_ADDRESS"
        /\ byte_count' = byte_count - 1
    BY <1>2, <1>7, Moves, SMT DEF BlockErase
  <2> QED BY <1>1, <1>3, <1>5, <1>7, <2>1, SMT DEF EraseIndex
<1>8. CASE substate = "MS_SUBMIT_ADDRESS"
  <2>1. /\ Doing' = "M_NAND_BLOCK_ERASE" /\ byte_count' = byte_count
        /\ substate' = IF 0 < byte_count THEN "MS_SUBMIT_COMMAND" ELSE "MS_SUBMIT_COMMAND1"
    BY <1>2, <1>8, Moves, SMT DEF BlockErase
  <2> QED BY <1>1, <1>3, <1>5, <1>8, <2>1, SMT DEF EraseIndex
<1>9. CASE substate = "MS_SUBMIT_COMMAND1"
  <2>1. Doing' = "M_NAND_BLOCK_ERASE" /\ substate' = "MS_END"
    BY <1>2, <1>9, Moves, SMT DEF BlockErase
  <2> QED BY <1>5, <2>1, SMT DEF EraseIndex
<1>10. CASE substate = "MS_END"
  BY <1>2, <1>4, <1>10, IndexFresh, SMT DEF BlockErase
<1> QED BY <1>6, <1>7, <1>8, <1>9, <1>10, SMT DEF BlockErase

LEMMA ReadIdIndexStep ==
  ASSUME TypeInvariant, IndexInv, ReadId
  PROVE  IndexInv'
<1>1. byte_count \in Int /\ page_idx \in Nat
  BY SMT DEF TypeInvariant, MasterType, CounterType
<1>2. state = "M_NAND_READ_ID" /\ state \in BusStates
  BY SMT DEF ReadId, BusStates
<1>3. CountdownIndex(5)
  BY <1>2, SMT DEF IndexInv, Doing
<1>4. n_state' \notin {"M_WAIT", "M_DELAY"}
  BY <1>2, SMT DEF IndexInv, ReadId, WaitFor, DelayFor, Continue, Finish
<1>5. ASSUME Doing' = "M_NAND_READ_ID", CountdownIndex(5)' PROVE IndexInv'
  BY <1>4, <1>5, SMT DEF IndexInv, RegisterStates
<1>6. CASE substate \in {"MS_BEGIN", "MS_SUBMIT_COMMAND"}
  <2>1. Doing' = "M_NAND_READ_ID" /\ substate' \in {"MS_SUBMIT_COMMAND", "MS_SUBMIT_ADDRESS"}
    BY <1>2, <1>6, Moves, SMT DEF ReadId
  <2> QED BY <1>5, <2>1, SMT DEF CountdownIndex
<1>7. CASE substate = "MS_SUBMIT_ADDRESS"
  <2>1. /\ Doing' = "M_NAND_READ_ID" /\ substate' = "MS_READ_DATA0"
        /\ byte_count' = 5 /\ page_idx' = 0
    BY <1>2, <1>7, Moves, SMT DEF ReadId
  <2> QED BY <1>5, <2>1, SMT DEF CountdownIndex
<1>8. CASE substate = "MS_READ_DATA0"
  <2>1. /\ Doing' = "M_NAND_READ_ID" /\ substate' = "MS_READ_DATA1"
        /\ byte_count' = byte_count - 1 /\ page_idx' = page_idx
    BY <1>2, <1>8, Moves, SMT DEF ReadId
  <2> QED BY <1>1, <1>3, <1>5, <1>8, <2>1, SMT DEF CountdownIndex
<1>9. CASE substate = "MS_READ_DATA1"
  <2>1. /\ Doing' = "M_NAND_READ_ID" /\ byte_count' = byte_count
        /\ page_idx' = (IF 0 < byte_count THEN page_idx + 1 ELSE page_idx)
        /\ substate' = IF 0 < byte_count THEN "MS_READ_DATA0" ELSE "MS_END"
    BY <1>2, <1>9, Moves, SMT DEF ReadId
  <2> QED BY <1>1, <1>3, <1>5, <1>9, <2>1, SMT DEF CountdownIndex
<1>10. CASE substate = "MS_END"
  BY <1>2, <1>4, <1>10, Moves, IndexFresh, SMT DEF ReadId
<1> QED BY <1>6, <1>7, <1>8, <1>9, <1>10, SMT DEF ReadId

LEMMA ParamIndexStep ==
  ASSUME TypeInvariant, IndexInv, ReadParamPage
  PROVE  IndexInv'
<1>0. ParamBytes \in Nat /\ 1 <= ParamBytes
  <2>1. 0 \in 0..(ParamBytes - 1) BY GeometryAssumption
  <2> QED BY <2>1, GeometryAssumption, SMT
<1>1. byte_count \in Int /\ page_idx \in Nat
  BY SMT DEF TypeInvariant, MasterType, CounterType
<1>2. state = "M_NAND_READ_PARAM_PAGE" /\ state \in BusStates
  BY SMT DEF ReadParamPage, BusStates
<1>3. CountdownIndex(ParamBytes)
  BY <1>2, SMT DEF IndexInv, Doing
<1>4. n_state' \notin {"M_WAIT", "M_DELAY"}
  BY <1>2, SMT DEF IndexInv, ReadParamPage, WaitFor, Continue, Finish
<1>5. ASSUME Doing' = "M_NAND_READ_PARAM_PAGE", CountdownIndex(ParamBytes)' PROVE IndexInv'
  BY <1>4, <1>5, SMT DEF IndexInv, RegisterStates
<1>6. CASE substate \in {"MS_BEGIN", "MS_SUBMIT_COMMAND", "MS_SUBMIT_ADDRESS"}
  <2>1. /\ Doing' = "M_NAND_READ_PARAM_PAGE"
        /\ substate' \in {"MS_SUBMIT_COMMAND", "MS_SUBMIT_ADDRESS", "MS_WAIT_tRR"}
    BY <1>2, <1>6, Moves, SMT DEF ReadParamPage
  <2> QED BY <1>5, <2>1, SMT DEF CountdownIndex
<1>7. CASE substate = "MS_WAIT_tRR"
  <2>1. /\ Doing' = "M_NAND_READ_PARAM_PAGE" /\ substate' = "MS_READ_DATA0"
        /\ byte_count' = ParamBytes /\ page_idx' = 0
    BY <1>2, <1>7, Moves, SMT DEF ReadParamPage
  <2> QED BY <1>0, <1>5, <2>1, SMT DEF CountdownIndex
<1>8. CASE substate = "MS_READ_DATA0"
  <2>1. /\ Doing' = "M_NAND_READ_PARAM_PAGE" /\ substate' = "MS_READ_DATA1"
        /\ byte_count' = byte_count - 1 /\ page_idx' = page_idx
    BY <1>2, <1>8, Moves, SMT DEF ReadParamPage
  <2> QED BY <1>0, <1>1, <1>3, <1>5, <1>8, <2>1, SMT DEF CountdownIndex
<1>9. CASE substate = "MS_READ_DATA1"
  <2>1. /\ Doing' = "M_NAND_READ_PARAM_PAGE" /\ byte_count' = byte_count
        /\ page_idx' = (IF 0 < byte_count THEN page_idx + 1 ELSE page_idx)
        /\ substate' = IF 0 < byte_count THEN "MS_READ_DATA0" ELSE "MS_END"
    BY <1>2, <1>9, Moves, SMT DEF ReadParamPage
  <2> QED BY <1>0, <1>1, <1>3, <1>5, <1>9, <2>1, SMT DEF CountdownIndex
<1>10. CASE substate = "MS_END"
  BY <1>2, <1>4, <1>10, Moves, IndexFresh, SMT DEF ReadParamPage
<1> QED BY <1>6, <1>7, <1>8, <1>9, <1>10, SMT DEF ReadParamPage

LEMMA OtherOperationIndex ==
  ASSUME IndexInv, NEW data_in,
         NandReset \/ ReadStatus \/ BypassLatch(data_in) \/ BypassDataWr(data_in) \/ BypassDataRd
  PROVE  IndexInv'
<1>1. CASE NandReset
  <2>1. substate' = "MS_BEGIN" /\ n_state' = "M_IDLE"
    BY <1>1, SMT DEF IndexInv, Doing, NandReset
  <2> QED BY <2>1, IndexFresh
<1>2. CASE ReadStatus \/ BypassLatch(data_in) \/ BypassDataWr(data_in) \/ BypassDataRd
  <2>1. state \in {"M_NAND_READ_STATUS", "MI_BYPASS_ADDRESS", "MI_BYPASS_COMMAND",
                   "MI_BYPASS_DATA_WR", "MI_BYPASS_DATA_RD"} /\ state \in BusStates
    BY <1>2, SMT DEF ReadStatus, BypassLatch, BypassDataWr, BypassDataRd, BusStates
  <2>2. n_state' \notin {"M_WAIT", "M_DELAY"}
    BY <1>2, <2>1, SMT DEF IndexInv, ReadStatus, BypassLatch, BypassDataWr, BypassDataRd,
       WaitFor, DelayFor, Continue, Finish
  <2>3. substate' = "MS_BEGIN" \/ Doing' = state
    BY <1>2, <2>1, SMT DEF IndexInv, Doing, ReadStatus, BypassLatch, BypassDataWr, BypassDataRd,
       WaitFor, DelayFor, Continue, Finish
  <2>4. state \notin Indexed \union AtRest
    BY <2>1, SMT DEF Indexed, AtRest, RegisterStates
  <2> QED BY <2>2, <2>3, <2>4, IndexFresh, IndexElsewhere
<1> QED BY <1>1, <1>2

LEMMA MasterKeepsIndex ==
  ASSUME TypeInvariant, IndexInv, Fits,
         NEW activate, NEW cmd_in, NEW data_in, NEW r, MasterTick(activate, cmd_in, data_in, r)
  PROVE  IndexInv'
<1>1. CASE UNCHANGED master
  BY <1>1, IndexWaits DEF master, control, Doing, IndexInv
<1>2. CASE MasterReset
  BY <1>2, IndexFresh DEF MasterReset, IndexInv
<1>3. CASE MasterIdle(activate, cmd_in)
  <2>1. substate = "MS_BEGIN"
    BY <1>3, SMT DEF MasterIdle, IndexInv, Doing
  <2> QED BY <1>3, <2>1, IndexFresh DEF MasterIdle, IndexInv
<1>4. CASE RegisterCommand(data_in)
  <2>1. state \in RegisterStates
    BY <1>4, SMT DEF RegisterCommand, GetStatus, SelectChip, SetProtection, ResetIndex, GetIdByte,
       GetParamPageByte, GetDataPageByte, GetCurrentAddressByte, SetDataPageByte,
       SetCurrentAddressByte, RegisterStates
  <2>2. UNCHANGED <<n_state, substate>>
    BY <1>4 DEF RegisterCommand, GetStatus, SelectChip, SetProtection, ResetIndex, GetIdByte,
       GetParamPageByte, GetDataPageByte, GetCurrentAddressByte, SetDataPageByte,
       SetCurrentAddressByte, GetByte, AdvanceIndex, Return
  <2>3. substate = "MS_BEGIN"
    BY <2>1, SMT DEF IndexInv, Doing, RegisterStates
  <2> QED BY <2>2, <2>3, IndexFresh DEF IndexInv
<1>5. CASE BusOperation(data_in)
  BY <1>5, ReadIndexStep, ProgramIndexStep, EraseIndexStep, ReadIdIndexStep, ParamIndexStep,
     OtherOperationIndex DEF BusOperation
<1>6. CASE Wait(r) \/ Delay
  <2>1. state' \in {state, "M_WAIT", n_state} /\ UNCHANGED <<n_state, substate, byte_count, page_idx, config>>
    BY <1>6 DEF Wait, Delay, Countdown
  <2>2. Doing' = Doing
    BY <1>6, <2>1, SMT DEF Doing, Wait, Delay, IndexInv
  <2> QED BY <2>1, <2>2, IndexWaits DEF IndexInv
<1> QED BY <1>1, <1>2, <1>3, <1>4, <1>5, <1>6 DEF MasterTick

LEMMA IndexInvariant == Spec /\ []Fits => []IndexInv
<1>1. Init => IndexInv
  BY SMT DEF Init, MasterInit, IndexInv, AddressIndex, ReadIndex, ProgramIndex, EraseIndex,
     CountdownIndex
<1>2. TypeInvariant /\ IndexInv /\ Fits /\ [Next]_vars => IndexInv'
  <2> SUFFICES ASSUME TypeInvariant, IndexInv, Fits, [Next]_vars PROVE IndexInv'
    OBVIOUS
  <2>1. CASE Clock BY <2>1, MasterKeepsIndex DEF Clock, Edge, Step
  <2>2. CASE Reset
    <3>1. Doing' = "M_RESET" /\ n_state' = n_state
      BY <2>2 DEF Reset, HardReset, Doing
    <3>2. "M_RESET" \notin Indexed \union AtRest
      BY SMT DEF Indexed, AtRest, RegisterStates
    <3> QED BY <3>1, <3>2, IndexElsewhere DEF IndexInv
  <2>3. CASE UNCHANGED master
    BY <2>3, IndexWaits DEF master, control, Doing, IndexInv
  <2> QED BY <2>1, <2>2, <2>3 DEF Next, GoBusy, BecomeReady, vars
<1> QED BY <1>1, <1>2, TypeCorrect, PTL DEF Spec

\* As long as the geometry the controller works with fits its memories, no operation addresses a
\* cell outside the buffer it is meant for, in page reads and programs of either bus width, in the
\* erase, the ID and the parameter page, and whenever the reset falls: the counters that end each
\* loop and the index that walks the buffer stay in step (nand_master.v:329-700).
THEOREM AccessesInBounds == Spec /\ []Fits => []IndexInBounds
<1>1. TypeInvariant /\ IndexInv /\ Fits => IndexInBounds
  BY IndexWithin
<1> QED BY <1>1, IndexInvariant, TypeCorrect, PTL

\* The geometry after the reset, which only the decoding of a parameter page replaces.
DefaultGeometry ==
  /\ "M_NAND_READ_PARAM_PAGE" \notin {state, n_state}
  /\ state # "M_RESET" =>
       /\ geometry = [data_bytes_per_page |-> DefaultData, oob_bytes_per_page |-> DefaultOob,
                      addr_cycles |-> 5]
       /\ status[1] = 0

LEMMA MasterKeepsGeometry ==
  ASSUME ConfigType, DefaultGeometry, NEW activate, NEW cmd_in, NEW data_in, NEW r,
         activate => cmd_in # 2, MasterTick(activate, cmd_in, data_in, r)
  PROVE  DefaultGeometry'
<1>1. status \in [0..7 -> Bit]
  BY DEF ConfigType
<1>2. CASE UNCHANGED master
  BY <1>2 DEF DefaultGeometry, master, control, config
<1>3. CASE MasterReset
  BY <1>3, SMT DEF MasterReset, DefaultGeometry
<1>4. CASE MasterIdle(activate, cmd_in)
  <2>1. state' # "M_NAND_READ_PARAM_PAGE"
    BY <1>4, TargetsOtherThanParamPage DEF MasterIdle
  <2>2. state # "M_RESET"
    BY <1>4 DEF MasterIdle
  <2> QED BY <1>4, <2>1, <2>2 DEF MasterIdle, DefaultGeometry, config
<1>5. CASE RegisterCommand(data_in)
  <2>1. state # "M_RESET" /\ state' = "M_IDLE" /\ n_state' = n_state /\ geometry' = geometry
    BY <1>5, SMT DEF RegisterCommand, GetStatus, SelectChip, SetProtection, ResetIndex, GetIdByte,
       GetParamPageByte, GetDataPageByte, GetCurrentAddressByte, SetDataPageByte,
       SetCurrentAddressByte, GetByte, AdvanceIndex, Return, config
  <2>2. status'[1] = status[1]
    BY <1>1, <1>5, SMT DEF RegisterCommand, GetStatus, SelectChip, SetProtection, ResetIndex,
       GetIdByte, GetParamPageByte, GetDataPageByte, GetCurrentAddressByte, SetDataPageByte,
       SetCurrentAddressByte, GetByte, AdvanceIndex, config
  <2> QED BY <2>1, <2>2 DEF DefaultGeometry
<1>6. CASE BusOperation(data_in)
  <2>1. UNCHANGED config
    BY <1>6, SMT DEF BusOperation, DefaultGeometry, NandReset, PageProgram, ReadPage, ReadStatus,
       BlockErase, ReadId, ReadParamPage, BypassLatch, BypassDataWr, BypassDataRd
  <2>2. state # "M_RESET"
    BY <1>6, SMT DEF BusOperation, NandReset, PageProgram, ReadPage, ReadStatus,
       BlockErase, ReadId, ReadParamPage, BypassLatch, BypassDataWr, BypassDataRd
  <2>3. {state', n_state'} \subseteq {state, n_state, "M_WAIT", "M_DELAY", "M_IDLE"}
    BY <1>6, SMT DEF BusOperation, NandReset, PageProgram, ReadPage, ReadStatus, BlockErase,
       ReadId, ReadParamPage, BypassLatch, BypassDataWr, BypassDataRd, WaitFor, DelayFor,
       Continue, Finish
  <2> QED BY <2>1, <2>2, <2>3 DEF DefaultGeometry, config
<1>7. CASE Wait(r) \/ Delay
  BY <1>7 DEF Wait, Delay, Countdown, DefaultGeometry, config
<1> QED BY <1>2, <1>3, <1>4, <1>5, <1>6, <1>7 DEF MasterTick

LEMMA GeometryInvariant ==
  ASSUME 2 \notin Commands
  PROVE  Spec => []DefaultGeometry
<1>1. Init => DefaultGeometry
  BY SMT DEF Init, MasterInit, DefaultGeometry
<1>2. TypeInvariant /\ DefaultGeometry /\ [Next]_vars => DefaultGeometry'
  <2> SUFFICES ASSUME TypeInvariant, DefaultGeometry, [Next]_vars PROVE DefaultGeometry'
    OBVIOUS
  <2>1. ConfigType BY DEF TypeInvariant, MasterType
  <2>2. CASE Clock
    <3>1. PICK activate, cmd_in, data_in :
            activate \in BOOLEAN /\ Edge(activate, cmd_in, data_in) /\ (activate => cmd_in # 2)
      BY <2>2 DEF Clock
    <3>2. MasterTick(activate, cmd_in, data_in, rnb) BY <3>1 DEF Edge, Step
    <3> QED BY <2>1, <3>1, <3>2, MasterKeepsGeometry
  <2>3. CASE Reset BY <2>3 DEF Reset, HardReset, DefaultGeometry
  <2>4. CASE UNCHANGED master BY <2>4 DEF DefaultGeometry, master, control, config
  <2> QED BY <2>2, <2>3, <2>4 DEF Next, GoBusy, BecomeReady, vars
<1> QED BY <1>1, <1>2, TypeCorrect, PTL DEF Spec

\* The geometry fits, and so every access does, for a host that leaves the defaults in place.
THEOREM DefaultsInBounds ==
  ASSUME 2 \notin Commands
  PROVE  Spec => []IndexInBounds
<1>1. DefaultGeometry => Fits
  BY GeometryAssumption, SMT DEF DefaultGeometry, Fits, PageBytes, Wide
<1> QED BY <1>1, GeometryInvariant, AccessesInBounds, PTL

-----------------------------------------------------------------------------
(* Operations on the bus *)

\* Besides, an operation has at least one address byte.
Regular == Fits /\ (state # "M_RESET" => 1 <= geometry.addr_cycles)

\* The first n cycles of a plan have been handed to the units, and r words asked for: all of it
\* has happened on the bus, but for the last cycle while its WE# is still low.
Standing(n, r, done, asked, nwe, cycle, plan) ==
  /\ n \in Nat /\ n <= Len(plan)
  /\ Len(done) = IF nwe = 0 THEN n - 1 ELSE n
  /\ nwe = 0 => 1 <= n /\ cycle = plan[n]
  /\ \A i \in 1..Len(done) : done[i] = plan[i]
  /\ r \in Nat /\ asked = r /\ (r > 0 => nwe = 1)

Stage(n, r) == Standing(n, r, cycles, reads, nand_nwe, BusCycle, Operation!Plan)

\* Nothing has happened yet.
Fresh == cycles = <<>> /\ reads = 0 /\ nand_nwe = 1

\* What each operation has done when it comes to a substate.
ReadStages ==
  LET A == geometry.addr_cycles
  IN  /\ substate \in {"MS_BEGIN", "MS_SUBMIT_COMMAND", "MS_SUBMIT_ADDRESS",
                      "MS_SUBMIT_COMMAND1", "MS_DELAY", "MS_WAIT_tRR", "MS_READ_DATA0",
                      "MS_READ_DATA1", "MS_READ_DATA2", "MS_END"}
      /\ substate = "MS_BEGIN" => Fresh
      /\ substate = "MS_SUBMIT_COMMAND" => byte_count < A /\ Stage(1 + byte_count, 0)
      /\ substate = "MS_SUBMIT_ADDRESS" =>
           1 <= byte_count /\ byte_count <= A /\ Stage(1 + byte_count, 0)
      /\ substate = "MS_SUBMIT_COMMAND1" => Stage(1 + A, 0)
      /\ substate \in {"MS_DELAY", "MS_WAIT_tRR"} => Stage(2 + A, 0)
      /\ substate \in {"MS_READ_DATA0", "MS_READ_DATA1", "MS_READ_DATA2"} =>
           Stage(2 + A, byte_count)
      /\ substate = "MS_END" => Stage(2 + A, PageBytes)

ProgramStages ==
  LET A == geometry.addr_cycles
      byte(i) == OperationInput.address[i]
      word(k) == OperationInput.data[k]
  IN  /\ substate \in {"MS_BEGIN", "MS_SUBMIT_COMMAND", "MS_SUBMIT_ADDRESS", "MS_WRITE_DATA0",
                      "MS_WRITE_DATA1", "MS_WRITE_DATA2", "MS_WRITE_DATA3",
                      "MS_SUBMIT_COMMAND1", "MS_WAIT", "MS_END"}
      /\ substate = "MS_BEGIN" => Fresh
      /\ substate = "MS_SUBMIT_COMMAND" => byte_count < A /\ Stage(1 + byte_count, 0)
      /\ substate = "MS_SUBMIT_ADDRESS" =>
           /\ 1 <= byte_count /\ byte_count <= A /\ Stage(byte_count, 0)
           /\ drive.ale_data_in = byte(byte_count)
      /\ substate = "MS_WRITE_DATA0" => Stage(1 + A, 0)
      /\ substate = "MS_WRITE_DATA1" => Stage(1 + A + byte_count, 0)
      /\ substate = "MS_WRITE_DATA2" =>
           /\ Stage(A + byte_count, 0)
           /\ drive.io_wr_data_in = Fetch(buf.page_data, 2 * byte_count - 2)
      /\ substate = "MS_WRITE_DATA3" =>
           Stage(A + byte_count, 0) /\ drive.io_wr_data_in = word(byte_count)
      /\ substate = "MS_SUBMIT_COMMAND1" => Stage(1 + A + PageBytes, 0)
      /\ substate \in {"MS_WAIT", "MS_END"} => Stage(2 + A + PageBytes, 0)

EraseStages ==
  /\ substate \in {"MS_BEGIN", "MS_SUBMIT_COMMAND", "MS_SUBMIT_ADDRESS", "MS_SUBMIT_COMMAND1",
                   "MS_END"}
  /\ substate = "MS_BEGIN" => Fresh
  /\ substate \in {"MS_SUBMIT_COMMAND", "MS_SUBMIT_ADDRESS"} => Stage(4 - byte_count, 0)
  /\ substate = "MS_SUBMIT_COMMAND1" => Stage(4, 0)
  /\ substate = "MS_END" => Stage(5, 0)

CountdownStages(size) ==
  /\ substate \in {"MS_BEGIN", "MS_SUBMIT_COMMAND", "MS_SUBMIT_ADDRESS", "MS_WAIT_tRR",
                   "MS_READ_DATA0", "MS_READ_DATA1", "MS_END"}
  /\ substate = "MS_BEGIN" => Fresh
  /\ substate = "MS_SUBMIT_COMMAND" => Stage(1, 0)
  /\ substate \in {"MS_SUBMIT_ADDRESS", "MS_WAIT_tRR"} => Stage(2, 0)
  /\ substate \in {"MS_READ_DATA0", "MS_READ_DATA1"} => Stage(2, size - byte_count)
  /\ substate = "MS_END" => Stage(2, size)

StatusStages ==
  /\ substate \in {"MS_BEGIN", "MS_SUBMIT_COMMAND", "MS_READ_DATA0", "MS_READ_DATA1", "MS_END"}
  /\ substate = "MS_BEGIN" => Fresh
  /\ substate \in {"MS_SUBMIT_COMMAND", "MS_READ_DATA0"} => Stage(1, 0)
  /\ substate \in {"MS_READ_DATA1", "MS_END"} => Stage(1, 1)

Cycle == [kind : {"command", "address", "data"}, value : Word]

OperationInv ==
  /\ cycles \in Seq(Cycle)
  /\ op = 0 => cycles = <<>> /\ reads = 0
  /\ state \in {"M_IDLE", "M_RESET"} => op = 0
  /\ op # 0 => Doing = Target(op) \/ (Doing = "M_IDLE" /\ op \in {1, 4, 7})
  /\ op # 0 /\ Doing = "M_IDLE" => Stage(Len(Operation!Plan), 0)
  /\ op = 1 /\ Doing # "M_IDLE" => Fresh
  /\ op = 2 => CountdownStages(ParamBytes)
  /\ op = 3 => CountdownStages(5)
  /\ op = 4 /\ Doing # "M_IDLE" => EraseStages
  /\ op = 5 => StatusStages
  /\ op = 6 => ReadStages
  /\ op = 7 /\ Doing # "M_IDLE" => ProgramStages

LEMMA StandingWaits ==
  ASSUME NEW S, NEW n, NEW r, NEW done \in Seq(S), NEW asked, NEW nwe \in {0, 1}, NEW cycle,
         NEW plan \in Seq(S), NEW nwe2 \in {0, 1}, NEW cycle2,
         Standing(n, r, done, asked, nwe, cycle, plan), nwe = 1 => nwe2 = 1,
         nwe2 = 0 => cycle2 = cycle
  PROVE  /\ nwe = 0 /\ nwe2 = 1 => Standing(n, r, Append(done, cycle), asked, nwe2, cycle2, plan)
         /\ nwe = 1 \/ nwe2 = 0 => Standing(n, r, done, asked, nwe2, cycle2, plan)
<1>1. CASE nwe = nwe2
  BY <1>1, SMT DEF Standing
<1>2. CASE nwe = 0 /\ nwe2 = 1
  <2> DEFINE longer == Append(done, cycle)
  <2>1. n \in Nat /\ 1 <= n /\ n <= Len(plan) /\ Len(done) = n - 1 /\ cycle = plan[n]
    BY <1>2, SMT DEF Standing
  <2>2. cycle \in S
    BY <2>1, ElementOfSeq
  <2>3. /\ longer \in Seq(S) /\ Len(longer) = Len(done) + 1 /\ longer[Len(done) + 1] = cycle
        /\ \A i \in 1..Len(done) : longer[i] = done[i]
    BY <2>2, AppendProperties
  <2>4. Len(longer) = n BY <2>1, <2>3, SMT
  <2>5. \A i \in 1..Len(longer) : longer[i] = plan[i]
    <3>1. ASSUME NEW i \in 1..Len(longer) PROVE longer[i] = plan[i]
      <4>1. CASE i = n BY <2>1, <2>3, <4>1
      <4>2. CASE i # n
        <5>1. i \in 1..Len(done) BY <2>1, <2>4, <4>2, SMT
        <5> QED BY <2>3, <5>1 DEF Standing
      <4> QED BY <4>1, <4>2
    <3> QED BY <3>1
  <2>6. r \in Nat /\ asked = r BY DEF Standing
  <2> HIDE DEF longer
  <2>7. Standing(n, r, longer, asked, nwe2, cycle2, plan)
    BY <1>2, <2>1, <2>4, <2>5, <2>6, SMT DEF Standing
  <2> QED BY <1>2, <2>7 DEF longer
<1> QED BY <1>1, <1>2, SMT

LEMMA StandingWrites ==
  ASSUME NEW S, NEW n, NEW done, NEW asked, NEW cycle, NEW plan \in Seq(S), NEW cycle2,
         Standing(n, 0, done, asked, 1, cycle, plan), n + 1 <= Len(plan), cycle2 = plan[n + 1]
  PROVE  Standing(n + 1, 0, done, asked, 0, cycle2, plan)
BY SMT DEF Standing

LEMMA StandingReads ==
  ASSUME NEW n, NEW r, NEW done, NEW asked, NEW cycle, NEW plan, NEW cycle2,
         Standing(n, r, done, asked, 1, cycle, plan)
  PROVE  Standing(n, r + 1, done, asked + 1, 1, cycle2, plan)
BY SMT DEF Standing

\* All of the plan has been done: the cycles are the plan.
LEMMA StandingDone ==
  ASSUME NEW S, NEW n, NEW r, NEW done \in Seq(S), NEW asked, NEW cycle, NEW plan \in Seq(S),
         Standing(n, r, done, asked, 1, cycle, plan), n = Len(plan)
  PROVE  done = plan /\ asked = r
<1>1. Len(done) = Len(plan) /\ asked = r /\ \A i \in 1..Len(done) : done[i] = plan[i]
  BY SMT DEF Standing
<1> QED BY <1>1, SeqEqual

-----------------------------------------------------------------------------
(* The edges of WE# and RE# *)

LEMMA CommandLatchEdge ==
  ASSUME NEW a \in BOOLEAN, ACL!LatchType, ACL!Tick(a)
  PROVE  /\ ~a /\ ACL!write_enable = 1 => ACL!write_enable' = 1
         /\ a /\ ~ACL!busy => ACL!write_enable' = 0 /\ ACL!busy' /\ ACL!presents' /\ ACL!latch_ctrl'
<1> USE DEF ACL!LatchType, ACL!write_enable, ACL!busy, ACL!presents, ACL!latch_ctrl
<1>1. CASE ACL!Initialise
  BY <1>1, SMT DEF ACL!Initialise
<1>2. CASE ACL!Idle(a)
  BY <1>2, SMT DEF ACL!Idle
<1>3. CASE ACL!Hold
  BY <1>3, SMT DEF ACL!Hold
<1>4. CASE ACL!Release
  BY <1>4, SMT DEF ACL!Release
<1>5. CASE ACL!Delay
  BY <1>5, SMT DEF ACL!Delay
<1> QED BY <1>1, <1>2, <1>3, <1>4, <1>5 DEF ACL!Tick

LEMMA AddressLatchEdge ==
  ASSUME NEW a \in BOOLEAN, AAL!LatchType, AAL!Tick(a)
  PROVE  /\ ~a /\ AAL!write_enable = 1 => AAL!write_enable' = 1
         /\ a /\ ~AAL!busy => AAL!write_enable' = 0 /\ AAL!busy' /\ AAL!presents' /\ AAL!latch_ctrl'
<1> USE DEF AAL!LatchType, AAL!write_enable, AAL!busy, AAL!presents, AAL!latch_ctrl
<1>1. CASE AAL!Initialise
  BY <1>1, SMT DEF AAL!Initialise
<1>2. CASE AAL!Idle(a)
  BY <1>2, SMT DEF AAL!Idle
<1>3. CASE AAL!Hold
  BY <1>3, SMT DEF AAL!Hold
<1>4. CASE AAL!Release
  BY <1>4, SMT DEF AAL!Release
<1>5. CASE AAL!Delay
  BY <1>5, SMT DEF AAL!Delay
<1> QED BY <1>1, <1>2, <1>3, <1>4, <1>5 DEF AAL!Tick

LEMMA WriterEdge ==
  ASSUME NEW a \in BOOLEAN, NEW d \in Word, IO_WR!IoType(Word), IO_WR!Tick(a, d)
  PROVE  /\ ~a /\ IO_WR!io_ctrl = 1 => IO_WR!io_ctrl' = 1
         /\ a /\ ~IO_WR!busy => IO_WR!io_ctrl' = 0 /\ IO_WR!busy' /\ iowr'.data_reg = d
<1> USE DEF IO_WR!IoType, IO_WR!io_ctrl, IO_WR!busy
<1>1. CASE IO_WR!Initialise
  BY <1>1, SMT DEF IO_WR!Initialise
<1>2. CASE IO_WR!Idle(a, d)
  BY <1>2, SMT DEF IO_WR!Idle
<1>3. CASE IO_WR!Hold
  BY <1>3, SMT DEF IO_WR!Hold
<1>4. CASE IO_WR!Delay(d)
  BY <1>4, SMT DEF IO_WR!Delay, IO_WR!Samples
<1> QED BY <1>1, <1>2, <1>3, <1>4 DEF IO_WR!Tick

LEMMA ReaderEdge ==
  ASSUME NEW a \in BOOLEAN, NEW d \in Word, IO_RD!IoType(Word), IO_RD!Tick(a, d)
  PROVE  /\ ~a /\ IO_RD!io_ctrl = 1 => IO_RD!io_ctrl' = 1
         /\ a /\ ~IO_RD!busy => IO_RD!io_ctrl = 1 /\ IO_RD!io_ctrl' = 0
<1> USE DEF IO_RD!IoType, IO_RD!io_ctrl, IO_RD!busy
<1>1. CASE IO_RD!Initialise
  BY <1>1, SMT DEF IO_RD!Initialise
<1>2. CASE IO_RD!Idle(a, d)
  BY <1>2, SMT DEF IO_RD!Idle
<1>3. CASE IO_RD!Hold
  BY <1>3, SMT DEF IO_RD!Hold
<1>4. CASE IO_RD!Delay(d)
  <2>1. iord'.n_state = iord.n_state /\ iord'.state \in {iord.state, iord.n_state}
    BY <1>4, SMT DEF IO_RD!Delay
  <2> QED BY <1>4, <2>1, SMT DEF IO_RD!Delay
<1> QED BY <1>1, <1>2, <1>3, <1>4 DEF IO_RD!Tick

LEMMA UnitsIdle ==
  ASSUME HostEarly = FALSE, UnitDiscipline,
         cle_activate \/ ale_activate \/ io_wr_activate \/ io_rd_activate
  PROVE  /\ ~ACL!busy /\ ~AAL!busy /\ ~IO_WR!busy /\ ~IO_RD!busy
         /\ ACL!write_enable = 1 /\ AAL!write_enable = 1 /\ IO_WR!io_ctrl = 1
         /\ ~ACL!latch_ctrl /\ ~AAL!latch_ctrl
<1>1. state \notin {"M_WAIT", "M_RESET", "M_IDLE"}
  BY OneActivation, SMT
<1>2. ~At("M_NAND_READ", {"MS_SUBMIT_ADDRESS"})
  BY SMT DEF At, cle_activate, ale_activate, io_wr_activate, io_rd_activate
<1>3. Quiet /\ Initialised
  BY <1>1, <1>2 DEF UnitDiscipline
<1> QED BY <1>3, SMT DEF Quiet, Initialised, ACL!active, AAL!active, IO_WR!active, IO_RD!active,
           ACL!busy, AAL!busy, IO_WR!busy, IO_RD!busy, ACL!write_enable, AAL!write_enable,
           IO_WR!io_ctrl, ACL!latch_ctrl, AAL!latch_ctrl

LEMMA EdgeUnits ==
  ASSUME TypeInvariant, NEW activate, NEW cmd_in, NEW data_in, Edge(activate, cmd_in, data_in)
  PROVE  /\ cle_activate \in BOOLEAN /\ ale_activate \in BOOLEAN
         /\ io_wr_activate \in BOOLEAN /\ io_rd_activate \in BOOLEAN
         /\ drive.io_wr_data_in \in Word
         /\ ACL!LatchType /\ AAL!LatchType /\ IO_WR!IoType(Word) /\ IO_RD!IoType(Word)
         /\ ACL!Tick(cle_activate) /\ AAL!Tick(ale_activate)
         /\ IO_WR!Tick(io_wr_activate, drive.io_wr_data_in)
         /\ \E bus \in Word : IO_RD!Tick(io_rd_activate, bus)
         /\ MasterTick(activate, cmd_in, data_in, rnb)
<1>1. PICK bus \in Word : Step(activate, cmd_in, data_in, rnb, bus)
  BY DEF Edge
<1>2. /\ cle_activate \in BOOLEAN /\ ale_activate \in BOOLEAN
      /\ io_wr_activate \in BOOLEAN /\ io_rd_activate \in BOOLEAN
  BY DEF cle_activate, ale_activate, io_wr_activate, io_rd_activate, At
<1>3. drive.io_wr_data_in \in Word
  BY SMT DEF TypeInvariant, MasterType, DataType
<1> QED BY <1>1, <1>2, <1>3 DEF Step, TypeInvariant, UnitsType

LEMMA Strobes ==
  /\ nand_nwe \in {0, 1} /\ nand_nre \in {0, 1}
  /\ nand_nwe = 1 <=> ACL!write_enable = 1 /\ AAL!write_enable = 1 /\ IO_WR!io_ctrl = 1
BY SMT DEF nand_nwe, nand_nre, ACL!write_enable, AAL!write_enable, IO_WR!io_ctrl, IO_RD!io_ctrl

LEMMA StrobesNext ==
  /\ nand_nwe' \in {0, 1} /\ nand_nre' \in {0, 1}
  /\ nand_nwe' = 1 <=> ACL!write_enable' = 1 /\ AAL!write_enable' = 1 /\ IO_WR!io_ctrl' = 1
BY SMT DEF nand_nwe, nand_nre, ACL!write_enable, AAL!write_enable, IO_WR!io_ctrl, IO_RD!io_ctrl

LEMMA StrobeFalls ==
  ACL!write_enable' = 0 \/ AAL!write_enable' = 0 \/ IO_WR!io_ctrl' = 0 => nand_nwe' = 0
BY SMT DEF nand_nwe

\* With no unit activated WE# does not fall; while it is low the cycle stands on the bus.
LEMMA NoWriteStarts ==
  ASSUME TypeInvariant, UnitDiscipline, InitTogether,
         NEW activate, NEW cmd_in, NEW data_in, Edge(activate, cmd_in, data_in),
         ~cle_activate, ~ale_activate, ~io_wr_activate
  PROVE  /\ nand_nwe = 1 => nand_nwe' = 1
         /\ nand_nwe' = 0 => BusCycle' = BusCycle
<1>1. nand_nwe = 1 => nand_nwe' = 1
  BY EdgeUnits, Strobes, StrobesNext, CommandLatchEdge, AddressLatchEdge, WriterEdge
<1>2. ASSUME nand_nwe' = 0 PROVE BusCycle' = BusCycle
  <2>1. nand_nwe = 0 BY <1>1, <1>2, Strobes, SMT
  <2>2. bus_out' = bus_out /\ nand_cle' = nand_cle /\ nand_ale' = nand_ale
    BY <2>1, StrobeKeepsBus
  <2> QED BY <2>2 DEF BusCycle
<1> QED BY <1>1, <1>2

LEMMA CommandStarts ==
  ASSUME HostEarly = FALSE, TypeInvariant, UnitDiscipline,
         NEW activate, NEW cmd_in, NEW data_in, Edge(activate, cmd_in, data_in), cle_activate
  PROVE  /\ nand_nwe = 1 /\ nand_nwe' = 0
         /\ BusCycle' = [kind |-> "command", value |-> drive'.cle_data_in]
<1>1. /\ ACL!write_enable' = 0 /\ ACL!busy' /\ ACL!presents' /\ ACL!latch_ctrl'
  BY EdgeUnits, UnitsIdle, CommandLatchEdge
<1>2. nand_nwe = 1 /\ nand_nwe' = 0
  <2>1. nand_nwe = 1 BY UnitsIdle, Strobes
  <2>2. nand_nwe' = 0 BY <1>1, StrobeFalls
  <2> QED BY <2>1, <2>2
<1> QED BY <1>1, <1>2 DEF BusCycle, bus_out, nand_cle

LEMMA AddressStarts ==
  ASSUME HostEarly = FALSE, TypeInvariant, UnitDiscipline,
         NEW activate, NEW cmd_in, NEW data_in, Edge(activate, cmd_in, data_in), ale_activate
  PROVE  /\ nand_nwe = 1 /\ nand_nwe' = 0
         /\ BusCycle' = [kind |-> "address", value |-> drive'.ale_data_in]
<1>1. /\ AAL!write_enable' = 0 /\ AAL!busy' /\ AAL!presents' /\ AAL!latch_ctrl'
  BY EdgeUnits, UnitsIdle, AddressLatchEdge
<1>2. nand_nwe = 1 /\ nand_nwe' = 0
  <2>1. nand_nwe = 1 BY UnitsIdle, Strobes
  <2>2. nand_nwe' = 0 BY <1>1, StrobeFalls
  <2> QED BY <2>1, <2>2
<1>3. ~cle_activate BY OneActivation
<1>4. cle' = cle BY <1>3, EdgeUnits, UnitsIdle, LatchesRest
<1>5. ~ACL!busy' /\ ~ACL!latch_ctrl' BY <1>4, UnitsIdle DEF ACL!busy, ACL!latch_ctrl
<1> QED BY <1>1, <1>2, <1>5 DEF BusCycle, bus_out, nand_cle, nand_ale

LEMMA WordStarts ==
  ASSUME HostEarly = FALSE, TypeInvariant, UnitDiscipline,
         NEW activate, NEW cmd_in, NEW data_in, Edge(activate, cmd_in, data_in), io_wr_activate
  PROVE  /\ nand_nwe = 1 /\ nand_nwe' = 0
         /\ BusCycle' = [kind |-> "data", value |-> drive.io_wr_data_in]
<1>1. IO_WR!io_ctrl' = 0 /\ IO_WR!busy' /\ iowr'.data_reg = drive.io_wr_data_in
  BY EdgeUnits, UnitsIdle, WriterEdge
<1>2. nand_nwe = 1 /\ nand_nwe' = 0
  <2>1. nand_nwe = 1 BY UnitsIdle, Strobes
  <2>2. nand_nwe' = 0 BY <1>1, StrobeFalls
  <2> QED BY <2>1, <2>2
<1>3. ~cle_activate /\ ~ale_activate BY OneActivation
<1>4. cle' = cle /\ ale' = ale BY <1>3, EdgeUnits, UnitsIdle, LatchesRest
<1>5. ~ACL!busy' /\ ~ACL!latch_ctrl' /\ ~AAL!busy' /\ ~AAL!latch_ctrl'
  BY <1>4, UnitsIdle DEF ACL!busy, ACL!latch_ctrl, AAL!busy, AAL!latch_ctrl
<1> QED BY <1>1, <1>2, <1>5 DEF BusCycle, bus_out, nand_cle, nand_ale

LEMMA ReadStrobe ==
  ASSUME TypeInvariant,
         NEW activate, NEW cmd_in, NEW data_in, Edge(activate, cmd_in, data_in)
  PROVE  /\ ~io_rd_activate => ~ReFalls
         /\ HostEarly = FALSE /\ UnitDiscipline /\ io_rd_activate =>
              ReFalls /\ nand_nwe = 1 /\ nand_nwe' = 1
<1>0. PICK bus \in Word : IO_RD!Tick(io_rd_activate, bus) BY EdgeUnits
<1>1. CASE ~io_rd_activate
  <2>1. IO_RD!io_ctrl = 1 => IO_RD!io_ctrl' = 1 BY <1>0, <1>1, EdgeUnits, ReaderEdge
  <2> QED BY <1>1, <2>1, SMT DEF ReFalls, nand_nre
<1>2. CASE io_rd_activate
  <2> SUFFICES ASSUME HostEarly = FALSE, UnitDiscipline
               PROVE  ReFalls /\ nand_nwe = 1 /\ nand_nwe' = 1
    BY <1>2
  <2>1. IO_RD!io_ctrl = 1 /\ IO_RD!io_ctrl' = 0 BY <1>0, <1>2, EdgeUnits, UnitsIdle, ReaderEdge
  <2>2. nand_nwe = 1 BY <1>2, UnitsIdle, Strobes
  <2>3. ~cle_activate /\ ~ale_activate /\ ~io_wr_activate BY <1>2, OneActivation
  <2>4. nand_nwe' = 1
    BY <2>2, <2>3, EdgeUnits, Strobes, StrobesNext, CommandLatchEdge, AddressLatchEdge, WriterEdge
  <2> QED BY <2>1, <2>2, <2>4 DEF ReFalls, nand_nre
<1> QED BY <1>1, <1>2, EdgeUnits

-----------------------------------------------------------------------------
(* The plans of the operations *)

LEMMA FunctionIsSeq ==
  ASSUME NEW S, NEW n \in Nat, NEW f \in [1..n -> S]
  PROVE  f \in Seq(S) /\ Len(f) = n
BY SMT

LEMMA CommandIsCycle ==
  \A code \in {0, 16, 48, 96, 112, 128, 144, 208, 236, 255} :
    /\ Operation!CommandCycle(code) = [kind |-> "command", value |-> code]
    /\ <<Operation!CommandCycle(code)>> \in Seq(Cycle)
    /\ Len(<<Operation!CommandCycle(code)>>) = 1
    /\ <<Operation!CommandCycle(code)>>[1] = [kind |-> "command", value |-> code]
<1> SUFFICES ASSUME NEW code \in {0, 16, 48, 96, 112, 128, 144, 208, 236, 255}
             PROVE  /\ Operation!CommandCycle(code) = [kind |-> "command", value |-> code]
                    /\ <<Operation!CommandCycle(code)>> \in Seq(Cycle)
                    /\ Len(<<Operation!CommandCycle(code)>>) = 1
                    /\ <<Operation!CommandCycle(code)>>[1] = [kind |-> "command", value |-> code]
  OBVIOUS
<1>1. code \in Word BY Literals
<1>2. [kind |-> "command", value |-> code] \in Cycle BY <1>1, SMT DEF Cycle
<1> QED BY <1>2, SMT DEF Operation!CommandCycle

LEMMA AddressesAreCycles ==
  ASSUME NEW n \in Nat, NEW bytes \in [1..n -> Byte]
  PROVE  /\ Operation!AddressCycles(bytes) \in Seq(Cycle)
         /\ Len(Operation!AddressCycles(bytes)) = n
         /\ \A i \in 1..n : Operation!AddressCycles(bytes)[i] = [kind |-> "address", value |-> bytes[i]]
<1>1. \A i \in 1..n : [kind |-> "address", value |-> bytes[i]] \in Cycle
  BY ByteIsWord, SMT DEF Cycle
<1>2. /\ Operation!AddressCycles(bytes) \in [1..n -> Cycle]
      /\ \A i \in 1..n : Operation!AddressCycles(bytes)[i] = [kind |-> "address", value |-> bytes[i]]
  BY <1>1, Zenon DEF Operation!AddressCycles
<1> QED BY <1>2, FunctionIsSeq

LEMMA WordsAreCycles ==
  ASSUME NEW n \in Nat, NEW words \in [1..n -> Word]
  PROVE  /\ Operation!DataCycles(words) \in Seq(Cycle)
         /\ Len(Operation!DataCycles(words)) = n
         /\ \A i \in 1..n : Operation!DataCycles(words)[i] = [kind |-> "data", value |-> words[i]]
<1>1. \A i \in 1..n : [kind |-> "data", value |-> words[i]] \in Cycle
  BY SMT DEF Cycle
<1>2. /\ Operation!DataCycles(words) \in [1..n -> Cycle]
      /\ \A i \in 1..n : Operation!DataCycles(words)[i] = [kind |-> "data", value |-> words[i]]
  BY <1>1, Zenon DEF Operation!DataCycles
<1> QED BY <1>2, FunctionIsSeq

LEMMA InputType ==
  ASSUME TypeInvariant
  PROVE  /\ geometry.addr_cycles \in Nat /\ PageBytes \in Nat
         /\ OperationInput.address \in [1..geometry.addr_cycles -> Byte]
         /\ OperationInput.row \in [1..3 -> Byte]
         /\ OperationInput.data \in [1..PageBytes -> Word]
         /\ \A i \in 1..geometry.addr_cycles :
              OperationInput.address[i] = Fetch(buf.current_address, i - 1)
         /\ \A i \in 1..3 : OperationInput.row[i] = buf.current_address[i + 1]
         /\ \A k \in 1..PageBytes : OperationInput.data[k] =
              IF Wide THEN SetHighByte(Fetch(buf.page_data, 2 * k - 2), Fetch(buf.page_data, 2 * k - 1))
                      ELSE Fetch(buf.page_data, k - 1)
<1>1. geometry.addr_cycles \in Nat /\ PageBytes \in Nat
  BY SMT DEF TypeInvariant, MasterType, ConfigType, PageBytes
<1>2. buf.page_data \in [0..(PageDepth - 1) -> Byte] /\ buf.current_address \in [0..4 -> Byte]
  BY SMT DEF TypeInvariant, MasterType, DataType
<1>3. \A i : Fetch(buf.current_address, i) \in Byte /\ Fetch(buf.page_data, i) \in Byte
  BY <1>2, FetchType
<1>4. \A i \in 1..3 : buf.current_address[i + 1] \in Byte
  BY <1>2, SMT
<1>5. \A k \in 1..PageBytes :
        (IF Wide THEN SetHighByte(Fetch(buf.page_data, 2 * k - 2), Fetch(buf.page_data, 2 * k - 1))
                 ELSE Fetch(buf.page_data, k - 1)) \in Word
  BY <1>3, ByteIsWord, SetHighByteType
<1>6. /\ OperationInput.address = [i \in 1..geometry.addr_cycles |-> Fetch(buf.current_address, i - 1)]
      /\ OperationInput.row = [i \in 1..3 |-> buf.current_address[i + 1]]
      /\ OperationInput.data = [k \in 1..PageBytes |->
           IF Wide THEN SetHighByte(Fetch(buf.page_data, 2 * k - 2), Fetch(buf.page_data, 2 * k - 1))
                   ELSE Fetch(buf.page_data, k - 1)]
  BY DEF OperationInput
<1>7. OperationInput.address \in [1..geometry.addr_cycles -> Byte]
  BY <1>3, <1>6
<1>8. OperationInput.row \in [1..3 -> Byte]
  BY <1>4, <1>6
<1>9. OperationInput.data \in [1..PageBytes -> Word]
  BY <1>5, <1>6
<1>10. \A i \in 1..geometry.addr_cycles :
         OperationInput.address[i] = Fetch(buf.current_address, i - 1)
  BY <1>6
<1>11. \A i \in 1..3 : OperationInput.row[i] = buf.current_address[i + 1]
  BY <1>6
<1>12. \A k \in 1..PageBytes : OperationInput.data[k] =
         IF Wide THEN SetHighByte(Fetch(buf.page_data, 2 * k - 2), Fetch(buf.page_data, 2 * k - 1))
                 ELSE Fetch(buf.page_data, k - 1)
  BY <1>6
<1> QED BY <1>1, <1>7, <1>8, <1>9, <1>10, <1>11, <1>12

LEMMA Joined ==
  ASSUME NEW S, NEW s \in Seq(S), NEW t \in Seq(S)
  PROVE  s \o t \in Seq(S) /\ Len(s \o t) = Len(s) + Len(t)
BY SMT

LEMMA JoinedFirst ==
  ASSUME NEW S, NEW s \in Seq(S), NEW t \in Seq(S), NEW i \in 1..Len(s)
  PROVE  (s \o t)[i] = s[i]
BY SMT

LEMMA JoinedSecond ==
  ASSUME NEW S, NEW s \in Seq(S), NEW t \in Seq(S), NEW i \in 1..Len(t)
  PROVE  (s \o t)[Len(s) + i] = t[i]
BY SMT

command(code)  == [kind |-> "command", value |-> code]
address(byte)  == [kind |-> "address", value |-> byte]
data(word)     == [kind |-> "data", value |-> word]

LEMMA ResetPlan ==
  ASSUME op = 1
  PROVE  /\ Operation!Plan \in Seq(Cycle) /\ Len(Operation!Plan) = 1
         /\ Operation!Plan[1] = command(255) /\ Operation!Reads = 0
<1>1. Operation!Plan = <<Operation!CommandCycle(255)>> /\ Operation!Reads = 0
  BY SMT DEF Operation!Plan, Operation!Reads
<1> QED BY <1>1, CommandIsCycle DEF command

LEMMA StatusPlan ==
  ASSUME op = 5
  PROVE  /\ Operation!Plan \in Seq(Cycle) /\ Len(Operation!Plan) = 1
         /\ Operation!Plan[1] = command(112) /\ Operation!Reads = 1
<1>1. Operation!Plan = <<Operation!CommandCycle(112)>> /\ Operation!Reads = 1
  BY SMT DEF Operation!Plan, Operation!Reads
<1> QED BY <1>1, CommandIsCycle DEF command

\* A command and one part.
LEMMA OpenedPlan ==
  ASSUME NEW code, NEW first \in Seq(Cycle), Len(first) = 1, first[1] = code,
         NEW n \in Nat, NEW tail \in Seq(Cycle), Len(tail) = n
  PROVE  /\ first \o tail \in Seq(Cycle) /\ Len(first \o tail) = 1 + n
         /\ (first \o tail)[1] = code
         /\ \A i \in 1..n : (first \o tail)[1 + i] = tail[i]
<1>1. first \o tail \in Seq(Cycle) /\ Len(first \o tail) = Len(first) + Len(tail)
  BY Joined
<1>2. \A i \in 1..Len(first) : (first \o tail)[i] = first[i]
  BY JoinedFirst, Zenon
<1>3. \A i \in 1..Len(tail) : (first \o tail)[Len(first) + i] = tail[i]
  BY JoinedSecond, Zenon
<1>4. (first \o tail)[1] = code
  BY <1>2, SMT
<1>5. \A i \in 1..n : (first \o tail)[1 + i] = tail[i]
  BY <1>3
<1> QED BY <1>1, <1>4, <1>5

\* Any part and a command.
LEMMA ClosedPlan ==
  ASSUME NEW code, NEW last \in Seq(Cycle), Len(last) = 1, last[1] = code,
         NEW m \in Nat, NEW head \in Seq(Cycle), Len(head) = m
  PROVE  /\ head \o last \in Seq(Cycle) /\ Len(head \o last) = m + 1
         /\ \A i \in 1..m : (head \o last)[i] = head[i]
         /\ (head \o last)[m + 1] = code
<1>1. head \o last \in Seq(Cycle) /\ Len(head \o last) = Len(head) + Len(last)
  BY Joined
<1>2. \A i \in 1..Len(head) : (head \o last)[i] = head[i]
  BY JoinedFirst, Zenon
<1>3. \A i \in 1..Len(last) : (head \o last)[Len(head) + i] = last[i]
  BY JoinedSecond, Zenon
<1>4. (head \o last)[m + 1] = code
  <2>1. PICK one \in 1..Len(last) : one = 1 OBVIOUS
  <2>2. (head \o last)[Len(head) + one] = last[one] BY <1>3, <2>1
  <2> QED BY <2>1, <2>2
<1> QED BY <1>1, <1>2, <1>4

LEMMA IdentityPlan ==
  ASSUME NEW code \in {236, 144}, op = (IF code = 236 THEN 2 ELSE 3)
  PROVE  /\ Operation!Plan \in Seq(Cycle) /\ Len(Operation!Plan) = 2
         /\ Operation!Plan[1] = command(code) /\ Operation!Plan[2] = address(0)
         /\ Operation!Reads = IF code = 236 THEN ParamBytes ELSE 5
<1> DEFINE zero == <<0>>
<1>1. PICK first, second : first = <<Operation!CommandCycle(code)>> /\ second = Operation!AddressCycles(zero)
  OBVIOUS
<1>2. /\ Operation!Plan = first \o second
      /\ Operation!Reads = IF code = 236 THEN ParamBytes ELSE 5
  BY <1>1, SMT DEF Operation!Plan, Operation!Reads
<1>3. first \in Seq(Cycle) /\ Len(first) = 1 /\ first[1] = command(code)
  BY <1>1, CommandIsCycle DEF command
<1>4. second \in Seq(Cycle) /\ Len(second) = 1 /\ second[1] = address(0)
  <2>1. zero \in [1..1 -> Byte] /\ zero[1] = 0
    BY Literals, SMT
  <2>2. DOMAIN zero = 1..1
    BY SMT
  <2>3. [kind |-> "address", value |-> 0] \in Cycle
    BY Literals, SMT DEF Cycle
  <2> HIDE DEF zero
  <2>4. second = [i \in 1..1 |-> [kind |-> "address", value |-> zero[i]]]
    BY <1>1, <2>2 DEF Operation!AddressCycles
  <2> QED BY <2>1, <2>3, <2>4, SMT DEF address
<1>5. PICK n \in Nat : Len(second) = n /\ n = 1
  BY <1>4
<1>6. /\ first \o second \in Seq(Cycle) /\ Len(first \o second) = 1 + n
      /\ (first \o second)[1] = command(code)
      /\ \A i \in 1..n : (first \o second)[1 + i] = second[i]
  BY <1>3, <1>4, <1>5, OpenedPlan
<1>7. (first \o second)[2] = address(0)
  BY <1>4, <1>5, <1>6, SMT
<1> QED BY <1>2, <1>5, <1>6, <1>7

LEMMA ErasePlan ==
  ASSUME TypeInvariant, op = 4
  PROVE  /\ Operation!Plan \in Seq(Cycle) /\ Len(Operation!Plan) = 5
         /\ Operation!Plan[1] = command(96) /\ Operation!Plan[5] = command(208)
         /\ \A i \in 1..3 : Operation!Plan[1 + i] = address(buf.current_address[i + 1])
         /\ Operation!Reads = 0
<1>1. PICK first, row, last :
        /\ first = <<Operation!CommandCycle(96)>>
        /\ row = Operation!AddressCycles(OperationInput.row)
        /\ last = <<Operation!CommandCycle(208)>>
  OBVIOUS
<1>2. Operation!Plan = (first \o row) \o last /\ Operation!Reads = 0
  BY <1>1, SMT DEF Operation!Plan, Operation!Reads
<1>3. /\ first \in Seq(Cycle) /\ Len(first) = 1 /\ first[1] = command(96)
      /\ last \in Seq(Cycle) /\ Len(last) = 1 /\ last[1] = command(208)
  BY <1>1, CommandIsCycle DEF command
<1>4. PICK n \in Nat : n = 3
  OBVIOUS
<1>5. PICK bytes \in [1..n -> Byte] :
        bytes = OperationInput.row /\ \A i \in 1..n : bytes[i] = buf.current_address[i + 1]
  BY <1>4, InputType
<1>6. /\ row \in Seq(Cycle) /\ Len(row) = n
      /\ \A i \in 1..n : row[i] = address(buf.current_address[i + 1])
  BY <1>1, <1>5, AddressesAreCycles DEF address
<1>7. /\ first \o row \in Seq(Cycle) /\ Len(first \o row) = 1 + n
      /\ (first \o row)[1] = command(96)
      /\ \A i \in 1..n : (first \o row)[1 + i] = row[i]
  BY <1>3, <1>6, OpenedPlan
<1>8. PICK m \in Nat, head \in Seq(Cycle) : m = 1 + n /\ head = first \o row /\ Len(head) = m
  <2>1. PICK m \in Nat : m = 1 + n OBVIOUS
  <2>2. Len(first \o row) = m BY <1>7, <2>1
  <2> QED BY <1>7, <2>1, <2>2, Zenon
<1>9. /\ head \o last \in Seq(Cycle) /\ Len(head \o last) = m + 1
      /\ \A i \in 1..m : (head \o last)[i] = head[i]
      /\ (head \o last)[m + 1] = command(208)
  <2>1. Len(head) = m BY <1>8
  <2>2. PICK code : code = command(208) OBVIOUS
  <2>3. last \in Seq(Cycle) /\ Len(last) = 1 /\ last[1] = code BY <1>3, <2>2
  <2>4. /\ head \o last \in Seq(Cycle) /\ Len(head \o last) = m + 1
        /\ \A i \in 1..m : (head \o last)[i] = head[i]
        /\ (head \o last)[m + 1] = code
    BY <2>1, <2>3, ClosedPlan, SMTT(30)
  <2> QED BY <2>2, <2>4
<1>10. /\ 1 \in 1..m /\ m + 1 = 5 /\ \A i \in 1..3 : 1 + i \in 1..m /\ i \in 1..n
  BY <1>4, <1>8, SMT
<1>11. Operation!Plan = head \o last
  BY <1>2, <1>8
<1>12. Operation!Plan[1] = command(96)
  BY <1>7, <1>8, <1>9, <1>10, <1>11
<1>13. ASSUME NEW i \in 1..3 PROVE Operation!Plan[1 + i] = address(buf.current_address[i + 1])
  <2>1. 1 + i \in 1..m /\ i \in 1..n BY <1>10
  <2>2. (head \o last)[1 + i] = head[1 + i] BY <1>9, <2>1
  <2>3. head[1 + i] = row[i] BY <1>7, <1>8, <2>1
  <2> QED BY <1>6, <1>11, <2>1, <2>2, <2>3
<1> QED BY <1>2, <1>9, <1>10, <1>11, <1>12, <1>13

LEMMA ReadPlan ==
  ASSUME TypeInvariant, op = 6
  PROVE  /\ Operation!Plan \in Seq(Cycle) /\ Len(Operation!Plan) = 2 + geometry.addr_cycles
         /\ Operation!Plan[1] = command(0)
         /\ \A i \in 1..geometry.addr_cycles :
              Operation!Plan[1 + i] = address(Fetch(buf.current_address, i - 1))
         /\ Operation!Plan[2 + geometry.addr_cycles] = command(48)
         /\ Operation!Reads = PageBytes
<1>1. PICK first, part, last :
        /\ first = <<Operation!CommandCycle(0)>>
        /\ part = Operation!AddressCycles(OperationInput.address)
        /\ last = <<Operation!CommandCycle(48)>>
  OBVIOUS
<1>2. Operation!Plan = (first \o part) \o last /\ Operation!Reads = Len(OperationInput.data)
  BY <1>1, SMT DEF Operation!Plan, Operation!Reads
<1>3. /\ first \in Seq(Cycle) /\ Len(first) = 1 /\ first[1] = command(0)
      /\ last \in Seq(Cycle) /\ Len(last) = 1 /\ last[1] = command(48)
  BY <1>1, CommandIsCycle DEF command
<1>4. PICK n \in Nat : n = geometry.addr_cycles
  BY InputType
<1>5. PICK bytes \in [1..n -> Byte] :
        /\ bytes = OperationInput.address
        /\ \A i \in 1..n : bytes[i] = Fetch(buf.current_address, i - 1)
  BY <1>4, InputType
<1>6. /\ part \in Seq(Cycle) /\ Len(part) = n
      /\ \A i \in 1..n : part[i] = address(Fetch(buf.current_address, i - 1))
  BY <1>1, <1>5, AddressesAreCycles DEF address
<1>7. /\ first \o part \in Seq(Cycle) /\ Len(first \o part) = 1 + n
      /\ (first \o part)[1] = command(0)
      /\ \A i \in 1..n : (first \o part)[1 + i] = part[i]
  BY <1>3, <1>6, OpenedPlan
<1>8. PICK m \in Nat, head \in Seq(Cycle) : m = 1 + n /\ head = first \o part /\ Len(head) = m
  <2>1. PICK m \in Nat : m = 1 + n OBVIOUS
  <2>2. Len(first \o part) = m BY <1>7, <2>1
  <2> QED BY <1>7, <2>1, <2>2, Zenon
<1>9. /\ head \o last \in Seq(Cycle) /\ Len(head \o last) = m + 1
      /\ \A i \in 1..m : (head \o last)[i] = head[i]
      /\ (head \o last)[m + 1] = command(48)
  <2>1. Len(head) = m BY <1>8
  <2>2. PICK code : code = command(48) OBVIOUS
  <2>3. last \in Seq(Cycle) /\ Len(last) = 1 /\ last[1] = code BY <1>3, <2>2
  <2>4. /\ head \o last \in Seq(Cycle) /\ Len(head \o last) = m + 1
        /\ \A i \in 1..m : (head \o last)[i] = head[i]
        /\ (head \o last)[m + 1] = code
    BY <2>1, <2>3, ClosedPlan, SMTT(30)
  <2> QED BY <2>2, <2>4
<1>10. /\ 1 \in 1..m /\ m + 1 = 2 + n /\ \A i \in 1..n : 1 + i \in 1..m
  BY <1>8, SMT
<1>11. Operation!Plan = head \o last
  BY <1>2, <1>8
<1>12. Operation!Plan[1] = command(0)
  BY <1>7, <1>8, <1>9, <1>10, <1>11
<1>13. ASSUME NEW i \in 1..n PROVE Operation!Plan[1 + i] = address(Fetch(buf.current_address, i - 1))
  <2>1. 1 + i \in 1..m BY <1>10
  <2>2. (head \o last)[1 + i] = head[1 + i] BY <1>9, <2>1
  <2>3. head[1 + i] = part[i] BY <1>7, <1>8
  <2> QED BY <1>6, <1>11, <2>2, <2>3
<1>14. Len(OperationInput.data) = PageBytes
  <2>1. PICK size \in Nat : size = PageBytes
    BY InputType
  <2>2. PICK words \in [1..size -> Word] : words = OperationInput.data
    BY <2>1, InputType
  <2> QED BY <2>1, <2>2, FunctionIsSeq
<1> QED BY <1>2, <1>4, <1>9, <1>10, <1>11, <1>12, <1>13, <1>14

LEMMA ProgramPlan ==
  ASSUME TypeInvariant, op = 7
  PROVE  /\ Operation!Plan \in Seq(Cycle)
         /\ Len(Operation!Plan) = 2 + geometry.addr_cycles + PageBytes
         /\ Operation!Plan[1] = command(128)
         /\ \A i \in 1..geometry.addr_cycles :
              Operation!Plan[1 + i] = address(OperationInput.address[i])
         /\ \A k \in 1..PageBytes :
              Operation!Plan[1 + geometry.addr_cycles + k] = data(OperationInput.data[k])
         /\ Operation!Plan[2 + geometry.addr_cycles + PageBytes] = command(16)
         /\ Operation!Reads = 0
<1>1. PICK first, part, body, last :
        /\ first = <<Operation!CommandCycle(128)>>
        /\ part = Operation!AddressCycles(OperationInput.address)
        /\ body = Operation!DataCycles(OperationInput.data)
        /\ last = <<Operation!CommandCycle(16)>>
  OBVIOUS
<1>2. Operation!Plan = ((first \o part) \o body) \o last /\ Operation!Reads = 0
  BY <1>1, SMT DEF Operation!Plan, Operation!Reads
<1>3. /\ first \in Seq(Cycle) /\ Len(first) = 1 /\ first[1] = command(128)
      /\ last \in Seq(Cycle) /\ Len(last) = 1 /\ last[1] = command(16)
  BY <1>1, CommandIsCycle DEF command
<1>4. PICK n \in Nat, p \in Nat : n = geometry.addr_cycles /\ p = PageBytes
  BY InputType
<1>6. /\ part \in Seq(Cycle) /\ Len(part) = n
      /\ \A i \in 1..n : part[i] = address(OperationInput.address[i])
  <2>1. PICK bytes \in [1..n -> Byte] : bytes = OperationInput.address BY <1>4, InputType
  <2> QED BY <1>1, <2>1, AddressesAreCycles DEF address
<1>8. /\ body \in Seq(Cycle) /\ Len(body) = p
      /\ \A k \in 1..p : body[k] = data(OperationInput.data[k])
  <2>1. PICK words \in [1..p -> Word] : words = OperationInput.data BY <1>4, InputType
  <2> QED BY <1>1, <2>1, WordsAreCycles DEF data
<1>9. /\ first \o part \in Seq(Cycle) /\ Len(first \o part) = 1 + n
      /\ (first \o part)[1] = command(128)
      /\ \A i \in 1..n : (first \o part)[1 + i] = part[i]
  <2>1. part \in Seq(Cycle) /\ Len(part) = n BY <1>6
  <2> QED BY <1>3, <2>1, OpenedPlan
<1>10. PICK m \in Nat, head \in Seq(Cycle) : m = 1 + n /\ head = first \o part /\ Len(head) = m
  <2>1. PICK m \in Nat : m = 1 + n OBVIOUS
  <2>2. Len(first \o part) = m BY <1>9, <2>1
  <2> QED BY <1>9, <2>1, <2>2, Zenon
<1>11. /\ head \o body \in Seq(Cycle) /\ Len(head \o body) = m + p
       /\ \A i \in 1..m : (head \o body)[i] = head[i]
       /\ \A k \in 1..p : (head \o body)[m + k] = body[k]
  <2>1. Len(head) = m BY <1>10
  <2>2. body \in Seq(Cycle) /\ Len(body) = p BY <1>8
  <2>3. head \o body \in Seq(Cycle) /\ Len(head \o body) = m + p BY <2>1, <2>2, Joined
  <2>4. \A i \in 1..Len(head) : (head \o body)[i] = head[i] BY <2>2, JoinedFirst, Zenon
  <2>5. \A i \in 1..Len(body) : (head \o body)[Len(head) + i] = body[i]
    BY <2>2, JoinedSecond, Zenon
  <2> QED BY <2>1, <2>2, <2>3, <2>4, <2>5
<1>12. PICK w \in Nat, whole \in Seq(Cycle) : w = m + p /\ whole = head \o body /\ Len(whole) = w
  <2>1. PICK w \in Nat : w = m + p OBVIOUS
  <2>2. Len(head \o body) = w BY <1>11, <2>1
  <2> QED BY <1>11, <2>1, <2>2, Zenon
<1>13. /\ whole \o last \in Seq(Cycle) /\ Len(whole \o last) = w + 1
       /\ \A i \in 1..w : (whole \o last)[i] = whole[i]
       /\ (whole \o last)[w + 1] = command(16)
  <2>1. Len(whole) = w BY <1>12
  <2> QED BY <1>3, <2>1, ClosedPlan
<1>14. /\ 1 \in 1..m /\ 1 \in 1..w /\ w + 1 = 2 + n + p /\ m = 1 + n
       /\ \A i \in 1..n : 1 + i \in 1..m /\ 1 + i \in 1..w
       /\ \A k \in 1..p : m + k \in 1..w
  BY <1>10, <1>12, SMT
<1>15. Operation!Plan = whole \o last
  BY <1>2, <1>10, <1>12
<1>16. Operation!Plan[1] = command(128)
  BY <1>9, <1>10, <1>11, <1>12, <1>13, <1>14, <1>15
<1>17. ASSUME NEW i \in 1..n PROVE Operation!Plan[1 + i] = address(OperationInput.address[i])
  <2>1. 1 + i \in 1..m /\ 1 + i \in 1..w BY <1>14
  <2>2. (whole \o last)[1 + i] = whole[1 + i] BY <1>13, <2>1
  <2>3. whole[1 + i] = head[1 + i] BY <1>11, <1>12, <2>1
  <2>4. head[1 + i] = part[i] BY <1>9, <1>10
  <2> QED BY <1>6, <1>15, <2>2, <2>3, <2>4
<1>18. ASSUME NEW k \in 1..p PROVE Operation!Plan[1 + n + k] = data(OperationInput.data[k])
  <2>1. m + k \in 1..w /\ m = 1 + n BY <1>14
  <2>2. (whole \o last)[m + k] = whole[m + k] BY <1>13, <2>1
  <2>3. whole[m + k] = body[k] BY <1>11, <1>12
  <2> QED BY <1>8, <1>15, <2>1, <2>2, <2>3
<1> QED BY <1>2, <1>4, <1>13, <1>14, <1>15, <1>16, <1>17, <1>18

-----------------------------------------------------------------------------
(* One clock of an operation *)

LEMMA CycleOnBus ==
  ASSUME TypeInvariant PROVE BusCycle \in Cycle
<1>1. bus_out \in Word
  BY CycleType DEF TypeInvariant
<1>2. PICK w \in Word, k \in {"command", "address", "data"} : BusCycle = [kind |-> k, value |-> w]
  BY <1>1, SMT DEF BusCycle
<1> QED BY <1>2 DEF Cycle

LEMMA FullIsFit == Regular => Fits
BY DEF Regular

\* What the history records at a clock edge.
LEMMA Recorded ==
  ASSUME NEW activate, NEW cmd_in, NEW data_in, Edge(activate, cmd_in, data_in), state # "M_IDLE"
  PROVE  /\ resets' = resets
         /\ state' \in {"M_IDLE", "M_RESET"} => op' = 0 /\ cycles' = <<>> /\ reads' = 0
         /\ state' \notin {"M_IDLE", "M_RESET"} =>
              /\ op' = op
              /\ cycles' = IF WeRises /\ op # 0 THEN Append(cycles, BusCycle) ELSE cycles
              /\ reads' = IF ReFalls /\ op # 0 THEN reads + 1 ELSE reads
BY DEF Edge, Record

LEMMA InputKept ==
  ASSUME UNCHANGED config, buf'.page_data = buf.page_data,
         buf'.current_address = buf.current_address
  PROVE  OperationInput' = OperationInput
<1>1. PageBytes' = PageBytes /\ Wide' = Wide /\ geometry' = geometry
  BY Unmoved
<1> QED BY <1>1 DEF OperationInput

LEMMA PlanKept ==
  ASSUME op' = op, OperationInput' = OperationInput
  PROVE  Operation!Plan' = Operation!Plan /\ Operation!Reads' = Operation!Reads
BY DEF Operation!Plan, Operation!Reads

\* A page read changes the words of its input, and no cycle of its plan.
LEMMA FillKeepsPlan ==
  ASSUME TypeInvariant, op = 6, op' = op, UNCHANGED config,
         buf'.current_address = buf.current_address
  PROVE  /\ OperationInput'.address = OperationInput.address
         /\ Len(OperationInput'.data) = Len(OperationInput.data)
         /\ Operation!Plan' = Operation!Plan
<1>1. PageBytes' = PageBytes /\ geometry' = geometry
  BY Unmoved
<1>2. OperationInput'.address = OperationInput.address
  BY <1>1 DEF OperationInput
<1>3. PICK size \in Nat : size = PageBytes
  BY InputType
<1>4. ASSUME NEW f, f = [k \in 1..size |-> f[k]] PROVE Len(f) = size
  <2> DEFINE S == {f[k] : k \in 1..size}
  <2>1. f \in [1..size -> S] BY <1>4
  <2> HIDE DEF S
  <2> QED BY <2>1, FunctionIsSeq
<1>5. /\ OperationInput.data = [k \in 1..size |-> OperationInput.data[k]]
      /\ OperationInput'.data = [k \in 1..size |-> OperationInput'.data[k]]
  BY <1>1, <1>3 DEF OperationInput
<1>6. Len(OperationInput'.data) = Len(OperationInput.data)
  BY <1>4, <1>5
<1>7. Operation!Plan' = Operation!Plan
  BY <1>2, SMT DEF Operation!Plan
<1> QED BY <1>2, <1>6, <1>7

LEMMA QuietStrobe ==
  ASSUME Quiet \/ ~unit_busy
  PROVE  nand_nwe = 1
BY SMT DEF Quiet, unit_busy, ACL!active, AAL!active, IO_WR!active, ACL!busy, AAL!busy, IO_WR!busy,
   nand_nwe, ACL!write_enable, AAL!write_enable, IO_WR!io_ctrl

LEMMA QuietElsewhere ==
  ASSUME UnitDiscipline, state # "M_WAIT", ~At("M_NAND_READ", {"MS_SUBMIT_ADDRESS"})
  PROVE  nand_nwe = 1
BY QuietStrobe DEF UnitDiscipline

\* What one clock adds to the bus, of a plan with a number of words to read.
Adds(plan, words, done, asked, done2, asked2) ==
  \/ done2 = done /\ asked2 = asked
  \/ /\ asked = 0 /\ Len(done) < Len(plan)
     /\ done2 = Append(done, plan[Len(done) + 1]) /\ asked2 = asked
  \/ done = plan /\ asked < words /\ done2 = done /\ asked2 = asked + 1

Operating(activate, cmd_in, data_in) ==
  /\ HostEarly = FALSE /\ TypeInvariant /\ UnitDiscipline /\ InitTogether
  /\ Edge(activate, cmd_in, data_in)
  /\ op # 0 /\ cycles \in Seq(Cycle)
  /\ state # "M_IDLE" /\ state' \notin {"M_IDLE", "M_RESET"}

Unit_activate == cle_activate \/ ale_activate \/ io_wr_activate \/ io_rd_activate

LEMMA StageWaits ==
  ASSUME NEW activate, NEW cmd_in, NEW data_in, Operating(activate, cmd_in, data_in),
         ~Unit_activate, NEW n, NEW r, NEW words, NEW plan \in Seq(Cycle),
         Standing(n, r, cycles, reads, nand_nwe, BusCycle, plan)
  PROVE  /\ Standing(n, r, cycles', reads', nand_nwe', BusCycle', plan)
         /\ cycles' \in Seq(Cycle) /\ Adds(plan, words, cycles, reads, cycles', reads')
         /\ r > 0 => cycles' = cycles /\ reads' = reads
<1>1. /\ ~cle_activate /\ ~ale_activate /\ ~io_wr_activate /\ ~io_rd_activate
      /\ TypeInvariant /\ UnitDiscipline /\ InitTogether /\ Edge(activate, cmd_in, data_in)
      /\ op # 0 /\ cycles \in Seq(Cycle) /\ state # "M_IDLE" /\ state' \notin {"M_IDLE", "M_RESET"}
  BY DEF Operating, Unit_activate
<1>2. ~ReFalls
  BY <1>1, ReadStrobe
<1>3. (nand_nwe = 1 => nand_nwe' = 1) /\ (nand_nwe' = 0 => BusCycle' = BusCycle)
  BY <1>1, NoWriteStarts
<1>4. nand_nwe \in {0, 1} /\ nand_nwe' \in {0, 1}
  BY Strobes, StrobesNext
<1>5. /\ cycles' = (IF nand_nwe = 0 /\ nand_nwe' = 1 THEN Append(cycles, BusCycle) ELSE cycles)
      /\ reads' = reads
  BY <1>1, <1>2, Recorded DEF WeRises
<1>6. BusCycle \in Cycle
  BY <1>1, CycleOnBus
<1>7. PICK d, c, q, w, e : d = cycles /\ c = BusCycle /\ q = reads /\ w = nand_nwe /\ e = nand_nwe'
  OBVIOUS
<1>8. PICK c2 : c2 = BusCycle'
  OBVIOUS
<1>9. /\ w = 0 /\ e = 1 => Standing(n, r, Append(d, c), q, e, c2, plan)
      /\ w = 1 \/ e = 0 => Standing(n, r, d, q, e, c2, plan)
  <2>1. d \in Seq(Cycle) /\ w \in {0, 1} /\ e \in {0, 1} /\ Standing(n, r, d, q, w, c, plan)
    BY <1>1, <1>4, <1>7
  <2>2. (w = 1 => e = 1) /\ (e = 0 => c2 = c)
    BY <1>3, <1>4, <1>7, <1>8
  <2> QED BY <2>1, <2>2, StandingWaits
<1>10. Standing(n, r, cycles', reads', nand_nwe', BusCycle', plan)
  BY <1>4, <1>5, <1>7, <1>8, <1>9
<1>11. cycles' \in Seq(Cycle)
  BY <1>1, <1>5, <1>6, AppendProperties
<1>12. Adds(plan, words, cycles, reads, cycles', reads')
  <2>1. CASE nand_nwe = 0 /\ nand_nwe' = 1
    <3>1. reads = 0 /\ Len(cycles) < Len(plan) /\ plan[Len(cycles) + 1] = BusCycle
      BY <2>1, SMT DEF Standing
    <3> QED BY <1>5, <2>1, <3>1 DEF Adds
  <2>2. CASE ~(nand_nwe = 0 /\ nand_nwe' = 1)
    BY <1>5, <2>2 DEF Adds
  <2> QED BY <2>1, <2>2
<1>13. r > 0 => cycles' = cycles /\ reads' = reads
  BY <1>5, SMT DEF Standing
<1> QED BY <1>10, <1>11, <1>12, <1>13

LEMMA StageWrites ==
  ASSUME NEW activate, NEW cmd_in, NEW data_in, Operating(activate, cmd_in, data_in),
         cle_activate \/ ale_activate \/ io_wr_activate,
         NEW n, NEW words, NEW plan \in Seq(Cycle),
         Standing(n, 0, cycles, reads, nand_nwe, BusCycle, plan), n + 1 <= Len(plan),
         cle_activate => plan[n + 1] = command(drive'.cle_data_in),
         ale_activate => plan[n + 1] = address(drive'.ale_data_in),
         io_wr_activate => plan[n + 1] = data(drive.io_wr_data_in)
  PROVE  /\ Standing(n + 1, 0, cycles', reads', nand_nwe', BusCycle', plan)
         /\ cycles' \in Seq(Cycle) /\ Adds(plan, words, cycles, reads, cycles', reads')
<1>1. /\ HostEarly = FALSE /\ TypeInvariant /\ UnitDiscipline /\ Edge(activate, cmd_in, data_in)
      /\ op # 0 /\ cycles \in Seq(Cycle) /\ state # "M_IDLE" /\ state' \notin {"M_IDLE", "M_RESET"}
  BY DEF Operating
<1>2. ~io_rd_activate
  BY OneActivation
<1>3. ~ReFalls
  BY <1>1, <1>2, ReadStrobe
<1>4. nand_nwe = 1 /\ nand_nwe' = 0
  BY <1>1, CommandStarts, AddressStarts, WordStarts
<1>5. BusCycle' = plan[n + 1]
  <2>1. CASE cle_activate BY <1>1, <2>1, CommandStarts DEF command
  <2>2. CASE ale_activate BY <1>1, <2>2, AddressStarts DEF address
  <2>3. CASE io_wr_activate BY <1>1, <2>3, WordStarts DEF data
  <2> QED BY <2>1, <2>2, <2>3
<1>6. cycles' = cycles /\ reads' = reads
  BY <1>1, <1>3, <1>4, Recorded DEF WeRises
<1>7. Standing(n + 1, 0, cycles', reads', nand_nwe', BusCycle', plan)
  <2>1. Standing(n, 0, cycles, reads, 1, BusCycle, plan)
    BY <1>4
  <2>2. PICK c2 : c2 = BusCycle' OBVIOUS
  <2>3. Standing(n + 1, 0, cycles, reads, 0, c2, plan)
    BY <1>5, <2>1, <2>2, SMT DEF Standing
  <2> QED BY <1>4, <1>6, <2>2, <2>3
<1> QED BY <1>1, <1>6, <1>7 DEF Adds

LEMMA StageReads ==
  ASSUME NEW activate, NEW cmd_in, NEW data_in, Operating(activate, cmd_in, data_in),
         io_rd_activate, NEW n, NEW r, NEW words, NEW plan \in Seq(Cycle),
         Standing(n, r, cycles, reads, nand_nwe, BusCycle, plan), n = Len(plan), r < words
  PROVE  /\ Standing(n, r + 1, cycles', reads', nand_nwe', BusCycle', plan)
         /\ cycles' \in Seq(Cycle) /\ Adds(plan, words, cycles, reads, cycles', reads')
<1>1. /\ HostEarly = FALSE /\ TypeInvariant /\ UnitDiscipline /\ Edge(activate, cmd_in, data_in)
      /\ op # 0 /\ cycles \in Seq(Cycle) /\ state # "M_IDLE" /\ state' \notin {"M_IDLE", "M_RESET"}
  BY DEF Operating
<1>2. ReFalls /\ nand_nwe = 1 /\ nand_nwe' = 1
  BY <1>1, ReadStrobe
<1>3. cycles' = cycles /\ reads' = reads + 1
  BY <1>1, <1>2, Recorded DEF WeRises
<1>4. Standing(n, r, cycles, reads, 1, BusCycle, plan)
  BY <1>2
<1>5. cycles = plan /\ reads = r
  <2>1. PICK d, c : d = cycles /\ c = BusCycle OBVIOUS
  <2>2. PICK q : q = reads OBVIOUS
  <2>3. d \in Seq(Cycle) /\ Standing(n, r, d, q, 1, c, plan) BY <1>1, <1>4, <2>1, <2>2
  <2>4. d = plan /\ q = r BY <2>3, StandingDone
  <2> QED BY <2>1, <2>2, <2>4
<1>6. PICK c2 : c2 = BusCycle' OBVIOUS
<1>7. Standing(n, r + 1, cycles, reads + 1, 1, c2, plan)
  BY <1>4, SMT DEF Standing
<1>8. Standing(n, r + 1, cycles', reads', nand_nwe', BusCycle', plan)
  BY <1>2, <1>3, <1>6, <1>7
<1> QED BY <1>1, <1>3, <1>5, <1>8 DEF Adds

opvars == <<op, OperationInput, cycles, reads, resets>>
Implements == Operation!Next \/ UNCHANGED opvars

Ready(activate, cmd_in, data_in) ==
  /\ HostEarly = FALSE /\ TypeInvariant /\ UnitDiscipline /\ InitTogether
  /\ Regular /\ IndexInv /\ OperationInv
  /\ Edge(activate, cmd_in, data_in)

LEMMA GoesOn ==
  ASSUME NEW activate, NEW cmd_in, NEW data_in, Operating(activate, cmd_in, data_in),
         OperationInput' = OperationInput,
         Adds(Operation!Plan, Operation!Reads, cycles, reads, cycles', reads')
  PROVE  Implements
<1>1. op' = op /\ resets' = resets
  BY Recorded DEF Operating
<1>2. CASE cycles' = cycles /\ reads' = reads
  BY <1>1, <1>2 DEF Implements, opvars
<1>3. CASE /\ reads = 0 /\ Len(cycles) < Len(Operation!Plan)
           /\ cycles' = Append(cycles, Operation!Plan[Len(cycles) + 1]) /\ reads' = reads
  BY <1>1, <1>3 DEF Implements, Operation!Next, Operation!WriteCycle
<1>4. CASE cycles = Operation!Plan /\ reads < Operation!Reads /\ cycles' = cycles /\ reads' = reads + 1
  BY <1>1, <1>4 DEF Implements, Operation!Next, Operation!ReadWord
<1> QED BY <1>2, <1>3, <1>4 DEF Adds

LEMMA Ends ==
  ASSUME NEW activate, NEW cmd_in, NEW data_in, Edge(activate, cmd_in, data_in),
         state # "M_IDLE", state' = "M_IDLE", op # 0, nand_nwe = 1,
         cycles \in Seq(Cycle), Operation!Plan \in Seq(Cycle),
         Stage(Len(Operation!Plan), Operation!Reads)
  PROVE  OperationInv' /\ Implements
<1>1. op' = 0 /\ cycles' = <<>> /\ reads' = 0 /\ resets' = resets
  BY Recorded
<1>2. PICK d, c, q, r, plan :
        d = cycles /\ c = BusCycle /\ q = reads /\ r = Operation!Reads /\ plan = Operation!Plan
  OBVIOUS
<1>3. d \in Seq(Cycle) /\ plan \in Seq(Cycle) /\ Standing(Len(plan), r, d, q, 1, c, plan)
  BY <1>2 DEF Stage
<1>4. d = plan /\ q = r
  BY <1>3, StandingDone
<1>5. Operation!End
  BY <1>1, <1>2, <1>4 DEF Operation!End
<1>6. OperationInv'
  BY <1>1, SMT DEF OperationInv
<1> QED BY <1>5, <1>6 DEF Implements, Operation!Next

LEMMA ReadOperation ==
  ASSUME NEW activate, NEW cmd_in, NEW data_in, Ready(activate, cmd_in, data_in), op = 6, ReadPage
  PROVE  OperationInv' /\ Implements
<1> DEFINE A == geometry.addr_cycles
           P == Operation!Plan
<1>1. /\ HostEarly = FALSE /\ TypeInvariant /\ UnitDiscipline /\ InitTogether
      /\ Regular /\ IndexInv /\ OperationInv /\ Edge(activate, cmd_in, data_in)
  BY DEF Ready
<1>2. state = "M_NAND_READ" /\ state \in BusStates /\ UNCHANGED config /\ Doing = state
  BY <1>1, Moves, SMT DEF ReadPage, BusStates
<1>3. /\ byte_count \in Int /\ A \in Nat /\ PageBytes \in Nat /\ 1 <= A
      /\ AddressIndex /\ ReadIndex /\ ReadStages /\ cycles \in Seq(Cycle)
  <2>1. byte_count \in Int BY <1>1 DEF TypeInvariant, MasterType, CounterType
  <2>2. A \in Nat /\ PageBytes \in Nat BY <1>1, InputType
  <2>3. AddressIndex /\ ReadIndex BY <1>1, <1>2 DEF IndexInv
  <2>4. ReadStages /\ cycles \in Seq(Cycle) BY <1>1 DEF OperationInv
  <2>5. 1 <= A BY <1>1, <1>2, SMT DEF Regular
  <2> QED BY <2>1, <2>2, <2>3, <2>4, <2>5
<1>4. /\ P \in Seq(Cycle) /\ Len(P) = 2 + A /\ P[1] = command(0) /\ P[2 + A] = command(48)
      /\ \A i \in 1..A : P[1 + i] = address(Fetch(buf.current_address, i - 1))
      /\ Operation!Reads = PageBytes
  BY <1>1, ReadPlan
<1>5. CASE substate = "MS_END"
  <2>1. state' = "M_IDLE" BY <1>2, <1>5, SMT DEF ReadPage, Finish
  <2>2. nand_nwe = 1 BY <1>1, <1>2, <1>5, QuietElsewhere, SMT DEF At
  <2>3. Stage(Len(P), Operation!Reads) BY <1>3, <1>4, <1>5 DEF ReadStages
  <2> HIDE DEF P
  <2> QED BY <1>1, <1>2, <1>3, <1>4, <2>1, <2>2, <2>3, Ends DEF P
<1>6. CASE substate # "MS_END"
  <2>1. state' \in {"M_WAIT", "M_NAND_READ"} /\ Doing' = "M_NAND_READ"
    BY <1>1, <1>2, <1>6, Moves, SMT DEF ReadPage, WaitFor, Continue
  <2>2. Operating(activate, cmd_in, data_in)
    BY <1>1, <1>2, <1>3, <2>1, SMT DEF Operating
  <2>3. op' = op /\ op' = 6
    BY <1>1, <1>2, <2>1, Recorded, SMT
  <2>4. geometry' = geometry /\ A' = A /\ PageBytes' = PageBytes
    BY <1>2, Unmoved
  <2>5. ASSUME ReadStages', cycles' \in Seq(Cycle) PROVE OperationInv'
    BY <2>1, <2>3, <2>5, SMT DEF OperationInv, Target, CommandStates
  <2>6. ASSUME buf' = buf PROVE OperationInput' = OperationInput /\ P' = P
    BY <1>2, <2>3, <2>6, InputKept, PlanKept
  <2> HIDE DEF P, A
  <2>7. CASE substate = "MS_BEGIN"
    <3>1. cle_activate
      BY <1>2, <2>7 DEF cle_activate
    <3>2. ~ale_activate /\ ~io_wr_activate
      BY <3>1, OneActivation
    <3>3. /\ buf' = buf /\ byte_count' = 0 /\ substate' = "MS_SUBMIT_COMMAND"
          /\ drive'.cle_data_in = 0
      BY <1>1, <1>2, <2>7, Moves, SMT DEF ReadPage, Command, TypeInvariant, MasterType, DataType
    <3>4. Standing(0, 0, cycles, reads, nand_nwe, BusCycle, P)
      BY <1>3, <1>4, <2>7, SMT DEF ReadStages, Fresh, Standing
    <3>5. 0 + 1 <= Len(P) /\ P[0 + 1] = command(drive'.cle_data_in)
      BY <1>3, <1>4, <3>3, SMT
    <3>6. /\ Standing(0 + 1, 0, cycles', reads', nand_nwe', BusCycle', P) /\ cycles' \in Seq(Cycle)
          /\ Adds(P, Operation!Reads, cycles, reads, cycles', reads')
      BY <1>4, <2>2, <3>1, <3>2, <3>4, <3>5, StageWrites
    <3>7. ReadStages'
      BY <1>3, <2>4, <2>6, <3>3, <3>6, SMT DEF ReadStages, Stage, A, P
    <3> QED BY <2>2, <2>5, <2>6, <3>3, <3>6, <3>7, GoesOn DEF P
  <2>8. CASE substate = "MS_SUBMIT_COMMAND"
    <3>1. ale_activate
      BY <1>2, <2>8 DEF ale_activate
    <3>2. ~cle_activate /\ ~io_wr_activate
      BY <3>1, OneActivation
    <3>3. /\ buf' = buf /\ byte_count' = byte_count + 1 /\ substate' = "MS_SUBMIT_ADDRESS"
          /\ drive'.ale_data_in = Fetch(buf.current_address, byte_count)
      BY <1>1, <1>2, <2>8, Moves, SMT DEF ReadPage, Address, CurrentAddress, TypeInvariant,
         MasterType, DataType
    <3>4. 0 <= byte_count /\ byte_count < A
      BY <1>3, <2>8, SMT DEF ReadStages, AddressIndex, A
    <3>5. Standing(1 + byte_count, 0, cycles, reads, nand_nwe, BusCycle, P)
      BY <1>3, <2>8 DEF ReadStages, Stage, P
    <3>6. (1 + byte_count) + 1 <= Len(P) /\ P[(1 + byte_count) + 1] = address(drive'.ale_data_in)
      <4>1. byte_count + 1 \in 1..A /\ 1 + (byte_count + 1) = (1 + byte_count) + 1
            /\ (byte_count + 1) - 1 = byte_count
        BY <1>3, <3>4, SMT
      <4>2. P[1 + (byte_count + 1)] = address(Fetch(buf.current_address, (byte_count + 1) - 1))
        BY <1>4, <4>1
      <4> QED BY <1>3, <1>4, <3>3, <3>4, <4>1, <4>2, SMT
    <3>7. /\ Standing((1 + byte_count) + 1, 0, cycles', reads', nand_nwe', BusCycle', P)
          /\ cycles' \in Seq(Cycle) /\ Adds(P, Operation!Reads, cycles, reads, cycles', reads')
      BY <1>4, <2>2, <3>1, <3>2, <3>5, <3>6, StageWrites
    <3>8. ReadStages'
      BY <1>3, <2>4, <2>6, <3>3, <3>4, <3>7, SMT DEF ReadStages, Stage, A, P
    <3> QED BY <2>2, <2>5, <2>6, <3>3, <3>7, <3>8, GoesOn DEF P
  <2>9. CASE substate \in {"MS_SUBMIT_ADDRESS", "MS_DELAY", "MS_WAIT_tRR"}
    <3>1. ~Unit_activate
      BY <1>2, <2>9, SMT DEF Unit_activate, cle_activate, ale_activate, io_wr_activate,
         io_rd_activate, At
    <3>2. buf' = buf
      BY <1>2, <2>9, SMT DEF ReadPage
    <3>3. \A n, r : Standing(n, r, cycles, reads, nand_nwe, BusCycle, P) =>
            /\ Standing(n, r, cycles', reads', nand_nwe', BusCycle', P) /\ cycles' \in Seq(Cycle)
            /\ Adds(P, Operation!Reads, cycles, reads, cycles', reads')
      BY <1>4, <2>2, <3>1, StageWaits
    <3>4. CASE substate = "MS_SUBMIT_ADDRESS"
      <4>1. 1 <= byte_count /\ byte_count <= A
            /\ Standing(1 + byte_count, 0, cycles, reads, nand_nwe, BusCycle, P)
        BY <1>3, <3>4 DEF ReadStages, Stage, P, A
      <4>2. /\ byte_count' = byte_count
            /\ substate' = IF byte_count < A THEN "MS_SUBMIT_COMMAND" ELSE "MS_SUBMIT_COMMAND1"
        BY <1>1, <1>2, <3>4, Moves, SMT DEF ReadPage, A
      <4>3. /\ Standing(1 + byte_count, 0, cycles', reads', nand_nwe', BusCycle', P)
            /\ cycles' \in Seq(Cycle) /\ Adds(P, Operation!Reads, cycles, reads, cycles', reads')
        BY <3>3, <4>1
      <4>4. ReadStages'
        BY <1>3, <2>4, <2>6, <3>2, <4>1, <4>2, <4>3, SMT DEF ReadStages, Stage, A, P
      <4> QED BY <2>2, <2>5, <2>6, <3>2, <4>3, <4>4, GoesOn DEF P
    <3>5. CASE substate \in {"MS_DELAY", "MS_WAIT_tRR"}
      <4>1. Standing(2 + A, 0, cycles, reads, nand_nwe, BusCycle, P)
        BY <1>3, <3>5 DEF ReadStages, Stage, P, A
      <4>2. \/ substate' = "MS_WAIT_tRR"
            \/ substate' = "MS_READ_DATA0" /\ byte_count' = 0
        BY <1>1, <1>2, <3>5, Moves, SMT DEF ReadPage
      <4>3. /\ Standing(2 + A, 0, cycles', reads', nand_nwe', BusCycle', P)
            /\ cycles' \in Seq(Cycle) /\ Adds(P, Operation!Reads, cycles, reads, cycles', reads')
        BY <3>3, <4>1
      <4>4. ReadStages'
        BY <1>3, <2>4, <2>6, <3>2, <4>1, <4>2, <4>3, SMT DEF ReadStages, Stage, A, P
      <4> QED BY <2>2, <2>5, <2>6, <3>2, <4>3, <4>4, GoesOn DEF P
    <3> QED BY <2>9, <3>4, <3>5
  <2>10. CASE substate = "MS_SUBMIT_COMMAND1"
    <3>1. cle_activate
      BY <1>2, <2>10 DEF cle_activate
    <3>2. ~ale_activate /\ ~io_wr_activate
      BY <3>1, OneActivation
    <3>3. buf' = buf /\ substate' = "MS_DELAY" /\ drive'.cle_data_in = 48
      BY <1>1, <1>2, <2>10, Moves, SMT DEF ReadPage, Command, TypeInvariant, MasterType, DataType
    <3>4. Standing(1 + A, 0, cycles, reads, nand_nwe, BusCycle, P)
      BY <1>3, <2>10 DEF ReadStages, Stage, P, A
    <3>5. (1 + A) + 1 <= Len(P) /\ P[(1 + A) + 1] = command(drive'.cle_data_in) /\ (1 + A) + 1 = 2 + A
      BY <1>3, <1>4, <3>3, SMT
    <3>6. /\ Standing((1 + A) + 1, 0, cycles', reads', nand_nwe', BusCycle', P)
          /\ cycles' \in Seq(Cycle) /\ Adds(P, Operation!Reads, cycles, reads, cycles', reads')
      BY <1>4, <2>2, <3>1, <3>2, <3>4, <3>5, StageWrites
    <3>7. ReadStages'
      BY <1>3, <2>4, <2>6, <3>3, <3>5, <3>6, SMT DEF ReadStages, Stage, A, P
    <3> QED BY <2>2, <2>5, <2>6, <3>3, <3>6, <3>7, GoesOn DEF P
  <2>11. CASE substate = "MS_READ_DATA0"
    <3>1. io_rd_activate
      BY <1>2, <2>11 DEF io_rd_activate
    <3>2. buf' = buf /\ byte_count' = byte_count + 1 /\ substate' = "MS_READ_DATA1"
      BY <1>1, <1>2, <2>11, Moves, SMT DEF ReadPage
    <3>3. /\ Standing(2 + A, byte_count, cycles, reads, nand_nwe, BusCycle, P)
          /\ byte_count < PageBytes
      BY <1>3, <2>11 DEF ReadStages, ReadIndex, Stage, P, A
    <3>4. /\ Standing(2 + A, byte_count + 1, cycles', reads', nand_nwe', BusCycle', P)
          /\ cycles' \in Seq(Cycle) /\ Adds(P, Operation!Reads, cycles, reads, cycles', reads')
      BY <1>4, <2>2, <3>1, <3>3, StageReads
    <3>5. ReadStages'
      BY <1>3, <2>4, <2>6, <3>2, <3>4, SMT DEF ReadStages, Stage, A, P
    <3> QED BY <2>2, <2>5, <2>6, <3>2, <3>4, <3>5, GoesOn DEF P
  <2>12. CASE substate \in {"MS_READ_DATA1", "MS_READ_DATA2"}
    <3>1. ~Unit_activate
      BY <1>2, <2>12, SMT DEF Unit_activate, cle_activate, ale_activate, io_wr_activate,
         io_rd_activate, At
    <3>2. /\ buf'.current_address = buf.current_address /\ byte_count' = byte_count
          /\ substate' \in {"MS_READ_DATA0", "MS_READ_DATA2", "MS_END"}
          /\ substate' = "MS_END" => byte_count = PageBytes
      <4>1. PICK mem : buf' = [buf EXCEPT !.page_data = mem]
        BY <1>2, <2>12, SMT DEF ReadPage
      <4>2. buf'.current_address = buf.current_address
        BY <1>1, <4>1, SMT DEF TypeInvariant, MasterType, DataType
      <4> QED BY <1>1, <1>2, <2>12, <4>2, Moves, SMT DEF ReadPage
    <3>3. /\ Standing(2 + A, byte_count, cycles, reads, nand_nwe, BusCycle, P)
          /\ 1 <= byte_count
      BY <1>3, <2>12 DEF ReadStages, ReadIndex, Stage, P, A
    <3>4. byte_count > 0 /\ reads > 0
      BY <1>3, <3>3, SMT DEF Standing
    <3>5. /\ Standing(2 + A, byte_count, cycles', reads', nand_nwe', BusCycle', P)
          /\ cycles' = cycles /\ reads' = reads
      BY <1>4, <2>2, <3>1, <3>3, <3>4, StageWaits
    <3>6. /\ OperationInput'.address = OperationInput.address
          /\ Len(OperationInput'.data) = Len(OperationInput.data) /\ P' = P
      BY <1>1, <1>2, <2>3, <3>2, FillKeepsPlan DEF P
    <3>7. Operation!Fill
      BY <1>1, <1>2, <2>3, <3>4, <3>5, <3>6, Recorded DEF Operation!Fill
    <3>8. ReadStages'
      BY <1>3, <2>4, <3>2, <3>5, <3>6, SMT DEF ReadStages, Stage, A, P
    <3> QED BY <1>3, <2>5, <3>5, <3>7, <3>8 DEF Implements, Operation!Next
  <2> QED BY <1>2, <1>6, <2>7, <2>8, <2>9, <2>10, <2>11, <2>12, SMT DEF ReadPage
<1> QED BY <1>5, <1>6

LEMMA ProgramOperation ==
  ASSUME NEW activate, NEW cmd_in, NEW data_in, Ready(activate, cmd_in, data_in), op = 7,
         PageProgram
  PROVE  OperationInv' /\ Implements
<1> DEFINE A == geometry.addr_cycles
           P == Operation!Plan
<1>1. /\ HostEarly = FALSE /\ TypeInvariant /\ UnitDiscipline /\ InitTogether
      /\ Regular /\ IndexInv /\ OperationInv /\ Edge(activate, cmd_in, data_in)
  BY DEF Ready
<1>2. /\ state = "M_NAND_PAGE_PROGRAM" /\ state \in BusStates /\ UNCHANGED config /\ Doing = state
      /\ buf' = buf
  BY <1>1, Moves, SMT DEF PageProgram, BusStates
<1>3. /\ byte_count \in Int /\ A \in Nat /\ PageBytes \in Nat /\ 1 <= A
      /\ AddressIndex /\ ProgramIndex /\ ProgramStages /\ cycles \in Seq(Cycle)
  <2>1. byte_count \in Int BY <1>1 DEF TypeInvariant, MasterType, CounterType
  <2>2. A \in Nat /\ PageBytes \in Nat BY <1>1, InputType
  <2>3. AddressIndex /\ ProgramIndex BY <1>1, <1>2 DEF IndexInv
  <2>4. ProgramStages /\ cycles \in Seq(Cycle) BY <1>1, <1>2 DEF OperationInv
  <2>5. 1 <= A BY <1>1, <1>2, SMT DEF Regular
  <2> QED BY <2>1, <2>2, <2>3, <2>4, <2>5
<1>4. /\ P \in Seq(Cycle) /\ Len(P) = 2 + A + PageBytes
      /\ P[1] = command(128) /\ P[2 + A + PageBytes] = command(16)
      /\ \A i \in 1..A : P[1 + i] = address(OperationInput.address[i])
      /\ \A k \in 1..PageBytes : P[1 + A + k] = data(OperationInput.data[k])
      /\ Operation!Reads = 0
  BY <1>1, ProgramPlan
<1>5. /\ \A i \in 1..A : OperationInput.address[i] = Fetch(buf.current_address, i - 1)
      /\ \A k \in 1..PageBytes : OperationInput.data[k] =
           IF Wide THEN SetHighByte(Fetch(buf.page_data, 2 * k - 2), Fetch(buf.page_data, 2 * k - 1))
                   ELSE Fetch(buf.page_data, k - 1)
  BY <1>1, InputType
<1>6. state' \in {"M_WAIT", "M_DELAY", "M_NAND_PAGE_PROGRAM"}
  BY <1>2, SMT DEF PageProgram, WaitFor, DelayFor, Continue
<1>7. Operating(activate, cmd_in, data_in)
  BY <1>1, <1>2, <1>3, <1>6, SMT DEF Operating
<1>8. op' = op /\ op' = 7
  BY <1>1, <1>2, <1>6, Recorded, SMT
<1>9. geometry' = geometry /\ A' = A /\ PageBytes' = PageBytes /\ Wide' = Wide
  BY <1>2, Unmoved
<1>10. OperationInput' = OperationInput /\ P' = P
  BY <1>2, <1>8, InputKept, PlanKept
<1>11. substate # "MS_END" => Doing' = "M_NAND_PAGE_PROGRAM"
  BY <1>1, <1>2, Moves, SMT DEF PageProgram
<1>12. ASSUME substate # "MS_END", ProgramStages', cycles' \in Seq(Cycle) PROVE OperationInv'
  BY <1>6, <1>8, <1>11, <1>12, SMT DEF OperationInv, Target, CommandStates
<1> HIDE DEF P, A
<1>13. ASSUME ~Unit_activate, NEW n, NEW r, Standing(n, r, cycles, reads, nand_nwe, BusCycle, P)
       PROVE  /\ Standing(n, r, cycles', reads', nand_nwe', BusCycle', P) /\ cycles' \in Seq(Cycle)
              /\ Adds(P, Operation!Reads, cycles, reads, cycles', reads')
  BY <1>4, <1>7, <1>13, StageWaits
<1>14. CASE substate = "MS_BEGIN"
  <2>1. cle_activate
    BY <1>2, <1>14 DEF cle_activate
  <2>2. ~ale_activate /\ ~io_wr_activate
    BY <2>1, OneActivation
  <2>3. byte_count' = 0 /\ substate' = "MS_SUBMIT_COMMAND" /\ drive'.cle_data_in = 128
    BY <1>1, <1>2, <1>14, Moves, SMT DEF PageProgram, Command, TypeInvariant, MasterType, DataType
  <2>4. Standing(0, 0, cycles, reads, nand_nwe, BusCycle, P)
    BY <1>3, <1>4, <1>14, SMT DEF ProgramStages, Fresh, Standing
  <2>5. 0 + 1 <= Len(P) /\ P[0 + 1] = command(drive'.cle_data_in)
    BY <1>3, <1>4, <2>3, SMT
  <2>6. /\ Standing(0 + 1, 0, cycles', reads', nand_nwe', BusCycle', P) /\ cycles' \in Seq(Cycle)
        /\ Adds(P, Operation!Reads, cycles, reads, cycles', reads')
    BY <1>4, <1>7, <2>1, <2>2, <2>4, <2>5, StageWrites
  <2>7. ProgramStages'
    BY <1>3, <1>9, <1>10, <2>3, <2>6, SMT DEF ProgramStages, Stage, A, P
  <2> QED BY <1>7, <1>10, <1>12, <1>14, <2>6, <2>7, GoesOn DEF P
<1>15. CASE substate = "MS_SUBMIT_COMMAND"
  <2>1. ~Unit_activate
    BY <1>2, <1>15, SMT DEF Unit_activate, cle_activate, ale_activate, io_wr_activate,
       io_rd_activate, At
  <2>2. /\ byte_count' = byte_count + 1 /\ substate' = "MS_SUBMIT_ADDRESS"
        /\ drive'.ale_data_in = Fetch(buf.current_address, byte_count)
    BY <1>1, <1>2, <1>15, Moves, SMT DEF PageProgram, Address, CurrentAddress, TypeInvariant,
       MasterType, DataType
  <2>3. /\ 0 <= byte_count /\ byte_count < A
        /\ Standing(1 + byte_count, 0, cycles, reads, nand_nwe, BusCycle, P)
    BY <1>3, <1>15, SMT DEF ProgramStages, AddressIndex, Stage, P, A
  <2>4. /\ Standing(1 + byte_count, 0, cycles', reads', nand_nwe', BusCycle', P)
        /\ cycles' \in Seq(Cycle) /\ Adds(P, Operation!Reads, cycles, reads, cycles', reads')
    BY <1>13, <2>1, <2>3
  <2>5. drive'.ale_data_in = OperationInput.address[byte_count + 1]
    <3>1. byte_count + 1 \in 1..A /\ (byte_count + 1) - 1 = byte_count BY <1>3, <2>3, SMT
    <3> QED BY <1>5, <2>2, <3>1 DEF A
  <2>6. ProgramStages'
    BY <1>3, <1>9, <1>10, <2>2, <2>3, <2>4, <2>5, SMT DEF ProgramStages, Stage, A, P
  <2> QED BY <1>7, <1>10, <1>12, <1>15, <2>4, <2>6, GoesOn DEF P
<1>16. CASE substate = "MS_SUBMIT_ADDRESS"
  <2>1. ale_activate
    BY <1>2, <1>16 DEF ale_activate
  <2>2. ~cle_activate /\ ~io_wr_activate
    BY <2>1, OneActivation
  <2>3. /\ byte_count' = byte_count /\ drive' = drive
        /\ substate' = IF byte_count < A THEN "MS_SUBMIT_COMMAND" ELSE "MS_WRITE_DATA0"
    BY <1>1, <1>2, <1>16, Moves, SMT DEF PageProgram, A
  <2>4. /\ 1 <= byte_count /\ byte_count <= A
        /\ Standing(byte_count, 0, cycles, reads, nand_nwe, BusCycle, P)
        /\ drive.ale_data_in = OperationInput.address[byte_count]
    BY <1>3, <1>16 DEF ProgramStages, Stage, P, A
  <2>5. byte_count + 1 <= Len(P) /\ P[byte_count + 1] = address(drive'.ale_data_in)
    <3>1. byte_count \in 1..A /\ 1 + byte_count = byte_count + 1 BY <1>3, <2>4, SMT
    <3>2. P[byte_count + 1] = address(OperationInput.address[byte_count]) BY <1>4, <3>1
    <3> QED BY <1>3, <1>4, <2>3, <2>4, <3>2, SMT
  <2>6. /\ Standing(byte_count + 1, 0, cycles', reads', nand_nwe', BusCycle', P)
        /\ cycles' \in Seq(Cycle) /\ Adds(P, Operation!Reads, cycles, reads, cycles', reads')
    BY <1>4, <1>7, <2>1, <2>2, <2>4, <2>5, StageWrites
  <2>7. ProgramStages'
    BY <1>3, <1>9, <1>10, <2>3, <2>4, <2>6, SMT DEF ProgramStages, Stage, A, P
  <2> QED BY <1>7, <1>10, <1>12, <1>16, <2>6, <2>7, GoesOn DEF P
<1>17. CASE substate = "MS_WRITE_DATA0"
  <2>1. ~Unit_activate
    BY <1>2, <1>17, SMT DEF Unit_activate, cle_activate, ale_activate, io_wr_activate,
       io_rd_activate, At
  <2>2. byte_count' = 0 /\ substate' = "MS_WRITE_DATA1"
    BY <1>1, <1>2, <1>17, Moves, SMT DEF PageProgram
  <2>3. Standing(1 + A, 0, cycles, reads, nand_nwe, BusCycle, P)
    BY <1>3, <1>17 DEF ProgramStages, Stage, P, A
  <2>4. /\ Standing(1 + A, 0, cycles', reads', nand_nwe', BusCycle', P)
        /\ cycles' \in Seq(Cycle) /\ Adds(P, Operation!Reads, cycles, reads, cycles', reads')
    BY <1>13, <2>1, <2>3
  <2>5. ProgramStages'
    BY <1>3, <1>9, <1>10, <2>2, <2>4, SMT DEF ProgramStages, Stage, A, P
  <2> QED BY <1>7, <1>10, <1>12, <1>17, <2>4, <2>5, GoesOn DEF P
<1>18. CASE substate = "MS_WRITE_DATA1"
  <2>1. ~Unit_activate
    BY <1>2, <1>18, SMT DEF Unit_activate, cle_activate, ale_activate, io_wr_activate,
       io_rd_activate, At
  <2>2. /\ byte_count' = byte_count + 1
        /\ substate' = IF Wide THEN "MS_WRITE_DATA2" ELSE "MS_WRITE_DATA3"
        /\ drive'.io_wr_data_in = Fetch(buf.page_data, page_idx)
    BY <1>1, <1>2, <1>18, Moves, SMT DEF PageProgram, TypeInvariant, MasterType, DataType
  <2>3. /\ 0 <= byte_count /\ byte_count < PageBytes
        /\ page_idx = IF Wide THEN 2 * byte_count ELSE byte_count
        /\ Standing(1 + A + byte_count, 0, cycles, reads, nand_nwe, BusCycle, P)
    BY <1>3, <1>18 DEF ProgramStages, ProgramIndex, Cells, Stage, P, A
  <2>4. /\ Standing(1 + A + byte_count, 0, cycles', reads', nand_nwe', BusCycle', P)
        /\ cycles' \in Seq(Cycle) /\ Adds(P, Operation!Reads, cycles, reads, cycles', reads')
    BY <1>13, <2>1, <2>3
  <2>5. 1 + A + byte_count = A + byte_count'
    BY <1>3, <2>2, SMT
  <2>6. ~Wide => drive'.io_wr_data_in = OperationInput.data[byte_count']
    <3>1. byte_count' \in 1..PageBytes /\ byte_count' - 1 = byte_count BY <1>3, <2>2, <2>3, SMT
    <3> QED BY <1>5, <2>2, <2>3, <3>1
  <2>7. Wide => drive'.io_wr_data_in = Fetch(buf'.page_data, 2 * byte_count' - 2)
    <3>1. 2 * byte_count' - 2 = 2 * byte_count BY <1>3, <2>2, SMT
    <3> QED BY <1>2, <2>2, <2>3, <3>1
  <2>8. ProgramStages'
    BY <1>9, <1>10, <2>2, <2>4, <2>5, <2>6, <2>7, SMT DEF ProgramStages, Stage, A, P
  <2> QED BY <1>7, <1>10, <1>12, <1>18, <2>4, <2>8, GoesOn DEF P
<1>19. CASE substate = "MS_WRITE_DATA2"
  <2>1. ~Unit_activate
    BY <1>2, <1>19, SMT DEF Unit_activate, cle_activate, ale_activate, io_wr_activate,
       io_rd_activate, At
  <2>2. /\ byte_count' = byte_count /\ substate' = "MS_WRITE_DATA3"
        /\ drive'.io_wr_data_in = SetHighByte(drive.io_wr_data_in, Fetch(buf.page_data, page_idx))
    BY <1>1, <1>2, <1>19, Moves, SMT DEF PageProgram, TypeInvariant, MasterType, DataType
  <2>3. /\ Wide /\ 1 <= byte_count /\ byte_count <= PageBytes /\ page_idx = 2 * byte_count - 1
        /\ Standing(A + byte_count, 0, cycles, reads, nand_nwe, BusCycle, P)
        /\ drive.io_wr_data_in = Fetch(buf.page_data, 2 * byte_count - 2)
    BY <1>3, <1>19 DEF ProgramStages, ProgramIndex, Stage, P, A
  <2>4. /\ Standing(A + byte_count, 0, cycles', reads', nand_nwe', BusCycle', P)
        /\ cycles' \in Seq(Cycle) /\ Adds(P, Operation!Reads, cycles, reads, cycles', reads')
    BY <1>13, <2>1, <2>3
  <2>5. drive'.io_wr_data_in = OperationInput.data[byte_count]
    <3>1. byte_count \in 1..PageBytes BY <1>3, <2>3, SMT
    <3> QED BY <1>5, <2>2, <2>3, <3>1
  <2>6. ProgramStages'
    BY <1>3, <1>9, <1>10, <2>2, <2>4, <2>5, SMT DEF ProgramStages, Stage, A, P
  <2> QED BY <1>7, <1>10, <1>12, <1>19, <2>4, <2>6, GoesOn DEF P
<1>20. CASE substate = "MS_WRITE_DATA3"
  <2>1. io_wr_activate
    BY <1>2, <1>20 DEF io_wr_activate, At
  <2>2. ~cle_activate /\ ~ale_activate
    BY <2>1, OneActivation
  <2>3. /\ byte_count' = byte_count
        /\ substate' = IF byte_count < PageBytes THEN "MS_WRITE_DATA1" ELSE "MS_SUBMIT_COMMAND1"
    BY <1>1, <1>2, <1>20, Moves, SMT DEF PageProgram
  <2>4. /\ 1 <= byte_count /\ byte_count <= PageBytes
        /\ Standing(A + byte_count, 0, cycles, reads, nand_nwe, BusCycle, P)
        /\ drive.io_wr_data_in = OperationInput.data[byte_count]
    BY <1>3, <1>20 DEF ProgramStages, ProgramIndex, Stage, P, A
  <2>5. (A + byte_count) + 1 <= Len(P) /\ P[(A + byte_count) + 1] = data(drive.io_wr_data_in)
    <3>1. byte_count \in 1..PageBytes /\ 1 + A + byte_count = (A + byte_count) + 1
      BY <1>3, <2>4, SMT
    <3>2. P[(A + byte_count) + 1] = data(OperationInput.data[byte_count]) BY <1>4, <3>1
    <3> QED BY <1>3, <1>4, <2>4, <3>2, SMT
  <2>6. /\ Standing((A + byte_count) + 1, 0, cycles', reads', nand_nwe', BusCycle', P)
        /\ cycles' \in Seq(Cycle) /\ Adds(P, Operation!Reads, cycles, reads, cycles', reads')
    BY <1>4, <1>7, <2>1, <2>2, <2>4, <2>5, StageWrites
  <2>7. (A + byte_count) + 1 = 1 + A + byte_count
    BY <1>3, SMT
  <2>8. ProgramStages'
    BY <1>3, <1>9, <1>10, <2>3, <2>4, <2>6, <2>7, SMT DEF ProgramStages, Stage, A, P
  <2> QED BY <1>7, <1>10, <1>12, <1>20, <2>6, <2>8, GoesOn DEF P
<1>21. CASE substate = "MS_SUBMIT_COMMAND1"
  <2>1. cle_activate
    BY <1>2, <1>21 DEF cle_activate
  <2>2. ~ale_activate /\ ~io_wr_activate
    BY <2>1, OneActivation
  <2>3. substate' = "MS_WAIT" /\ drive'.cle_data_in = 16
    BY <1>1, <1>2, <1>21, Moves, SMT DEF PageProgram, Command, TypeInvariant, MasterType, DataType
  <2>4. Standing(1 + A + PageBytes, 0, cycles, reads, nand_nwe, BusCycle, P)
    BY <1>3, <1>21 DEF ProgramStages, Stage, P, A
  <2>5. /\ (1 + A + PageBytes) + 1 = 2 + A + PageBytes /\ (1 + A + PageBytes) + 1 <= Len(P)
        /\ P[(1 + A + PageBytes) + 1] = command(drive'.cle_data_in)
    BY <1>3, <1>4, <2>3, SMT
  <2>6. /\ Standing((1 + A + PageBytes) + 1, 0, cycles', reads', nand_nwe', BusCycle', P)
        /\ cycles' \in Seq(Cycle) /\ Adds(P, Operation!Reads, cycles, reads, cycles', reads')
    BY <1>4, <1>7, <2>1, <2>2, <2>4, <2>5, StageWrites
  <2>7. ProgramStages'
    BY <1>3, <1>9, <1>10, <2>3, <2>5, <2>6, SMT DEF ProgramStages, Stage, A, P
  <2> QED BY <1>7, <1>10, <1>12, <1>21, <2>6, <2>7, GoesOn DEF P
<1>22. CASE substate \in {"MS_WAIT", "MS_END"}
  <2>1. ~Unit_activate
    BY <1>2, <1>22, SMT DEF Unit_activate, cle_activate, ale_activate, io_wr_activate,
       io_rd_activate, At
  <2>2. Standing(2 + A + PageBytes, 0, cycles, reads, nand_nwe, BusCycle, P)
    BY <1>3, <1>22 DEF ProgramStages, Stage, P, A
  <2>3. /\ Standing(2 + A + PageBytes, 0, cycles', reads', nand_nwe', BusCycle', P)
        /\ cycles' \in Seq(Cycle) /\ Adds(P, Operation!Reads, cycles, reads, cycles', reads')
    BY <1>13, <2>1, <2>2
  <2>4. CASE substate = "MS_WAIT"
    <3>1. substate' = "MS_END"
      BY <1>1, <1>2, <2>4, Moves, SMT DEF PageProgram
    <3>2. ProgramStages'
      BY <1>3, <1>9, <1>10, <2>3, <3>1, SMT DEF ProgramStages, Stage, A, P
    <3> QED BY <1>7, <1>10, <1>12, <2>3, <2>4, <3>2, GoesOn DEF P
  <2>5. CASE substate = "MS_END"
    <3>1. Doing' = "M_IDLE"
      BY <1>2, <2>5, SMT DEF PageProgram, Doing
    <3>2. Stage(Len(Operation!Plan), 0)'
      BY <1>4, <1>10, <2>3 DEF Stage, P
    <3>3. OperationInv'
      BY <1>6, <1>8, <2>3, <3>1, <3>2, SMT DEF OperationInv
    <3> QED BY <1>7, <1>10, <2>3, <3>3, GoesOn DEF P
  <2> QED BY <1>22, <2>4, <2>5
<1> QED BY <1>2, <1>14, <1>15, <1>16, <1>17, <1>18, <1>19, <1>20, <1>21, <1>22, SMT DEF PageProgram

LEMMA EraseOperation ==
  ASSUME NEW activate, NEW cmd_in, NEW data_in, Ready(activate, cmd_in, data_in), op = 4,
         BlockErase
  PROVE  OperationInv' /\ Implements
<1> DEFINE P == Operation!Plan
<1>1. /\ HostEarly = FALSE /\ TypeInvariant /\ UnitDiscipline /\ InitTogether
      /\ Regular /\ IndexInv /\ OperationInv /\ Edge(activate, cmd_in, data_in)
  BY DEF Ready
<1>2. /\ state = "M_NAND_BLOCK_ERASE" /\ state \in BusStates /\ UNCHANGED config /\ Doing = state
      /\ buf' = buf
  BY <1>1, Moves, SMT DEF BlockErase, BusStates
<1>3. byte_count \in Int /\ EraseIndex /\ EraseStages /\ cycles \in Seq(Cycle)
  <2>1. byte_count \in Int BY <1>1 DEF TypeInvariant, MasterType, CounterType
  <2>2. EraseIndex BY <1>1, <1>2 DEF IndexInv
  <2>3. EraseStages /\ cycles \in Seq(Cycle) BY <1>1, <1>2 DEF OperationInv
  <2> QED BY <2>1, <2>2, <2>3
<1>4. /\ P \in Seq(Cycle) /\ Len(P) = 5 /\ P[1] = command(96) /\ P[5] = command(208)
      /\ \A i \in 1..3 : P[1 + i] = address(buf.current_address[i + 1])
      /\ Operation!Reads = 0
  BY <1>1, ErasePlan
<1>20. P \in Seq(Cycle)
  BY <1>4
<1>5. state' \in {"M_WAIT", "M_DELAY", "M_NAND_BLOCK_ERASE"}
  BY <1>2, SMT DEF BlockErase, WaitFor, Continue
<1>6. Operating(activate, cmd_in, data_in)
  BY <1>1, <1>2, <1>3, <1>5, SMT DEF Operating
<1>7. op' = op /\ op' = 4
  BY <1>1, <1>2, <1>5, Recorded, SMT
<1>8. OperationInput' = OperationInput /\ P' = P
  BY <1>2, <1>7, InputKept, PlanKept
<1>9. substate # "MS_END" => Doing' = "M_NAND_BLOCK_ERASE"
  BY <1>1, <1>2, Moves, SMT DEF BlockErase
<1>10. ASSUME substate # "MS_END", EraseStages', cycles' \in Seq(Cycle) PROVE OperationInv'
  BY <1>5, <1>7, <1>9, <1>10, SMT DEF OperationInv, Target, CommandStates
<1> HIDE DEF P
<1>11. ASSUME ~Unit_activate, NEW n, NEW r, Standing(n, r, cycles, reads, nand_nwe, BusCycle, P)
       PROVE  /\ Standing(n, r, cycles', reads', nand_nwe', BusCycle', P) /\ cycles' \in Seq(Cycle)
              /\ Adds(P, Operation!Reads, cycles, reads, cycles', reads')
  BY <1>4, <1>6, <1>11, StageWaits
<1>12. CASE substate = "MS_BEGIN"
  <2>1. cle_activate
    BY <1>2, <1>12 DEF cle_activate
  <2>2. ~ale_activate /\ ~io_wr_activate
    BY <2>1, OneActivation
  <2>3. byte_count' = 3 /\ substate' = "MS_SUBMIT_COMMAND" /\ drive'.cle_data_in = 96
    BY <1>1, <1>2, <1>12, Moves, SMT DEF BlockErase, Command, TypeInvariant, MasterType, DataType
  <2>4. Standing(0, 0, cycles, reads, nand_nwe, BusCycle, P)
    BY <1>3, <1>4, <1>12, SMT DEF EraseStages, Fresh, Standing
  <2>5. 0 + 1 <= Len(P) /\ P[0 + 1] = command(drive'.cle_data_in)
    BY <1>4, <2>3, SMT
  <2>6. /\ Standing(0 + 1, 0, cycles', reads', nand_nwe', BusCycle', P) /\ cycles' \in Seq(Cycle)
        /\ Adds(P, Operation!Reads, cycles, reads, cycles', reads')
    BY <1>6, <1>20, <2>1, <2>2, <2>4, <2>5, StageWrites
  <2>7. EraseStages'
    BY <1>8, <2>3, <2>6, SMT DEF EraseStages, Stage, P
  <2> QED BY <1>6, <1>8, <1>10, <1>12, <2>6, <2>7, GoesOn DEF P
<1>13. CASE substate = "MS_SUBMIT_COMMAND"
  <2>1. ale_activate
    BY <1>2, <1>13 DEF ale_activate
  <2>2. ~cle_activate /\ ~io_wr_activate
    BY <2>1, OneActivation
  <2>3. /\ 1 <= byte_count /\ byte_count <= 3
        /\ Standing(4 - byte_count, 0, cycles, reads, nand_nwe, BusCycle, P)
    BY <1>3, <1>13 DEF EraseStages, EraseIndex, Stage, P
  <2>4. PICK i \in 1..3 : i = 4 - byte_count /\ i + 1 = 5 - byte_count
    BY <1>3, <2>3, SMT
  <2>5. Fetch(buf.current_address, i + 1) = buf.current_address[i + 1]
    <3>1. buf.current_address \in [0..4 -> Byte]
      BY <1>1 DEF TypeInvariant, MasterType, DataType
    <3> QED BY <3>1, SMT DEF Fetch
  <2>6. /\ byte_count' = byte_count - 1 /\ substate' = "MS_SUBMIT_ADDRESS"
        /\ drive'.ale_data_in = Fetch(buf.current_address, i + 1)
    BY <1>1, <1>2, <1>13, <2>4, Moves, SMT DEF BlockErase, Address, CurrentAddress,
       TypeInvariant, MasterType, DataType
  <2>7. i + 1 <= Len(P) /\ P[i + 1] = address(drive'.ale_data_in)
    <3>1. 1 + i = i + 1 /\ i + 1 <= 5 BY SMT
    <3> QED BY <1>4, <2>5, <2>6, <3>1
  <2>8. /\ Standing(i + 1, 0, cycles', reads', nand_nwe', BusCycle', P) /\ cycles' \in Seq(Cycle)
        /\ Adds(P, Operation!Reads, cycles, reads, cycles', reads')
    BY <1>6, <1>20, <2>1, <2>2, <2>3, <2>4, <2>7, StageWrites
  <2>9. i + 1 = 4 - byte_count'
    BY <1>3, <2>4, <2>6, SMT
  <2>10. EraseStages'
    BY <1>8, <2>6, <2>8, <2>9, SMT DEF EraseStages, Stage, P
  <2> QED BY <1>6, <1>8, <1>10, <1>13, <2>8, <2>10, GoesOn DEF P
<1>14. CASE substate = "MS_SUBMIT_ADDRESS"
  <2>1. ~Unit_activate
    BY <1>2, <1>14, SMT DEF Unit_activate, cle_activate, ale_activate, io_wr_activate,
       io_rd_activate, At
  <2>2. /\ byte_count' = byte_count
        /\ substate' = IF 0 < byte_count THEN "MS_SUBMIT_COMMAND" ELSE "MS_SUBMIT_COMMAND1"
    BY <1>1, <1>2, <1>14, Moves, SMT DEF BlockErase
  <2>3. /\ 0 <= byte_count /\ Standing(4 - byte_count, 0, cycles, reads, nand_nwe, BusCycle, P)
    BY <1>3, <1>14 DEF EraseStages, EraseIndex, Stage, P
  <2>4. /\ Standing(4 - byte_count, 0, cycles', reads', nand_nwe', BusCycle', P)
        /\ cycles' \in Seq(Cycle) /\ Adds(P, Operation!Reads, cycles, reads, cycles', reads')
    BY <1>11, <2>1, <2>3
  <2>5. ~(0 < byte_count) => 4 - byte_count = 4
    BY <1>3, <2>3, SMT
  <2>6. EraseStages'
    BY <1>8, <2>2, <2>4, <2>5, SMT DEF EraseStages, Stage, P
  <2> QED BY <1>6, <1>8, <1>10, <1>14, <2>4, <2>6, GoesOn DEF P
<1>15. CASE substate = "MS_SUBMIT_COMMAND1"
  <2>1. cle_activate
    BY <1>2, <1>15 DEF cle_activate
  <2>2. ~ale_activate /\ ~io_wr_activate
    BY <2>1, OneActivation
  <2>3. substate' = "MS_END" /\ drive'.cle_data_in = 208
    BY <1>1, <1>2, <1>15, Moves, SMT DEF BlockErase, Command, TypeInvariant, MasterType, DataType
  <2>4. PICK n : n = 4 OBVIOUS
  <2>5. Standing(n, 0, cycles, reads, nand_nwe, BusCycle, P)
    BY <1>3, <1>15, <2>4 DEF EraseStages, Stage, P
  <2>6. n + 1 <= Len(P) /\ P[n + 1] = command(drive'.cle_data_in)
    BY <1>4, <2>3, <2>4, SMT
  <2>7. /\ Standing(n + 1, 0, cycles', reads', nand_nwe', BusCycle', P) /\ cycles' \in Seq(Cycle)
        /\ Adds(P, Operation!Reads, cycles, reads, cycles', reads')
    BY <1>6, <1>20, <2>1, <2>2, <2>5, <2>6, StageWrites
  <2>8. EraseStages'
    BY <1>8, <2>3, <2>4, <2>7, SMT DEF EraseStages, Stage, P
  <2> QED BY <1>6, <1>8, <1>10, <1>15, <2>7, <2>8, GoesOn DEF P
<1>16. CASE substate = "MS_END"
  <2>1. ~Unit_activate
    BY <1>2, <1>16, SMT DEF Unit_activate, cle_activate, ale_activate, io_wr_activate,
       io_rd_activate, At
  <2>2. Standing(5, 0, cycles, reads, nand_nwe, BusCycle, P)
    BY <1>3, <1>16 DEF EraseStages, Stage, P
  <2>3. /\ Standing(5, 0, cycles', reads', nand_nwe', BusCycle', P) /\ cycles' \in Seq(Cycle)
        /\ Adds(P, Operation!Reads, cycles, reads, cycles', reads')
    BY <1>11, <2>1, <2>2
  <2>4. Doing' = "M_IDLE"
    BY <1>2, <1>16, SMT DEF BlockErase, Doing
  <2>5. Stage(Len(Operation!Plan), 0)'
    BY <1>4, <1>8, <2>3 DEF Stage, P
  <2>6. OperationInv'
    BY <1>5, <1>7, <2>3, <2>4, <2>5, SMT DEF OperationInv
  <2> QED BY <1>6, <1>8, <2>3, <2>6, GoesOn DEF P
<1> QED BY <1>2, <1>12, <1>13, <1>14, <1>15, <1>16, SMT DEF BlockErase

\* A substate of the ID or of the parameter page, but for the last one.
CountdownStep(code, size) ==
  \/ /\ substate = "MS_BEGIN" /\ cle_activate
     /\ substate' = "MS_SUBMIT_COMMAND" /\ drive'.cle_data_in = code
  \/ /\ substate = "MS_SUBMIT_COMMAND" /\ ale_activate
     /\ substate' = "MS_SUBMIT_ADDRESS" /\ drive'.ale_data_in = 0
  \/ /\ substate \in {"MS_SUBMIT_ADDRESS", "MS_WAIT_tRR"} /\ ~Unit_activate
     /\ substate' = "MS_WAIT_tRR" \/ (substate' = "MS_READ_DATA0" /\ byte_count' = size)
  \/ /\ substate = "MS_READ_DATA0" /\ io_rd_activate /\ 1 <= byte_count /\ byte_count <= size
     /\ substate' = "MS_READ_DATA1" /\ byte_count' = byte_count - 1
  \/ /\ substate = "MS_READ_DATA1" /\ ~Unit_activate /\ 0 <= byte_count /\ byte_count <= size
     /\ substate' = IF 0 < byte_count THEN "MS_READ_DATA0" ELSE "MS_END"
     /\ byte_count' = byte_count

Counting(activate, cmd_in, data_in, code, size) ==
  /\ Operating(activate, cmd_in, data_in) /\ OperationInput' = OperationInput
  /\ code \in {236, 144} /\ size = (IF code = 236 THEN ParamBytes ELSE 5)
  /\ op = (IF code = 236 THEN 2 ELSE 3)
  /\ byte_count \in Int /\ CountdownStages(size) /\ CountdownStep(code, size)

LEMMA CountdownSteps ==
  ASSUME NEW activate, NEW cmd_in, NEW data_in, NEW code, NEW size \in Nat,
         Counting(activate, cmd_in, data_in, code, size)
  PROVE  CountdownStages(size)' /\ cycles' \in Seq(Cycle) /\ Implements
<1> DEFINE P == Operation!Plan
<1>0. /\ Operating(activate, cmd_in, data_in) /\ OperationInput' = OperationInput
      /\ byte_count \in Int /\ CountdownStages(size) /\ CountdownStep(code, size)
  BY DEF Counting
<1>1. /\ P \in Seq(Cycle) /\ Len(P) = 2 /\ P[1] = command(code) /\ P[2] = address(0)
      /\ Operation!Reads = size
  BY IdentityPlan DEF Counting
<1>2. op' = op /\ P' = P
  BY <1>0, Recorded, PlanKept DEF Operating
<1>3. ASSUME Adds(P, Operation!Reads, cycles, reads, cycles', reads') PROVE Implements
  BY <1>0, <1>3, GoesOn
<1> HIDE DEF P
<1>4. ASSUME ~Unit_activate, NEW n, NEW r, Standing(n, r, cycles, reads, nand_nwe, BusCycle, P)
      PROVE  /\ Standing(n, r, cycles', reads', nand_nwe', BusCycle', P) /\ cycles' \in Seq(Cycle)
             /\ Adds(P, Operation!Reads, cycles, reads, cycles', reads')
  BY <1>0, <1>1, <1>4, StageWaits
<1>5. CASE substate = "MS_BEGIN"
  <2>1. cle_activate /\ substate' = "MS_SUBMIT_COMMAND" /\ drive'.cle_data_in = code
    BY <1>0, <1>5, SMT DEF CountdownStep
  <2>2. ~ale_activate /\ ~io_wr_activate
    BY <2>1, OneActivation
  <2>3. Standing(0, 0, cycles, reads, nand_nwe, BusCycle, P)
    BY <1>0, <1>1, <1>5, SMT DEF CountdownStages, Fresh, Standing
  <2>4. 0 + 1 <= Len(P) /\ P[0 + 1] = command(drive'.cle_data_in)
    BY <1>1, <2>1, SMT
  <2>5. /\ Standing(0 + 1, 0, cycles', reads', nand_nwe', BusCycle', P) /\ cycles' \in Seq(Cycle)
        /\ Adds(P, Operation!Reads, cycles, reads, cycles', reads')
    BY <1>0, <1>1, <2>1, <2>2, <2>3, <2>4, StageWrites
  <2>6. CountdownStages(size)'
    BY <1>0, <1>2, <2>1, <2>5, SMT DEF CountdownStages, Stage, P
  <2> QED BY <1>3, <2>5, <2>6
<1>6. CASE substate = "MS_SUBMIT_COMMAND"
  <2>1. ale_activate /\ substate' = "MS_SUBMIT_ADDRESS" /\ drive'.ale_data_in = 0
    BY <1>0, <1>6, SMT DEF CountdownStep
  <2>2. ~cle_activate /\ ~io_wr_activate
    BY <2>1, OneActivation
  <2>3. PICK n : n = 1 OBVIOUS
  <2>4. Standing(n, 0, cycles, reads, nand_nwe, BusCycle, P)
    BY <1>0, <1>6, <2>3 DEF CountdownStages, Stage, P
  <2>5. n + 1 <= Len(P) /\ P[n + 1] = address(drive'.ale_data_in)
    BY <1>1, <2>1, <2>3, SMT
  <2>6. /\ Standing(n + 1, 0, cycles', reads', nand_nwe', BusCycle', P) /\ cycles' \in Seq(Cycle)
        /\ Adds(P, Operation!Reads, cycles, reads, cycles', reads')
    BY <1>0, <1>1, <2>1, <2>2, <2>4, <2>5, StageWrites
  <2>7. CountdownStages(size)'
    BY <1>0, <1>2, <2>1, <2>3, <2>6, SMT DEF CountdownStages, Stage, P
  <2> QED BY <1>3, <2>6, <2>7
<1>7. CASE substate \in {"MS_SUBMIT_ADDRESS", "MS_WAIT_tRR"}
  <2>1. /\ ~Unit_activate
        /\ substate' = "MS_WAIT_tRR" \/ (substate' = "MS_READ_DATA0" /\ byte_count' = size)
    BY <1>0, <1>7, SMT DEF CountdownStep
  <2>2. Standing(2, 0, cycles, reads, nand_nwe, BusCycle, P)
    BY <1>0, <1>7 DEF CountdownStages, Stage, P
  <2>3. /\ Standing(2, 0, cycles', reads', nand_nwe', BusCycle', P) /\ cycles' \in Seq(Cycle)
        /\ Adds(P, Operation!Reads, cycles, reads, cycles', reads')
    BY <1>4, <2>1, <2>2
  <2>4. size - size = 0
    BY SMT
  <2>5. CountdownStages(size)'
    BY <1>0, <1>2, <2>1, <2>3, <2>4, SMT DEF CountdownStages, Stage, P
  <2> QED BY <1>3, <2>3, <2>5
<1>8. CASE substate = "MS_READ_DATA0"
  <2>1. /\ io_rd_activate /\ 1 <= byte_count /\ byte_count <= size
        /\ substate' = "MS_READ_DATA1" /\ byte_count' = byte_count - 1
    BY <1>0, <1>8, SMT DEF CountdownStep
  <2>2. PICK n, r : n = Len(P) /\ r = size - byte_count
    BY Zenon
  <2>3. Standing(n, r, cycles, reads, nand_nwe, BusCycle, P)
    BY <1>0, <1>1, <1>8, <2>2 DEF CountdownStages, Stage, P
  <2>4. r < size /\ r + 1 = size - byte_count'
    BY <1>0, <2>1, <2>2, SMT
  <2>5. /\ Standing(n, r + 1, cycles', reads', nand_nwe', BusCycle', P) /\ cycles' \in Seq(Cycle)
        /\ Adds(P, Operation!Reads, cycles, reads, cycles', reads')
    BY <1>0, <1>1, <2>1, <2>2, <2>3, <2>4, StageReads
  <2>6. CountdownStages(size)'
    BY <1>0, <1>1, <1>2, <2>1, <2>2, <2>4, <2>5, SMT DEF CountdownStages, Stage, P
  <2> QED BY <1>3, <2>5, <2>6
<1>9. CASE substate = "MS_READ_DATA1"
  <2>1. /\ ~Unit_activate /\ 0 <= byte_count /\ byte_count' = byte_count
        /\ substate' = IF 0 < byte_count THEN "MS_READ_DATA0" ELSE "MS_END"
    BY <1>0, <1>9, SMT DEF CountdownStep
  <2>2. Standing(2, size - byte_count, cycles, reads, nand_nwe, BusCycle, P)
    BY <1>0, <1>9 DEF CountdownStages, Stage, P
  <2>3. /\ Standing(2, size - byte_count, cycles', reads', nand_nwe', BusCycle', P)
        /\ cycles' \in Seq(Cycle) /\ Adds(P, Operation!Reads, cycles, reads, cycles', reads')
    BY <1>4, <2>1, <2>2
  <2>4. ~(0 < byte_count) => size - byte_count = size
    BY <1>0, <2>1, SMT
  <2>5. CountdownStages(size)'
    BY <1>0, <1>2, <2>1, <2>3, <2>4, SMT DEF CountdownStages, Stage, P
  <2> QED BY <1>3, <2>3, <2>5
<1> QED BY <1>0, <1>5, <1>6, <1>7, <1>8, <1>9, SMT DEF CountdownStep

LEMMA ReadIdOperation ==
  ASSUME NEW activate, NEW cmd_in, NEW data_in, Ready(activate, cmd_in, data_in), op = 3, ReadId
  PROVE  OperationInv' /\ Implements
<1>1. /\ HostEarly = FALSE /\ TypeInvariant /\ UnitDiscipline /\ InitTogether
      /\ Regular /\ IndexInv /\ OperationInv /\ Edge(activate, cmd_in, data_in)
  BY DEF Ready
<1>2. state = "M_NAND_READ_ID" /\ state \in BusStates /\ UNCHANGED config /\ Doing = state
  BY <1>1, Moves, SMT DEF ReadId, BusStates
<1>3. byte_count \in Int /\ CountdownIndex(5) /\ CountdownStages(5) /\ cycles \in Seq(Cycle)
  <2>1. byte_count \in Int BY <1>1 DEF TypeInvariant, MasterType, CounterType
  <2>2. CountdownIndex(5) BY <1>1, <1>2 DEF IndexInv
  <2>3. CountdownStages(5) /\ cycles \in Seq(Cycle) BY <1>1 DEF OperationInv
  <2> QED BY <2>1, <2>2, <2>3
<1>4. PICK code \in {236, 144} : code = 144
  BY SMT
<1>5. Operation!Plan \in Seq(Cycle) /\ Len(Operation!Plan) = 2 /\ Operation!Reads = 5
  <2>1. op = (IF code = 236 THEN 2 ELSE 3) BY <1>4, SMT
  <2>2. Operation!Reads = (IF code = 236 THEN ParamBytes ELSE 5)
    BY <2>1, IdentityPlan
  <2> QED BY <1>4, <2>1, <2>2, IdentityPlan
<1>6. CASE substate = "MS_END"
  <2>1. state' = "M_IDLE" BY <1>2, <1>6, SMT DEF ReadId, Finish
  <2>2. nand_nwe = 1 BY <1>1, <1>2, <1>6, QuietElsewhere, SMT DEF At
  <2>3. Stage(Len(Operation!Plan), Operation!Reads)
    BY <1>3, <1>5, <1>6 DEF CountdownStages
  <2> QED BY <1>1, <1>2, <1>3, <1>5, <2>1, <2>2, <2>3, Ends
<1>7. CASE substate # "MS_END"
  <2>1. state' \in {"M_WAIT", "M_DELAY", "M_NAND_READ_ID"} /\ Doing' = "M_NAND_READ_ID"
    BY <1>1, <1>2, <1>7, Moves, SMT DEF ReadId, WaitFor, DelayFor, Continue
  <2>2. Operating(activate, cmd_in, data_in)
    BY <1>1, <1>2, <1>3, <2>1, SMT DEF Operating
  <2>3. op' = op /\ op' = 3
    BY <1>1, <1>2, <2>1, Recorded, SMT
  <2>4. buf'.page_data = buf.page_data /\ buf'.current_address = buf.current_address
    <3>1. \/ buf' = buf
          \/ \E mem : buf' = [buf EXCEPT !.chip_id = mem]
      BY <1>2, <1>7, SMT DEF ReadId
    <3> QED BY <1>1, <3>1, SMT DEF TypeInvariant, MasterType, DataType
  <2>5. OperationInput' = OperationInput
    BY <1>2, <2>4, InputKept
  <2>6. CountdownStep(code, 5)
    BY <1>1, <1>2, <1>3, <1>4, <1>7, Moves, SMT DEF ReadId, CountdownStep, CountdownIndex,
       Command, Address, Unit_activate, cle_activate, ale_activate, io_wr_activate,
       io_rd_activate, At, TypeInvariant, MasterType, DataType
  <2>0. Counting(activate, cmd_in, data_in, code, 5)
    BY <1>1, <1>2, <1>3, <1>4, <2>2, <2>3, <2>5, <2>6, SMT DEF Counting
  <2>7. CountdownStages(5)' /\ cycles' \in Seq(Cycle) /\ Implements
    BY <1>3, <2>0, CountdownSteps
  <2>8. OperationInv'
    BY <2>1, <2>3, <2>7, SMT DEF OperationInv, Target, CommandStates
  <2> QED BY <2>7, <2>8
<1> QED BY <1>6, <1>7

LEMMA ParamOperation ==
  ASSUME NEW activate, NEW cmd_in, NEW data_in, Ready(activate, cmd_in, data_in), op = 2,
         ReadParamPage
  PROVE  OperationInv' /\ Implements
<1>1. /\ HostEarly = FALSE /\ TypeInvariant /\ UnitDiscipline /\ InitTogether
      /\ Regular /\ IndexInv /\ OperationInv /\ Edge(activate, cmd_in, data_in)
  BY DEF Ready
<1>2. state = "M_NAND_READ_PARAM_PAGE" /\ state \in BusStates /\ Doing = state
  BY <1>1, Moves, SMT DEF ReadParamPage, BusStates
<1>3. /\ byte_count \in Int /\ ParamBytes \in Nat /\ CountdownIndex(ParamBytes)
      /\ CountdownStages(ParamBytes) /\ cycles \in Seq(Cycle)
  <2>1. byte_count \in Int BY <1>1 DEF TypeInvariant, MasterType, CounterType
  <2>2. CountdownIndex(ParamBytes) BY <1>1, <1>2 DEF IndexInv
  <2>3. CountdownStages(ParamBytes) /\ cycles \in Seq(Cycle) BY <1>1 DEF OperationInv
  <2> QED BY <2>1, <2>2, <2>3, GeometryAssumption
<1>4. PICK code \in {236, 144} : code = 236
  BY SMT
<1>5. Operation!Plan \in Seq(Cycle) /\ Len(Operation!Plan) = 2 /\ Operation!Reads = ParamBytes
  <2>1. op = (IF code = 236 THEN 2 ELSE 3) BY <1>4, SMT
  <2>2. Operation!Reads = (IF code = 236 THEN ParamBytes ELSE 5)
    BY <2>1, IdentityPlan
  <2> QED BY <1>4, <2>1, <2>2, IdentityPlan
<1>6. CASE substate = "MS_END"
  <2>1. state' = "M_IDLE" BY <1>2, <1>6, SMT DEF ReadParamPage, Finish
  <2>2. nand_nwe = 1 BY <1>1, <1>2, <1>6, QuietElsewhere, SMT DEF At
  <2>3. Stage(Len(Operation!Plan), Operation!Reads)
    BY <1>3, <1>5, <1>6 DEF CountdownStages
  <2> QED BY <1>1, <1>2, <1>3, <1>5, <2>1, <2>2, <2>3, Ends
<1>7. CASE substate # "MS_END"
  <2>1. state' \in {"M_WAIT", "M_NAND_READ_PARAM_PAGE"} /\ Doing' = "M_NAND_READ_PARAM_PAGE"
    BY <1>1, <1>2, <1>7, Moves, SMT DEF ReadParamPage, WaitFor, Continue
  <2>2. Operating(activate, cmd_in, data_in)
    BY <1>1, <1>2, <1>3, <2>1, SMT DEF Operating
  <2>3. op' = op /\ op' = 2
    BY <1>1, <1>2, <2>1, Recorded, SMT
  <2>4. UNCHANGED config
    BY <1>2, <1>7, SMT DEF ReadParamPage, config
  <2>5. buf'.page_data = buf.page_data /\ buf'.current_address = buf.current_address
    <3>1. \/ buf' = buf
          \/ \E mem : buf' = [buf EXCEPT !.page_param = mem]
      BY <1>2, <1>7, SMT DEF ReadParamPage
    <3> QED BY <1>1, <3>1, SMT DEF TypeInvariant, MasterType, DataType
  <2>6. OperationInput' = OperationInput
    BY <2>4, <2>5, InputKept
  <2>7. CountdownStep(code, ParamBytes)
    BY <1>1, <1>2, <1>3, <1>4, <1>7, Moves, SMT DEF ReadParamPage, CountdownStep, CountdownIndex,
       Command, Address, Unit_activate, cle_activate, ale_activate, io_wr_activate,
       io_rd_activate, At, TypeInvariant, MasterType, DataType
  <2>0. Counting(activate, cmd_in, data_in, code, ParamBytes)
    BY <1>1, <1>2, <1>3, <1>4, <2>2, <2>3, <2>6, <2>7, SMT DEF Counting
  <2>8. CountdownStages(ParamBytes)' /\ cycles' \in Seq(Cycle) /\ Implements
    BY <1>3, <2>0, CountdownSteps
  <2>9. OperationInv'
    BY <2>1, <2>3, <2>8, SMT DEF OperationInv, Target, CommandStates
  <2> QED BY <2>8, <2>9
<1> QED BY <1>6, <1>7

LEMMA StatusOperation ==
  ASSUME NEW activate, NEW cmd_in, NEW data_in, Ready(activate, cmd_in, data_in), op = 5,
         ReadStatus
  PROVE  OperationInv' /\ Implements
<1> DEFINE P == Operation!Plan
<1>1. /\ HostEarly = FALSE /\ TypeInvariant /\ UnitDiscipline /\ InitTogether
      /\ Regular /\ IndexInv /\ OperationInv /\ Edge(activate, cmd_in, data_in)
  BY DEF Ready
<1>2. /\ state = "M_NAND_READ_STATUS" /\ state \in BusStates /\ UNCHANGED config /\ Doing = state
      /\ buf' = buf
  BY <1>1, Moves, SMT DEF ReadStatus, BusStates
<1>3. StatusStages /\ cycles \in Seq(Cycle)
  BY <1>1 DEF OperationInv
<1>4. /\ P \in Seq(Cycle) /\ Len(P) = 1 /\ P[1] = command(112) /\ Operation!Reads = 1
  BY StatusPlan
<1>5. CASE substate = "MS_END"
  <2>1. state' = "M_IDLE" BY <1>2, <1>5, SMT DEF ReadStatus, Finish
  <2>2. nand_nwe = 1 BY <1>1, <1>2, <1>5, QuietElsewhere, SMT DEF At
  <2>3. Stage(Len(P), Operation!Reads) BY <1>3, <1>4, <1>5 DEF StatusStages
  <2> HIDE DEF P
  <2> QED BY <1>1, <1>2, <1>3, <1>4, <2>1, <2>2, <2>3, Ends DEF P
<1>6. CASE substate # "MS_END"
  <2>1. state' \in {"M_WAIT", "M_DELAY", "M_NAND_READ_STATUS"} /\ Doing' = "M_NAND_READ_STATUS"
    BY <1>1, <1>2, <1>6, Moves, SMT DEF ReadStatus, WaitFor, DelayFor, Continue
  <2>2. Operating(activate, cmd_in, data_in)
    BY <1>1, <1>2, <1>3, <2>1, SMT DEF Operating
  <2>3. op' = op /\ op' = 5
    BY <1>1, <1>2, <2>1, Recorded, SMT
  <2>4. OperationInput' = OperationInput /\ P' = P
    BY <1>2, <2>3, InputKept, PlanKept
  <2>5. ASSUME StatusStages', cycles' \in Seq(Cycle) PROVE OperationInv'
    BY <2>1, <2>3, <2>5, SMT DEF OperationInv, Target, CommandStates
  <2> HIDE DEF P
  <2>6. CASE substate = "MS_BEGIN"
    <3>1. cle_activate
      BY <1>2, <2>6 DEF cle_activate
    <3>2. ~ale_activate /\ ~io_wr_activate
      BY <3>1, OneActivation
    <3>3. substate' = "MS_SUBMIT_COMMAND" /\ drive'.cle_data_in = 112
      BY <1>1, <1>2, <2>6, Moves, SMT DEF ReadStatus, Command, TypeInvariant, MasterType, DataType
    <3>4. Standing(0, 0, cycles, reads, nand_nwe, BusCycle, P)
      BY <1>3, <1>4, <2>6, SMT DEF StatusStages, Fresh, Standing
    <3>5. 0 + 1 <= Len(P) /\ P[0 + 1] = command(drive'.cle_data_in)
      BY <1>4, <3>3, SMT
    <3>6. /\ Standing(0 + 1, 0, cycles', reads', nand_nwe', BusCycle', P) /\ cycles' \in Seq(Cycle)
          /\ Adds(P, Operation!Reads, cycles, reads, cycles', reads')
      BY <1>4, <2>2, <3>1, <3>2, <3>4, <3>5, StageWrites
    <3>7. StatusStages'
      BY <2>4, <3>3, <3>6, SMT DEF StatusStages, Stage, P
    <3> QED BY <2>2, <2>4, <2>5, <3>6, <3>7, GoesOn DEF P
  <2>7. CASE substate = "MS_SUBMIT_COMMAND"
    <3>1. ~Unit_activate
      BY <1>2, <2>7, SMT DEF Unit_activate, cle_activate, ale_activate, io_wr_activate,
         io_rd_activate, At
    <3>2. substate' = "MS_READ_DATA0"
      BY <1>1, <1>2, <2>7, Moves, SMT DEF ReadStatus
    <3>3. Standing(1, 0, cycles, reads, nand_nwe, BusCycle, P)
      BY <1>3, <2>7 DEF StatusStages, Stage, P
    <3>4. /\ Standing(1, 0, cycles', reads', nand_nwe', BusCycle', P) /\ cycles' \in Seq(Cycle)
          /\ Adds(P, Operation!Reads, cycles, reads, cycles', reads')
      BY <1>4, <2>2, <3>1, <3>3, StageWaits
    <3>5. StatusStages'
      BY <2>4, <3>2, <3>4, SMT DEF StatusStages, Stage, P
    <3> QED BY <2>2, <2>4, <2>5, <3>4, <3>5, GoesOn DEF P
  <2>8. CASE substate = "MS_READ_DATA0"
    <3>1. io_rd_activate
      BY <1>2, <2>8 DEF io_rd_activate
    <3>2. substate' = "MS_READ_DATA1"
      BY <1>1, <1>2, <2>8, Moves, SMT DEF ReadStatus
    <3>3. PICK n, r : n = Len(P) /\ r = 0
      BY Zenon
    <3>4. Standing(n, r, cycles, reads, nand_nwe, BusCycle, P)
      BY <1>3, <1>4, <2>8, <3>3 DEF StatusStages, Stage, P
    <3>5. r < Operation!Reads
      BY <1>4, <3>3
    <3>6. /\ Standing(n, r + 1, cycles', reads', nand_nwe', BusCycle', P) /\ cycles' \in Seq(Cycle)
          /\ Adds(P, Operation!Reads, cycles, reads, cycles', reads')
      BY <1>4, <2>2, <3>1, <3>3, <3>4, <3>5, StageReads
    <3>7. StatusStages'
      BY <1>4, <2>4, <3>2, <3>3, <3>6, SMT DEF StatusStages, Stage, P
    <3> QED BY <2>2, <2>4, <2>5, <3>6, <3>7, GoesOn DEF P
  <2>9. CASE substate = "MS_READ_DATA1"
    <3>1. ~Unit_activate
      BY <1>2, <2>9, SMT DEF Unit_activate, cle_activate, ale_activate, io_wr_activate,
         io_rd_activate, At
    <3>2. substate' = "MS_END"
      BY <1>1, <1>2, <2>9, Moves, SMT DEF ReadStatus
    <3>3. Standing(1, 1, cycles, reads, nand_nwe, BusCycle, P)
      BY <1>3, <2>9 DEF StatusStages, Stage, P
    <3>4. /\ Standing(1, 1, cycles', reads', nand_nwe', BusCycle', P) /\ cycles' \in Seq(Cycle)
          /\ Adds(P, Operation!Reads, cycles, reads, cycles', reads')
      BY <1>4, <2>2, <3>1, <3>3, StageWaits
    <3>5. StatusStages'
      BY <2>4, <3>2, <3>4, SMT DEF StatusStages, Stage, P
    <3> QED BY <2>2, <2>4, <2>5, <3>4, <3>5, GoesOn DEF P
  <2> QED BY <1>2, <1>6, <2>6, <2>7, <2>8, <2>9, SMT DEF ReadStatus
<1> QED BY <1>5, <1>6

LEMMA ResetOperation ==
  ASSUME NEW activate, NEW cmd_in, NEW data_in, Ready(activate, cmd_in, data_in), op = 1,
         NandReset
  PROVE  OperationInv' /\ Implements
<1> DEFINE P == Operation!Plan
<1>1. /\ HostEarly = FALSE /\ TypeInvariant /\ UnitDiscipline /\ InitTogether
      /\ Regular /\ IndexInv /\ OperationInv /\ Edge(activate, cmd_in, data_in)
  BY DEF Ready
<1>2. /\ state = "M_NAND_RESET" /\ UNCHANGED config /\ buf' = buf
      /\ state' = "M_WAIT" /\ Doing' = "M_IDLE" /\ Doing = state
  BY SMT DEF NandReset, Doing
<1>3. Fresh /\ cycles \in Seq(Cycle)
  BY <1>1, <1>2 DEF OperationInv
<1>4. P \in Seq(Cycle) /\ Len(P) = 1 /\ P[1] = command(255) /\ Operation!Reads = 0
  BY ResetPlan
<1>5. Operating(activate, cmd_in, data_in)
  BY <1>1, <1>2, <1>3, SMT DEF Operating
<1>6. op' = op /\ op' = 1
  BY <1>1, <1>2, Recorded, SMT
<1>7. OperationInput' = OperationInput /\ P' = P
  BY <1>2, <1>6, InputKept, PlanKept
<1> HIDE DEF P
<1>8. cle_activate
  BY <1>2 DEF cle_activate
<1>9. ~ale_activate /\ ~io_wr_activate
  BY <1>8, OneActivation
<1>10. drive'.cle_data_in = 255
  BY <1>1, SMT DEF NandReset, Command, TypeInvariant, MasterType, DataType
<1>11. Standing(0, 0, cycles, reads, nand_nwe, BusCycle, P)
  BY <1>3, <1>4, SMT DEF Fresh, Standing
<1>12. 0 + 1 <= Len(P) /\ P[0 + 1] = command(drive'.cle_data_in)
  BY <1>4, <1>10, SMT
<1>13. /\ Standing(0 + 1, 0, cycles', reads', nand_nwe', BusCycle', P) /\ cycles' \in Seq(Cycle)
       /\ Adds(P, Operation!Reads, cycles, reads, cycles', reads')
  BY <1>4, <1>5, <1>8, <1>9, <1>11, <1>12, StageWrites
<1>14. Stage(Len(Operation!Plan), 0)'
  <2>1. PICK n : n = Len(P) OBVIOUS
  <2>2. 0 + 1 = n BY <1>4, <2>1, SMT
  <2>3. Standing(n, 0, cycles', reads', nand_nwe', BusCycle', P) BY <1>13, <2>2
  <2> QED BY <1>7, <2>1, <2>3 DEF Stage, P
<1>15. OperationInv'
  BY <1>2, <1>6, <1>13, <1>14, SMT DEF OperationInv
<1> QED BY <1>5, <1>7, <1>13, <1>15, GoesOn DEF P

LEMMA Targets ==
  /\ Target(1) = "M_NAND_RESET" /\ Target(2) = "M_NAND_READ_PARAM_PAGE"
  /\ Target(3) = "M_NAND_READ_ID" /\ Target(4) = "M_NAND_BLOCK_ERASE"
  /\ Target(5) = "M_NAND_READ_STATUS" /\ Target(6) = "M_NAND_READ"
  /\ Target(7) = "M_NAND_PAGE_PROGRAM"
BY SMT DEF Target, CommandStates

LEMMA TargetsOfOperations ==
  \A code \in 1..7 : Target(code) \notin {"M_IDLE", "M_RESET", "M_WAIT", "M_DELAY"}
<1>1. ASSUME NEW code \in 1..7 PROVE Target(code) \notin {"M_IDLE", "M_RESET", "M_WAIT", "M_DELAY"}
  <2>1. code \in {1, 2, 3, 4, 5, 6, 7} BY SMT
  <2> QED BY <2>1, Targets
<1> QED BY <1>1

\* Waiting changes nothing but the strobe of the last cycle.
LEMMA WaitOperation ==
  ASSUME NEW activate, NEW cmd_in, NEW data_in, Ready(activate, cmd_in, data_in), op # 0,
         NEW r, Wait(r) \/ Delay
  PROVE  OperationInv' /\ Implements
<1> DEFINE P == Operation!Plan
<1>1. /\ HostEarly = FALSE /\ TypeInvariant /\ UnitDiscipline /\ InitTogether
      /\ Regular /\ IndexInv /\ OperationInv /\ Edge(activate, cmd_in, data_in)
  BY DEF Ready
<1>2. /\ state \in {"M_WAIT", "M_DELAY"} /\ n_state \notin {"M_WAIT", "M_DELAY"} /\ Doing = n_state
      /\ UNCHANGED <<n_state, substate, byte_count, page_idx, config, buf, drive>>
      /\ state' \in {state, "M_WAIT", n_state} /\ Doing' = Doing
  BY <1>1, SMT DEF Wait, Delay, Countdown, Doing, IndexInv
<1>3. op \in 1..7 /\ cycles \in Seq(Cycle)
  BY <1>1, SMT DEF TypeInvariant, BusCommands, OperationInv
<1>4. Doing = Target(op) \/ (Doing = "M_IDLE" /\ op \in {1, 4, 7})
  BY <1>1 DEF OperationInv
<1>5. P \in Seq(Cycle) /\ (op \in {1, 4, 7} => Operation!Reads = 0)
  <2>1. CASE op = 1 BY <2>1, ResetPlan
  <2>2. CASE op = 2
    <3>1. PICK code \in {236, 144} : code = 236 BY SMT
    <3>2. op = (IF code = 236 THEN 2 ELSE 3) BY <2>2, <3>1
    <3> QED BY <2>2, <3>2, IdentityPlan
  <2>3. CASE op = 3
    <3>1. PICK code \in {236, 144} : code = 144 BY SMT
    <3>2. op = (IF code = 236 THEN 2 ELSE 3) BY <2>3, <3>1
    <3> QED BY <2>3, <3>2, IdentityPlan
  <2>4. CASE op = 4 BY <1>1, <2>4, ErasePlan
  <2>5. CASE op = 5 BY <2>5, StatusPlan
  <2>6. CASE op = 6 BY <1>1, <2>6, ReadPlan
  <2>7. CASE op = 7 BY <1>1, <2>7, ProgramPlan
  <2> QED BY <1>3, <2>1, <2>2, <2>3, <2>4, <2>5, <2>6, <2>7
<1>6. CASE state' = "M_IDLE"
  <2>1. Doing = "M_IDLE"
    BY <1>2, <1>6, SMT
  <2>2. op \in {1, 4, 7} /\ Stage(Len(P), Operation!Reads)
    <3>1. op \in {1, 4, 7} BY <1>3, <1>4, <2>1, TargetsOfOperations
    <3>2. Stage(Len(P), 0) BY <1>1, <2>1 DEF OperationInv
    <3> QED BY <1>5, <3>1, <3>2
  <2>3. nand_nwe = 1
    <3>1. CASE state = "M_WAIT"
      <4>1. ~unit_busy BY <1>6, <3>1, SMT DEF Wait, Delay, Countdown, WaitOver
      <4> QED BY <4>1, QuietStrobe
    <3>2. CASE state # "M_WAIT" BY <1>1, <1>2, <3>2, QuietElsewhere, SMT DEF At
    <3> QED BY <3>1, <3>2
  <2>4. state # "M_IDLE" BY <1>2
  <2> QED BY <1>1, <1>3, <1>5, <1>6, <2>2, <2>3, <2>4, Ends
<1>7. CASE state' # "M_IDLE"
  <2>1. state # "M_IDLE" /\ state' \notin {"M_IDLE", "M_RESET"}
    <3>1. Doing # "M_RESET" BY <1>3, <1>4, TargetsOfOperations
    <3> QED BY <1>2, <1>7, <3>1
  <2>2. Operating(activate, cmd_in, data_in)
    BY <1>1, <1>3, <2>1 DEF Operating
  <2>3. op' = op
    BY <1>1, <2>1, Recorded
  <2>4. OperationInput' = OperationInput /\ P' = P
    BY <1>2, <2>3, InputKept, PlanKept
  <2>5. /\ geometry' = geometry /\ PageBytes' = PageBytes /\ buf' = buf /\ drive' = drive
        /\ substate' = substate /\ byte_count' = byte_count
    BY <1>2, Unmoved
  <2> HIDE DEF P
  <2>6. ~Unit_activate
    BY <1>2, SMT DEF Unit_activate, cle_activate, ale_activate, io_wr_activate, io_rd_activate, At
  <2>7. \A n, q : Standing(n, q, cycles, reads, nand_nwe, BusCycle, P)
                    => /\ Standing(n, q, cycles', reads', nand_nwe', BusCycle', P)
                       /\ Adds(P, Operation!Reads, cycles, reads, cycles', reads')
    <3>1. ASSUME NEW n, NEW q, Standing(n, q, cycles, reads, nand_nwe, BusCycle, P)
          PROVE  /\ Standing(n, q, cycles', reads', nand_nwe', BusCycle', P)
                 /\ Adds(P, Operation!Reads, cycles, reads, cycles', reads')
      BY <1>5, <2>2, <2>6, <3>1, StageWaits
    <3> QED BY <3>1
  <2>8. Fresh => /\ Fresh'
                 /\ Adds(P, Operation!Reads, cycles, reads, cycles', reads')
    <3>1. ASSUME Fresh PROVE Standing(0, 0, cycles, reads, nand_nwe, BusCycle, P)
      BY <1>5, <3>1, SMT DEF Fresh, Standing
    <3>2. ASSUME Fresh PROVE /\ Standing(0, 0, cycles', reads', nand_nwe', BusCycle', P)
                             /\ Adds(P, Operation!Reads, cycles, reads, cycles', reads')
      BY <2>7, <3>1, <3>2
    <3>3. ASSUME Fresh PROVE cycles' = <<>> /\ reads' = 0
      <4>1. ~WeRises BY <3>3, SMT DEF Fresh, WeRises
      <4>2. ~ReFalls BY <1>1, <2>6, ReadStrobe DEF Unit_activate
      <4> QED BY <1>1, <2>1, <3>3, <4>1, <4>2, Recorded DEF Fresh
    <3>4. ASSUME Fresh PROVE nand_nwe' = 1
      BY <1>1, <2>1, <2>6, <3>4, NoWriteStarts DEF Fresh, Unit_activate
    <3> QED BY <3>2, <3>3, <3>4 DEF Fresh
  <2>9. cycles' \in Seq(Cycle)
    <3>1. \/ cycles' = cycles \/ cycles' = Append(cycles, BusCycle)
      BY <1>1, <2>1, Recorded
    <3>2. BusCycle \in Cycle
      BY <1>1, CycleOnBus
    <3> QED BY <1>3, <3>1, <3>2, AppendProperties
  <2>10. /\ op # 0 /\ Doing = "M_IDLE" => Stage(Len(P), 0)
         /\ op = 1 /\ Doing # "M_IDLE" => Fresh
         /\ op = 2 => CountdownStages(ParamBytes)
         /\ op = 3 => CountdownStages(5)
         /\ op = 4 /\ Doing # "M_IDLE" => EraseStages
         /\ op = 5 => StatusStages
         /\ op = 6 => ReadStages
         /\ op = 7 /\ Doing # "M_IDLE" => ProgramStages
    BY <1>1 DEF OperationInv, P
  <2>11. Stage(Len(P), 0) => Stage(Len(P), 0)' /\ Adds(P, Operation!Reads, cycles, reads, cycles', reads')
    BY <2>4, <2>7 DEF Stage, P
  <2>12. \A size : CountdownStages(size) =>
           /\ CountdownStages(size)' /\ Adds(P, Operation!Reads, cycles, reads, cycles', reads')
    BY <2>4, <2>5, <2>7, <2>8, SMT DEF CountdownStages, Stage, P
  <2>13. EraseStages => EraseStages' /\ Adds(P, Operation!Reads, cycles, reads, cycles', reads')
    BY <2>4, <2>5, <2>7, <2>8, SMT DEF EraseStages, Stage, P
  <2>14. StatusStages => StatusStages' /\ Adds(P, Operation!Reads, cycles, reads, cycles', reads')
    BY <2>4, <2>5, <2>7, <2>8, SMT DEF StatusStages, Stage, P
  <2>15. ReadStages => ReadStages' /\ Adds(P, Operation!Reads, cycles, reads, cycles', reads')
    BY <2>4, <2>5, <2>7, <2>8, SMT DEF ReadStages, Stage, P
  <2>16. ProgramStages => ProgramStages' /\ Adds(P, Operation!Reads, cycles, reads, cycles', reads')
    BY <2>4, <2>5, <2>7, <2>8, SMT DEF ProgramStages, Stage, P
  <2>17. Adds(P, Operation!Reads, cycles, reads, cycles', reads')
    BY <1>3, <1>4, <2>8, <2>10, <2>11, <2>12, <2>13, <2>14, <2>15, <2>16
  <2>18. OperationInv'
    BY <1>2, <1>3, <1>4, <2>1, <2>3, <2>4, <2>8, <2>9, <2>10, <2>11, <2>12, <2>13, <2>14, <2>15,
       <2>16, SMT DEF OperationInv, P
  <2> QED BY <2>2, <2>4, <2>17, <2>18, GoesOn DEF P
<1> QED BY <1>6, <1>7

\* An edge during an operation.
LEMMA OperationEdge ==
  ASSUME NEW activate, NEW cmd_in, NEW data_in, Ready(activate, cmd_in, data_in), op # 0
  PROVE  OperationInv' /\ Implements
<1>1. /\ TypeInvariant /\ UnitDiscipline /\ IndexInv /\ OperationInv
      /\ Edge(activate, cmd_in, data_in)
  BY DEF Ready
<1>2. op \in 1..7 /\ state \notin {"M_IDLE", "M_RESET"}
  BY <1>1, SMT DEF TypeInvariant, BusCommands, OperationInv
<1>3. Doing = Target(op) \/ (Doing = "M_IDLE" /\ op \in {1, 4, 7})
  BY <1>1 DEF OperationInv
<1>4. enable # 1
  BY <1>1, <1>2 DEF UnitDiscipline
<1>5. \/ MasterReset \/ MasterIdle(activate, cmd_in) \/ RegisterCommand(data_in)
      \/ BusOperation(data_in) \/ Wait(rnb) \/ Delay
  BY <1>1, <1>4 DEF Edge, Step, MasterTick
<1>6. state \notin {"M_WAIT", "M_DELAY"} => state = Target(op)
  BY <1>2, <1>3 DEF Doing
<1>7. state \in {"M_WAIT", "M_DELAY", "M_NAND_RESET", "M_NAND_READ_PARAM_PAGE", "M_NAND_READ_ID",
                 "M_NAND_BLOCK_ERASE", "M_NAND_READ_STATUS", "M_NAND_READ", "M_NAND_PAGE_PROGRAM"}
  <2>1. op \in {1, 2, 3, 4, 5, 6, 7} BY <1>2, SMT
  <2> QED BY <1>6, <2>1, Targets
<1>8. ~MasterReset /\ ~MasterIdle(activate, cmd_in)
  BY <1>2 DEF MasterReset, MasterIdle
<1>9. ~RegisterCommand(data_in)
  BY <1>7, SMT DEF RegisterCommand, GetStatus, SelectChip, SetProtection, ResetIndex, GetIdByte,
     GetParamPageByte, GetDataPageByte, GetCurrentAddressByte, SetDataPageByte,
     SetCurrentAddressByte
<1>10. ~BypassLatch(data_in) /\ ~BypassDataWr(data_in) /\ ~BypassDataRd
  BY <1>7, SMT DEF BypassLatch, BypassDataWr, BypassDataRd
<1>11. \A code \in {1, 2, 3, 4, 5, 6, 7} :
         state = Target(code) /\ state \notin {"M_WAIT", "M_DELAY"} => op = code
  <2>1. op \in {1, 2, 3, 4, 5, 6, 7} BY <1>2, SMT
  <2> QED BY <1>6, <2>1, Targets
<1>12. CASE NandReset
  <2>1. op = 1 BY <1>11, <1>12, Targets DEF NandReset
  <2> QED BY <1>12, <2>1, ResetOperation
<1>13. CASE ReadParamPage
  <2>1. op = 2 BY <1>11, <1>13, Targets DEF ReadParamPage
  <2> QED BY <1>13, <2>1, ParamOperation
<1>14. CASE ReadId
  <2>1. op = 3 BY <1>11, <1>14, Targets DEF ReadId
  <2> QED BY <1>14, <2>1, ReadIdOperation
<1>15. CASE BlockErase
  <2>1. op = 4 BY <1>11, <1>15, Targets DEF BlockErase
  <2> QED BY <1>15, <2>1, EraseOperation
<1>16. CASE ReadStatus
  <2>1. op = 5 BY <1>11, <1>16, Targets DEF ReadStatus
  <2> QED BY <1>16, <2>1, StatusOperation
<1>17. CASE ReadPage
  <2>1. op = 6 BY <1>11, <1>17, Targets DEF ReadPage
  <2> QED BY <1>17, <2>1, ReadOperation
<1>18. CASE PageProgram
  <2>1. op = 7 BY <1>11, <1>18, Targets DEF PageProgram
  <2> QED BY <1>18, <2>1, ProgramOperation
<1>19. CASE Wait(rnb) \/ Delay
  BY <1>19, WaitOperation
<1> QED BY <1>5, <1>8, <1>9, <1>10, <1>12, <1>13, <1>14, <1>15, <1>16, <1>17, <1>18, <1>19
     DEF BusOperation

LEMMA IdleIsIdle ==
  ASSUME state = "M_IDLE", enable # 1,
         NEW activate, NEW cmd_in, NEW data_in, NEW r, MasterTick(activate, cmd_in, data_in, r)
  PROVE  MasterIdle(activate, cmd_in)
<1>1. ~MasterReset /\ ~Wait(r) /\ ~Delay
  BY SMT DEF MasterReset, Wait, Delay
<1>2. ~RegisterCommand(data_in)
  BY SMT DEF RegisterCommand, GetStatus, SelectChip, SetProtection, ResetIndex, GetIdByte,
     GetParamPageByte, GetDataPageByte, GetCurrentAddressByte, SetDataPageByte,
     SetCurrentAddressByte
<1>3. ~BusOperation(data_in)
  BY SMT DEF BusOperation, NandReset, PageProgram, ReadPage, ReadStatus, BlockErase, ReadId,
     ReadParamPage, BypassLatch, BypassDataWr, BypassDataRd
<1> QED BY <1>1, <1>2, <1>3 DEF MasterTick

\* An edge between operations.
LEMMA HostEdge ==
  ASSUME NEW activate, NEW cmd_in, NEW data_in, Ready(activate, cmd_in, data_in), op = 0
  PROVE  OperationInv' /\ Implements
<1>1. /\ HostEarly = FALSE /\ TypeInvariant /\ UnitDiscipline /\ InitTogether /\ IndexInv
      /\ OperationInv /\ Edge(activate, cmd_in, data_in)
  BY DEF Ready
<1>2. cycles = <<>> /\ reads = 0 /\ cycles \in Seq(Cycle) /\ resets' = resets
  BY <1>1 DEF OperationInv, Edge
<1>3. ASSUME op' = 0, cycles' = <<>>, reads' = 0 PROVE OperationInv' /\ Implements
  <2>1. OperationInv' BY <1>3, SMT DEF OperationInv
  <2>2. Operation!Load BY <1>2, <1>3 DEF Operation!Load
  <2> QED BY <2>1, <2>2 DEF Implements, Operation!Next
<1>4. CASE state # "M_IDLE"
  <2>1. op' = 0 /\ cycles' = <<>> /\ reads' = 0
    BY <1>1, <1>2, <1>4, Recorded
  <2> QED BY <1>3, <2>1
<1>5. CASE state = "M_IDLE"
  <2>1. /\ op' = IF activate /\ cmd_in \in BusCommands THEN cmd_in ELSE 0
        /\ cycles' = <<>> /\ reads' = 0
    BY <1>1, <1>5, SMT DEF Edge, Record
  <2>2. CASE ~(activate /\ cmd_in \in BusCommands)
    BY <1>3, <2>1, <2>2
  <2>3. CASE activate /\ cmd_in \in BusCommands
    <3>1. op' = cmd_in /\ cmd_in \in 1..7
      BY <2>1, <2>3 DEF BusCommands
    <3>2. MasterIdle(activate, cmd_in)
      <4>1. enable # 1 BY <1>1, <1>5 DEF UnitDiscipline
      <4>2. MasterTick(activate, cmd_in, data_in, rnb) BY <1>1 DEF Edge, Step
      <4> QED BY <1>1, <1>5, <4>1, <4>2, IdleIsIdle
    <3>3. /\ state' = Target(cmd_in)
          /\ UNCHANGED <<n_state, substate, byte_count, page_idx, config, buf, drive>>
      BY <2>3, <3>2 DEF MasterIdle
    <3>4. Doing' = Target(op') /\ state' \notin {"M_IDLE", "M_RESET"} /\ Doing' # "M_IDLE"
      BY <3>1, <3>3, TargetsOfOperations DEF Doing
    <3>5. substate' = "MS_BEGIN"
      BY <1>1, <1>5, <3>3 DEF IndexInv, Doing
    <3>6. nand_nwe' = 1
      <4>1. nand_nwe = 1 BY <1>1, <1>5, QuietElsewhere, SMT DEF At
      <4>2. ~Unit_activate
        BY <1>5, SMT DEF Unit_activate, cle_activate, ale_activate, io_wr_activate,
           io_rd_activate, At
      <4> QED BY <1>1, <4>1, <4>2, NoWriteStarts DEF Unit_activate
    <3>7. Fresh'
      BY <2>1, <3>6 DEF Fresh
    <3>8. OperationInput' = OperationInput
      BY <3>3, InputKept
    <3>9. Operation!Begin
      BY <1>2, <2>1, <3>1, <3>8 DEF Operation!Begin
    <3>10. cycles' \in Seq(Cycle)
      BY <1>2, <2>1
    <3>11. OperationInv'
      BY <2>1, <3>1, <3>4, <3>5, <3>7, <3>10, SMT DEF OperationInv, CountdownStages, EraseStages,
         StatusStages, ReadStages, ProgramStages
    <3> QED BY <3>9, <3>11 DEF Implements, Operation!Next
  <2> QED BY <2>2, <2>3
<1> QED BY <1>4, <1>5

LEMMA OperationStep ==
  ASSUME HostEarly = FALSE, TypeInvariant, UnitDiscipline, InitTogether, Regular, IndexInv,
         OperationInv, [Next]_vars
  PROVE  OperationInv' /\ [Operation!Next]_opvars
<1>1. CASE Clock
  <2>1. PICK activate, cmd_in, data_in : Edge(activate, cmd_in, data_in)
    BY <1>1 DEF Clock
  <2>2. Ready(activate, cmd_in, data_in)
    BY <2>1 DEF Ready
  <2>3. OperationInv' /\ Implements
    BY <2>2, OperationEdge, HostEdge
  <2> QED BY <2>3 DEF Implements
<1>2. CASE Reset
  <2>1. op' = 0 /\ cycles' = <<>> /\ reads' = 0 /\ resets' = resets + 1
    BY <1>2 DEF Reset
  <2>2. OperationInv' BY <2>1, SMT DEF OperationInv
  <2>3. Operation!Abort BY <2>1 DEF Operation!Abort
  <2> QED BY <2>2, <2>3 DEF Operation!Next
<1>3. CASE UNCHANGED <<master, enable, units, history, resets>>
  <2>1. /\ UNCHANGED <<state, n_state, substate, byte_count, buf, drive, op, cycles, reads, resets>>
        /\ UNCHANGED config /\ UNCHANGED units
    BY <1>3 DEF master, control, history
  <2>2. Doing' = Doing /\ geometry' = geometry /\ PageBytes' = PageBytes
    BY <2>1, Unmoved DEF Doing
  <2>3. OperationInput' = OperationInput /\ Operation!Plan' = Operation!Plan
    BY <2>1, InputKept, PlanKept
  <2>4. nand_nwe' = nand_nwe /\ BusCycle' = BusCycle
    BY <2>1, SMT DEF units, nand_nwe, BusCycle, bus_out, nand_cle, nand_ale,
       ACL!write_enable, ACL!latch_ctrl, ACL!busy, ACL!presents, ACL!active,
       AAL!write_enable, AAL!latch_ctrl, AAL!busy, AAL!presents, AAL!active,
       IO_WR!io_ctrl, IO_WR!busy, IO_WR!active
  <2>5. /\ Fresh => Fresh'
        /\ \A n, r : Standing(n, r, cycles, reads, nand_nwe, BusCycle, Operation!Plan)
             => Standing(n, r, cycles', reads', nand_nwe', BusCycle', Operation!Plan')
    BY <2>1, <2>3, <2>4 DEF Fresh
  <2>6. OperationInv'
    BY <2>1, <2>2, <2>3, <2>5, SMT DEF OperationInv, CountdownStages, EraseStages, StatusStages,
       ReadStages, ProgramStages, Stage
  <2>7. UNCHANGED opvars
    BY <2>1, <2>3 DEF opvars
  <2> QED BY <2>6, <2>7
<1> QED BY <1>1, <1>2, <1>3 DEF Next, GoBusy, BecomeReady, vars

\* Whatever happens on the bus is the operation the host asked for: as long as the geometry fits,
\* each of the seven commands drives its ONFI sequence, command, address and data cycles in that
\* order and with the bytes of the buffers, all of it before the first word is read, as many words
\* as it owes, and the controller is idle again only after the last of them. No cycle is skipped,
\* repeated or changed on the way through the units, and a reset only cuts the operation short
\* (nand_master.v:329-700, the specification FlashOperation). Without the raw read of the bus,
\* which returns before its strobe ends.
THEOREM OperationsOnBus ==
  ASSUME 23 \notin Commands, HostEarly = FALSE
  PROVE  Spec /\ []Regular => OperationInOrder
<1>1. Init => OperationInv /\ Operation!Init
  <2> SUFFICES ASSUME Init PROVE OperationInv /\ Operation!Init
    OBVIOUS
  <2>1. op = 0 /\ cycles = <<>> /\ reads = 0 /\ resets = 0
    BY DEF Init
  <2> QED BY <2>1, SMT DEF OperationInv, Operation!Init
<1>2. TypeInvariant /\ UnitDiscipline /\ InitTogether /\ Regular /\ IndexInv /\ OperationInv
        /\ [Next]_vars => OperationInv' /\ [Operation!Next]_opvars
  BY OperationStep
<1>3. Regular => Fits
  BY FullIsFit
<1>4. Spec /\ []Regular => []IndexInv
  BY <1>3, IndexInvariant, PTL
<1> QED BY <1>1, <1>2, <1>4, TypeCorrect, UnitsDisciplined, Together, PTL
     DEF Spec, OperationInOrder, Operation!Spec, opvars

\* It is so for a host that leaves the default geometry in place.
THEOREM DefaultOperationsOnBus ==
  ASSUME 23 \notin Commands, 2 \notin Commands, HostEarly = FALSE
  PROVE  Spec => OperationInOrder
<1>1. DefaultGeometry => Regular
  BY GeometryAssumption, SMT DEF DefaultGeometry, Regular, Fits, PageBytes, Wide
<1> QED BY <1>1, GeometryInvariant, OperationsOnBus, PTL
==============================================================================
