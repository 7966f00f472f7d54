-------------------------- MODULE NandMaster_proofs --------------------------
(***************************************************************************)
(* Lemmas about NandMaster: what its helpers return, and that each step of *)
(* a unit and of the master keeps the types of their registers. They hold  *)
(* for every timing, every geometry and every input of an edge.            *)
(***************************************************************************)
EXTENDS NandMaster, TLAPS

-----------------------------------------------------------------------------
(* Values *)

LEMMA Limits ==
  /\ X \in Int /\ X <= -1 /\ -1 <= X
  /\ ByteMax \in Int /\ ByteMax <= 255 /\ 255 <= ByteMax
  /\ WordMax \in Int /\ WordMax <= 65535 /\ 65535 <= WordMax
BY SMT DEF X, ByteMax, WordMax

LEMMA ByteIsWord == \A b \in Byte : b \in Word
BY Limits, SMT DEF Byte, Word

\* Every number that an operation puts on the bus or in data_out.
LEMMA Literals ==
  \A b \in {0, 16, 48, 96, 112, 128, 144, 208, 236, 255, X} : b \in Byte /\ b \in Word
BY Limits, SMT DEF Byte, Word

LEMMA LowByteType == \A w \in Word : LowByte(w) \in Byte
BY Limits, SMT DEF LowByte, Byte, Word

LEMMA HighByteType == \A w \in Word : HighByte(w) \in Byte
<1>1. ASSUME NEW w \in Int, 0 <= w, w <= 65535
      PROVE  w \div 256 \in Int /\ 0 <= w \div 256 /\ w \div 256 <= 255
  BY <1>1, SMT
<1> QED BY <1>1, Limits, SMT DEF HighByte, Byte, Word

LEMMA SetHighByteType == \A w \in Word, b \in Byte : SetHighByte(w, b) \in Word
<1>0. \A v \in Int : 0 <= v /\ v <= 65535 => v \in Word
  BY Limits, SMT DEF Word
<1>1. ASSUME NEW w \in Int, NEW b \in Int, 0 <= b, b <= 255
      PROVE  (w % 256) + 256 * b \in Int /\ 0 <= (w % 256) + 256 * b
             /\ (w % 256) + 256 * b <= 65535
  BY <1>1, SMT
<1>2. ASSUME NEW b \in Byte, b # X PROVE b \in Int /\ 0 <= b /\ b <= 255
  BY <1>2, Limits, SMT DEF Byte
<1>3. ASSUME NEW w \in Word, NEW b \in Byte, X \notin {w, b} PROVE SetHighByte(w, b) \in Word
  <2>1. w \in Int /\ b # X
    BY <1>3, SMT DEF Word
  <2>2. b \in Int /\ 0 <= b /\ b <= 255
    BY <1>2, <2>1
  <2>3. /\ (w % 256) + 256 * b \in Int /\ 0 <= (w % 256) + 256 * b
        /\ (w % 256) + 256 * b <= 65535
    BY <1>1, <2>1, <2>2
  <2>4. (w % 256) + 256 * b \in Word
    BY <1>0, <2>3
  <2> QED BY <1>3, <2>4, Zenon DEF SetHighByte
<1>4. ASSUME NEW w \in Word, NEW b \in Byte, X \in {w, b} PROVE SetHighByte(w, b) \in Word
  BY <1>4, Literals, Zenon DEF SetHighByte
<1> QED BY <1>3, <1>4

LEMMA FetchType ==
  ASSUME NEW S, NEW mem \in [S -> Byte], NEW i
  PROVE  Fetch(mem, i) \in Byte
BY Literals, SMT DEF Fetch

LEMMA StoreType ==
  ASSUME NEW S, NEW mem \in [S -> Byte], NEW i, NEW b \in Byte
  PROVE  Store(mem, i, b) \subseteq [S -> Byte]
BY SMT DEF Store

LEMMA TargetType == \A cmd_in : Target(cmd_in) \in MasterStates
BY SMT DEF Target, CommandStates, MasterStates, BusStates, RegisterStates

-----------------------------------------------------------------------------
(* The units: one clock keeps the type of a unit, and a unit is active after *)
(* it only if it was active or activated.                                    *)

LEMMA CommandLatchStep ==
  ASSUME NEW a \in BOOLEAN, ACL!LatchType, ACL!Tick(a)
  PROVE  ACL!LatchType' /\ (ACL!active' => ACL!active \/ a)
<1> USE DEF ACL!LatchType, ACL!active
<1>1. t_wp \in Nat /\ t_clh \in Nat /\ InitCycles \in Nat
  BY TimingAssumption, SMT
<1>2. {"LATCH_INIT", "LATCH_IDLE", "LATCH_HOLD", "LATCH_WAIT", "LATCH_DELAY"} = ACL!LatchStates
  BY Zenon DEF ACL!LatchStates
<1>3. CASE ACL!Initialise /\ cle.init_counter < InitCycles
  <2>1. cle.init_counter + 1 \in 0..InitCycles /\ 0 \in Nat
    BY <1>1, <1>3, SMT
  <2> QED BY <1>2, <1>3, <2>1, Zenon DEF ACL!Initialise
<1>4. CASE ACL!Initialise /\ ~(cle.init_counter < InitCycles)
  BY <1>2, <1>4, Zenon DEF ACL!Initialise
<1>5. CASE ACL!Idle(a)
  BY <1>1, <1>2, <1>5, Zenon DEF ACL!Idle
<1>6. CASE ACL!Hold
  BY <1>1, <1>2, <1>6, Zenon DEF ACL!Hold
<1>7. CASE ACL!Release
  BY <1>2, <1>7, Zenon DEF ACL!Release
<1>8. CASE ACL!Delay
  BY <1>8, SMT DEF ACL!Delay, ACL!LatchStates
<1> QED BY <1>3, <1>4, <1>5, <1>6, <1>7, <1>8, Zenon DEF ACL!Tick

LEMMA AddressLatchStep ==
  ASSUME NEW a \in BOOLEAN, AAL!LatchType, AAL!Tick(a)
  PROVE  AAL!LatchType' /\ (AAL!active' => AAL!active \/ a)
<1> USE DEF AAL!LatchType, AAL!active
<1>1. t_wp \in Nat /\ t_wh \in Nat /\ InitCycles \in Nat
  BY TimingAssumption, SMT
<1>2. {"LATCH_INIT", "LATCH_IDLE", "LATCH_HOLD", "LATCH_WAIT", "LATCH_DELAY"} = AAL!LatchStates
  BY Zenon DEF AAL!LatchStates
<1>3. CASE AAL!Initialise /\ ale.init_counter < InitCycles
  <2>1. ale.init_counter + 1 \in 0..InitCycles /\ 0 \in Nat
    BY <1>1, <1>3, SMT
  <2> QED BY <1>2, <1>3, <2>1, Zenon DEF AAL!Initialise
<1>4. CASE AAL!Initialise /\ ~(ale.init_counter < InitCycles)
  BY <1>2, <1>4, Zenon DEF AAL!Initialise
<1>5. CASE AAL!Idle(a)
  BY <1>1, <1>2, <1>5, Zenon DEF AAL!Idle
<1>6. CASE AAL!Hold
  BY <1>1, <1>2, <1>6, Zenon DEF AAL!Hold
<1>7. CASE AAL!Release
  BY <1>2, <1>7, Zenon DEF AAL!Release
<1>8. CASE AAL!Delay
  BY <1>8, SMT DEF AAL!Delay, AAL!LatchStates
<1> QED BY <1>3, <1>4, <1>5, <1>6, <1>7, <1>8, Zenon DEF AAL!Tick

LEMMA WriterStep ==
  ASSUME NEW a \in BOOLEAN, NEW d \in Word, IO_WR!IoType(Word), IO_WR!Tick(a, d)
  PROVE  IO_WR!IoType(Word)' /\ (IO_WR!active' => IO_WR!active \/ a)
<1> USE DEF IO_WR!IoType, IO_WR!active
<1>1. t_wp \in Nat /\ t_wh \in Nat /\ InitCycles \in Nat
  BY TimingAssumption, SMT
<1>2. {"IO_INIT", "IO_IDLE", "IO_HOLD", "IO_DELAY"} = IO_WR!IoStates
  BY Zenon DEF IO_WR!IoStates
<1>3. 0 \in Word
  BY Literals
<1>4. CASE IO_WR!Initialise /\ iowr.init_counter < InitCycles
  <2>1. iowr.init_counter + 1 \in 0..InitCycles /\ 0 \in Nat
    BY <1>1, <1>4, SMT
  <2> QED BY <1>2, <1>3, <1>4, <2>1, Zenon DEF IO_WR!Initialise
<1>5. CASE IO_WR!Initialise /\ ~(iowr.init_counter < InitCycles)
  BY <1>2, <1>5, Zenon DEF IO_WR!Initialise
<1>6. CASE IO_WR!Idle(a, d)
  BY <1>1, <1>2, <1>6, Zenon DEF IO_WR!Idle
<1>7. CASE IO_WR!Hold
  BY <1>1, <1>2, <1>7, Zenon DEF IO_WR!Hold
<1>8. CASE IO_WR!Delay(d)
  <2>1. CASE iowr.delay > 1
    <3>1. iowr.delay - 1 \in Nat
      BY <2>1, SMT
    <3> QED BY <1>8, <2>1, <3>1, Zenon DEF IO_WR!Delay
  <2>2. CASE ~(iowr.delay > 1)
    BY <1>8, <2>2, Zenon DEF IO_WR!Delay
  <2> QED BY <2>1, <2>2
<1> QED BY <1>4, <1>5, <1>6, <1>7, <1>8, Zenon DEF IO_WR!Tick

LEMMA ReaderStep ==
  ASSUME NEW a \in BOOLEAN, NEW d \in Word, IO_RD!IoType(Word), IO_RD!Tick(a, d)
  PROVE  IO_RD!IoType(Word)' /\ (IO_RD!active' => IO_RD!active \/ a)
<1> USE DEF IO_RD!IoType, IO_RD!active
<1>1. t_rea \in Nat /\ t_reh \in Nat /\ InitCycles \in Nat
  BY TimingAssumption, SMT
<1>2. {"IO_INIT", "IO_IDLE", "IO_HOLD", "IO_DELAY"} = IO_RD!IoStates
  BY Zenon DEF IO_RD!IoStates
<1>3. 0 \in Word
  BY Literals
<1>4. CASE IO_RD!Initialise /\ iord.init_counter < InitCycles
  <2>1. iord.init_counter + 1 \in 0..InitCycles /\ 0 \in Nat
    BY <1>1, <1>4, SMT
  <2> QED BY <1>2, <1>3, <1>4, <2>1, Zenon DEF IO_RD!Initialise
<1>5. CASE IO_RD!Initialise /\ ~(iord.init_counter < InitCycles)
  BY <1>2, <1>5, Zenon DEF IO_RD!Initialise
<1>6. CASE IO_RD!Idle(a, d)
  BY <1>1, <1>2, <1>6, Zenon DEF IO_RD!Idle
<1>7. CASE IO_RD!Hold
  BY <1>1, <1>2, <1>7, Zenon DEF IO_RD!Hold
<1>8. CASE IO_RD!Delay(d)
  <2>1. CASE iord.delay > 1
    <3>1. iord.delay - 1 \in Nat
      BY <2>1, SMT
    <3> QED BY <1>8, <2>1, <3>1, Zenon DEF IO_RD!Delay
  <2>2. CASE ~(iord.delay > 1)
    BY <1>8, <2>2, Zenon DEF IO_RD!Delay
  <2> QED BY <2>1, <2>2
<1> QED BY <1>4, <1>5, <1>6, <1>7, <1>8, Zenon DEF IO_RD!Tick

-----------------------------------------------------------------------------
(* The master: one clock keeps the types of its registers *)

LEMMA Names ==
  /\ {"M_WAIT", "M_DELAY", "M_IDLE", "M_RESET"} \subseteq MasterStates
  /\ {"MS_BEGIN", "MS_SUBMIT_COMMAND", "MS_SUBMIT_COMMAND1", "MS_SUBMIT_ADDRESS",
      "MS_WRITE_DATA0", "MS_WRITE_DATA1", "MS_WRITE_DATA2", "MS_WRITE_DATA3",
      "MS_READ_DATA0", "MS_READ_DATA1", "MS_READ_DATA2", "MS_DELAY", "MS_WAIT",
      "MS_END", "MS_WAIT_tRR"} \subseteq Substates
BY SMT DEF MasterStates, Substates

LEMMA ControlStep ==
  ASSUME NEW activate, NEW cmd_in, NEW data_in, NEW rnb,
         ControlType, MasterTick(activate, cmd_in, data_in, rnb)
  PROVE  ControlType'
<1> USE DEF ControlType, WaitFor, DelayFor, Continue, Finish, Return
<1>1. CASE enable = 1
  BY <1>1, SMT DEF MasterTick, master, control
<1>2. CASE MasterReset
  BY <1>2, Names, SMT DEF MasterReset
<1>3. CASE MasterIdle(activate, cmd_in)
  BY <1>3, Names, TargetType, SMT DEF MasterIdle
<1>4. CASE RegisterCommand(data_in)
  BY <1>4, Names, SMT DEF RegisterCommand, GetStatus, SelectChip, SetProtection, ResetIndex,
     GetIdByte, GetParamPageByte, GetDataPageByte, GetCurrentAddressByte, SetDataPageByte,
     SetCurrentAddressByte, GetByte, AdvanceIndex
<1>5. CASE BusOperation(data_in)
  <2>1. CASE NandReset
    BY <2>1, Names, SMT DEF NandReset
  <2>2. CASE PageProgram
    BY <2>2, Names, SMT DEF PageProgram
  <2>3. CASE ReadPage
    BY <2>3, Names, SMT DEF ReadPage
  <2>4. CASE ReadStatus
    BY <2>4, Names, SMT DEF ReadStatus
  <2>5. CASE BlockErase
    BY <2>5, Names, SMT DEF BlockErase
  <2>6. CASE ReadId
    BY <2>6, Names, SMT DEF ReadId
  <2>7. CASE ReadParamPage
    BY <2>7, Names, SMT DEF ReadParamPage
  <2>8. CASE BypassLatch(data_in)
    BY <2>8, Names, SMT DEF BypassLatch
  <2>9. CASE BypassDataWr(data_in) \/ BypassDataRd
    BY <2>9, Names, SMT DEF BypassDataWr, BypassDataRd
  <2> QED BY <1>5, <2>1, <2>2, <2>3, <2>4, <2>5, <2>6, <2>7, <2>8, <2>9 DEF BusOperation
<1>6. CASE Wait(rnb)
  BY <1>6, Names, SMT DEF Wait, Countdown
<1>7. CASE Delay
  BY <1>7, SMT DEF Delay, Countdown
<1> QED BY <1>1, <1>2, <1>3, <1>4, <1>5, <1>6, <1>7 DEF MasterTick

LEMMA CounterStep ==
  ASSUME NEW activate, NEW cmd_in, NEW data_in, NEW rnb,
         CounterType, MasterTick(activate, cmd_in, data_in, rnb)
  PROVE  CounterType'
<1> USE DEF CounterType, WaitFor, DelayFor
<1>1. /\ t_wb \in Nat /\ t_adl \in Nat /\ t_prog \in Nat /\ t_bers \in Nat
      /\ t_rr \in Nat /\ t_whr \in Nat
  BY TimingAssumption, SMT
<1>2. CASE enable = 1
  BY <1>2, SMT DEF MasterTick, master
<1>3. CASE MasterReset \/ MasterIdle(activate, cmd_in)
  BY <1>3, SMT DEF MasterReset, MasterIdle
<1>4. CASE RegisterCommand(data_in)
  BY <1>4, SMT DEF RegisterCommand, GetStatus, SelectChip, SetProtection, ResetIndex,
     GetIdByte, GetParamPageByte, GetDataPageByte, GetCurrentAddressByte, SetDataPageByte,
     SetCurrentAddressByte, GetByte, AdvanceIndex
<1>5. CASE BusOperation(data_in)
  <2>1. CASE NandReset
    BY <1>1, <2>1, SMT DEF NandReset
  <2>2. CASE PageProgram
    BY <1>1, <2>2, SMT DEF PageProgram
  <2>3. CASE ReadPage
    BY <1>1, <2>3, SMT DEF ReadPage
  <2>4. CASE ReadStatus
    BY <1>1, <2>4, SMT DEF ReadStatus
  <2>5. CASE BlockErase
    BY <1>1, <2>5, SMT DEF BlockErase
  <2>6. CASE ReadId
    BY <1>1, <2>6, SMT DEF ReadId
  <2>7. CASE ReadParamPage
    BY <1>1, <2>7, GeometryAssumption, SMT DEF ReadParamPage
  <2>8. CASE BypassLatch(data_in)
    BY <1>1, <2>8, SMT DEF BypassLatch
  <2>9. CASE BypassDataWr(data_in) \/ BypassDataRd
    BY <2>9, SMT DEF BypassDataWr, BypassDataRd
  <2> QED BY <1>5, <2>1, <2>2, <2>3, <2>4, <2>5, <2>6, <2>7, <2>8, <2>9 DEF BusOperation
<1>6. CASE Wait(rnb) \/ Delay
  BY <1>6, SMT DEF Wait, Delay, Countdown, WaitOver
<1> QED BY <1>2, <1>3, <1>4, <1>5, <1>6 DEF MasterTick

\* What the decoder writes: sizes and a number of address cycles that are
\* numbers, and status bits that are bits, whatever the chip sent.
LEMMA DecodeType ==
  ASSUME NEW mem \in [ParamIndex -> Byte], NEW p \in Readings(mem)
  PROVE  /\ DecodedGeometry(p) \in [data_bytes_per_page : Nat, oob_bytes_per_page : Nat,
                                    addr_cycles : Nat]
         /\ p[5] % 2 \in Bit
<1>1. \A i \in {5, 63, 79, 80, 81, 82, 83, 84, 85, 100, 101} : i \in ParamIndex
  BY GeometryAssumption, SMT
<1>2. \A i \in ParamIndex : p[i] \in Nat
  <2>1. PICK f \in [{i \in DOMAIN mem : mem[i] = X} -> 0..ByteMax] :
          p = [i \in DOMAIN mem |-> IF mem[i] = X THEN f[i] ELSE mem[i]]
    BY Zenon DEF Readings
  <2>2. \A b \in Byte : b # X => b \in Nat
    BY Limits, SMT DEF Byte
  <2>3. ASSUME NEW i \in ParamIndex PROVE p[i] \in Nat
    <3>1. CASE mem[i] = X
      BY <2>1, <3>1, Limits, SMT
    <3>2. CASE mem[i] # X
      BY <2>1, <2>2, <3>2, SMT
    <3> QED BY <3>1, <3>2
  <2> QED BY <2>3
<1>3. p[5] % 2 \in Bit
  BY <1>1, <1>2, SMT DEF Bit
<1>4. ASSUME NEW base \in {79, 80}
      PROVE  /\ p[base] + 256 * p[base + 1] + 65536 * p[base + 2] + 16777216 * p[base + 3] \in Nat
             /\ p[base + 4] + 256 * p[base + 5] \in Nat
             /\ (p[base + 21] % 16) + (p[base + 21] \div 16) \in Nat
  <2>1. \A k \in {0, 1, 2, 3, 4, 5, 21} : p[base + k] \in Nat
    BY <1>1, <1>2, SMT
  <2>2. p[base] \in Nat
    BY <1>1, <1>2, SMT
  <2> QED BY <2>1, <2>2, SMT
<1>5. DecodedGeometry(p) \in [data_bytes_per_page : Nat, oob_bytes_per_page : Nat,
                              addr_cycles : Nat]
  BY <1>4, SMT DEF DecodedGeometry
<1> QED BY <1>3, <1>5

LEMMA ConfigStep ==
  ASSUME NEW activate, NEW cmd_in, NEW data_in, NEW rnb,
         ConfigType, DataType, MasterTick(activate, cmd_in, data_in, rnb)
  PROVE  ConfigType'
<1> USE DEF ConfigType
<1>1. {0, 1} = Bit
  BY DEF Bit
<1>2. CASE enable = 1
  BY <1>2, SMT DEF MasterTick, master, config
<1>3. CASE MasterReset
  BY <1>1, <1>3, GeometryAssumption, SMT DEF MasterReset
<1>4. CASE RegisterCommand(data_in)
  <2>1. CASE SelectChip
    <3>1. (IF state = "MI_CHIP1_ENABLE" THEN 0 ELSE 1) \in Bit
      BY <1>1, SMT
    <3>2. (IF state = "MI_CHIP2_ENABLE" THEN 0 ELSE 1) \in Bit
      BY <1>1, SMT
    <3>3. pins' \in [nce : Bit, nce2 : Bit, nwp : Bit]
      BY <2>1, <3>1, <3>2, Zenon DEF SelectChip
    <3> QED BY <1>1, <2>1, <3>3, SMT DEF SelectChip
  <2>2. CASE SetProtection
    BY <1>1, <2>2, SMT DEF SetProtection
  <2>3. CASE GetStatus \/ ResetIndex
    BY <2>3, SMT DEF GetStatus, ResetIndex, config
  <2>4. CASE \E size : AdvanceIndex(size)
    BY <1>1, <2>4, SMT DEF AdvanceIndex
  <2> QED BY <1>4, <2>1, <2>2, <2>3, <2>4 DEF RegisterCommand, GetIdByte, GetParamPageByte,
             GetDataPageByte, GetCurrentAddressByte, SetDataPageByte, SetCurrentAddressByte, GetByte
<1>5. CASE ReadParamPage
  <2>1. CASE DecodeParamPage /\ UNCHANGED pins
    <3>1. CASE UNCHANGED <<geometry, status>>
      BY <2>1, <3>1
    <3>2. ASSUME NEW p \in Readings(buf.page_param), geometry' = DecodedGeometry(p),
                 status' = [b \in 0..7 |-> CASE b = 0 -> 1 [] b = 1 -> p[5] % 2 [] OTHER -> 0]
          PROVE  ConfigType'
      <4>1. p[5] % 2 \in Bit /\ geometry' \in [data_bytes_per_page : Nat,
                                               oob_bytes_per_page : Nat, addr_cycles : Nat]
        BY <3>2, DecodeType DEF DataType
      <4>2. status' \in [0..7 -> Bit]
        BY <1>1, <3>2, <4>1, SMT
      <4> QED BY <2>1, <4>1, <4>2
    <3> QED BY <2>1, <3>1, <3>2 DEF DecodeParamPage
  <2>2. CASE UNCHANGED <<geometry, status, pins>>
    BY <2>2
  <2> QED BY <1>5, <2>1, <2>2, Zenon DEF ReadParamPage
<1>6. CASE BusOperation(data_in) /\ UNCHANGED config
  BY <1>6 DEF config
<1>7. CASE MasterIdle(activate, cmd_in) \/ Wait(rnb) \/ Delay
  BY <1>7 DEF MasterIdle, Wait, Delay, config
<1>8. BusOperation(data_in) => ReadParamPage \/ UNCHANGED config
  BY Zenon DEF BusOperation, NandReset, PageProgram, ReadPage, ReadStatus, BlockErase, ReadId,
               BypassLatch, BypassDataWr, BypassDataRd, config
<1> QED BY <1>2, <1>3, <1>4, <1>5, <1>6, <1>7, <1>8 DEF MasterTick

LEMMA StatusByteType == ASSUME ConfigType PROVE StatusByte \in Byte
<1>1. \A i \in {0, 1, 2, 3, 4} : status[i] \in Int /\ 0 <= status[i] /\ status[i] <= 1
  BY SMT DEF ConfigType, Bit
<1>2. StatusByte \in Int /\ 0 <= StatusByte /\ StatusByte <= 255
  BY <1>1, SMT DEF StatusByte
<1>3. \A v \in Int : 0 <= v /\ v <= 255 => v \in Byte
  BY Limits, SMT DEF Byte
<1> QED BY <1>2, <1>3

LEMMA DataStep ==
  ASSUME NEW activate, NEW cmd_in, NEW data_in \in Byte, NEW rnb,
         ConfigType, DataType, IO_RD!IoType(Word),
         MasterTick(activate, cmd_in, data_in, rnb)
  PROVE  DataType'
<1> USE DEF Command, Address
<1>0. /\ buf.page_data \in [0..(PageDepth - 1) -> Byte] /\ buf.page_param \in [ParamIndex -> Byte]
      /\ buf.chip_id \in [0..4 -> Byte] /\ buf.current_address \in [0..4 -> Byte]
  BY SMT DEF DataType
<1>1. /\ \A i : Fetch(buf.page_data, i) \in Byte /\ Fetch(buf.page_data, i) \in Word
      /\ \A i : CurrentAddress(i) \in Byte /\ CurrentAddress(i) \in Word
      /\ \A i : Fetch(buf.page_param, i) \in Byte /\ Fetch(buf.chip_id, i) \in Byte
  BY <1>0, FetchType, ByteIsWord, Zenon DEF CurrentAddress
<1>2. iord.data_reg \in Word
  BY DEF IO_RD!IoType
<1>3. LowByte(iord.data_reg) \in Byte /\ HighByte(iord.data_reg) \in Byte
  BY <1>2, LowByteType, HighByteType
<1>4. \A i, b : b \in Byte => Store(buf.page_data, i, b) \subseteq [0..(PageDepth - 1) -> Byte]
  BY <1>0, StoreType, Zenon
<1>5. \A i, b : b \in Byte => Store(buf.current_address, i, b) \subseteq [0..4 -> Byte]
  BY <1>0, StoreType, Zenon
<1>6. data_in \in Word
  BY ByteIsWord
<1>7. CASE enable = 1
  BY <1>7, SMT DEF MasterTick, master, DataType
<1>8. CASE MasterReset
  BY <1>8, Literals, SMT DEF MasterReset, DataType
<1>9. CASE MasterIdle(activate, cmd_in) \/ Wait(rnb) \/ Delay
  BY <1>9, SMT DEF MasterIdle, Wait, Delay, Countdown, DataType
<1>10. CASE RegisterCommand(data_in)
  <2>1. CASE GetStatus
    BY <2>1, StatusByteType, SMT DEF GetStatus, DataType
  <2>2. CASE SelectChip \/ SetProtection \/ ResetIndex
    BY <2>2, SMT DEF SelectChip, SetProtection, ResetIndex, DataType
  <2>3. CASE GetIdByte \/ GetParamPageByte \/ GetDataPageByte \/ GetCurrentAddressByte
    BY <1>1, <2>3, Literals, SMT DEF GetIdByte, GetParamPageByte, GetDataPageByte,
       GetCurrentAddressByte, GetByte, AdvanceIndex, CurrentAddress, DataType
  <2>4. CASE SetDataPageByte(data_in)
    BY <1>4, <2>4, SMT DEF SetDataPageByte, AdvanceIndex, DataType
  <2>5. CASE SetCurrentAddressByte(data_in)
    BY <1>5, <2>5, SMT DEF SetCurrentAddressByte, AdvanceIndex, DataType
  <2> QED BY <1>10, <2>1, <2>2, <2>3, <2>4, <2>5 DEF RegisterCommand
<1>11. CASE BusOperation(data_in)
  <2>1. CASE NandReset
    BY <2>1, Literals, SMT DEF NandReset, DataType
  <2>2. CASE PageProgram
    <3>1. \A i : SetHighByte(drive.io_wr_data_in, Fetch(buf.page_data, i)) \in Word
      BY <1>1, SetHighByteType DEF DataType
    <3> QED BY <1>1, <2>2, <3>1, Literals, SMT DEF PageProgram, DataType
  <2>3. CASE ReadPage
    BY <1>1, <1>3, <1>4, <2>3, Literals, SMT DEF ReadPage, DataType
  <2>4. CASE ReadStatus
    BY <1>3, <2>4, Literals, SMT DEF ReadStatus, DataType
  <2>5. CASE BlockErase
    BY <1>1, <2>5, Literals, SMT DEF BlockErase, DataType
  <2>6. CASE ReadId
    BY <1>3, <2>6, Literals, SMT DEF ReadId, DataType
  <2>7. CASE ReadParamPage
    BY <1>3, <2>7, Literals, SMT DEF ReadParamPage, DataType
  <2>8. CASE BypassLatch(data_in)
    BY <1>6, <2>8, SMT DEF BypassLatch, DataType
  <2>9. CASE BypassDataWr(data_in) \/ BypassDataRd
    BY <1>3, <1>6, <2>9, SMT DEF BypassDataWr, BypassDataRd, DataType
  <2> QED BY <1>11, <2>1, <2>2, <2>3, <2>4, <2>5, <2>6, <2>7, <2>8, <2>9 DEF BusOperation
<1> QED BY <1>7, <1>8, <1>9, <1>10, <1>11 DEF MasterTick

-----------------------------------------------------------------------------
(* Who works when *)

\* After its initialisation a unit does not go back to it.
LEMMA CommandLatchInit ==
  ASSUME NEW a \in BOOLEAN, ACL!LatchType, ACL!Tick(a), ACL!InitOnce
  PROVE  ACL!InitOnce' /\ (cle.state' = "LATCH_INIT" => cle.state = "LATCH_INIT")
<1> USE DEF ACL!InitOnce, ACL!LatchType
<1>1. CASE ACL!Initialise
  BY <1>1, SMT DEF ACL!Initialise
<1>2. CASE ACL!Idle(a)
  BY <1>2, SMT DEF ACL!Idle
<1>3. CASE ACL!Hold
  BY <1>3, SMT DEF ACL!Hold
<1>4. CASE ACL!Release
  BY <1>4, SMT DEF ACL!Release
<1>5. CASE ACL!Delay
  BY <1>5, SMT DEF ACL!Delay
<1> QED BY <1>1, <1>2, <1>3, <1>4, <1>5, Zenon DEF ACL!Tick

LEMMA AddressLatchInit ==
  ASSUME NEW a \in BOOLEAN, AAL!LatchType, AAL!Tick(a), AAL!InitOnce
  PROVE  AAL!InitOnce' /\ (ale.state' = "LATCH_INIT" => ale.state = "LATCH_INIT")
<1> USE DEF AAL!InitOnce, AAL!LatchType
<1>1. CASE AAL!Initialise
  BY <1>1, SMT DEF AAL!Initialise
<1>2. CASE AAL!Idle(a)
  BY <1>2, SMT DEF AAL!Idle
<1>3. CASE AAL!Hold
  BY <1>3, SMT DEF AAL!Hold
<1>4. CASE AAL!Release
  BY <1>4, SMT DEF AAL!Release
<1>5. CASE AAL!Delay
  BY <1>5, SMT DEF AAL!Delay
<1> QED BY <1>1, <1>2, <1>3, <1>4, <1>5, Zenon DEF AAL!Tick

LEMMA WriterInit ==
  ASSUME NEW a \in BOOLEAN, NEW d \in Word, IO_WR!IoType(Word), IO_WR!Tick(a, d), IO_WR!InitOnce
  PROVE  IO_WR!InitOnce' /\ (iowr.state' = "IO_INIT" => iowr.state = "IO_INIT")
<1> USE DEF IO_WR!InitOnce, IO_WR!IoType
<1>1. CASE IO_WR!Initialise
  BY <1>1, SMT DEF IO_WR!Initialise
<1>2. CASE IO_WR!Idle(a, d)
  BY <1>2, SMT DEF IO_WR!Idle
<1>3. CASE IO_WR!Hold
  BY <1>3, SMT DEF IO_WR!Hold
<1>4. CASE IO_WR!Delay(d)
  BY <1>4, SMT DEF IO_WR!Delay
<1> QED BY <1>1, <1>2, <1>3, <1>4, Zenon DEF IO_WR!Tick

LEMMA ReaderInit ==
  ASSUME NEW a \in BOOLEAN, NEW d \in Word, IO_RD!IoType(Word), IO_RD!Tick(a, d), IO_RD!InitOnce
  PROVE  IO_RD!InitOnce' /\ (iord.state' = "IO_INIT" => iord.state = "IO_INIT")
<1> USE DEF IO_RD!InitOnce, IO_RD!IoType
<1>1. CASE IO_RD!Initialise
  BY <1>1, SMT DEF IO_RD!Initialise
<1>2. CASE IO_RD!Idle(a, d)
  BY <1>2, SMT DEF IO_RD!Idle
<1>3. CASE IO_RD!Hold
  BY <1>3, SMT DEF IO_RD!Hold
<1>4. CASE IO_RD!Delay(d)
  BY <1>4, SMT DEF IO_RD!Delay
<1> QED BY <1>1, <1>2, <1>3, <1>4, Zenon DEF IO_RD!Tick

\* The four activations exclude each other, and none is raised while the
\* master waits.
LEMMA OneActivation ==
  /\ cle_activate => ~ale_activate /\ ~io_wr_activate /\ ~io_rd_activate
  /\ ale_activate => ~io_wr_activate /\ ~io_rd_activate
  /\ io_wr_activate => ~io_rd_activate
  /\ state \in {"M_WAIT", "M_DELAY", "M_IDLE", "M_RESET"} =>
       ~cle_activate /\ ~ale_activate /\ ~io_wr_activate /\ ~io_rd_activate
BY SMT DEF cle_activate, ale_activate, io_wr_activate, io_rd_activate, At

\* Having raised an activation, the master waits; only the address byte of a
\* page read takes it through one more substate first.
LEMMA ActivationIsAwaited ==
  ASSUME NEW activate, NEW cmd_in, NEW data_in, NEW rnb,
         MasterTick(activate, cmd_in, data_in, rnb), enable # 1,
         state # "MI_BYPASS_DATA_RD"
  PROVE  /\ cle_activate \/ io_wr_activate \/ io_rd_activate => state' = "M_WAIT"
         /\ ale_activate => state' = "M_WAIT" \/
                            (state' = "M_NAND_READ" /\ substate' = "MS_SUBMIT_ADDRESS")
         /\ state = "M_NAND_READ" /\ substate = "MS_SUBMIT_ADDRESS" => state' = "M_WAIT"
         /\ state = "M_WAIT" => state' = "M_WAIT" \/ ~unit_busy
         /\ state = "M_RESET" => state' = "M_IDLE"
         /\ state = "M_IDLE" /\ ~activate => state' = "M_IDLE"
<1> USE DEF WaitFor, DelayFor, Continue, Finish, Return,
            cle_activate, ale_activate, io_wr_activate, io_rd_activate, At
<1>1. CASE MasterReset \/ MasterIdle(activate, cmd_in)
  BY <1>1, SMT DEF MasterReset, MasterIdle
<1>2. CASE RegisterCommand(data_in)
  BY <1>2, SMT DEF RegisterCommand, GetStatus, SelectChip, SetProtection, ResetIndex,
     GetIdByte, GetParamPageByte, GetDataPageByte, GetCurrentAddressByte, SetDataPageByte,
     SetCurrentAddressByte, GetByte, AdvanceIndex
<1>3. CASE NandReset
  BY <1>3, SMT DEF NandReset
<1>4. CASE PageProgram
  BY <1>4, SMT DEF PageProgram
<1>5. CASE ReadPage
  BY <1>5, SMT DEF ReadPage
<1>6. CASE ReadStatus
  BY <1>6, SMT DEF ReadStatus
<1>7. CASE BlockErase
  BY <1>7, SMT DEF BlockErase
<1>8. CASE ReadId
  BY <1>8, SMT DEF ReadId
<1>9. CASE ReadParamPage
  BY <1>9, SMT DEF ReadParamPage
<1>10. CASE BypassLatch(data_in)
  BY <1>10, SMT DEF BypassLatch
<1>11. CASE BypassDataWr(data_in) \/ BypassDataRd
  BY <1>11, SMT DEF BypassDataWr, BypassDataRd
<1>12. CASE Wait(rnb) \/ Delay
  BY <1>12, SMT DEF Wait, Delay, Countdown, WaitOver
<1> QED BY <1>1, <1>2, <1>3, <1>4, <1>5, <1>6, <1>7, <1>8, <1>9, <1>10, <1>11, <1>12, Zenon
        DEF BusOperation, MasterTick

\* Only command 23 leads to the bypass read.
LEMMA NoBypassRead ==
  ASSUME NEW activate, NEW cmd_in, NEW data_in, NEW rnb,
         MasterTick(activate, cmd_in, data_in, rnb), cmd_in # 23,
         "MI_BYPASS_DATA_RD" \notin {state, n_state}
  PROVE  "MI_BYPASS_DATA_RD" \notin {state', n_state'}
<1> USE DEF WaitFor, DelayFor, Continue, Finish, Return
<1>1. CASE enable = 1
  BY <1>1, SMT DEF MasterTick, master, control
<1>2. CASE MasterReset
  BY <1>2, SMT DEF MasterReset
<1>3. CASE MasterIdle(activate, cmd_in)
  <2>1. Target(cmd_in) # "MI_BYPASS_DATA_RD"
    BY SMT DEF Target, CommandStates
  <2> QED BY <1>3, <2>1, SMT DEF MasterIdle
<1>4. CASE RegisterCommand(data_in)
  BY <1>4, SMT DEF RegisterCommand, GetStatus, SelectChip, SetProtection, ResetIndex,
     GetIdByte, GetParamPageByte, GetDataPageByte, GetCurrentAddressByte, SetDataPageByte,
     SetCurrentAddressByte, GetByte, AdvanceIndex
<1>5. CASE NandReset \/ PageProgram \/ ReadPage \/ ReadStatus
  BY <1>5, SMT DEF NandReset, PageProgram, ReadPage, ReadStatus
<1>6. CASE BlockErase \/ ReadId \/ ReadParamPage
  BY <1>6, SMT DEF BlockErase, ReadId, ReadParamPage
<1>7. CASE BypassLatch(data_in) \/ BypassDataWr(data_in) \/ BypassDataRd
  BY <1>7, SMT DEF BypassLatch, BypassDataWr, BypassDataRd
<1>8. CASE Wait(rnb) \/ Delay
  BY <1>8, SMT DEF Wait, Delay, Countdown, WaitOver
<1> QED BY <1>1, <1>2, <1>3, <1>4, <1>5, <1>6, <1>7, <1>8, Zenon DEF MasterTick, BusOperation
=============================================================================
