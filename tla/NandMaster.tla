------------------------------ MODULE NandMaster ------------------------------
(***************************************************************************)
(* nand_master.v: the master FSM, the two latch units and the two IO units *)
(* it drives, clock edge by clock edge. Every primed variable is what the  *)
(* non-blocking assignments of one posedge of clk leave behind, so the     *)
(* master and the four units step together (Step, at the end).             *)
(*                                                                         *)
(* The inputs of an edge are parameters: the host side (activate, cmd_in,  *)
(* data_in), the R/B# line of the selected chip (rnb) and the word on the  *)
(* bus (bus). Bytes are 0..255, bus words 0..65535; X is the value of a    *)
(* memory cell or a line that nothing has defined.                         *)
(***************************************************************************)
EXTENDS OnfiPackage

CONSTANTS
  PageDepth,     \* cells of page_data (8640)
  DefaultData,   \* data_bytes_per_page after a reset (8192)
  DefaultOob,    \* oob_bytes_per_page after a reset (448)
  ParamBytes,    \* bytes of the parameter page (256)
  ParamIndex     \* the cells of page_param whose content is tracked

ASSUME GeometryAssumption ==
  /\ PageDepth \in Nat \ {0} /\ DefaultData \in Nat \ {0} /\ DefaultOob \in Nat
  /\ DefaultData + DefaultOob <= PageDepth
  /\ ParamBytes \in Nat /\ ParamIndex \subseteq 0..(ParamBytes - 1)
  /\ 0..3 \union {5, 63} \union 79..85 \union {100, 101} \subseteq ParamIndex

VARIABLES
  state, n_state, substate,         \* the FSM
  delay, byte_count, page_idx,      \* its counters
  geometry,      \* data_bytes_per_page, oob_bytes_per_page, addr_cycles
  status,        \* the bits of the status register
  pins,          \* nand_nce, nand_nce2, nand_nwp
  buf,           \* page_data, page_param, chip_id, current_address
  drive,         \* cle_data_in, ale_data_in, io_wr_data_in
  data_out,
  enable,        \* input, active low
  cle, ale, iowr, iord              \* the registers of the four units

control == <<state, n_state, substate>>
config  == <<geometry, status, pins>>
units   == <<cle, ale, iowr, iord>>
master  == <<control, delay, byte_count, page_idx, config, buf, drive, data_out>>

ACL   == INSTANCE LatchUnit WITH latch <- cle, t_hold <- t_clh
AAL   == INSTANCE LatchUnit WITH latch <- ale, t_hold <- t_wh
IO_WR == INSTANCE IoUnit WITH io <- iowr, IsWrite <- TRUE, t_low <- t_wp, t_high <- t_wh
IO_RD == INSTANCE IoUnit WITH io <- iord, IsWrite <- FALSE, t_low <- t_rea, t_high <- t_reh

-----------------------------------------------------------------------------
(* Values *)

X       == -1
ByteMax == 255
WordMax == 65535
Byte    == X..ByteMax
Word    == X..WordMax

LowByte(w)  == IF w = X THEN X ELSE w % 256
HighByte(w) == IF w = X THEN X ELSE w \div 256
SetHighByte(w, b) == IF X \in {w, b} THEN X ELSE (w % 256) + 256 * b

\* A read past the end of a memory has no defined value; a write there is
\* dropped or lands in a cell of the memory, as the build decodes the index.
Fetch(mem, i) == IF i \in DOMAIN mem THEN mem[i] ELSE X
Store(mem, i, b) ==
  IF i \in DOMAIN mem
    THEN {[mem EXCEPT ![i] = b]}
    ELSE {mem} \union {[mem EXCEPT ![j] = b] : j \in DOMAIN mem}

PageBytes_oob_twice == geometry.data_bytes_per_page + 2 * geometry.oob_bytes_per_page

PageBytes == geometry.data_bytes_per_page + geometry.oob_bytes_per_page
StatusByte == status[0] + 2 * status[1] + 4 * status[2] + 8 * status[3] + 16 * status[4]
Wide == status[1] = 1     \* a 16-bit bus

-----------------------------------------------------------------------------
(* Outputs *)

At(st, subs) == state = st /\ substate \in subs

cle_activate ==
  \/ state = "M_NAND_RESET"
  \/ state \in {"M_NAND_READ_PARAM_PAGE", "M_NAND_BLOCK_ERASE", "M_NAND_READ_STATUS",
                "M_NAND_READ", "M_NAND_PAGE_PROGRAM", "M_NAND_READ_ID"}
     /\ substate = "MS_BEGIN"
  \/ state \in {"M_NAND_BLOCK_ERASE", "M_NAND_READ", "M_NAND_PAGE_PROGRAM"}
     /\ substate = "MS_SUBMIT_COMMAND1"
  \/ At("MI_BYPASS_COMMAND", {"MS_SUBMIT_COMMAND"})

ale_activate ==
  \/ state \in {"M_NAND_READ_PARAM_PAGE", "M_NAND_BLOCK_ERASE", "M_NAND_READ",
                "M_NAND_READ_ID"}
     /\ substate = "MS_SUBMIT_COMMAND"
  \/ state \in {"M_NAND_PAGE_PROGRAM", "MI_BYPASS_ADDRESS"}
     /\ substate = "MS_SUBMIT_ADDRESS"

io_rd_activate ==
  \/ state \in {"M_NAND_READ_PARAM_PAGE", "M_NAND_READ_STATUS", "M_NAND_READ",
                "M_NAND_READ_ID"}
     /\ substate = "MS_READ_DATA0"
  \/ At("MI_BYPASS_DATA_RD", {"MS_BEGIN"})

io_wr_activate ==
  \/ At("M_NAND_PAGE_PROGRAM", {"MS_WRITE_DATA3"})
  \/ At("MI_BYPASS_DATA_WR", {"MS_WRITE_DATA0"})

busy == state # "M_IDLE"
unit_busy_but_command == AAL!busy \/ IO_RD!busy \/ IO_WR!busy
unit_busy_but_address == ACL!busy \/ IO_RD!busy \/ IO_WR!busy
unit_busy_but_reader  == ACL!busy \/ AAL!busy \/ IO_WR!busy
unit_busy_but_writer  == ACL!busy \/ AAL!busy \/ IO_RD!busy

unit_busy == ACL!busy \/ AAL!busy \/ IO_RD!busy \/ IO_WR!busy

nand_cle == ACL!latch_ctrl
nand_ale == AAL!latch_ctrl
nand_nwe == IF 0 \in {ACL!write_enable, AAL!write_enable, IO_WR!io_ctrl} THEN 0 ELSE 1
nand_nre == IO_RD!io_ctrl

\* The word the controller puts on nand_data, X when it leaves it undriven.
bus_out ==
  IF ACL!busy THEN IF ACL!presents THEN drive.cle_data_in ELSE 0
  ELSE IF AAL!busy THEN IF AAL!presents THEN drive.ale_data_in ELSE 0
  ELSE IF IO_WR!busy THEN iowr.data_reg
  ELSE X

-----------------------------------------------------------------------------
(* The ways an operation moves the FSM *)

WaitFor(next) == state' = "M_WAIT" /\ n_state' = state /\ substate' = next
DelayFor(cycles, next) ==
  state' = "M_DELAY" /\ n_state' = state /\ substate' = next /\ delay' = cycles
Continue(next) == substate' = next /\ UNCHANGED <<state, n_state>>
Finish == state' = "M_IDLE" /\ substate' = "MS_BEGIN" /\ UNCHANGED n_state
Return == state' = "M_IDLE" /\ UNCHANGED <<n_state, substate>>

Command(op)   == drive' = [drive EXCEPT !.cle_data_in = op]
Address(b)    == drive' = [drive EXCEPT !.ale_data_in = b]
CurrentAddress_late(i) == Fetch(buf.current_address, i + 1)
CurrentAddress(i) == Fetch(buf.current_address, i)

-----------------------------------------------------------------------------
(* Commands that only touch the registers of the controller *)

\* M_RESET. The memories page_data, page_param and chip_id keep their content.
MasterReset ==
  /\ state = "M_RESET"
  /\ state' = "M_IDLE" /\ substate' = "MS_BEGIN"
  /\ delay' = 0 /\ byte_count' = 0 /\ page_idx' = 0
  /\ buf' = [buf EXCEPT !.current_address = [i \in 0..4 |-> 0]]
  /\ geometry' = [data_bytes_per_page |-> DefaultData,
                  oob_bytes_per_page |-> DefaultOob, addr_cycles |-> 5]
  /\ status' = [b \in 0..7 |-> IF b = 3 THEN 1 ELSE 0]
  /\ pins' = [nce |-> 1, nce2 |-> 1, nwp |-> 0]
  /\ UNCHANGED <<n_state, drive, data_out>>

\* The state each cmd_in leads to; any other value leaves the FSM idle.
CommandStates ==
  <<"M_RESET", "M_NAND_RESET", "M_NAND_READ_PARAM_PAGE", "M_NAND_READ_ID",
    "M_NAND_BLOCK_ERASE", "M_NAND_READ_STATUS", "M_NAND_READ", "M_NAND_PAGE_PROGRAM",
    "MI_GET_STATUS", "MI_CHIP1_ENABLE", "MI_CHIP_DISABLE", "MI_WRITE_PROTECT",
    "MI_WRITE_ENABLE", "MI_RESET_INDEX", "MI_GET_ID_BYTE", "MI_GET_PARAM_PAGE_BYTE",
    "MI_GET_DATA_PAGE_BYTE", "MI_SET_DATA_PAGE_BYTE", "MI_GET_CURRENT_ADDRESS_BYTE",
    "MI_SET_CURRENT_ADDRESS_BYTE", "MI_BYPASS_ADDRESS", "MI_BYPASS_COMMAND",
    "MI_BYPASS_DATA_WR", "MI_BYPASS_DATA_RD", "MI_CHIP2_ENABLE">>

Target(cmd_in) == IF cmd_in \in 0..24 THEN CommandStates[cmd_in + 1] ELSE "M_IDLE"

MasterIdle(activate, cmd_in) ==
  /\ state = "M_IDLE"
  /\ state' = IF activate THEN Target(cmd_in) ELSE "M_IDLE"
  /\ UNCHANGED <<n_state, substate, delay, byte_count, page_idx, config, buf, drive, data_out>>

GetStatus ==
  /\ state = "MI_GET_STATUS"
  /\ data_out' = StatusByte
  /\ Return
  /\ UNCHANGED <<delay, byte_count, page_idx, config, buf, drive>>

\* MI_CHIP1_ENABLE, MI_CHIP_DISABLE and MI_CHIP2_ENABLE.
SelectChip ==
  /\ state \in {"MI_CHIP1_ENABLE", "MI_CHIP_DISABLE", "MI_CHIP2_ENABLE"}
  /\ pins' = [pins EXCEPT !.nce  = IF state = "MI_CHIP1_ENABLE" THEN 0 ELSE 1,
                          !.nce2 = IF state = "MI_CHIP2_ENABLE" THEN 0 ELSE 1]
  /\ status' = [status EXCEPT ![2] = IF state = "MI_CHIP_DISABLE" THEN 0 ELSE 1]
  /\ Return
  /\ UNCHANGED <<delay, byte_count, page_idx, geometry, buf, drive, data_out>>

SetProtection_bit_swapped ==
  /\ state \in {"MI_WRITE_PROTECT", "MI_WRITE_ENABLE"}
  /\ pins' = [pins EXCEPT !.nwp = IF state = "MI_WRITE_ENABLE" THEN 1 ELSE 0]
  /\ status' = [status EXCEPT ![3] = IF state = "MI_WRITE_ENABLE" THEN 1 ELSE 0]
  /\ Return
  /\ UNCHANGED <<delay, byte_count, page_idx, geometry, buf, drive, data_out>>

\* MI_WRITE_PROTECT and MI_WRITE_ENABLE.
SetProtection ==
  /\ state \in {"MI_WRITE_PROTECT", "MI_WRITE_ENABLE"}
  /\ pins' = [pins EXCEPT !.nwp = IF state = "MI_WRITE_ENABLE" THEN 1 ELSE 0]
  /\ status' = [status EXCEPT ![3] = IF state = "MI_WRITE_ENABLE" THEN 0 ELSE 1]
  /\ Return
  /\ UNCHANGED <<delay, byte_count, page_idx, geometry, buf, drive, data_out>>

ResetIndex ==
  /\ state = "MI_RESET_INDEX"
  /\ page_idx' = 0
  /\ Return
  /\ UNCHANGED <<delay, byte_count, config, buf, drive, data_out>>

\* The four buffers share one index: inside the buffer it moves on, at the end
\* it goes back to 0 and status bit 4 reports the access that found no byte.
AdvanceIndex(size) ==
  /\ page_idx' = IF page_idx < size THEN page_idx + 1 ELSE 0
  /\ status' = [status EXCEPT ![4] = IF page_idx < size THEN 0 ELSE 1]
  /\ Return
  /\ UNCHANGED <<delay, byte_count, geometry, pins, drive>>

GetByte(mem, size) ==
  /\ data_out' = IF page_idx < size THEN Fetch(mem, page_idx) ELSE 0
  /\ AdvanceIndex(size)
  /\ UNCHANGED buf

GetIdByte        == state = "MI_GET_ID_BYTE" /\ GetByte(buf.chip_id, 5)
GetParamPageByte == state = "MI_GET_PARAM_PAGE_BYTE" /\ GetByte(buf.page_param, ParamBytes)
GetDataPageByte  == state = "MI_GET_DATA_PAGE_BYTE" /\ GetByte(buf.page_data, PageBytes)
GetCurrentAddressByte ==
  state = "MI_GET_CURRENT_ADDRESS_BYTE" /\ GetByte(buf.current_address, geometry.addr_cycles)

SetDataPageByte(data_in) ==
  /\ state = "MI_SET_DATA_PAGE_BYTE"
  /\ IF page_idx < PageBytes
       THEN \E mem \in Store(buf.page_data, page_idx, data_in) :
              buf' = [buf EXCEPT !.page_data = mem]
       ELSE UNCHANGED buf
  /\ AdvanceIndex(PageBytes)
  /\ UNCHANGED data_out

SetCurrentAddressByte(data_in) ==
  /\ state = "MI_SET_CURRENT_ADDRESS_BYTE"
  /\ IF page_idx < geometry.addr_cycles
       THEN \E mem \in Store(buf.current_address, page_idx, data_in) :
              buf' = [buf EXCEPT !.current_address = mem]
       ELSE UNCHANGED buf
  /\ AdvanceIndex(geometry.addr_cycles)
  /\ UNCHANGED data_out

RegisterCommand(data_in) ==
  \/ GetStatus \/ SelectChip \/ SetProtection \/ ResetIndex
  \/ GetIdByte \/ GetParamPageByte \/ GetDataPageByte \/ GetCurrentAddressByte
  \/ SetDataPageByte(data_in) \/ SetCurrentAddressByte(data_in)

-----------------------------------------------------------------------------
(* Operations on the NAND bus. Each disjunct is one substate. *)

NandReset ==
  /\ state = "M_NAND_RESET"
  /\ Command(255)
  /\ state' = "M_WAIT" /\ n_state' = "M_IDLE" /\ delay' = t_wb + 8
  /\ UNCHANGED <<substate, byte_count, page_idx, config, buf, data_out>>

PageProgram ==
  /\ state = "M_NAND_PAGE_PROGRAM"
  /\ UNCHANGED <<config, buf, data_out>>
  /\ \/ /\ substate = "MS_BEGIN"
        /\ Command(128) /\ WaitFor("MS_SUBMIT_COMMAND")
        /\ byte_count' = 0 /\ UNCHANGED <<delay, page_idx>>
     \/ /\ substate = "MS_SUBMIT_COMMAND"
        /\ Address(CurrentAddress(byte_count)) /\ Continue("MS_SUBMIT_ADDRESS")
        /\ byte_count' = byte_count + 1 /\ UNCHANGED <<delay, page_idx>>
     \/ /\ substate = "MS_SUBMIT_ADDRESS"
        /\ WaitFor(IF byte_count < geometry.addr_cycles THEN "MS_SUBMIT_COMMAND"
                                                        ELSE "MS_WRITE_DATA0")
        /\ UNCHANGED <<delay, byte_count, page_idx, drive>>
     \/ /\ substate = "MS_WRITE_DATA0"
        /\ DelayFor(t_adl, "MS_WRITE_DATA1")
        /\ page_idx' = 0 /\ byte_count' = 0 /\ UNCHANGED drive
     \/ /\ substate = "MS_WRITE_DATA1"
        /\ drive' = [drive EXCEPT !.io_wr_data_in = Fetch(buf.page_data, page_idx)]
        /\ byte_count' = byte_count + 1 /\ page_idx' = page_idx + 1
        /\ Continue(IF Wide THEN "MS_WRITE_DATA2" ELSE "MS_WRITE_DATA3")
        /\ UNCHANGED delay
     \/ /\ substate = "MS_WRITE_DATA2"
        /\ drive' = [drive EXCEPT !.io_wr_data_in =
                       SetHighByte(@, Fetch(buf.page_data, page_idx))]
        /\ page_idx' = page_idx + 1
        /\ Continue("MS_WRITE_DATA3") /\ UNCHANGED <<delay, byte_count>>
     \/ /\ substate = "MS_WRITE_DATA3"
        /\ WaitFor(IF byte_count < PageBytes THEN "MS_WRITE_DATA1" ELSE "MS_SUBMIT_COMMAND1")
        /\ UNCHANGED <<delay, byte_count, page_idx, drive>>
     \/ /\ substate = "MS_SUBMIT_COMMAND1"
        /\ Command(16) /\ WaitFor("MS_WAIT")
        /\ UNCHANGED <<delay, byte_count, page_idx>>
     \/ /\ substate = "MS_WAIT"
        /\ DelayFor(t_wb + t_prog, "MS_END")
        /\ byte_count' = 0 /\ page_idx' = 0 /\ UNCHANGED drive
     \/ /\ substate = "MS_END"
        /\ state' = "M_WAIT" /\ n_state' = "M_IDLE" /\ substate' = "MS_BEGIN"
        /\ UNCHANGED <<delay, byte_count, page_idx, drive>>

ReadPage ==
  /\ state = "M_NAND_READ"
  /\ UNCHANGED <<config, data_out>>
  /\ \/ /\ substate = "MS_BEGIN"
        /\ Command(0) /\ WaitFor("MS_SUBMIT_COMMAND")
        /\ byte_count' = 0 /\ UNCHANGED <<delay, page_idx, buf>>
     \/ /\ substate = "MS_SUBMIT_COMMAND"
        /\ Address(CurrentAddress(byte_count)) /\ Continue("MS_SUBMIT_ADDRESS")
        /\ byte_count' = byte_count + 1 /\ UNCHANGED <<delay, page_idx, buf>>
     \/ /\ substate = "MS_SUBMIT_ADDRESS"
        /\ WaitFor(IF byte_count < geometry.addr_cycles THEN "MS_SUBMIT_COMMAND"
                                                        ELSE "MS_SUBMIT_COMMAND1")
        /\ UNCHANGED <<delay, byte_count, page_idx, buf, drive>>
     \/ /\ substate = "MS_SUBMIT_COMMAND1"
        /\ Command(48) /\ WaitFor("MS_DELAY")
        /\ UNCHANGED <<delay, byte_count, page_idx, buf>>
     \/ /\ substate = "MS_DELAY"
        /\ WaitFor("MS_WAIT_tRR") /\ delay' = t_wb
        /\ UNCHANGED <<byte_count, page_idx, buf, drive>>
     \/ /\ substate = "MS_WAIT_tRR"
        /\ WaitFor("MS_READ_DATA0") /\ delay' = t_rr
        /\ byte_count' = 0 /\ page_idx' = 0 /\ UNCHANGED <<buf, drive>>
     \/ /\ substate = "MS_READ_DATA0"
        /\ WaitFor("MS_READ_DATA1") /\ delay' = t_rr
        /\ byte_count' = byte_count + 1 /\ UNCHANGED <<page_idx, buf, drive>>
     \/ /\ substate = "MS_READ_DATA1"
        /\ \E mem \in Store(buf.page_data, page_idx, LowByte(iord.data_reg)) :
             buf' = [buf EXCEPT !.page_data = mem]
        /\ page_idx' = page_idx + 1
        /\ Continue(IF Wide THEN "MS_READ_DATA2"
                    ELSE IF byte_count = PageBytes THEN "MS_END" ELSE "MS_READ_DATA0")
        /\ UNCHANGED <<delay, byte_count, drive>>
     \/ /\ substate = "MS_READ_DATA2"
        /\ \E mem \in Store(buf.page_data, page_idx, HighByte(iord.data_reg)) :
             buf' = [buf EXCEPT !.page_data = mem]
        /\ page_idx' = page_idx + 1
        /\ Continue(IF byte_count = PageBytes THEN "MS_END" ELSE "MS_READ_DATA0")
        /\ UNCHANGED <<delay, byte_count, drive>>
     \/ /\ substate = "MS_END"
        /\ Finish /\ byte_count' = 0 /\ UNCHANGED <<delay, page_idx, buf, drive>>

ReadStatus ==
  /\ state = "M_NAND_READ_STATUS"
  /\ UNCHANGED <<byte_count, page_idx, config, buf>>
  /\ \/ /\ substate = "MS_BEGIN"
        /\ Command(112) /\ WaitFor("MS_SUBMIT_COMMAND") /\ UNCHANGED <<delay, data_out>>
     \/ /\ substate = "MS_SUBMIT_COMMAND"
        /\ DelayFor(t_whr, "MS_READ_DATA0") /\ UNCHANGED <<drive, data_out>>
     \/ /\ substate = "MS_READ_DATA0"
        /\ WaitFor("MS_READ_DATA1") /\ UNCHANGED <<delay, drive, data_out>>
     \/ /\ substate = "MS_READ_DATA1"
        /\ data_out' = LowByte(iord.data_reg) /\ Continue("MS_END")
        /\ UNCHANGED <<delay, drive>>
     \/ /\ substate = "MS_END"
        /\ Finish /\ UNCHANGED <<delay, drive, data_out>>

\* The three row bytes are always cells 2, 3 and 4 of current_address.
BlockErase ==
  /\ state = "M_NAND_BLOCK_ERASE"
  /\ UNCHANGED <<page_idx, config, buf, data_out>>
  /\ \/ /\ substate = "MS_BEGIN"
        /\ Command(96) /\ WaitFor("MS_SUBMIT_COMMAND")
        /\ byte_count' = 3 /\ UNCHANGED delay
     \/ /\ substate = "MS_SUBMIT_COMMAND"
        /\ Address(CurrentAddress(5 - byte_count)) /\ WaitFor("MS_SUBMIT_ADDRESS")
        /\ byte_count' = byte_count - 1 /\ UNCHANGED delay
     \/ /\ substate = "MS_SUBMIT_ADDRESS"
        /\ Continue(IF 0 < byte_count THEN "MS_SUBMIT_COMMAND" ELSE "MS_SUBMIT_COMMAND1")
        /\ UNCHANGED <<delay, byte_count, drive>>
     \/ /\ substate = "MS_SUBMIT_COMMAND1"
        /\ Command(208) /\ WaitFor("MS_END") /\ UNCHANGED <<delay, byte_count>>
     \/ /\ substate = "MS_END"
        /\ state' = "M_DELAY" /\ n_state' = "M_IDLE" /\ substate' = "MS_BEGIN"
        /\ delay' = t_wb + t_bers /\ byte_count' = 0 /\ UNCHANGED drive

ReadId ==
  /\ state = "M_NAND_READ_ID"
  /\ UNCHANGED <<config, data_out>>
  /\ \/ /\ substate = "MS_BEGIN"
        /\ Command(144) /\ WaitFor("MS_SUBMIT_COMMAND")
        /\ UNCHANGED <<delay, byte_count, page_idx, buf>>
     \/ /\ substate = "MS_SUBMIT_COMMAND"
        /\ Address(0) /\ WaitFor("MS_SUBMIT_ADDRESS")
        /\ UNCHANGED <<delay, byte_count, page_idx, buf>>
     \/ /\ substate = "MS_SUBMIT_ADDRESS"
        /\ DelayFor(t_wb, "MS_READ_DATA0")
        /\ byte_count' = 5 /\ page_idx' = 0 /\ UNCHANGED <<buf, drive>>
     \/ /\ substate = "MS_READ_DATA0"
        /\ WaitFor("MS_READ_DATA1")
        /\ byte_count' = byte_count - 1 /\ UNCHANGED <<delay, page_idx, buf, drive>>
     \/ /\ substate = "MS_READ_DATA1"
        /\ buf' = [buf EXCEPT !.chip_id[page_idx] = LowByte(iord.data_reg)]
        /\ page_idx' = IF 0 < byte_count THEN page_idx + 1 ELSE page_idx
        /\ Continue(IF 0 < byte_count THEN "MS_READ_DATA0" ELSE "MS_END")
        /\ UNCHANGED <<delay, byte_count, drive>>
     \/ /\ substate = "MS_END"
        /\ Finish /\ byte_count' = 0 /\ page_idx' = 0 /\ UNCHANGED <<delay, buf, drive>>

\* What the decoder may find in a memory: a cell that holds no defined value
\* reads as any byte. Compared with a byte, it is not equal to it.
Readings(mem) ==
  LET unknown == {i \in DOMAIN mem : mem[i] = X}
  IN  {[i \in DOMAIN mem |-> IF i \in unknown THEN f[i] ELSE mem[i]] :
         f \in [unknown -> 0..ByteMax]}

IsOnfi(p) == p[0] = 79 /\ p[1] = 78 /\ p[2] = 70 /\ p[3] = 73

\* Byte 63 tells whether the sizes start at byte 80 or at byte 79. The numbers
\* are little-endian; addr_cycles is the sum of the two nibbles of its byte.
DecodedGeometry(p) ==
  LET base == IF p[63] = 32 THEN 80 ELSE 79
  IN  [data_bytes_per_page |-> p[base] + 256 * p[base + 1] + 65536 * p[base + 2]
                               + 16777216 * p[base + 3],
       oob_bytes_per_page  |-> p[base + 4] + 256 * p[base + 5],
       addr_cycles         |-> (p[base + 21] % 16) + (p[base + 21] \div 16)]

\* MS_END: status becomes 1, with the bus width in bit 1, if the page is ONFI.
DecodeParamPage ==
  IF IsOnfi(buf.page_param)
    THEN \E p \in Readings(buf.page_param) :
           /\ geometry' = DecodedGeometry(p)
           /\ status' = [b \in 0..7 |-> CASE b = 0 -> 1 [] b = 1 -> p[5] % 2 [] OTHER -> 0]
    ELSE UNCHANGED <<geometry, status>>

ReadParamPage ==
  /\ state = "M_NAND_READ_PARAM_PAGE"
  /\ UNCHANGED <<pins, data_out>>
  /\ \/ /\ substate = "MS_BEGIN"
        /\ Command(236) /\ WaitFor("MS_SUBMIT_COMMAND")
        /\ UNCHANGED <<delay, byte_count, page_idx, geometry, status, buf>>
     \/ /\ substate = "MS_SUBMIT_COMMAND"
        /\ Address(0) /\ WaitFor("MS_SUBMIT_ADDRESS")
        /\ UNCHANGED <<delay, byte_count, page_idx, geometry, status, buf>>
     \/ /\ substate = "MS_SUBMIT_ADDRESS"
        /\ WaitFor("MS_WAIT_tRR") /\ delay' = t_wb
        /\ UNCHANGED <<byte_count, page_idx, geometry, status, buf, drive>>
     \/ /\ substate = "MS_WAIT_tRR"
        /\ WaitFor("MS_READ_DATA0") /\ delay' = t_rr
        /\ byte_count' = ParamBytes /\ page_idx' = 0
        /\ UNCHANGED <<geometry, status, buf, drive>>
     \/ /\ substate = "MS_READ_DATA0"
        /\ WaitFor("MS_READ_DATA1")
        /\ byte_count' = byte_count - 1
        /\ UNCHANGED <<delay, page_idx, geometry, status, buf, drive>>
     \/ /\ substate = "MS_READ_DATA1"
        /\ buf' = [buf EXCEPT !.page_param[page_idx] = LowByte(iord.data_reg)]
        /\ page_idx' = IF 0 < byte_count THEN page_idx + 1 ELSE page_idx
        /\ Continue(IF 0 < byte_count THEN "MS_READ_DATA0" ELSE "MS_END")
        /\ UNCHANGED <<delay, byte_count, geometry, status, drive>>
     \/ /\ substate = "MS_END"
        /\ Finish /\ byte_count' = 0 /\ page_idx' = 0
        /\ DecodeParamPage /\ UNCHANGED <<delay, buf, drive>>

-----------------------------------------------------------------------------
(* Bypass: one cycle of the bus under the control of the host *)

BypassLatch(data_in) ==
  /\ state \in {"MI_BYPASS_ADDRESS", "MI_BYPASS_COMMAND"}
  /\ UNCHANGED <<byte_count, page_idx, config, buf, data_out>>
  /\ LET submit == IF state = "MI_BYPASS_ADDRESS" THEN "MS_SUBMIT_ADDRESS"
                                                  ELSE "MS_SUBMIT_COMMAND"
     IN  \/ /\ substate = "MS_BEGIN"
            /\ IF state = "MI_BYPASS_ADDRESS" THEN Address(data_in) ELSE Command(data_in)
            /\ WaitFor(submit) /\ UNCHANGED delay
         \/ /\ substate = submit
            /\ WaitFor("MS_END") /\ delay' = t_wb + t_rr /\ UNCHANGED drive
         \/ /\ substate = "MS_END"
            /\ Finish /\ UNCHANGED <<delay, drive>>

BypassDataWr(data_in) ==
  /\ state = "MI_BYPASS_DATA_WR"
  /\ UNCHANGED <<delay, byte_count, page_idx, config, buf, data_out>>
  /\ \/ /\ substate = "MS_BEGIN"
        /\ drive' = [drive EXCEPT !.io_wr_data_in = data_in]
        /\ WaitFor("MS_WRITE_DATA0")
     \/ /\ substate = "MS_WRITE_DATA0"
        /\ state' = "M_WAIT" /\ n_state' = "M_IDLE" /\ substate' = "MS_BEGIN"
        /\ UNCHANGED drive

BypassDataRd ==
  /\ state = "MI_BYPASS_DATA_RD"
  /\ UNCHANGED <<delay, byte_count, page_idx, config, buf, drive>>
  /\ \/ substate = "MS_BEGIN" /\ Continue("MS_READ_DATA0") /\ UNCHANGED data_out
     \/ substate = "MS_READ_DATA0" /\ Finish /\ data_out' = LowByte(iord.data_reg)

BusOperation(data_in) ==
  \/ NandReset \/ PageProgram \/ ReadPage \/ ReadStatus \/ BlockErase \/ ReadId
  \/ ReadParamPage \/ BypassLatch(data_in) \/ BypassDataWr(data_in) \/ BypassDataRd

-----------------------------------------------------------------------------
(* The two ways of spending time *)

\* Both count delay down to 1 and then move on.
Countdown_none(next) == state' = next /\ UNCHANGED delay
Countdown(next) ==
  IF delay > 1 THEN delay' = delay - 1 /\ UNCHANGED state
               ELSE state' = next /\ UNCHANGED delay

\* What M_WAIT waits for: no unit is busy, and R/B# is high.
WaitOver_blind(rnb)    == ~unit_busy
WaitOver_inverted(rnb) == ~unit_busy /\ rnb = 0
WaitOver(rnb)          == ~unit_busy /\ rnb = 1

Wait(rnb) ==
  /\ state = "M_WAIT"
  /\ Countdown(IF WaitOver(rnb) THEN n_state ELSE "M_WAIT")
  /\ UNCHANGED <<n_state, substate, byte_count, page_idx, config, buf, drive, data_out>>

\* M_DELAY does not look at the units, nor at the chip.
Delay ==
  /\ state = "M_DELAY"
  /\ Countdown(n_state)
  /\ UNCHANGED <<n_state, substate, byte_count, page_idx, config, buf, drive, data_out>>

-----------------------------------------------------------------------------
(* One clock edge of the whole core *)

MasterTick(activate, cmd_in, data_in, rnb) ==
  IF enable = 1
    THEN UNCHANGED master
    ELSE \/ MasterReset \/ MasterIdle(activate, cmd_in) \/ RegisterCommand(data_in)
         \/ BusOperation(data_in) \/ Wait(rnb) \/ Delay

Step(activate, cmd_in, data_in, rnb, bus) ==
  /\ MasterTick(activate, cmd_in, data_in, rnb)
  /\ ACL!Tick(cle_activate) /\ AAL!Tick(ale_activate)
  /\ IO_WR!Tick(io_wr_activate, drive.io_wr_data_in)
  /\ IO_RD!Tick(io_rd_activate, bus)

HardReset_spares_units ==
  /\ state' = "M_RESET"
  /\ UNCHANGED <<n_state, substate, delay, byte_count, page_idx, config, buf, drive, data_out, units>>

\* The asynchronous reset: the state of the FSM, and the whole of every unit.
HardReset ==
  /\ state' = "M_RESET"
  /\ cle' = ACL!PowerOn /\ ale' = AAL!PowerOn
  /\ iowr' = IO_WR!PowerOn /\ iord' = IO_RD!PowerOn
  /\ UNCHANGED <<n_state, substate, delay, byte_count, page_idx, config, buf, drive, data_out>>

\* The initial values of the declarations; what has none is X.
MasterInit ==
  /\ state = "M_RESET" /\ n_state = "M_RESET" /\ substate = "MS_BEGIN"
  /\ delay = 0 /\ byte_count = 0 /\ page_idx = 0
  /\ geometry = [data_bytes_per_page |-> 0, oob_bytes_per_page |-> 0, addr_cycles |-> 0]
  /\ status = [b \in 0..7 |-> 0]
  /\ pins = [nce |-> 1, nce2 |-> 1, nwp |-> 0]
  /\ buf = [page_data |-> [i \in 0..(PageDepth - 1) |-> X],
            page_param |-> [i \in ParamIndex |-> X],
            chip_id |-> [i \in 0..4 |-> X], current_address |-> [i \in 0..4 |-> X]]
  /\ drive = [cle_data_in |-> X, ale_data_in |-> X, io_wr_data_in |-> X]
  /\ data_out = X
  /\ enable = 1
  /\ cle = ACL!PowerOn /\ ale = AAL!PowerOn
  /\ iowr = IO_WR!PowerOn /\ iord = IO_RD!PowerOn

-----------------------------------------------------------------------------
Bit == {0, 1}

ControlType == state \in MasterStates /\ n_state \in MasterStates /\ substate \in Substates
CounterType == delay \in Nat /\ byte_count \in Int /\ page_idx \in Nat
ConfigType ==
  /\ geometry \in [data_bytes_per_page : Nat, oob_bytes_per_page : Nat, addr_cycles : Nat]
  /\ status \in [0..7 -> Bit]
  /\ pins \in [nce : Bit, nce2 : Bit, nwp : Bit]
DataType ==
  /\ buf \in [page_data : [0..(PageDepth - 1) -> Byte], page_param : [ParamIndex -> Byte],
               chip_id : [0..4 -> Byte], current_address : [0..4 -> Byte]]
  /\ drive \in [cle_data_in : Word, ale_data_in : Word, io_wr_data_in : Word]
  /\ data_out \in Byte

MasterType == ControlType /\ CounterType /\ ConfigType /\ DataType /\ enable \in Bit

UnitsType == ACL!LatchType /\ AAL!LatchType /\ IO_WR!IoType(Word) /\ IO_RD!IoType(Word)
==============================================================================
