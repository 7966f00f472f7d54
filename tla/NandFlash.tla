------------------------------ MODULE NandFlash ------------------------------
(***************************************************************************)
(* The controller of NandMaster between a host and two flash chips.        *)
(*                                                                         *)
(* The chips are outside src/: they are modelled from what nand_master.v   *)
(* relies on. A chip takes a cycle when WE# rises with its CE# low; some   *)
(* cycles make it busy, and its R/B# falls at most t_wb clocks later; it   *)
(* becomes ready when it is done; each fall of RE# makes it put the next   *)
(* word on the bus.                                                        *)
(*                                                                         *)
(* op, cycles, reads and we_age are history: they record what happened on  *)
(* the bus, and no action depends on them.                                 *)
(***************************************************************************)
EXTENDS NandMaster, Sequences

CONSTANTS
  Commands,            \* the commands the host issues
  HostBytes,           \* the bytes it writes when page_idx has a given value
  HostEarly,           \* it may issue commands before the units are initialised
  ChipWord,            \* k-th word that a chip sends after a command
  HoldsBus,            \* the pads keep the last word when RE# rises
  EraseMax,            \* longest erase, in clocks
  MaxCommands,         \* bound: commands the host issues
  MaxResets            \* bound: pulses on the reset pin

ASSUME HostAssumption ==
  /\ Commands \subseteq 0..ByteMax /\ {HostEarly, HoldsBus} \subseteq BOOLEAN
  /\ {EraseMax, MaxCommands, MaxResets} \subseteq Nat

VARIABLES
  chips,      \* the two chips
  op,         \* the command in progress on the bus, 0 if none
  cycles,     \* the cycles WE# has latched during op
  reads,      \* the pulses of RE# during op
  we_age,     \* clocks since WE# last rose, at most AgeCap
  issued, resets

history == <<op, cycles, reads, we_age>>
vars == <<master, enable, units, chips, history, issued, resets>>

AgeCap == t_wb + t_adl + t_whr
Chip == {1, 2}

-----------------------------------------------------------------------------
(* The bus *)

Selected == {c \in Chip : (c = 1 /\ pins.nce = 0) \/ (c = 2 /\ pins.nce2 = 0)}

\* R/B# of a chip, and the line the master looks at.
rb(c) == IF chips[c].phase = "busy" THEN 0 ELSE 1
rnb   == IF pins.nce2 = 0 THEN rb(2) ELSE rb(1)

\* The cycle a rising WE# latches.
BusCycle == [kind  |-> IF nand_cle THEN "command" ELSE IF nand_ale THEN "address" ELSE "data",
             value |-> bus_out]

WeRises == nand_nwe = 0 /\ nand_nwe' = 1
ReFalls == nand_nre = 1 /\ nand_nre' = 0

\* What IO_RD finds on the bus when it samples it. A chip that is not ready, or
\* two drivers at once, give no defined word; once RE# is high the last word
\* stays only as long as the pads hold it.
BusWords ==
  IF ~IO_RD!Samples THEN {X}
  ELSE LET sent == {IF chips[c].phase = "ready" /\ chips[c].out > 0
                      THEN ChipWord[c, chips[c].cmd, chips[c].out - 1] ELSE X : c \in Selected}
       IN  IF bus_out # X THEN IF nand_nre = 0 /\ sent # {} THEN {X} ELSE {bus_out}
           ELSE IF sent = {} THEN {X}
           ELSE IF nand_nre = 0 \/ HoldsBus THEN sent
           ELSE sent \union {X}

-----------------------------------------------------------------------------
(* The chips *)

FreshChip == [phase |-> "ready", age |-> t_rr, cmd |-> 255, task |-> 0, out |-> 0]

ChipType ==
  chips \in [Chip -> [phase : {"ready", "settling", "busy"}, age : Nat,
                      cmd : Word, task : Word, out : Nat]]

\* The cycles that start a reset, a page read, a program, an erase or the
\* transfer of the parameter page.
Starts(chip, cycle) ==
  \/ cycle.kind = "command" /\ cycle.value = 255
  \/ chip.phase = "ready" /\ cycle.kind = "command" /\ cycle.value \in {48, 16, 208}
  \/ chip.phase = "ready" /\ cycle.kind = "address" /\ chip.cmd = 236

\* A busy chip takes no command but reset and read status.
Latched(chip, cycle) ==
  LET cmd == IF cycle.kind # "command" THEN chip.cmd
             ELSE IF chip.phase = "ready" \/ cycle.value \in {112, 255} THEN cycle.value
             ELSE chip.cmd
  IN  IF Starts(chip, cycle)
        THEN [chip EXCEPT !.phase = IF @ = "busy" THEN "busy" ELSE "settling", !.age = 0,
                          !.cmd = cmd, !.task = cmd, !.out = 0]
        ELSE [chip EXCEPT !.cmd = cmd, !.out = IF cycle.kind = "command" THEN 0 ELSE @]

\* What one clock does to a chip: it ages, and reacts to the edges of WE# and RE#.
Aged(chip) ==
  IF chip.phase = "ready" THEN [chip EXCEPT !.age = IF @ < t_rr THEN @ + 1 ELSE @]
  ELSE IF chip.phase = "settling" \/ chip.task = 208 THEN [chip EXCEPT !.age = @ + 1]
  ELSE chip

ChipsTick ==
  chips' = [c \in Chip |->
             IF c \notin Selected THEN Aged(chips[c])
             ELSE IF WeRises THEN Latched(Aged(chips[c]), BusCycle)
             ELSE IF ReFalls THEN [Aged(chips[c]) EXCEPT !.out = @ + 1]
             ELSE Aged(chips[c])]

\* A chip that must drop R/B#, or end an erase, does so before the next clock.
Due(chip) ==
  \/ chip.phase = "settling" /\ chip.age = t_wb
  \/ chip.phase = "busy" /\ chip.task = 208 /\ chip.age = EraseMax

GoBusy(c) ==
  /\ chips[c].phase = "settling"
  /\ chips' = [chips EXCEPT ![c].phase = "busy", ![c].age = 0]
  /\ UNCHANGED <<master, enable, units, history, issued, resets>>

BecomeReady(c) ==
  /\ chips[c].phase = "busy"
  /\ chips' = [chips EXCEPT ![c].phase = "ready", ![c].age = 0, ![c].task = 0]
  /\ UNCHANGED <<master, enable, units, history, issued, resets>>

-----------------------------------------------------------------------------
(* The clock *)

Initialised == "LATCH_INIT" \notin {cle.state, ale.state} /\ "IO_INIT" \notin {iowr.state, iord.state}

\* A command that runs an operation on the bus, bypass excepted.
BusCommands == 1..7

\* core_enable of the wrapper falls one clock after the reset and stays low.
MayIssue == state = "M_IDLE" /\ enable = 0 /\ issued < MaxCommands /\ (HostEarly \/ Initialised)

TakesData ==
  \/ state \in {"MI_SET_DATA_PAGE_BYTE", "MI_SET_CURRENT_ADDRESS_BYTE"}
  \/ state \in {"MI_BYPASS_ADDRESS", "MI_BYPASS_COMMAND", "MI_BYPASS_DATA_WR"}
     /\ substate = "MS_BEGIN"

Record(activate, cmd_in) ==
  /\ we_age' = IF WeRises THEN 0 ELSE IF we_age < AgeCap THEN we_age + 1 ELSE we_age
  /\ IF state = "M_IDLE" \/ state' \in {"M_IDLE", "M_RESET"}
       THEN /\ op' = IF state = "M_IDLE" /\ activate /\ cmd_in \in BusCommands THEN cmd_in ELSE 0
            /\ cycles' = <<>> /\ reads' = 0
       ELSE /\ cycles' = IF WeRises /\ op # 0 THEN Append(cycles, BusCycle) ELSE cycles
            /\ reads' = IF ReFalls /\ op # 0 THEN reads + 1 ELSE reads
            /\ UNCHANGED op

Edge(activate, cmd_in, data_in) ==
  /\ \E bus \in BusWords \intersect Word : Step(activate, cmd_in, data_in, rnb, bus)
  /\ enable' = 0
  /\ ChipsTick
  /\ Record(activate, cmd_in)
  /\ issued' = IF activate THEN issued + 1 ELSE issued
  /\ UNCHANGED resets

Clock ==
  /\ \A c \in Chip : ~Due(chips[c])
  /\ \/ \E data_in \in IF TakesData THEN HostBytes[page_idx] \intersect Byte ELSE {0} : Edge(FALSE, 0, data_in)
     \/ MayIssue /\ \E cmd_in \in Commands : Edge(TRUE, cmd_in, 0)

\* The reset pin falls between two clocks. If it cuts a pulse of WE# short, the
\* chip may or may not latch the cycle.
Reset ==
  /\ resets < MaxResets
  /\ HardReset
  /\ chips' \in {chips, [c \in Chip |-> IF c \in Selected /\ WeRises
                                         THEN Latched(chips[c], BusCycle) ELSE chips[c]]}
  /\ op' = 0 /\ cycles' = <<>> /\ reads' = 0
  /\ we_age' = IF WeRises THEN 0 ELSE we_age
  /\ resets' = resets + 1
  /\ UNCHANGED <<enable, issued>>

Init ==
  /\ MasterInit
  /\ chips = [c \in Chip |-> FreshChip]
  /\ op = 0 /\ cycles = <<>> /\ reads = 0 /\ we_age = AgeCap
  /\ issued = 0 /\ resets = 0

Next == Clock \/ Reset \/ \E c \in Chip : GoBusy(c) \/ BecomeReady(c)

Spec == Init /\ [][Next]_vars

\* The oscillator runs, and a chip ends what it does.
Fairness == WF_vars(Clock) /\ \A c \in Chip : WF_vars(GoBusy(c)) /\ WF_vars(BecomeReady(c))

FairSpec == Spec /\ Fairness

-----------------------------------------------------------------------------
(* Properties *)

\* The values of the registers of the controller, the units and the chips.
TypeInvariant ==
  /\ MasterType /\ UnitsType /\ ChipType
  /\ op \in {0} \union BusCommands /\ reads \in Nat /\ we_age \in 0..AgeCap
  /\ issued \in Nat /\ resets \in Nat

\* The multiplexer of nand_data and the AND of the WE# lines (nand_master.v:111-119)
\* are only right if the four units never strobe at the same time.
OneUnitAtATime ==
  /\ ACL!active   => ~AAL!active /\ ~IO_WR!active /\ ~IO_RD!active
  /\ AAL!active   => ~IO_WR!active /\ ~IO_RD!active
  /\ IO_WR!active => ~IO_RD!active

\* Why it holds: the master leaves M_WAIT only when every unit is done, so that
\* elsewhere none is, but for the clock in which a page read has started an
\* address byte; and commands come only once the units are initialised.
Quiet == ~ACL!active /\ ~AAL!active /\ ~IO_WR!active /\ ~IO_RD!active
UnitDiscipline ==
  /\ enable = 1 => state = "M_RESET"
  /\ "MI_BYPASS_DATA_RD" \notin {state, n_state}
  /\ OneUnitAtATime
  /\ \/ state = "M_WAIT"
     \/ Quiet
     \/ At("M_NAND_READ", {"MS_SUBMIT_ADDRESS"}) /\ ~ACL!active /\ ~IO_WR!active /\ ~IO_RD!active
  /\ ACL!InitOnce /\ AAL!InitOnce /\ IO_WR!InitOnce /\ IO_RD!InitOnce
  /\ HostEarly \/ Initialised \/ state \in {"M_RESET", "M_IDLE"}

\* A unit looks at its activate input only while it is idle, and the master
\* raises it for one clock: it must find the unit idle, or a bus cycle is lost.
NoActivationLost ==
  /\ cle_activate   => ~ACL!busy
  /\ ale_activate   => ~AAL!busy
  /\ io_wr_activate => ~IO_WR!busy
  /\ io_rd_activate => ~IO_RD!busy

\* While WE# is low and at its rising edge, the word on nand_data, CLE and ALE
\* stay as they are: registers that feed the bus change only between strobes.
BusStable ==
  [][nand_nwe = 0 /\ state' # "M_RESET" =>
       bus_out' = bus_out /\ nand_cle' = nand_cle /\ nand_ale' = nand_ale]_vars

\* No cycle but reset or read status reaches a chip whose R/B# is low or still
\* to fall: the waits of M_WAIT and M_DELAY cover both.
NoLatchWhileBusy ==
  [][WeRises => \A c \in Selected :
       chips[c].phase # "ready" => nand_cle /\ bus_out \in {112, 255}]_vars

\* What the host takes from the busy flag: once it is low the bus is quiet and
\* both chips are done, so any command may follow.
IdleMeansDone ==
  ~busy => /\ ~ACL!active /\ ~AAL!active /\ ~IO_WR!active /\ ~IO_RD!active
           /\ \A c \in Chip : chips[c].phase = "ready"

\* RE# falls only if the chip is ready, t_rr after R/B# rose and t_whr after WE#
\* rose: the master looks at R/B# late enough to have seen it fall.
ReadsAreTimely ==
  [][ReFalls => we_age >= t_whr /\ \A c \in Selected :
       chips[c].phase = "ready" /\ chips[c].age >= t_rr]_vars

\* The first byte of a program is latched t_adl after the last address.
DataAfterAddress ==
  [][WeRises /\ op # 0 /\ BusCycle.kind = "data" /\ cycles[Len(cycles)].kind = "address"
       => we_age >= t_adl]_vars

\* What the controller has stored is what the chip sent, in order: nothing
\* skipped, duplicated or shifted, in the three buffers a transfer fills.
SentByte(c, cmd, k) ==
  IF Wide /\ cmd = 48
    THEN IF k % 2 = 0 THEN LowByte(ChipWord[c, 48, k \div 2]) ELSE HighByte(ChipWord[c, 48, k \div 2])
    ELSE LowByte(ChipWord[c, cmd, k])

Delivered(buffer, cmd, count) ==
  \A c \in Selected, k \in DOMAIN buffer : k < count => buffer[k] = SentByte(c, cmd, k)

TransferFaithful ==
  /\ op = 6 /\ reads > 0 => Delivered(buf.page_data, 48, page_idx)
  /\ op = 3 /\ substate = "MS_END" => Delivered(buf.chip_id, 144, 5)
  /\ op = 2 /\ substate = "MS_END" => Delivered(buf.page_param, 236, ParamBytes)

\* No access of an operation falls outside the memory it is meant for.
IndexInBounds ==
  /\ state \in {"M_NAND_READ", "M_NAND_PAGE_PROGRAM"} =>
       /\ substate \in {"MS_READ_DATA1", "MS_READ_DATA2", "MS_WRITE_DATA1", "MS_WRITE_DATA2"}
            => page_idx < PageDepth
       /\ substate = "MS_SUBMIT_COMMAND" => byte_count < 5
  /\ state = "M_NAND_BLOCK_ERASE" /\ substate = "MS_SUBMIT_COMMAND" => byte_count \in 1..3
  /\ At("M_NAND_READ_ID", {"MS_READ_DATA1"}) => page_idx < 5
  /\ At("M_NAND_READ_PARAM_PAGE", {"MS_READ_DATA1"}) => page_idx < ParamBytes
  /\ state = "MI_SET_CURRENT_ADDRESS_BYTE" /\ page_idx < geometry.addr_cycles => page_idx < 5
  /\ state \in {"MI_SET_DATA_PAGE_BYTE", "MI_GET_DATA_PAGE_BYTE"} /\ page_idx < PageBytes
       => page_idx < PageDepth

\* Seen from the bus, each command is one operation: its cycles in the order of
\* the ONFI sequence with the bytes of the buffers, then its reads, then idle.
OperationInput ==
  [address |-> [i \in 1..geometry.addr_cycles |-> Fetch(buf.current_address, i - 1)],
   row     |-> [i \in 1..3 |-> buf.current_address[i + 1]],
   data    |-> [k \in 1..PageBytes |->
                 IF Wide THEN SetHighByte(Fetch(buf.page_data, 2 * k - 2),
                                          Fetch(buf.page_data, 2 * k - 1))
                         ELSE Fetch(buf.page_data, k - 1)]]

Operation == INSTANCE FlashOperation WITH input <- OperationInput
OperationInOrder == Operation!Spec

\* Status bit 2 says whether a chip is selected, bit 3 whether WP# is low.
StatusTellsPins ==
  state # "M_RESET" /\ enable = 0 =>
    (status[2] = 1 <=> 0 \in {pins.nce, pins.nce2}) /\ (status[3] = 1 <=> pins.nwp = 0)

\* The busy flag that the host polls falls after every command.
OperationEnds == busy ~> ~busy
==============================================================================
