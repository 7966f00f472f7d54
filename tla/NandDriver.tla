------------------------------ MODULE NandDriver ------------------------------
(***************************************************************************)
(* The calls of nand.c over the controller and two chips.                  *)
(*                                                                         *)
(* A call of nand.c is a script: the register accesses it makes, in their  *)
(* order. The firmware carries the script out one access at a time; the    *)
(* controller executes commands beside it, without clocks here: it takes a *)
(* command when it is idle, loses one that comes while it is busy, and is  *)
(* busy until the command has had its effect. Every access is followed by  *)
(* nand_wait_busy, which waits if STATUS_BUSY_BIT selects the busy bit.    *)
(***************************************************************************)
EXTENDS Integers, Sequences

CONSTANTS
  Busy_bit,     \* STATUS_BUSY_BIT of nand.h, as the bit of STATUS_REG it selects
  Row,          \* the pages in use: plane, page and block address
  PageBytes,    \* data_bytes_per_page + oob_bytes_per_page
  ParamBytes,   \* bytes of the parameter page that nand_read_param_page fetches
  Writes, Reads,  \* the <<column, size>> of the page calls
  HostByte,     \* HostByte[n][k]: the k-th byte that the n-th call writes
  Id, ParamPage,  \* what each chip answers
  X,            \* an undefined byte
  MaxCalls, MaxResets   \* bounds: calls, resets of the system

Chip == {1, 2}
Erased == 255

ASSUME DriverAssumption ==
  /\ Busy_bit \in {0, 1}
  /\ {PageBytes, ParamBytes} \subseteq Nat \ {0}
  /\ {MaxCalls, MaxResets} \subseteq Nat

ASSUME CallAssumption ==
  /\ Row \subseteq (0..1) \X (0..127) \X (0..2047)
  /\ \A w \in Writes \union Reads : w[1] \in Nat /\ w[2] \in Nat
  /\ \A n \in 1..MaxCalls, w \in Writes : \A k \in 1..w[2] : HostByte[n][k] \in 0..255

ASSUME ChipAssumption ==
  /\ Id \in [Chip -> [1..5 -> 0..255]]
  /\ ParamPage \in [Chip -> [1..ParamBytes -> 0..255]]

VARIABLES
  call,       \* the call of nand.c in progress, with its arguments
  script,     \* the accesses it has still to make
  buffer,     \* the bytes it has stored for its caller
  answer,     \* what the last call returned
  core,       \* the command the controller executes, or Idle
  data_in, data_out, page_idx, page_data, chip_id, page_param, current_address,
  selected,   \* the chip whose CE# is low, 0 if none
  nwp,        \* the WP# pin
  store,      \* the pages of the chips
  pending,    \* history: the call has still to program its page
  booted,     \* whether nand_init has been called since the reset
  calls, resets

firmware == <<call, script, buffer, answer, booted, calls>>
buffers == <<page_data, chip_id, page_param, current_address>>
pins == <<selected, nwp>>
vars == <<firmware, core, data_in, data_out, page_idx, buffers, pins, store, pending, resets>>

NoCall == [op |-> "none"]
Idle == 255

-----------------------------------------------------------------------------
(* The accesses of a call *)

Command(cmd)    == [do |-> "command", value |-> cmd]
SendByte(byte)  == [do |-> "data", value |-> byte]
Take            == [do |-> "take", value |-> 0]
Delay           == [do |-> "delay", value |-> 0]

\* The loops that send or fetch one byte per turn.
Load(bytes, cmd) ==
  [k \in 1..(2 * Len(bytes)) |-> IF k % 2 = 1 THEN SendByte(bytes[(k + 1) \div 2]) ELSE Command(cmd)]
Fetch(n, cmd) == [k \in 1..(2 * n) |-> IF k % 2 = 1 THEN Command(cmd) ELSE Take]

select_chip(c) == <<Command(IF c = 1 THEN 9 ELSE 24)>>
disable_all_chips == <<Command(10)>>
reset_index == <<Command(13)>>

init == select_chip(1) \o <<Command(1)>> \o select_chip(2) \o <<Command(1)>>

read_jedec_id(c) ==
  select_chip(c) \o reset_index \o <<Command(3)>> \o reset_index \o Fetch(5, 14) \o disable_all_chips

read_param_page(c) ==
  select_chip(c) \o reset_index \o <<Command(2), Delay>> \o reset_index
    \o Fetch(ParamBytes, 15) \o disable_all_chips

AddressBytes_unmasked(column, plane, page, block) ==
  <<column % 256, (column \div 256) % 64, (plane % 2) * 128 + (page % 128),
    block, (block \div 256) % 8>>

\* The bits of column, page, plane and block in the five address bytes.
AddressBytes(column, plane, page, block) ==
  <<column % 256, (column \div 256) % 64, (plane % 2) * 128 + (page % 128),
    block % 256, (block \div 256) % 8>>

write_address(column, row) ==
  reset_index \o Load(AddressBytes(column, row[1], row[2], row[3]), 19) \o reset_index

write_page_unselected(c) ==
  reset_index \o <<Command(12)>> \o Load(c.data, 17)
    \o write_address(c.column, c.row) \o <<Command(7), Command(11)>> \o disable_all_chips
write_page_unprotected(c) ==
  select_chip(c.chip) \o reset_index \o <<Command(12)>> \o Load(c.data, 17)
    \o write_address(c.column, c.row) \o <<Command(7)>> \o disable_all_chips
write_page_index_kept(c) ==
  select_chip(c.chip) \o <<Command(12)>> \o Load(c.data, 17)
    \o write_address(c.column, c.row) \o <<Command(7), Command(11)>> \o disable_all_chips

write_page(c) ==
  select_chip(c.chip) \o reset_index \o <<Command(12)>> \o Load(c.data, 17)
    \o write_address(c.column, c.row) \o <<Command(7), Command(11)>> \o disable_all_chips

read_page(c) ==
  select_chip(c.chip) \o write_address(c.column, c.row) \o <<Command(6), Delay>>
    \o reset_index \o Fetch(c.size, 16) \o disable_all_chips

Script(c) ==
  CASE c.op = "init"  -> init
    [] c.op = "jedec" -> read_jedec_id(c.chip)
    [] c.op = "param" -> read_param_page(c.chip)
    [] c.op = "write" -> write_page(c)
    [] c.op = "read"  -> read_page(c)

\* The calls of the application; the n-th call writes bytes of its own.
WriteCalls(n) ==
  {[op |-> "write", chip |-> c, row |-> r, column |-> w[1], size |-> w[2],
    data |-> [k \in 1..w[2] |-> HostByte[n][k]]] : c \in Chip, r \in Row, w \in Writes}
ReadCalls ==
  {[op |-> "read", chip |-> c, row |-> r, column |-> w[1], size |-> w[2]] :
     c \in Chip, r \in Row, w \in Reads}
Call(n) ==
  [op : {"init"}] \union [op : {"jedec", "param"}, chip : Chip] \union WriteCalls(n) \union ReadCalls

-----------------------------------------------------------------------------
(* The firmware *)

\* nand_wait_busy of the access before has come back.
wait_busy == Busy_bit = 1 => core = Idle

Access_inverted(do) ==
  script # <<>> /\ Head(script).do = do /\ (Busy_bit = 1 => core # Idle) /\ script' = Tail(script)

Access(do) == script # <<>> /\ Head(script).do = do /\ wait_busy /\ script' = Tail(script)

\* nand.h: nand_init is the first call.
Begin ==
  /\ call = NoCall /\ wait_busy /\ calls < MaxCalls
  /\ call' \in Call(calls + 1) /\ (booted \/ call'.op = "init") /\ booted' = TRUE
  /\ script' = Script(call') /\ buffer' = <<>> /\ calls' = calls + 1
  /\ pending' = (call'.op = "write")
  /\ UNCHANGED <<answer, core, data_in, data_out, page_idx, buffers, pins, store, resets>>

send_command ==
  /\ Access("command")
  /\ core' = IF core = Idle THEN Head(script).value ELSE core
  /\ UNCHANGED <<call, buffer, answer, booted, calls, data_in, data_out, page_idx, buffers, pins,
                 store, pending, resets>>

send_data_byte ==
  /\ Access("data") /\ data_in' = Head(script).value
  /\ UNCHANGED <<call, buffer, answer, booted, calls, core, data_out, page_idx, buffers, pins,
                 store, pending, resets>>

get_data_byte ==
  /\ Access("take") /\ buffer' = Append(buffer, data_out)
  /\ UNCHANGED <<call, answer, booted, calls, core, data_in, data_out, page_idx, buffers, pins,
                 store, pending, resets>>

\* The empty loop of 25 ms: no operation of a chip lasts longer.
Sleep ==
  /\ Access("delay") /\ core = Idle
  /\ UNCHANGED <<call, buffer, answer, booted, calls, core, data_in, data_out, page_idx, buffers, pins,
                 store, pending, resets>>

Return ==
  /\ call # NoCall /\ script = <<>> /\ wait_busy
  /\ answer' = buffer /\ call' = NoCall
  /\ UNCHANGED <<script, buffer, booted, calls, core, data_in, data_out, page_idx, buffers, pins,
                 store, pending, resets>>

Firmware == Begin \/ send_command \/ send_data_byte \/ get_data_byte \/ Sleep \/ Return

-----------------------------------------------------------------------------
(* The controller *)

Done(cmd) == core = cmd /\ core' = Idle /\ UNCHANGED <<firmware, data_in, resets>>

\* One index for all buffers: past the end it goes back to 0.
Advance(limit) == page_idx' = IF page_idx < limit THEN page_idx + 1 ELSE 0

\* The cell at the index, 0 past the end.
At(memory, limit) == IF page_idx < limit THEN memory[page_idx + 1] ELSE 0
Put(memory, limit) ==
  IF page_idx < limit THEN [memory EXCEPT ![page_idx + 1] = data_in] ELSE memory

SelectChip ==
  /\ \/ Done(9)  /\ selected' = 1
     \/ Done(10) /\ selected' = 0
     \/ Done(24) /\ selected' = 2
  /\ UNCHANGED <<data_out, page_idx, buffers, nwp, store, pending>>

SetProtection ==
  /\ \/ Done(11) /\ nwp' = 0
     \/ Done(12) /\ nwp' = 1
  /\ UNCHANGED <<data_out, page_idx, buffers, selected, store, pending>>

ResetIndex ==
  /\ Done(13) /\ page_idx' = 0
  /\ UNCHANGED <<data_out, buffers, pins, store, pending>>

GetByte ==
  /\ \/ Done(14) /\ data_out' = At(chip_id, 5) /\ Advance(5)
     \/ Done(15) /\ data_out' = At(page_param, ParamBytes) /\ Advance(ParamBytes)
     \/ Done(16) /\ data_out' = At(page_data, PageBytes) /\ Advance(PageBytes)
  /\ UNCHANGED <<buffers, pins, store, pending>>

SetByte ==
  /\ \/ /\ Done(17) /\ page_data' = Put(page_data, PageBytes) /\ Advance(PageBytes)
        /\ UNCHANGED current_address
     \/ /\ Done(19) /\ current_address' = Put(current_address, 5) /\ Advance(5)
        /\ UNCHANGED page_data
  /\ UNCHANGED <<data_out, chip_id, page_param, pins, store, pending>>

-----------------------------------------------------------------------------
(* The operations on the bus *)

\* Where a chip finds its address in the five cycles.
AddressColumn(a) == a[1] + 256 * (a[2] % 64)
AddressRow(a)    == <<a[3] \div 128, a[3] % 128, a[4] + 256 * (a[5] % 8)>>

\* A byte that is programmed twice without an erase is not relied on.
Programmed(old, byte) ==
  IF old = Erased \/ old = byte THEN byte ELSE IF byte = Erased THEN old ELSE X

\* The page after the chip has taken the whole buffer from the column on.
PageProgrammed(page, column) ==
  [i \in 1..PageBytes |-> IF i > column THEN Programmed(page[i], page_data[i - column]) ELSE page[i]]

NandReset ==
  /\ Done(1)
  /\ UNCHANGED <<data_out, page_idx, buffers, pins, store, pending>>

\* What the selected chip sends; nobody drives the bus if there is none.
Sent(words, n) == IF selected = 0 THEN [i \in 1..n |-> X] ELSE words[selected]

ReadId ==
  /\ Done(3) /\ chip_id' = Sent(Id, 5) /\ page_idx' = 0
  /\ UNCHANGED <<data_out, page_data, page_param, current_address, pins, store, pending>>

ReadParamPage ==
  /\ Done(2) /\ page_param' = Sent(ParamPage, ParamBytes) /\ page_idx' = 0
  /\ UNCHANGED <<data_out, page_data, chip_id, current_address, pins, store, pending>>

ReadPage ==
  LET column == AddressColumn(current_address)
      row == AddressRow(current_address)
  IN  /\ Done(6) /\ page_idx' = PageBytes
      /\ page_data' = [i \in 1..PageBytes |->
           IF selected # 0 /\ row \in Row /\ column + i <= PageBytes
             THEN store[selected][row][column + i] ELSE X]
      /\ UNCHANGED <<data_out, chip_id, page_param, current_address, pins, store, pending>>

\* A protected chip ignores the program command.
PageProgram ==
  LET column == AddressColumn(current_address)
      row == AddressRow(current_address)
  IN  /\ Done(7) /\ page_idx' = 0 /\ pending' = FALSE
      /\ store' = IF selected # 0 /\ nwp = 1 /\ row \in Row
                    THEN [store EXCEPT ![selected][row] = PageProgrammed(@, column)] ELSE store
      /\ UNCHANGED <<data_out, buffers, pins>>

Core == SelectChip \/ SetProtection \/ ResetIndex \/ GetByte \/ SetByte
        \/ NandReset \/ ReadId \/ ReadParamPage \/ ReadPage \/ PageProgram

-----------------------------------------------------------------------------
\* The system is reset: WP# falls under a program in progress, the firmware restarts,
\* and M_RESET clears the registers but not the buffers.
Reset ==
  /\ resets < MaxResets /\ resets' = resets + 1
  /\ call' = NoCall /\ script' = <<>> /\ buffer' = <<>> /\ answer' = <<>> /\ booted' = FALSE
  /\ core' = Idle /\ pending' = FALSE
  /\ page_idx' = 0 /\ current_address' = [i \in 1..5 |-> 0] /\ selected' = 0 /\ nwp' = 0
  /\ store' = IF core = 7 /\ selected # 0 /\ nwp = 1 /\ AddressRow(current_address) \in Row
                THEN [store EXCEPT ![selected][AddressRow(current_address)] =
                        [i \in 1..PageBytes |->
                           IF PageProgrammed(@, AddressColumn(current_address))[i] = @[i]
                             THEN @[i] ELSE X]]
                ELSE store
  /\ UNCHANGED <<calls, data_in, data_out, page_data, chip_id, page_param>>

Init ==
  /\ call = NoCall /\ script = <<>> /\ buffer = <<>> /\ answer = <<>>
  /\ core = Idle /\ data_in = 0 /\ data_out = X /\ page_idx = 0
  /\ page_data = [i \in 1..PageBytes |-> X] /\ chip_id = [i \in 1..5 |-> X]
  /\ page_param = [i \in 1..ParamBytes |-> X] /\ current_address = [i \in 1..5 |-> 0]
  /\ selected = 0 /\ nwp = 0
  /\ store = [c \in Chip |-> [r \in Row |-> [i \in 1..PageBytes |-> Erased]]]
  /\ pending = FALSE /\ booted = FALSE /\ calls = 0 /\ resets = 0

Next == Firmware \/ Core \/ Reset
Spec == Init /\ [][Next]_vars

\* The CPU goes on with its call, and the controller ends each command.
FairSpec == Spec /\ WF_vars(Firmware /\ call # NoCall) /\ WF_vars(Core)

-----------------------------------------------------------------------------
(* Properties *)

TypeInvariant ==
  /\ core \in 0..24 \union {Idle}
  /\ page_idx \in 0..PageBytes \union 0..ParamBytes \union 0..5
  /\ \A b \in {page_data, chip_id, page_param, current_address} :
       \A i \in DOMAIN b : b[i] \in 0..255 \union {X}
  /\ selected \in {0} \union Chip /\ nwp \in {0, 1}
  /\ pending \in BOOLEAN /\ {calls, resets} \subseteq Nat
  /\ Len(buffer) <= 2 * (PageBytes + ParamBytes + 5)

\* WP# is high only while a write is in progress: no other call, and no time between
\* calls, leaves the chips open to a program command.
ProtectedOutsideWrites == nwp = 1 => call.op = "write"

\* A page changes only under a write that names its chip and its row, whatever the calls
\* before have left in the index, the address, the buffer and on the pins.
OnlyAskedPageChanges ==
  [][\A c \in Chip, r \in Row : store'[c][r] # store[c][r] =>
       call.op = "write" /\ call.chip = c /\ call.row = r]_vars

\* The calls implement the page store of nand.h: a write changes the bytes asked for and no
\* other, a read and an identification return what the chip they name holds.
Store == INSTANCE PageStore WITH pages <- store, Calls <- UNION {Call(n) : n \in 1..MaxCalls}
StoresPages == Store!Spec

\* Every call returns, unless the system is reset.
CallsReturn == call # NoCall ~> call = NoCall
=============================================================================
