---------------------------- MODULE FlashOperation ----------------------------
(***************************************************************************)
(* What an operation of the controller is on the flash bus: a plan, the    *)
(* ONFI sequence of command, address and data cycles of that operation,    *)
(* carried out cycle by cycle in order; then the words the chip sends; and *)
(* only then is the controller idle again. Nothing of the FSM, the units,  *)
(* their clocks or the chips is left here.                                 *)
(***************************************************************************)
EXTENDS Integers, Sequences

CONSTANT ParamBytes
VARIABLES
  op,       \* the command in progress, 0 if none
  input,    \* the buffers it works from: address and row bytes, data words
  cycles,   \* what WE# has latched so far
  reads,    \* the pulses of RE# so far
  resets    \* pulses on the reset pin

CommandCycle(code) == [kind |-> "command", value |-> code]
AddressCycles(bytes) == [i \in DOMAIN bytes |-> [kind |-> "address", value |-> bytes[i]]]
DataCycles(words) == [i \in DOMAIN words |-> [kind |-> "data", value |-> words[i]]]

\* The cycles of each command.
Plan ==
  CASE op = 1 -> <<CommandCycle(255)>>
    [] op = 2 -> <<CommandCycle(236)>> \o AddressCycles(<<0>>)
    [] op = 3 -> <<CommandCycle(144)>> \o AddressCycles(<<0>>)
    [] op = 4 -> <<CommandCycle(96)>> \o AddressCycles(input.row) \o <<CommandCycle(208)>>
    [] op = 5 -> <<CommandCycle(112)>>
    [] op = 6 -> <<CommandCycle(0)>> \o AddressCycles(input.address) \o <<CommandCycle(48)>>
    [] op = 7 -> <<CommandCycle(128)>> \o AddressCycles(input.address)
                 \o DataCycles(input.data) \o <<CommandCycle(16)>>
    [] OTHER  -> <<>>

\* The words it then reads.
Reads == CASE op = 2 -> ParamBytes [] op = 3 -> 5 [] op = 5 -> 1
           [] op = 6 -> Len(input.data) [] OTHER -> 0

-----------------------------------------------------------------------------
Init == op = 0 /\ cycles = <<>> /\ reads = 0 /\ resets = 0

\* Between operations the host may change the buffers.
Load == op = 0 /\ UNCHANGED <<op, cycles, reads, resets>>

Begin == op = 0 /\ op' \in 1..7 /\ UNCHANGED <<input, cycles, reads, resets>>

WriteCycle ==
  /\ reads = 0 /\ Len(cycles) < Len(Plan)
  /\ cycles' = Append(cycles, Plan[Len(cycles) + 1])
  /\ UNCHANGED <<op, input, reads, resets>>

ReadWord ==
  /\ cycles = Plan /\ reads < Reads
  /\ reads' = reads + 1
  /\ UNCHANGED <<op, input, cycles, resets>>

\* A page read fills the data buffer as the words come.
Fill ==
  /\ op = 6 /\ reads > 0
  /\ input'.address = input.address /\ Len(input'.data) = Len(input.data)
  /\ UNCHANGED <<op, cycles, reads, resets>>

End ==
  /\ op # 0 /\ cycles = Plan /\ reads = Reads
  /\ op' = 0 /\ cycles' = <<>> /\ reads' = 0 /\ UNCHANGED resets

Abort == op' = 0 /\ cycles' = <<>> /\ reads' = 0 /\ resets' = resets + 1

Next == Load \/ Begin \/ WriteCycle \/ ReadWord \/ Fill \/ End \/ Abort

Spec == Init /\ [][Next]_<<op, input, cycles, reads, resets>>
=============================================================================
