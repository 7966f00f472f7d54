------------------------------ MODULE ApbWrapper ------------------------------
(***************************************************************************)
(* nand_apb_wrapper.v between the register calls of nand.c and the core.   *)
(*                                                                         *)
(* One step is one posedge of PCLK for the APB master, the wrapper and the *)
(* core together. The always block of the wrapper waits for a second edge  *)
(* inside each access (repeat(1) @(posedge PCLK)): `at' is where it waits. *)
(* The core is nand_master reduced to what the wrapper sees of it: it      *)
(* takes a command in M_IDLE, reads data_in one clock later, and is busy   *)
(* for one clock (the register commands) or for some time (the others).    *)
(***************************************************************************)
EXTENDS Integers, Sequences

CONSTANTS
  Busy_bit,     \* STATUS_BUSY_BIT of nand.h
  Operations,   \* the commands that run on the flash bus
  Registers,    \* the commands that take one clock
  PowerUp,      \* what PREADY, which no reset clears, may hold at power-up
  MaxCalls,     \* bound: calls of the firmware
  MaxResets     \* bound: resets

ASSUME WrapperAssumption ==
  /\ Busy_bit \in {0, 1} /\ Operations \intersect Registers = {}
  /\ (Operations \union Registers) \subseteq Nat
  /\ {MaxCalls, MaxResets} \subseteq Nat
  /\ PowerUp \subseteq {0, 1}

VARIABLES
  at, PREADY, core_activate, core_cmd_in, core_data_in, trigger_activate_next_cycle,
  bus,           \* the APB master: phase, PWRITE, register, PWDATA
  core,          \* the state and the command of the core
  data_out,      \* its output: the number of the command that gave it
  firmware,      \* where the running call of nand.c is
  written,       \* the last byte written to DATA_REG
  sent, done,    \* history: the commands written, with their data; those executed
  taken,         \* history: what the last nand_get_data_byte returned
  calls, resets

wrapper == <<at, PREADY, core_activate, core_cmd_in, core_data_in, trigger_activate_next_cycle>>
counts == <<calls, resets>>
vars == <<wrapper, bus, core, data_out, firmware, written, sent, done, taken, counts>>

NoCommand == 0     \* what core_cmd_in holds after a reset

-----------------------------------------------------------------------------
(* The wrapper *)

write_strobe == bus.phase = "access" /\ bus.write
read_strobe_data_only == bus.phase = "access" /\ ~bus.write /\ bus.reg = "DATA"
read_strobe  == bus.phase = "access" /\ ~bus.write /\ bus.reg \in {"STATUS", "DATA"}

core_busy == core.state # "M_IDLE"

StartRead == PREADY' = 1 /\ at' = "read"

\* A write to a register of the wrapper.
selects_any(reg) == write_strobe
selects(reg)     == write_strobe /\ bus.reg = reg

\* The body of the always block, up to where it waits.
Accept ==
  /\ at = "top"
  /\ core_activate' = trigger_activate_next_cycle
  /\ trigger_activate_next_cycle' = selects("CMD")
  /\ core_cmd_in'  = IF selects("CMD") THEN bus.value ELSE core_cmd_in
  /\ core_data_in' = IF selects("DATA") THEN bus.value ELSE core_data_in
  /\ IF write_strobe THEN PREADY' = 1 /\ at' = "write"
     ELSE IF read_strobe THEN StartRead
     ELSE UNCHANGED <<PREADY, at>>

\* The edge after: PREADY falls; the write goes on to the test for a read.
Complete ==
  /\ at \in {"write", "read"}
  /\ IF at = "write" /\ read_strobe THEN StartRead ELSE PREADY' = 0 /\ at' = "top"
  /\ UNCHANGED <<core_activate, core_cmd_in, core_data_in, trigger_activate_next_cycle>>

WrapperTick == Accept \/ Complete

-----------------------------------------------------------------------------
(* The core *)

\* What the command is executed with: data_in is read in the state after M_IDLE.
Execute == done' = Append(done, [cmd |-> core.cmd, data |-> core_data_in])

CoreTick ==
  \/ /\ core.state = "M_IDLE"
     /\ core' = IF core_activate THEN [state |-> "MI", cmd |-> core_cmd_in] ELSE core
     /\ UNCHANGED <<data_out, done>>
  \/ /\ core.state = "MI"
     /\ Execute
     /\ IF core.cmd \in Operations
          THEN core' = [core EXCEPT !.state = "M_NAND"] /\ UNCHANGED data_out
          ELSE core' = [core EXCEPT !.state = "M_IDLE"] /\ data_out' = Len(done) + 1
  \/ /\ core.state = "M_NAND"
     /\ core' \in {core, [core EXCEPT !.state = "M_IDLE"]}
     /\ UNCHANGED <<data_out, done>>
  \/ /\ core.state = "M_RESET"
     /\ core' = [core EXCEPT !.state = "M_IDLE"]
     /\ UNCHANGED <<data_out, done>>

-----------------------------------------------------------------------------
(* The APB master and the firmware *)

Transfer(write, reg, value) == [phase |-> "setup", write |-> write, reg |-> reg, value |-> value]
NoTransfer == [phase |-> "idle", write |-> FALSE, reg |-> "STATUS", value |-> 0]

finished == bus.phase = "access" /\ PREADY = 1

wait_busy_inverted(status) == status = 0 /\ Busy_bit = 1

\* nand_wait_busy reads STATUS_REG until the masked bit is clear.
wait_busy(status) == status = 1 /\ Busy_bit = 1

\* Where the firmware is once the access on the bus is over.
after_access ==
  IF ~finished THEN firmware
  ELSE IF firmware = "access" \/ wait_busy(IF core_busy THEN 1 ELSE 0) THEN "poll"
  ELSE "return"

\* nand_send_command, nand_send_data_byte and nand_get_data_byte each make one
\* access and then call nand_wait_busy.
Call ==
  /\ after_access = "return" /\ calls < MaxCalls
  /\ firmware' = "access" /\ calls' = calls + 1
  /\ \/ \E cmd \in Operations \union Registers :
          /\ bus' = Transfer(TRUE, "CMD", cmd)
          /\ sent' = Append(sent, [cmd |-> cmd, data |-> written])
          /\ UNCHANGED written
     \/ bus' = Transfer(TRUE, "DATA", calls + 1) /\ written' = calls + 1 /\ UNCHANGED sent
     \/ bus' = Transfer(FALSE, "DATA", 0) /\ UNCHANGED <<written, sent>>

Poll ==
  /\ after_access = "poll"
  /\ bus' = Transfer(FALSE, "STATUS", 0) /\ firmware' = "poll"
  /\ UNCHANGED <<written, sent, calls>>

Rest == bus' = NoTransfer /\ firmware' = after_access /\ UNCHANGED <<written, sent, calls>>

Master ==
  /\ IF bus.phase = "idle" \/ finished
       THEN Call \/ Poll \/ Rest
       ELSE bus' = [bus EXCEPT !.phase = "access"] /\ UNCHANGED <<firmware, written, sent, calls>>
  /\ taken' = IF finished /\ firmware = "access" /\ ~bus.write THEN data_out ELSE taken

-----------------------------------------------------------------------------
Clock == WrapperTick /\ CoreTick /\ Master /\ UNCHANGED resets

\* PRESETn stays low for many clocks: it ends any access, and clears all but PREADY.
Reset ==
  /\ resets < MaxResets
  /\ at' = "top" /\ PREADY' = IF at = "top" THEN PREADY ELSE 0
  /\ core_activate' = FALSE /\ trigger_activate_next_cycle' = FALSE
  /\ core_cmd_in' = NoCommand /\ core_data_in' = 0
  /\ core' = [core EXCEPT !.state = "M_RESET"]
  /\ bus' = NoTransfer /\ firmware' = "return"
  /\ written' = 0 /\ sent' = <<>> /\ done' = <<>> /\ taken' = 0
  /\ resets' = resets + 1
  /\ UNCHANGED <<calls, data_out>>

Init ==
  /\ at = "top" /\ PREADY \in PowerUp
  /\ core_activate = FALSE /\ trigger_activate_next_cycle = FALSE
  /\ core_cmd_in = NoCommand /\ core_data_in = 0
  /\ core = [state |-> "M_RESET", cmd |-> NoCommand]
  /\ data_out = 0 /\ taken = 0 /\ written = 0
  /\ bus = NoTransfer /\ firmware = "return"
  /\ sent = <<>> /\ done = <<>>
  /\ calls = 0 /\ resets = 0

Next == Clock \/ Reset
Spec == Init /\ [][Next]_vars

\* The oscillator runs, the CPU makes its next access, an operation ends.
Fairness ==
  /\ WF_vars(Clock)
  /\ WF_vars(Clock /\ bus'.phase = "setup")
  /\ WF_vars(Clock /\ core'.state = "M_IDLE")
FairSpec == Spec /\ Fairness

-----------------------------------------------------------------------------
(* Properties *)

TypeInvariant ==
  /\ at \in {"top", "write", "read"} /\ PREADY \in {0, 1}
  /\ {core_activate, trigger_activate_next_cycle} \subseteq BOOLEAN
  /\ core_cmd_in \in Operations \union Registers \union {NoCommand}
  /\ {core_data_in, data_out, written, taken, calls, resets} \subseteq Nat
  /\ bus.phase \in {"idle", "setup", "access"}
  /\ core.state \in {"M_IDLE", "MI", "M_NAND", "M_RESET"}
  /\ firmware \in {"return", "access", "poll"}

\* A call of the firmware returns only when every command it has written has been
\* executed, once, in order and with its own data byte, and the core is idle.
ReturnMeansDone == firmware = "return" /\ core.state # "M_RESET" => done = sent /\ ~core_busy

\* nand_get_data_byte returns the output of the last register command before it.
LastOutput ==
  LET outputs == {i \in DOMAIN sent : sent[i].cmd \in Registers}
  IN  IF outputs = {} THEN data_out ELSE CHOOSE i \in outputs : \A j \in outputs : j <= i

DataIsFresh ==
  [][finished /\ firmware = "access" /\ ~bus.write => data_out = LastOutput]_vars

\* Every call returns: PREADY rises in each access, and the poll sees busy fall.
CallsReturn == firmware # "return" ~> firmware = "return"
=============================================================================
