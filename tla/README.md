# A verification project for the NAND flash controller IP core

This directory holds TLA+ modules of the NAND flash controller (the Verilog in
`src/HW/Libero_Project/hdl/`), of its C driver (`src/FW/nand_flash_driver/nand.c`), and of the
two concurrent drivers of the firmware (`mss_hpdma.c`, and `mss_comblk.c` under
`mss_sys_services.c`); the TLC runs that check them; and theorems about them that TLAPS proves.
`PROJECT.json` lists the components, runs, mutants, hazards, findings and theorems, and maps each
definition to the lines it models.

## 1. The system

```
 nand.c  --APB-->  nand_apb_wrapper  --activate, cmd_in, data_in-->  nand_master
                        ^   <--busy, data_out--                       |  |  |  |
                        |                                           ACL AAL IO_WR IO_RD
                     PREADY                                           |  |  |  |
                                                        CLE ALE WE# RE# WP# CE# CE2# DQ[15:0]
                                                                      |          ^
                                                                 chip 1, chip 2 -+ R/B#
```

Everything is on one clock (PCLK, 100 MHz). There is no concurrency inside a module,
but nine always-blocks run together, and the chips and the CPU run beside them.

| Component | State it keeps | Operations | What makes it correct |
| --- | --- | --- | --- |
| `onfi_package.v` | none (delays in clocks) | - | every delay is at least one clock |
| `latch_unit.v` (ACL for commands, AAL for addresses) | `state`, `n_state`, `delay`, `init_counter` | one WE# strobe with CLE or ALE around it | the word is stable while WE# is low; an activation is never missed |
| `io_unit.v` (IO_WR, IO_RD) | the same and `data_reg` | one WE# or RE# strobe; IO_RD samples the bus | the sampled word is the one the chip sent |
| `nand_master.v` | FSM `state`, `n_state`, `substate`; `delay`, `byte_count`, `page_idx`; `page_data`, `page_param`, `chip_id`, `current_address`; geometry; `status`; CE#, CE2#, WP# | 25 commands: resets, parameter page, ID, erase, status, read, program, chip selection, protection, buffer access, bypass | one unit at a time; nothing to a busy chip; ONFI order and delays; buffers hold what was sent; indices in bounds; busy low means done and busy always falls; status tells the pins |
| `nand_apb_wrapper.v` | `core_activate`, `core_cmd_in`, `core_data_in`, `trigger_activate_next_cycle`, `PREADY`, and where its always-block waits | register writes and reads | a command written is activated once with its data; each access completes |
| `nand.c` register calls | none (a poll loop) | `nand_send_command`, `nand_send_data_byte`, `nand_get_data_byte`, `nand_wait_busy` | a call returns when its command is done; a byte read is that of the last command |
| `nand.c` calls, `main.c` | none | init, ID, parameter page, address, page write, page read | the bytes reach the page asked for and come back; nothing else changes; WP# is low outside writes |
| `mss_hpdma.c` | `g_transfer`, `g_hpdma_end_desc`, `g_hpdma_current_desc`, and the four descriptors of the DMA controller | start, pause, resume, abort, completion and error interrupts | all chunks once and in order; one outcome per transfer; no descriptor that does not exist; quiet when over |
| `mss_comblk.c` | `g_comblk_state`, the command, data and response it is at, the handlers, the interrupt enables | three ways to send a command; transmit and receive interrupts | answers, events and errors are told apart in one FIFO; a bitstream goes out whole |
| `mss_sys_services.c` | `g_request_in_progress`, `g_last_response_length` | system services, in-system programming (ISP) | a call returns the answer to its own request, and returns |
| chips (external) | phase, R/B#, position in the data | latch cycles, become busy, answer reads | environment |

How they interact. The driver writes a byte to `DATA_REG`, then a code to `CMD_REG`, then
polls `STATUS_REG` bit 0. The wrapper raises `core_activate` one pass of its block after
the command write. `nand_master` takes the command in `M_IDLE`; register commands last one
clock; bus operations raise the `activate` input of one unit for one clock, go to `M_WAIT`,
and come back once `delay` has run down, no unit is busy and R/B# is high. `M_DELAY` waits
without looking. The units drive WE#, RE#, CLE and ALE; three of them drive `nand_data`
through a multiplexer.

What is hard here (the `hazards` of `PROJECT.json`, each with its line): four units share
one bus and are serialised only by the FSM's waits; an `activate` raised at a unit that is
not idle is lost in silence; registers that feed the bus combinationally are rewritten by
the next substate; R/B# falls late (up to t_wb), so a wait that is too short sees the level
from before; the reader samples twice; one index serves four buffers; a reset may come in
the middle of anything; the wrapper's block has an event control inside; a poll may come
before the command has started; each driver call relies on what the last one has left in index,
buffers and pins; and the two MSS drivers share globals between the application, interrupts and
a device.

## 2. Modules

| Module | Models | Notes |
| --- | --- | --- |
| `OnfiPackage` | `onfi_package.v` | delays as CONSTANTS with `TimingAssumption`, the state names |
| `LatchUnit` | `latch_unit.v` | one record variable; `Tick(activate)` is one clock edge |
| `IoUnit` | `io_unit.v` | the same; `Samples` is the clock at which a reader captures the bus |
| `NandMaster` | `nand_master.v` | instantiates the units (`ACL`, `AAL`, `IO_WR`, `IO_RD`); one action per FSM state, one disjunct per substate; `Step` is one clock edge of FSM and units together; `HardReset` the asynchronous reset |
| `NandFlash` | the core between a host and two chips | `Clock`, `Reset`, `GoBusy`, `BecomeReady`; history of the bus; the properties |
| `FlashOperation` | abstract specification | an operation as a plan of bus cycles, then reads, then idle |
| `ApbWrapper` | `nand_apb_wrapper.v` with the driver's register calls and the core's handshake | one step is one PCLK edge of master, wrapper and core |
| `NandDriver` | the calls of `nand.c` over a controller without clocks and two chips with pages | a call is a script of register accesses; the firmware makes one access per step, the controller one command per step |
| `PageStore` | abstract specification of the driver: what `nand.h` promises | pages, a call, its answer; no controller |
| `Hpdma` | `mss_hpdma.c` | the application (`main`), the interrupt handlers (`isr`) and the DMA controller |
| `Comblk` | `mss_comblk.c` | the driver as operators on the record of its globals |
| `SysServices` | `mss_sys_services.c` over `Comblk` | the application, the interrupt, the system controller, two FIFOs |
| `MCNandFlash`, `MCApbWrapper`, `MCNandDriver`, `MCHpdma`, `MCSysServices` | values of the constants for the runs | |
| `NandMaster_proofs`, `NandFlash_proofs`, `NandFlash_timing` | lemmas and theorems about the core | one clock edge; types, units, the bus, the memories and the refinement to `FlashOperation`; the delays, the chips and the words of a transfer |
| `ApbWrapper_proofs` | lemmas and theorems about the wrapper | |
| `NandDriver_proofs` | lemmas and theorems about the driver | addresses and scripts; the refinement to `PageStore` |
| `Hpdma_proofs` | lemmas and theorems about the DMA driver | types, the count of descriptors, the ring |
| `SysServices_proofs`, `SysServices_answers` | lemmas and theorems about the system services | sequences, types, events, the bitstream; the answers to requests and the outcome of ISP |

A register of the Verilog is a variable or a record field of the same name; a non-blocking
assignment is a primed variable, so what one clock edge reads is what the last one wrote. An
undefined value (a memory cell or line nothing has set) is `X`, outside 0..255. When a decision
of the RTL depends on such a cell, the model takes every reading (`Readings`). A write past the
end of a memory is dropped or lands in any cell (`Store`). `init_complete`
of a unit is not kept: it is `state # LATCH_INIT` (or `IO_INIT`). The unreachable `default`
branches are left out.

The chips are not in the repository. They are modelled from what the FSM relies on: a cycle is
latched when WE# rises; FFh, 30h, 10h, D0h and the address after ECh make the chip busy; R/B#
falls at any time within t_wb of that edge (`settling`), and rises at any later time; a busy
chip takes only FFh and 70h; each fall of RE# moves it to its next word. The host (in
`NandFlash`) issues any command of `Commands` whenever the core is idle, and may put any byte
of `HostBytes` in `data_in`. `HostEarly` tells whether it may do so in the 16 clocks after a
reset in which the units are not ready. `HoldsBus` tells whether the pads keep the last word
once RE# is high.

`FlashOperation` is the abstract specification. It has no FSM, units, clocks or chips: an
operation is a sequence of command, address and data cycles computed from the buffers, then a
number of reads, then the end. `OperationInOrder` says that `NandFlash` implements it, with
`op`, `cycles` and `reads` (history, on which no action depends) and the buffers as the
refinement mapping.

In `ApbWrapper`, `at` is the place where the always-block waits (`top`, or the inner
`@(posedge PCLK)` of a write or of a read). The core is reduced to what the wrapper sees:
activation in `M_IDLE`, `data_in` read one clock later, busy for one clock or for some time.

`NandDriver` takes from `ApbWrapper` what it has shown: an access is one step, and with a poll
that waits the next one comes after the command. Commands and accesses still interleave, since
without the poll (`Busy_bit = 0`) the firmware runs ahead. The bus operations are what
`NandFlash` has shown: a page read fills the buffer with what the selected chip sends from its
column on, a program sends the whole buffer, a read of the parameter page fills its buffer (what the core
decodes from it is modelled in `NandMaster`; the pages of `NandDriver` have a fixed size). Here the chips have pages: programming a byte twice
gives `X` unless one of the two is FFh; a protected chip, or none selected, ignores the program.
A reset ends the call, raises the chips' pins to the values of `M_RESET` and leaves the buffers;
it may cut a program short, and then the bytes it was to change are `X`. `StoresPages` says that
this implements `PageStore`, with `store` as its pages and `pending` (history) as the write that is
still to come.

In `Hpdma` a chunk is its number in its transfer, since source, destination and remaining size
advance together. The controller serves the valid descriptors in turn, stops at an error and at a
paused descriptor, and keeps the interrupt of a finished descriptor pending until it is
cleared. A loop of the driver is one turn per step, so that the controller works between two
turns: of the start loop, and of the two loops that clear the descriptors, in `MSS_HPDMA_abort` and at
the end of the error handler. Two things are assumed of the hardware, which the repository
does not describe: clearing a descriptor (`HPDMACR_DCP_CLR`) also resets its interrupt
enables, and the controller reports one error at a time, so that one error interrupt calls the
application's handler once; the code (`mss_hpdma.c:377-412`) calls it for each error bit that is set. `Preempts` tells whether interrupts come inside a call of the driver; `RestartOn` the
outcomes on which the application's handler starts the next transfer.

In `SysServices` the interrupt handler runs in one step: it is not interrupted, and the callbacks
do not call the driver back. A call of the application is cut where the controller or an interrupt
may come between: the wait for the last request, the part with interrupts off, the opcode, the
parameters, the wait for the answer. The system controller answers after it has got a whole command;
it may refuse a bitstream early; it raises events at any time; and a power-on may have left
an error report in front of everything.

## 3. Runs

Bus runs use the delays of 100 MHz (t_wp 5, t_wb 20, t_adl 20, ...), pages of 2 + 1 bytes
after a reset, and 102 bytes of parameter page, of which the 15 cells that the decoder reads
are tracked.

| Run | Question | Result |
| --- | --- | --- |
| `transfer` | 3 commands of {parameter page, ID, status, read, program, chip 1, chip 2}, chip 1 with an 8-bit bus and chip 2 with a 16-bit bus, in any order | passes: `TransferFaithful`, `ReadsAreTimely`, `OneUnitAtATime`, `IdleMeansDone`, `OperationInOrder` |
| `program` | 4 commands of {erase, read, program, chip selection, loading data and address bytes} | passes: `NoActivationLost`, `BusStable`, `NoLatchWhileBusy`, `DataAfterAddress`, `IndexInBounds`, `OperationInOrder` |
| `reset` | 3 commands and one reset at any point between two clocks, under fairness | passes: `UnitDiscipline`, `NoActivationLost`, `OperationInOrder`, `OperationEnds` |
| `registers` | 4 commands among the register, buffer and bypass commands, controller reset and an undefined code | passes: `StatusTellsPins`, `OneUnitAtATime`, `BusStable` |
| `apb` | 4 driver calls and one reset, with the mask 1 that fits `STATUS_REG` | passes: `ReturnMeansDone`, `DataIsFresh`, `CallsReturn` |
| `driver` | 4 calls of `nand.c` and one reset; 2 chips, 2 pages of 3 bytes, writes to the end of the page | passes: `StoresPages`, `OnlyAskedPageChanges`, `ProtectedOutsideWrites`, `CallsReturn` |
| `hpdma` | 2 transfers of 1, 3, 4, 5 or 8 chunks, with errors, aborts, a pause, a restart from the handler | passes: `ChunksInOrder`, `OutcomeOnce`, `DescriptorsInBounds`, `StoppedMeansQuiet`, `TransferEnds` |
| `services` | 3 services of the three kinds, 2 events, FIFOs of 3 words, a bitstream of two pages | passes: `EventsDelivered`, `AnswersMatch`, `BitstreamInOrder`, `IspReported`, `CallsReturn` |
| `driver_stale` | the same calls with a write that ends before the page does | violates `StoresPages` |
| `floating` | the same transfers when the pads do not hold the bus | violates `TransferFaithful` |
| `status` | a parameter page read, then the status register | violates `StatusTellsPins` |
| `apb_busy_bit` | the mask that `nand.h` defines | violates `ReturnMeansDone` |

### Findings

* **`STATUS_BUSY_BIT` is 0** (`nand.h:25`, `(0<<1)`). `nand_wait_busy` never waits. This fits the
  known issue of the README (data shifted unless the driver sleeps 25 ms after a page read,
  `src/README.md:18`): the sleep does what the poll was meant to do.
* **The reader samples twice** (`io_unit.v:104`): the second sample, taken with RE# high, wins.
  The data is right only as long as the bus still carries the word two clocks after RE# rose. The
  passing runs assume that it does (`HoldsBus`), as boards on which reads work must.
* **A short write programs stale bytes** (`nand.c:135`): `nand_write_page` loads `size` bytes and
  the controller sends its whole page buffer. What an earlier call left behind them is programmed
  into the rest of the page, and a later write of these bytes then finds them programmed. This fits
  the known issue of the README that programming a page again loses data (`src/README.md:22`).
* **A parameter page read overwrites the status register** (`nand_master.v:664`).

These are behaviours that the passing runs exclude by their constants, each seen with TLC after
changing the constant named; they are listed as hazards.

* `Commands` with 3, 9, 21 and the byte 30h: a page read started by a bypassed command may find the
  controller idle two clocks before R/B# falls, since the wait (`nand_master.v:710`, `:732`) begins
  at the activation and not at the rise of WE#; a READ ID then reaches a chip about to be
  busy (`NoLatchWhileBusy`).
* `PageDepth` 3 with a 16-bit chip: a page read counts words against bytes and runs past
  `page_data` (`nand_master.v:460-487`, `IndexInBounds`). In the run `transfer` the buffer has
  two pages, and the page itself is right.
* `PowerUp` {0, 1} in `apb`: PREADY has no reset (`nand_apb_wrapper.v:25`, `:80-84`); if it comes up
  high, the first access ends before the wrapper has taken it (`ReturnMeansDone`).
* Command 23: a bypass read returns the byte of the read before it and goes idle with RE# still
  low, so that a READ ID right after it violates `OneUnitAtATime`.
* `HostEarly` TRUE: a command in the 16 clocks after a reset loses its first strobe
  (`NoActivationLost`).
* Four commands and a reset: a reset during a program or an erase leaves the chip busy under an idle
  controller (`NoLatchWhileBusy`). An erase that takes longer than t_bers is not waited for.
* `Sizes` {9} in `hpdma`: the ninth chunk is written to `Descriptor[4]`, which does not exist
  (`mss_hpdma.c:328`, `DescriptorsInBounds`).
* `RestartOn` with errors: a transfer started from the handler of an error is cleared by the last
  loop of the error handler (`mss_hpdma.c:414`) and never ends (`TransferEnds`).
* `Preempts` TRUE: a chunk that completes while the start loop runs loses or repeats chunks.
* `AfterIsp` TRUE in `services`: nothing clears `g_request_in_progress` after
  `MSS_SYS_start_isp`, so the next service waits for ever (`CallsReturn`).
* `IspFirst` TRUE: the second byte of a power-on error is taken for the result of the ISP
  (`mss_comblk.c:619`, `IspReported`).
* `PointerBytes` with F1h: a data byte F1h in an answer ends it as a power-on event
  (`mss_comblk.c:587`), and the call never returns (`CallsReturn`).
* An ISP that ends before the last page has been sent, or whose opcode comes while pages are sent, is
  not reported: the opcode is taken for an event (`mss_comblk.c:617-630`), and the status alone is
  ignored in `COMBLK_WAIT_RESPONSE`. `IspReported` therefore says "at most once, with the right
  status", and nothing says "at last".

### Bounds, and why they are enough

* `MaxCommands` 3 or 4: an operation leaves to the next one only `page_idx`, the buffers, the
  geometry, the status, the pins and the state of the chips, so a property that relates two
  operations needs the one that sets the state (selection, parameter page) and two more.
* Pages of 3 bytes: the first, a middle and the last byte of each loop. The 16-bit page has 3
  words. `ParamBytes` 102 is the shortest parameter page that holds every byte decoded.
* `t_prog` and `t_bers` are 6 and 7 instead of 60 000 and 70 000 clocks. The code only counts them
  down. A chip may end a program at any time, before or after t_prog, and an erase after at most
  `EraseMax` = 7 clocks, as the fixed wait of the code requires.
* `HostBytes` gives one byte per index, so a byte in the wrong cell or on the wrong cycle is seen.
* `MaxResets` 1: a reset restores the whole of the units and, one clock later, the FSM.
* Sizes that a parameter page reports are added without wrapping at 2^32: pages of the runs are
  small, and the lemmas are about natural numbers.
* `driver`: two rows that differ in plane, page and block and at the ends of their fields; pages of
  3 bytes, with writes and reads that begin at and after the first column; a byte value tells the
  call and the place it comes from. Four calls: nand_init, two that leave something, one that may
  trip over it. One reset at any access.
* `hpdma`: sizes below, at and above four descriptors, and 8, the largest that keeps to them. Two
  transfers, since all globals are set anew by a start.
* `services`: a FIFO of three words is shorter than the first page and than the longest answer, so
  both are cut in every way. Three calls: one of each kind in any order, ISP last and not first.
* Deadlock is checked in the runs of `NandFlash` and `ApbWrapper`, where the clock can always tick.
  The others stop when their calls are used up.

### Fairness

`NandFlash`: weak fairness of `Clock` (the oscillator runs) and, per chip, of `GoBusy` and
`BecomeReady` (a chip ends what it does; ONFI bounds both). Nothing is assumed of the host.
`ApbWrapper`: weak fairness of `Clock`, of the CPU making its next access while it polls, and of
the end of an operation. 
`NandDriver`: the CPU goes on with a call it has begun, and the controller ends each command
(`OperationEnds` of `NandFlash`). `Hpdma`: the controller goes on unless it is stopped, interrupts
are taken, a call goes on, and the application resumes what it has paused; nothing makes it start
or abort a transfer. `SysServices`: the system controller serves, interrupts are taken, and a call
goes on. Fairness is used for the liveness properties only.

## 4. Proofs

`NandMaster_proofs` has the lemmas about one clock edge: what `LowByte`, `HighByte`,
`SetHighByte`, `Fetch` and `Store` return; that a tick of each unit keeps its type and can
only become active if it is activated; that each FSM state keeps the types; that at most one
activation is raised at a time (`OneActivation`); and that an operation which raises one goes to
`M_WAIT` in the same clock, a page read's address byte excepted (`ActivationIsAwaited`).

| Theorem | Assumes | Says |
| --- | --- | --- |
| `NandFlash_proofs`: `TypeCorrect` | - | `Spec => []TypeInvariant` |
| `UnitsDisciplined`, `StrobesExclusive` | 23 is not in `Commands` | `Spec => []UnitDiscipline`, `Spec => []OneUnitAtATime` |
| `BusHeld` | the same | `Spec => BusStable` |
| `ActivationsTaken` | the same, and `HostEarly = FALSE` | `Spec => []NoActivationLost` |
| `StatusFollowsPins` | 2 is not in `Commands` | `Spec => []StatusTellsPins` |
| `AccessesInBounds` | - | `Spec /\ []Fits => []IndexInBounds` |
| `DefaultsInBounds` | 2 is not in `Commands` | `Spec => []IndexInBounds` |
| `OperationsOnBus` | 23 is not in `Commands`, `HostEarly = FALSE` | `Spec /\ []Regular => OperationInOrder` |
| `DefaultOperationsOnBus` | the same, and 2 is not in `Commands` | `Spec => OperationInOrder` |
| `NandFlash_timing`: `DataTimely` | 23 is not in `Commands`, `HostEarly = FALSE` | `Spec => DataAfterAddress` |
| `TimingInvariant` | `Assumed`, `MaxResets = 0` | `Spec => []Inv`, with `TimingInv` |
| `ChipsLeftAlone`, `DoneAtIdle`, `ReadsTimely` | the same | `Spec => NoLatchWhileBusy`, `Spec => []IdleMeansDone`, `Spec => ReadsAreTimely` |
| `TransfersFaithful` | the same, `HoldsBus = TRUE`, `t_rea >= 2` | `Spec /\ []Regular => []TransferFaithful` |
| `DefaultTransfersFaithful` | the same, and 2 is not in `Commands` | `Spec => []TransferFaithful` |

But for the last four rows they hold for every timing, geometry, word sent by the chips, set of host bytes and
number of resets; the only facts about the constants are `TimingAssumption`, `GeometryAssumption` and
`HostAssumption`, which TLC evaluates in each run. Command 23 is the raw read of the bus, which
returns before its strobe ends; `HostEarly = FALSE` says that the host waits for the units.

`Fits` says that the page and the address bytes of the geometry in use fit `page_data` and
`current_address`. After a reset it holds; it can only be lost by the decoding of a parameter page,
whose numbers the code compares with nothing. That is why it is a hypothesis about the behaviour,
and why a host without command 2 does not need it. `Regular` adds one address byte or more: with
none, `MS_SUBMIT_COMMAND` of a page read and of a program submits a byte all the same.

`Assumed` is what the waits of the FSM take for granted. Of the delays (`Timely`): `t_rr <= t_whr <= t_wb`,
`t_wp <= 7`, and no erase longer than `t_bers`, since the FSM counts an erase down and does not look at
R/B# after it. `onfi_package.v` has 4, 12, 20 and 5 clocks. Of the host: no bypass command (20 to 23), and no
command before the units are ready. `MaxResets = 0` says that the reset pin stays high. Without one of
these the properties fail, as the list above shows for the bypass, for a longer erase and for the
reset. How long programs, page reads and the other operations take is left open, and so are the
delays themselves. The runs `transfer` and `program` satisfy all of it. A transfer needs two things
more: pads that keep the word when RE# rises, since the reading unit samples the bus in the clock after that
(`floating` shows what happens without), and a RE# that is low for two clocks or more (`onfi_package.v`
has 4): with one clock `delay` would never be 2, which is when the unit samples.

| Theorem | Assumes | Says |
| --- | --- | --- |
| `ApbWrapper_proofs`: `TypeCorrect`, `ReturnsWhenDone` | the poll tests the busy bit, PREADY is low at power-up | `Spec => []TypeInvariant`, `Spec => []ReturnMeansDone` |
| `ReadsFresh` | the same | `Spec => DataIsFresh` |
| `NandDriver_proofs`: `AddressRoundTrip` | an address in the range of `nand.h` | the chip decodes the five bytes to that address |
| `Protected` | the poll tests the busy bit | `Spec => []ProtectedOutsideWrites` |
| `AskedPageChanges` | the same | `Spec => OnlyAskedPageChanges` |
| `TypeCorrect`, `StoresAsked` | the same, and `CallsFit` | `Spec => []TypeInvariant`, `Spec => StoresPages` |
| `Hpdma_proofs`: `TypeCorrect` | no interrupt inside a call of the driver | `Spec => []TypeInvariant` |
| `EightChunksInBounds` | the same, and sizes of 1 to 8 chunks | `Spec => []DescriptorsInBounds` |
| `DeliveredInOrder`, `ReportedOnce`, `AtRest` | `Scope`: the same, and a restart from the handler only after a completion | `Spec => []ChunksInOrder`, `[]OutcomeOnce`, `[]StoppedMeansQuiet` |
| `SysServices_proofs`: `TypesHold`, `BitstreamReachesController` | - | `Spec => []TypeInvariant`, `Spec => []BitstreamInOrder` |
| `EventsReachApplication` | the opcodes of the events are those that `asynchronous_event_handler` knows | `Spec => []EventsDelivered` |
| `SysServices_answers`: `ServicesReturnAnswers` | no event has the opcode of a service | `Spec => []AnswersMatch` |
| `ServicesReportIsp` | the same, and `IspLast`: ISP comes behind another service and is the last one | `Spec => []IspReported` |

They hold for every set of commands, calls, pages, sizes, errors and restarts, every number of
calls and resets, and for the system services every bitstream and depth of the FIFOs. The assumptions are those without which TLC finds the property violated:
`CallsFit` says that reads and writes end inside the page, and that writes end where the page ends
(the finding of run `driver_stale`); the run `driver` satisfies it. An event with the opcode of a service
would be taken for the answer; `IspLast` is the choice of the run `services`, and the list above says what
happens without it. With nine chunks, or with a
transfer started from the error handler, descriptors of two transfers are in the ring at once.

### The arguments

`OneUnitAtATime` is not inductive: nothing in it says where the FSM is when a unit is active.
`UnitDiscipline` adds that. Outside `M_WAIT` no unit is active, but for the clock between
`MS_SUBMIT_COMMAND` and `MS_SUBMIT_ADDRESS` of a page read, in which the address unit has
just started; `M_WAIT` is left only when all are done; a unit that has left its initialisation is
not on its way back; and commands start only when all have left it. Run `reset` checks it. With the
bypass read among the commands it does not hold: that operation does not wait for its strobe.
`BusHeld` adds that the units leave their initialisation in the same clock (`InitTogether`), so
that a strobe that ends cannot meet one that begins: the multiplexer of CLE, ALE and the word then
follows one unit until its WE# is high.

`StatusTellsPins` becomes inductive with what the FSM is about to do: `StatusInv` adds that no
state, waiting or to be returned to, is the parameter page read.

`IndexInBounds` is about the substates that touch a memory. `IndexInv` follows the counters through
the others, and through `M_WAIT` and `M_DELAY`: a loop that counts `byte_count` down or up and
walks `page_idx` keeps their sum, or their difference, with either bus width.

`OperationInOrder` is a refinement: `op`, `cycles` and `reads` are functions of the history, and
each step of the core is a step of `FlashOperation` or leaves them alone. What makes it inductive is
`OperationInv`: for each operation and each substate, how many cycles of the plan and how many reads have
been handed to the units (`Standing`). All of these have happened on the bus, except that the last
cycle is still under way while WE# is low, and is then the one that the bus carries. A step of
`FlashOperation` is a rise of WE# or a fall of RE#. A rise happens in `M_WAIT`, or for the first byte of a page
read beside the FSM; the stage says which cycle it is, `BusHeld` that it did not change, and
`NoActivationLost` that the unit took it. The end of the operation needs the last stage, with WE#
high, which `M_WAIT` provides.

The timing properties relate what the FSM has left in `delay` to the age of an event outside it. `DataAfterAddress` needs
little (`DataInv`): the FSM is in `M_DELAY` of a program until `we_age + delay` passes `t_adl`. The
others need `TimingInv`. `Watched` says of a chip that is not ready that the FSM is in one of eight
places (`Awaited`): in `M_WAIT` with so much of `delay` left that R/B# will have fallen before it is looked at
(`Settled`), in `M_DELAY` with more of it left than the erase takes (`Erasing`), or in a substate that leads
there. `OnBus` says which command is on the bus and where the FSM goes after it, since the cycle
that is latched decides whether a chip becomes busy: FFh, 30h, 10h and D0h do, and an address does after ECh, which
is why `Commanded` follows the command each chip has. `Rested` follows the age of WE# and of R/B# through
`MS_WAIT_tRR` and `MS_READ_DATA0`. A wait of `t_wb` begins when `M_WAIT` has seen the strobe end, except
after FFh: there one `M_WAIT` does both, its `t_wb + 8` clocks run from the activation, and they must
outlast the strobe by `t_wb`; hence `t_wp <= 7`.

`ReturnMeansDone` needs to know where a command is: on the bus, behind the trigger, at the core's
input, or in the core. `Stages` says it is in one place, and that the firmware is in the access or the
poll meanwhile; `Accounted` that every command written has been executed but for that one, with its
byte; `Handshake` ties the wrapper's place to the phase of the bus; `Fresh` says whose output
`data_out` is.

`ProtectedOutsideWrites` is about the rest of a script: `ProtectInv` says that once WP# is high, or
a command to raise it is on its way, what is left of the call is that of a write and still holds the
command to lower it. Each script is shown to be balanced in this sense; the controller must be idle
when the call returns, which is where the poll is used.

`StoresPages` needs more: what the controller holds when the program or the page read begins.
`DriverInv` counts the accesses that a call has made: `script` is what remains of `Script(call)`, and
`Settled` says, for each kind of call and each count, which chip is selected, which address bytes
are loaded, which cells of the buffer hold the caller's bytes, and what has been fetched. The
lemmas `Loading` and `Fetching` do the loops, one access at a time. Nothing is assumed of the index,
the address and the buffer at the start of a call, so what resets and earlier calls leave does not matter.
The step of the program maps to the write of `PageStore`, a reset in the middle of it to a
torn write, and the return of a read to an answer about the page it names.

`TransferFaithful` follows one word from the chip to a cell. `ChipTold` says that once the cycles
of the plan are latched the chip answers the command of the operation, and has sent as many words as
there were reads; it is in the history (`OperationInv`) and needs the chip to be ready
when it is read (`TimingInv`). `Taken` says that the reading unit holds the last of these words, or has
yet to sample it while the pads still carry it. `Filled` says that the cells below
`page_idx` hold the words in order, with `IndexInv` for where `page_idx` is. Between the fall of RE# and the
store lie the states of the unit and `M_WAIT`, and the three hand the word on from one to the next.

`DescriptorsInBounds` needs a count: `Counters` relates the chunks that are left to the last
descriptor used, inside the start loop and after it. With at most 8 chunks, the index passes 4 only
once, and goes back to 0 with the next chunk.

`ChunksInOrder` and its companions rest on the ring. `RingInv` looks at the four descriptors from the one
whose interrupt is next: first those that are finished and not acknowledged, then those that wait,
in the order of their chunks, then the free ones; what is delivered is what the finished and the
acknowledged ones name, and the chunks that are in no descriptor are those the driver still
counts. Inside the handler and inside the start loop the picture is the same, one assignment
off. An abort or an error keeps the order but not the count: while its loop runs, the descriptors it has
cleared are free (`Cleared`) and the controller may still deliver from those it has not. Once a transfer is over the ring is free and
the controller at rest (`Over`), from which the next transfer starts.

`EventsDelivered` is about a sequence: what the application was told, followed by the events among
the words that wait in the receive FIFO, is what was raised (`Kept`). The interrupt takes one word, and
each way through the handler tells the application that word if it is an event and nothing otherwise, in
whichever state of the driver; a send appends to the FIFO.

`BitstreamInOrder` has three parts. `Turns` says whose turn it is: a completion ends the request it
belongs to, the transmit interrupt is off while a command is written, and after a granted ISP no other
request is. `Ordered` says that what the controller got, then what waits in the FIFO behind the
command, then what the driver has left to send, is the pages of the bitstream. Types are the third.
The modules' sequences are handled without induction over data: a statement about every prefix of a
sequence is one about a set of numbers, which has a least element, and the lemmas on `SelectSeq` and
`FlattenSeq` with one more element are shown in this way.

`AnswersMatch` needs to know where an exchange is (`Exchange`): nothing asked (`Resting`), the command
under way (`Asking`, `Awaiting`), the answer under way (`Receiving`), or received (`Complete`). It looks at
`Incoming`: the words in the receive FIFO that are no events, and then those that the controller has yet to send.
Before the answer these are `Harmless`: data, and at most the opcode of a power-on error, which the driver passes by
while it waits. Then they end with the words of the answer (`Ends`), of which the first ones may already be bytes
of the response (`Collecting`). Events may stand between any two of them, and the driver takes them for nothing
else. A byte F1h of the buffer's address ends the answer too early: the service is `CutOff`, waits for
ever and so returns nothing wrong.

`IspReported` follows the one request that nothing waits for (`Reporting`): `IspBegins` while its
command is written, `IspGoes` while pages are sent or all have been, `IspEnds` once the controller has answered, with
either word of the answer still to come and the driver in any of the three states in which they can meet it, and
`IspDone`. A status may be lost on the way from `IspGoes` to `IspEnds`, but is never reported
twice or by another's. `Counted` relates the calls to the answers, and `Emptied` says that an earlier
service has taken all that a power-on left, which is why ISP must not be the first.

### Only model-checked

* Liveness (`OperationEnds`, `CallsReturn`, `TransferEnds`): it needs ENABLED and fairness.

Every other property of a passing run is stated by a theorem, under the assumptions in the tables.

## 5. Not modelled

* Time inside a clock: setup and hold of the data against WE# are seen as stability over clocks.
* The branch of the wrapper for `!init_done`: in this system `init_done` and the release of
  PRESETn are the same signal, so it is not reached.
* CoreAPB3, CoreResetP and the generated SoC: vendor and generated code. Only their effect is used
  (one clock, a long reset, an APB master that waits for PREADY).
* The NVM, UART and timer drivers: nothing in the flash driver calls them, and they are
  straight-line register programming for devices that the repository does not describe. (Two things
  noticed in reading `mss_uart.c`: `MSS_UART_disable_irq` sets the bits it should clear, and the
  check in `MSS_UART_set_loopback` joins its conditions with `||`.)
* The forty system services that differ from the three modelled ones in opcode, arguments and
  response length; Flash*Freeze, the clock divisors and IAP, which program clocks or end with a reset of
  the device; and `COMBLK_TX_DATA`, which no caller reaches. A command longer than the FIFO would
  wait for ever, since `MSS_COMBLK_send_cmd` does not enable the transmit interrupt
  (`mss_comblk.c:249`); the modelled commands have two words at most (that of IAP
  has an opcode and five bytes).
* CMSIS and the HAL: register layouts, constants and single loads and stores. The header files
  (`m2sxxx.h`, `mss_uart.h`, `mss_sys_services.h`) and a second copy of the whole firmware under
  `src/HW/Libero_Project/firmware/` are most of the C in the repository; they hold declarations and
  comments. The logic is in the 1,300 lines of Verilog in `hdl/` and in `nand.c`, `mss_hpdma.c`,
  `mss_comblk.c` and the end of `mss_sys_services.c`, and that is what is modelled.
* The testbenches and the synthesis results.
* A program or an erase that fails, and erased blocks in `NandDriver`: `nand.c` has no call that
  erases, and none that reads the chip's status.
* The memory of the caller: `main.c:15` gives 255 bytes to a call that stores 256.

## 6. What is left

* A geometry from the parameter page that exceeds the buffers (hazard at `nand_master.v:669`): the
  code says nothing of what it should do.
