-------------------------------- MODULE IoUnit --------------------------------
(***************************************************************************)
(* io_unit.v: one strobe of WE# (io_type IO_WRITE) or of RE# (IO_READ).    *)
(* init_complete is state # "IO_INIT", as in LatchUnit.                    *)
(***************************************************************************)
EXTENDS Integers

CONSTANTS
  IsWrite,      \* io_type = IO_WRITE
  t_low,        \* t_wp for a writer, t_rea for a reader
  t_high,       \* t_wh for a writer, t_reh for a reader
  InitCycles
VARIABLE io

IoStates == {"IO_INIT", "IO_IDLE", "IO_HOLD", "IO_DELAY"}

PowerOn == [state |-> "IO_INIT", n_state |-> "IO_INIT", delay |-> 0,
            init_counter |-> 0, data_reg |-> 0]

IoType(Word) ==
  io \in [state : IoStates, n_state : IoStates, delay : Nat,
          init_counter : 0..InitCycles, data_reg : Word]

-----------------------------------------------------------------------------
(* Outputs *)

busy == io.state # "IO_IDLE"

active == io.state \notin {"IO_IDLE", "IO_INIT"}

\* The strobe: WE# of a writer, RE# of a reader.
io_ctrl == IF io.state = "IO_DELAY" /\ io.n_state = "IO_HOLD" THEN 0 ELSE 1

-----------------------------------------------------------------------------
(* One clock edge *)

Initialise ==
  /\ io.state = "IO_INIT"
  /\ io' = IF io.init_counter < InitCycles
             THEN [io EXCEPT !.init_counter = @ + 1, !.delay = 0, !.data_reg = 0,
                             !.n_state = "IO_INIT"]
             ELSE [io EXCEPT !.state = "IO_IDLE", !.n_state = "IO_IDLE"]

\* A writer follows its input until it is activated; a reader keeps its byte.
Idle(activate, data_in) ==
  /\ io.state = "IO_IDLE"
  /\ LET loaded == IF IsWrite THEN [io EXCEPT !.data_reg = data_in] ELSE io
     IN  io' = IF activate
                 THEN [loaded EXCEPT !.state = "IO_DELAY", !.n_state = "IO_HOLD",
                                     !.delay = t_low]
                 ELSE loaded

Hold ==
  /\ io.state = "IO_HOLD"
  /\ io' = [io EXCEPT !.state = "IO_DELAY", !.n_state = "IO_IDLE", !.delay = t_high]

Samples_never == ~IsWrite /\ io.state = "IO_DELAY" /\ io.delay = 0

\* A reader samples the bus when two cycles of a delay are left, of the delay
\* with RE# high too.
Samples == ~IsWrite /\ io.state = "IO_DELAY" /\ io.delay = 2

Delay(data_in) ==
  /\ io.state = "IO_DELAY"
  /\ io' = IF io.delay > 1
             THEN [io EXCEPT !.delay = @ - 1,
                             !.data_reg = IF Samples THEN data_in ELSE @]
             ELSE [io EXCEPT !.state = io.n_state]

Tick(activate, data_in) ==
  Initialise \/ Idle(activate, data_in) \/ Hold \/ Delay(data_in)

\* A unit that has left IO_INIT is not on its way back.
InitOnce == io.n_state = "IO_INIT" => io.state = "IO_INIT"
=============================================================================
