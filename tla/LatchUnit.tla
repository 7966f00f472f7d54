------------------------------ MODULE LatchUnit ------------------------------
(***************************************************************************)
(* latch_unit.v: one strobe of WE# with CLE or ALE raised around it. The   *)
(* master instantiates it twice, for commands and for addresses; the two   *)
(* differ only in how long the value is held after WE# rises.              *)
(*                                                                         *)
(* The registers of a unit are the fields of one record. init_complete is  *)
(* not kept: the RTL sets it on leaving LATCH_INIT and clears it on        *)
(* entering it, so it is state # "LATCH_INIT".                             *)
(***************************************************************************)
EXTENDS Integers

CONSTANTS t_wp, t_hold, InitCycles
VARIABLE latch

PowerOn == [state |-> "LATCH_INIT", n_state |-> "LATCH_INIT",
            delay |-> 0, init_counter |-> 0]

LatchStates == {"LATCH_INIT", "LATCH_IDLE", "LATCH_HOLD", "LATCH_WAIT", "LATCH_DELAY"}

LatchType ==
  latch \in [state : LatchStates, n_state : LatchStates,
             delay : Nat, init_counter : 0..InitCycles]

-----------------------------------------------------------------------------
(* Outputs *)

busy == latch.state # "LATCH_IDLE"

\* A strobe is in progress: busy, and not because of the initialisation.
active == latch.state \notin {"LATCH_IDLE", "LATCH_INIT"}

latch_ctrl ==
  \/ latch.state = "LATCH_HOLD"
  \/ latch.state = "LATCH_DELAY" /\ latch.n_state \in {"LATCH_HOLD", "LATCH_WAIT"}

write_enable ==
  IF latch.state = "LATCH_DELAY" /\ latch.n_state = "LATCH_HOLD" THEN 0 ELSE 1

presents_late == latch.state = "LATCH_HOLD"

\* data_out carries data_in (otherwise it is zero).
presents ==
  /\ latch.state \in {"LATCH_HOLD", "LATCH_DELAY"}
  /\ latch.n_state # "LATCH_IDLE"

-----------------------------------------------------------------------------
(* One clock edge *)

Initialise ==
  /\ latch.state = "LATCH_INIT"
  /\ latch' = IF latch.init_counter < InitCycles
                THEN [latch EXCEPT !.init_counter = @ + 1, !.delay = 0,
                                   !.n_state = "LATCH_INIT"]
                ELSE [latch EXCEPT !.state = "LATCH_IDLE", !.n_state = "LATCH_IDLE"]

Idle(activate) ==
  /\ latch.state = "LATCH_IDLE"
  /\ latch' = IF activate
                THEN [latch EXCEPT !.state = "LATCH_DELAY", !.n_state = "LATCH_HOLD",
                                   !.delay = t_wp]
                ELSE latch

Hold ==
  /\ latch.state = "LATCH_HOLD"
  /\ latch' = [latch EXCEPT !.state = "LATCH_DELAY", !.n_state = "LATCH_WAIT",
                            !.delay = t_hold]

Release ==
  /\ latch.state = "LATCH_WAIT"
  /\ latch' = [latch EXCEPT !.state = "LATCH_IDLE", !.n_state = "LATCH_IDLE"]

Delay_past_zero ==
  /\ latch.state = "LATCH_DELAY"
  /\ latch' = IF latch.delay >= 0 THEN [latch EXCEPT !.delay = @ - 1]
                                  ELSE [latch EXCEPT !.state = latch.n_state]

Delay ==
  /\ latch.state = "LATCH_DELAY"
  /\ latch' = IF latch.delay > 1 THEN [latch EXCEPT !.delay = @ - 1]
                                 ELSE [latch EXCEPT !.state = latch.n_state]

Tick(activate) == Initialise \/ Idle(activate) \/ Hold \/ Release \/ Delay

\* A unit that has left LATCH_INIT is not on its way back.
InitOnce == latch.n_state = "LATCH_INIT" => latch.state = "LATCH_INIT"
=============================================================================
