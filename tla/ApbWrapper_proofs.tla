-------------------------- MODULE ApbWrapper_proofs --------------------------
(***************************************************************************)
(* Theorems about ApbWrapper: the busy poll is sound and reads are fresh,  *)
(* for any number of calls and resets, if the mask of the poll is the busy *)
(* bit and PREADY comes up low.                                            *)
(***************************************************************************)
EXTENDS ApbWrapper, TLAPS

Codes == Operations \union Registers

Entries == [cmd : Codes, data : Nat]
Cores == [state : {"M_IDLE", "MI", "M_NAND", "M_RESET"}, cmd : Codes \union {NoCommand}]

BusType ==
  /\ bus \in [phase : {"idle", "setup", "access"}, write : BOOLEAN,
              reg : {"STATUS", "DATA", "CMD"}, value : Nat]
  /\ bus.reg = "CMD" => bus.write /\ bus.value \in Codes
  /\ bus.reg = "STATUS" => ~bus.write

Types ==
  /\ TypeInvariant /\ BusType /\ core \in Cores
  /\ sent \in Seq(Entries) /\ done \in Seq(Entries)

\* Where the wrapper waits, the phase of the bus and the firmware go together.
Handshake ==
  /\ PREADY = 1 <=> at # "top"
  /\ at # "top" => bus.phase = "access" /\ (at = "write" <=> bus.write)
  /\ bus.phase # "idle" =>
       firmware = "access" \/ (firmware = "poll" /\ bus.reg = "STATUS")
  /\ bus.phase = "idle" => firmware # "access"

\* A command is in one place at a time, and the firmware polls until it has run.
Stages ==
  /\ trigger_activate_next_cycle =>
       /\ ~core_activate /\ core.state = "M_IDLE"
       /\ \/ at = "write" /\ firmware = "access" /\ bus.reg = "CMD"
          \/ at = "top" /\ bus.phase # "access" /\ firmware = "poll"
  /\ core_activate => at = "top" /\ firmware = "poll" /\ core.state = "M_IDLE"
  /\ core.state \in {"MI", "M_NAND"} => firmware = "poll"
  /\ at = "write" /\ bus.reg = "CMD" => trigger_activate_next_cycle
  /\ core.state = "M_RESET" => firmware = "return"

Asked == firmware = "access" /\ at = "top" /\ bus.reg = "CMD"
Underway == Asked \/ trigger_activate_next_cycle \/ core_activate \/ core.state = "MI"

\* The command underway.
Current ==
  IF core.state = "MI" THEN core.cmd
  ELSE IF trigger_activate_next_cycle \/ core_activate THEN core_cmd_in
  ELSE bus.value

\* Every command written has been executed, but for the one underway.
Accounted ==
  /\ Underway => Current \in Codes /\ sent = Append(done, [cmd |-> Current, data |-> written])
  /\ ~Underway => sent = done
  /\ IF firmware = "access" /\ at = "top" /\ bus.reg = "DATA" /\ bus.write
       THEN bus.value = written ELSE core_data_in = written

Outputs(s) == {i \in DOMAIN s : s[i].cmd \in Registers}

\* data_out is that of the last register command executed.
Fresh == Outputs(done) # {} => data_out \in Outputs(done) /\ \A j \in Outputs(done) : j <= data_out

Inv == Types /\ Handshake /\ Stages /\ Accounted /\ Fresh

-----------------------------------------------------------------------------
\* The three ways in which the master moves.
LEMMA MasterMoves ==
  ASSUME Master, TypeInvariant
  PROVE  /\ written' \in {written, calls + 1} /\ calls' \in {calls, calls + 1}
         /\ taken' \in {taken, data_out}
         /\ sent' = sent \/ \E c \in Codes : sent' = Append(sent, [cmd |-> c, data |-> written])
         /\ firmware' \in {"return", "access", "poll"}
         /\ \/ bus' = [bus EXCEPT !.phase = "access"]
            \/ \E c \in Codes : bus' = Transfer(TRUE, "CMD", c)
            \/ bus' \in {Transfer(TRUE, "DATA", calls + 1), Transfer(FALSE, "DATA", 0),
                         Transfer(FALSE, "STATUS", 0), NoTransfer}
<1>1. CASE Call BY <1>1 DEF Master, Call, Codes, TypeInvariant
<1>2. CASE Poll BY <1>2 DEF Master, Poll, TypeInvariant
<1>3. CASE Rest
  BY <1>3 DEF Master, Rest, after_access, TypeInvariant
<1>4. CASE UNCHANGED <<firmware, written, sent, calls>> /\ bus' = [bus EXCEPT !.phase = "access"]
  BY <1>4 DEF Master, TypeInvariant
<1> QED BY <1>1, <1>2, <1>3, <1>4 DEF Master

LEMMA TransferTypes ==
  ASSUME BusType,
         \/ bus' = [bus EXCEPT !.phase = "access"]
         \/ \E c \in Codes : bus' = Transfer(TRUE, "CMD", c)
         \/ bus' \in {Transfer(TRUE, "DATA", calls + 1), Transfer(FALSE, "DATA", 0),
                      Transfer(FALSE, "STATUS", 0), NoTransfer},
         calls \in Nat
  PROVE  BusType'
<1>1. Codes \subseteq Nat BY WrapperAssumption DEF Codes
<1>2. CASE bus' = [bus EXCEPT !.phase = "access"] BY <1>2 DEF BusType
<1>3. CASE \E c \in Codes : bus' = Transfer(TRUE, "CMD", c) BY <1>1, <1>3 DEF BusType, Transfer
<1>4. CASE bus' \in {Transfer(TRUE, "DATA", calls + 1), Transfer(FALSE, "DATA", 0),
                     Transfer(FALSE, "STATUS", 0), NoTransfer}
  <2>1. calls + 1 \in Nat /\ 0 \in Nat OBVIOUS
  <2>2. \A v \in Nat : bus' = Transfer(TRUE, "DATA", v) => BusType' BY DEF BusType, Transfer
  <2>3. bus' = Transfer(FALSE, "DATA", 0) => BusType' BY <2>1 DEF BusType, Transfer
  <2>4. bus' = Transfer(FALSE, "STATUS", 0) => BusType' BY <2>1 DEF BusType, Transfer
  <2>5. bus' = NoTransfer => BusType' BY <2>1 DEF BusType, NoTransfer
  <2> QED BY <1>4, <2>1, <2>2, <2>3, <2>4, <2>5
<1> QED BY <1>2, <1>3, <1>4

LEMMA CoreTypes ==
  ASSUME CoreTick, core \in Cores, core_cmd_in \in Codes \union {NoCommand},
         data_out \in Nat, Len(done) \in Nat
  PROVE  core' \in Cores /\ data_out' \in Nat
<1>1. CASE core.state = "M_IDLE" BY <1>1 DEF CoreTick, Cores
<1>2. CASE core.state = "MI" BY <1>2 DEF CoreTick, Cores
<1>3. CASE core.state = "M_NAND" BY <1>3 DEF CoreTick, Cores
<1>4. CASE core.state = "M_RESET" BY <1>4 DEF CoreTick, Cores
<1> QED BY <1>1, <1>2, <1>3, <1>4 DEF CoreTick

LEMMA WrapperTypes ==
  ASSUME TypeInvariant, BusType, Clock
  PROVE  /\ core_cmd_in' \in Codes \union {NoCommand} /\ core_data_in' \in Nat
         /\ at' \in {"top", "write", "read"} /\ PREADY' \in {0, 1}
         /\ {core_activate', trigger_activate_next_cycle'} \subseteq BOOLEAN
BY DEF Clock, TypeInvariant, BusType, Codes, WrapperTick, Accept, Complete, StartRead, selects,
       write_strobe

LEMMA TypesStep ==
  ASSUME Inv, Clock
  PROVE  Types'
<1>1. Types BY DEF Inv
<1>2. /\ TypeInvariant /\ BusType /\ core \in Cores
      /\ sent \in Seq(Entries) /\ done \in Seq(Entries)
      /\ calls \in Nat /\ data_out \in Nat /\ Len(done) \in Nat
      /\ {core_data_in, written, taken, resets} \subseteq Nat
      /\ core_cmd_in \in Codes \union {NoCommand}
  <2>1. Types => done \in Seq(Entries) BY DEF Types
  <2> QED BY <1>1, <2>1 DEF Types, TypeInvariant, Codes
<1>3. CoreTick /\ Master /\ resets' = resets BY DEF Clock
<1>4. done' \in Seq(Entries)
  <2>1. CASE core.state = "MI"
    <3>1. core.cmd \in Codes BY <2>1 DEF Inv, Accounted, Underway, Current
    <3>2. [cmd |-> core.cmd, data |-> core_data_in] \in Entries BY <3>1, <1>2 DEF Entries
    <3>3. done' = Append(done, [cmd |-> core.cmd, data |-> core_data_in])
      BY <2>1, <1>3 DEF CoreTick, Execute
    <3> QED BY <3>2, <3>3, <1>2
  <2>2. CASE core.state # "MI" BY <2>2, <1>2, <1>3 DEF CoreTick
  <2> QED BY <2>1, <2>2
<1>5. sent' \in Seq(Entries)
  <2>1. \A c \in Codes : [cmd |-> c, data |-> written] \in Entries BY <1>2 DEF Entries
  <2>2. sent' = sent \/ \E c \in Codes : sent' = Append(sent, [cmd |-> c, data |-> written])
    BY <1>2, <1>3, MasterMoves
  <2>3. sent \in Seq(Entries) BY <1>2
  <2>4. ASSUME NEW c \in Codes, sent' = Append(sent, [cmd |-> c, data |-> written])
        PROVE  sent' \in Seq(Entries)
    <3>1. [cmd |-> c, data |-> written] \in Entries BY <2>1
    <3> QED BY <3>1, <2>3, <2>4
  <2> QED BY <2>2, <2>3, <2>4
<1>6. core' \in Cores /\ data_out' \in Nat BY <1>2, <1>3, CoreTypes
<1>7. BusType' BY <1>2, <1>3, MasterMoves, TransferTypes
<1>8. {written', taken', calls', resets'} \subseteq Nat /\ firmware' \in {"return", "access", "poll"}
  BY <1>2, <1>3, MasterMoves
<1>9. TypeInvariant'
  BY <1>2, <1>6, <1>7, <1>8, WrapperTypes DEF TypeInvariant, BusType, Cores, Codes
<1> QED BY <1>4, <1>5, <1>6, <1>7, <1>9 DEF Types

LEMMA HandshakeStep ==
  ASSUME Inv, Clock, Busy_bit = 1
  PROVE  Handshake'
<1>0. TypeInvariant /\ BusType /\ Handshake BY DEF Inv, Types
<1>1. PREADY' = 1 <=> at' # "top"
  BY <1>0 DEF Clock, WrapperTick, Accept, Complete, StartRead, Handshake, TypeInvariant
<1>2. at' # "top" => bus'.phase = "access" /\ (at' = "write" <=> bus'.write)
  BY <1>0 DEF Clock, WrapperTick, Accept, Complete, StartRead, Handshake, TypeInvariant, BusType,
         Master, finished, write_strobe, read_strobe
<1>3. /\ bus'.phase # "idle" =>
            firmware' = "access" \/ (firmware' = "poll" /\ bus'.reg = "STATUS")
      /\ bus'.phase = "idle" => firmware' # "access"
  <2>1. CASE ~(bus.phase = "idle" \/ finished)
    BY <1>0, <2>1 DEF Clock, Master, Handshake, BusType
  <2>2. CASE Call
    <3>1. firmware' = "access" BY <2>2 DEF Call
    <3>2. bus'.phase = "setup"
      <4>1. \A w, reg, value : Transfer(w, reg, value).phase = "setup" BY DEF Transfer
      <4> QED BY <2>2, <4>1 DEF Call
    <3> QED BY <3>1, <3>2
  <2>3. CASE Poll BY <2>3 DEF Poll, Transfer
  <2>4. CASE Rest /\ (bus.phase = "idle" \/ finished)
    BY <1>0, <2>4 DEF Rest, NoTransfer, after_access, Handshake
  <2> QED BY <2>1, <2>2, <2>3, <2>4 DEF Clock, Master
<1> QED BY <1>1, <1>2, <1>3 DEF Handshake

LEMMA AfterAccess ==
  /\ ~finished => after_access = firmware
  /\ finished /\ firmware = "access" => after_access = "poll"
  /\ finished /\ core.state # "M_IDLE" /\ Busy_bit = 1 => after_access = "poll"
<1>1. ~finished => after_access = firmware BY DEF after_access
<1>2. finished /\ (firmware = "access" \/ wait_busy(IF core_busy THEN 1 ELSE 0))
        => after_access = "poll"
  BY Zenon DEF after_access
<1>3. core.state # "M_IDLE" => (IF core_busy THEN 1 ELSE 0) = 1 BY DEF core_busy
<1>4. core.state # "M_IDLE" /\ Busy_bit = 1 => wait_busy(IF core_busy THEN 1 ELSE 0)
  BY <1>3 DEF wait_busy
<1> QED BY <1>1, <1>2, <1>4

\* While a command is underway past the write of CMD_REG, the firmware goes on polling.
LEMMA KeepsPolling ==
  ASSUME Inv, Clock, Busy_bit = 1,
         \/ core.state \in {"MI", "M_NAND"}
         \/ core_activate \/ trigger_activate_next_cycle
  PROVE  firmware' = "poll"
<1>1. TypeInvariant /\ Handshake /\ Stages /\ Master BY DEF Inv, Types, Clock
<1>2. after_access = "poll" \/ (~(bus.phase = "idle" \/ finished) /\ firmware = "poll")
  <2>1. CASE ~finished BY <1>1, <2>1 DEF after_access, finished, Stages, Handshake
  <2>2. CASE finished /\ firmware = "access" BY <2>2, AfterAccess
  <2>3. CASE finished /\ firmware # "access"
    <3>1. at # "top" BY <1>1, <2>3 DEF finished, Handshake
    <3>2. core.state \in {"MI", "M_NAND"} BY <1>1, <2>3, <3>1 DEF Stages
    <3> QED BY <2>3, <3>2, AfterAccess
  <2> QED BY <2>1, <2>2, <2>3
<1>3. CASE after_access = "poll" /\ (bus.phase = "idle" \/ finished)
  BY <1>1, <1>3 DEF Master, Call, Poll, Rest
<1>4. CASE ~(bus.phase = "idle" \/ finished) /\ firmware = "poll" BY <1>1, <1>4 DEF Master
<1>5. CASE after_access = "poll" /\ ~(bus.phase = "idle" \/ finished)
  <2>1. firmware = "poll" BY <1>5, AfterAccess
  <2> QED BY <1>1, <1>5, <2>1 DEF Master
<1> QED BY <1>2, <1>3, <1>4, <1>5

LEMMA StagesStep ==
  ASSUME Inv, Clock, Busy_bit = 1
  PROVE  Stages'
<1>0. TypeInvariant /\ BusType /\ Handshake /\ Stages /\ Master /\ CoreTick /\ WrapperTick
  BY DEF Inv, Types, Clock
<1>1. core'.state \in {"MI", "M_NAND"} => core.state \in {"MI", "M_NAND"} \/ core_activate
  <2>1. core \in Cores BY DEF Inv, Types
  <2> QED BY <1>0, <2>1 DEF CoreTick, Cores
<1>2. core'.state \in {"MI", "M_NAND"} => firmware' = "poll" BY <1>1, KeepsPolling
<1>3. core'.state # "M_RESET"
  <2>1. core \in Cores BY DEF Inv, Types
  <2> QED BY <1>0, <2>1 DEF CoreTick, Cores
<1>4. CASE trigger_activate_next_cycle /\ at = "top"
  <2>1. /\ core_activate' /\ ~trigger_activate_next_cycle' /\ at' = "top"
    BY <1>0, <1>4 DEF WrapperTick, Accept, Complete, Stages, selects, write_strobe, read_strobe
  <2>2. core'.state = "M_IDLE" BY <1>0, <1>4 DEF Stages, CoreTick
  <2>3. firmware' = "poll" BY <1>4, KeepsPolling
  <2> QED BY <2>1, <2>2, <2>3 DEF Stages
<1>5. CASE trigger_activate_next_cycle /\ at # "top"
  <2>1. at = "write" /\ firmware = "access" /\ ~core_activate /\ core.state = "M_IDLE" /\ finished
    BY <1>0, <1>5 DEF Stages, Handshake, finished
  <2>2. UNCHANGED <<core_activate, trigger_activate_next_cycle>> /\ at' = "top"
    BY <1>0, <2>1 DEF WrapperTick, Accept, Complete, Handshake, read_strobe
  <2>3. core'.state = "M_IDLE" BY <1>0, <2>1 DEF CoreTick
  <2>4. firmware' = "poll" BY <1>5, KeepsPolling
  <2>5. bus'.phase # "access"
    <3>1. ~Call BY <2>4 DEF Call
    <3> QED BY <1>0, <2>1, <3>1 DEF Master, Poll, Rest, Transfer, NoTransfer
  <2> QED BY <1>5, <2>1, <2>2, <2>3, <2>4, <2>5 DEF Stages
<1>6. CASE ~trigger_activate_next_cycle
  <2>1. core_activate' => core_activate /\ at # "top"
    BY <1>0, <1>6 DEF WrapperTick, Accept, Complete
  <2>2. ~core_activate' BY <1>0, <2>1 DEF Stages
  <2>3. CASE at = "top" /\ selects("CMD")
    <3>1. trigger_activate_next_cycle' /\ at' = "write"
      BY <1>0, <2>3 DEF WrapperTick, Accept, Complete, selects, write_strobe
    <3>2. firmware = "access" /\ ~finished /\ bus.phase = "access" /\ bus.reg = "CMD"
      BY <1>0, <2>3 DEF Handshake, finished, selects, write_strobe
    <3>3. firmware' = "access" /\ bus' = [bus EXCEPT !.phase = "access"]
      BY <1>0, <3>2 DEF Master
    <3>4. bus'.reg = "CMD" BY <1>0, <3>2, <3>3 DEF BusType
    <3>5. core'.state = "M_IDLE" BY <1>0, <3>2 DEF Stages, CoreTick, TypeInvariant
    <3> QED BY <2>2, <3>1, <3>3, <3>4, <3>5 DEF Stages
  <2>4. CASE ~(at = "top" /\ selects("CMD"))
    <3>1. ~trigger_activate_next_cycle'
      BY <1>0, <1>6, <2>4 DEF WrapperTick, Accept, Complete
    <3>2. at' = "write" /\ bus'.reg = "CMD" => FALSE
      <4> SUFFICES ASSUME at' = "write", bus'.reg = "CMD" PROVE FALSE OBVIOUS
      <4>1. at = "top" /\ write_strobe
        BY <1>0 DEF WrapperTick, Accept, Complete, StartRead
      <4>2. ~finished BY <1>0, <4>1 DEF finished, Handshake
      <4>3. bus' = [bus EXCEPT !.phase = "access"]
        BY <1>0, <4>1, <4>2 DEF Master, write_strobe
      <4> QED BY <1>0, <4>1, <4>3, <2>4 DEF BusType, selects
    <3> QED BY <1>2, <1>3, <2>2, <3>1, <3>2 DEF Stages
  <2> QED BY <2>3, <2>4
<1> QED BY <1>4, <1>5, <1>6

LEMMA AccountedStep ==
  ASSUME Inv, Clock, Busy_bit = 1
  PROVE  Accounted'
<1>0. TypeInvariant /\ BusType /\ core \in Cores /\ Handshake /\ Stages /\ Accounted
      /\ Master /\ CoreTick /\ WrapperTick
  BY DEF Inv, Types, Clock
<1>1. Stages' BY StagesStep
<1>2. CASE Call
  <2>1. ~Underway
    <3>1. after_access = "return" BY <1>2 DEF Call
    <3>2. CASE finished
      <4>1. at # "top" /\ firmware # "access" BY <1>0, <3>1, <3>2 DEF finished, Handshake, after_access
      <4>2. core.state \notin {"MI", "M_NAND"}
        BY <1>0, <3>1, <3>2, <4>1 DEF after_access, finished, wait_busy, core_busy
      <4> QED BY <1>0, <4>1, <4>2 DEF Underway, Asked, Stages
    <3>3. CASE ~finished
      <4>1. firmware = "return" BY <3>1, <3>3 DEF after_access, finished
      <4> QED BY <1>0, <4>1 DEF Underway, Asked, Stages
    <3> QED BY <3>2, <3>3
  <2>2. sent = done /\ core_data_in' = written
    <3>1. firmware # "access" \/ at # "top"
      BY <1>0, <1>2, AfterAccess DEF Call, Handshake, finished
    <3>2. core_data_in = written BY <1>0, <3>1 DEF Accounted
    <3>3. ~(at = "top" /\ write_strobe)
      <4>1. at = "top" => ~finished BY <1>0 DEF Handshake, finished, TypeInvariant
      <4>2. at = "top" => firmware = "return" BY <1>2, <4>1, AfterAccess DEF Call
      <4> QED BY <1>0, <4>2 DEF Handshake, write_strobe
    <3> QED BY <1>0, <2>1, <3>2, <3>3 DEF Accounted, WrapperTick, Accept, Complete, selects, write_strobe
  <2>3. done' = done BY <1>0, <2>1 DEF CoreTick, Underway
  <2>4. at = "top" => bus.phase = "idle"
    <3>1. at = "top" => ~finished BY <1>0 DEF Handshake, finished, TypeInvariant
    <3>2. at = "top" => firmware = "return" BY <1>2, <3>1, AfterAccess DEF Call
    <3> QED BY <1>0, <3>2 DEF Handshake
  <2>5. at' = "top"
    BY <1>0, <2>4 DEF WrapperTick, Accept, Complete, Handshake, write_strobe, read_strobe
  <2>6. ~trigger_activate_next_cycle' /\ ~core_activate'
    <3>1. ~trigger_activate_next_cycle /\ ~core_activate BY <2>1 DEF Underway
    <3>2. at = "top" => ~selects("CMD") BY <2>4 DEF selects, write_strobe
    <3> QED BY <1>0, <3>1, <3>2 DEF WrapperTick, Accept, Complete
  <2>7. core'.state # "MI"
    BY <1>0, <2>1 DEF CoreTick, Cores, Underway
  <2>8. ASSUME NEW cmd \in Codes, bus' = Transfer(TRUE, "CMD", cmd), written' = written,
               sent' = Append(sent, [cmd |-> cmd, data |-> written])
        PROVE  Accounted'
    <3>1. bus'.reg = "CMD" /\ bus'.value = cmd BY <2>8 DEF Transfer
    <3>2. Current' = cmd BY <2>6, <2>7, <3>1 DEF Current
    <3>3. Underway' BY <1>2, <2>5, <3>1 DEF Underway, Asked, Call
    <3> QED BY <2>2, <2>3, <2>8, <3>1, <3>2, <3>3 DEF Accounted
  <2>9. CASE bus' = Transfer(TRUE, "DATA", calls + 1) /\ written' = calls + 1 /\ sent' = sent
    <3>1. bus'.reg = "DATA" /\ bus'.write /\ bus'.value = calls + 1 BY <2>9 DEF Transfer
    <3>2. ~Underway' BY <2>6, <2>7, <3>1 DEF Underway, Asked
    <3>3. firmware' = "access" BY <1>2 DEF Call
    <3> QED BY <2>2, <2>3, <2>5, <2>9, <3>1, <3>2, <3>3 DEF Accounted
  <2>10. CASE bus' = Transfer(FALSE, "DATA", 0) /\ UNCHANGED <<written, sent>>
    <3>1. bus'.reg = "DATA" /\ ~bus'.write BY <2>10 DEF Transfer
    <3>2. ~Underway' BY <2>6, <2>7, <3>1 DEF Underway, Asked
    <3> QED BY <2>2, <2>3, <2>10, <3>1, <3>2 DEF Accounted
  <2> QED BY <1>2, <2>8, <2>9, <2>10 DEF Call, Codes
<1>3. CASE ~Call
  <2>1. UNCHANGED <<written, sent>> BY <1>0, <1>3 DEF Master, Poll, Rest
  <2>2. firmware' = "access" => firmware = "access" /\ at = "top" /\ bus' = [bus EXCEPT !.phase = "access"]
    <3> SUFFICES ASSUME firmware' = "access" PROVE firmware = "access" /\ at = "top"
                        /\ bus' = [bus EXCEPT !.phase = "access"]
      OBVIOUS
    <3>1. ~Poll BY DEF Poll
    <3>2. ~(Rest /\ (bus.phase = "idle" \/ finished))
      <4>1. Rest => after_access = "access" BY DEF Rest
      <4>2. finished => at # "top" BY <1>0 DEF finished, Handshake
      <4>3. finished => after_access # "access" BY DEF after_access
      <4>4. ~finished => after_access = firmware BY AfterAccess
      <4> QED BY <1>0, <4>1, <4>3, <4>4 DEF Handshake
    <3>3. ~(bus.phase = "idle" \/ finished) /\ bus' = [bus EXCEPT !.phase = "access"]
          /\ firmware = "access"
      BY <1>0, <1>3, <3>1, <3>2 DEF Master
    <3> QED BY <1>0, <3>3 DEF finished, Handshake
  <2>3. (IF firmware' = "access" /\ at' = "top" /\ bus'.reg = "DATA" /\ bus'.write
           THEN bus'.value = written' ELSE core_data_in' = written')
    <3>1. CASE firmware = "access" /\ at = "top" /\ bus.reg = "DATA" /\ bus.write
      <4>1. bus.value = written BY <1>0, <3>1 DEF Accounted
      <4>2. ~finished /\ bus.phase # "idle" BY <1>0, <3>1 DEF finished, Handshake
      <4>3. firmware' = "access" /\ bus' = [bus EXCEPT !.phase = "access"]
        BY <1>0, <3>1, <4>2 DEF Master
      <4>4. bus'.reg = "DATA" /\ bus'.write /\ bus'.value = bus.value
        BY <1>0, <3>1, <4>3 DEF BusType
      <4>5. CASE bus.phase = "access"
        <5>1. core_data_in' = bus.value /\ at' = "write"
          BY <1>0, <3>1, <4>5 DEF WrapperTick, Accept, Complete, selects, write_strobe
        <5> QED BY <2>1, <4>1, <5>1
      <4>6. CASE bus.phase # "access"
        <5>1. at' = "top"
          BY <1>0, <3>1, <4>6 DEF WrapperTick, Accept, Complete, write_strobe, read_strobe
        <5> QED BY <2>1, <4>1, <4>3, <4>4, <5>1
      <4> QED BY <4>5, <4>6
    <3>2. CASE ~(firmware = "access" /\ at = "top" /\ bus.reg = "DATA" /\ bus.write)
      <4>1. core_data_in = written BY <1>0, <3>2 DEF Accounted
      <4>2. ~(at = "top" /\ selects("DATA"))
        BY <1>0, <3>2 DEF Handshake, selects, write_strobe
      <4>3. core_data_in' = core_data_in BY <1>0, <4>2 DEF WrapperTick, Accept, Complete
      <4>4. ~(firmware' = "access" /\ bus'.reg = "DATA" /\ bus'.write)
        BY <1>0, <2>2, <3>2 DEF BusType
      <4> QED BY <2>1, <4>1, <4>3, <4>4
    <3> QED BY <3>1, <3>2
  <2>4. core.state # "MI" => done' = done BY <1>0 DEF CoreTick
  <2>5. CASE Asked
    <3>1. ~finished /\ bus.phase # "idle" /\ bus.reg = "CMD" /\ bus.write /\ at = "top"
      BY <1>0, <2>5 DEF Asked, finished, Handshake, BusType
    <3>2. firmware' = "access" /\ bus' = [bus EXCEPT !.phase = "access"]
      BY <1>0, <2>5, <3>1 DEF Master, Asked
    <3>3. bus'.reg = "CMD" /\ bus'.value = bus.value BY <1>0, <3>1, <3>2 DEF BusType
    <3>4. ~core_activate /\ core.state # "MI"
      BY <1>0, <2>5 DEF Stages, Asked, TypeInvariant
    <3>5. CASE bus.phase = "access"
      <4>1. trigger_activate_next_cycle' /\ core_cmd_in' = bus.value
        BY <1>0, <3>1, <3>5 DEF WrapperTick, Accept, Complete, selects, write_strobe
      <4>2. core'.state # "MI" BY <1>0, <3>4 DEF CoreTick, Cores
      <4>3. Underway' /\ Current' = bus.value BY <4>1, <4>2 DEF Underway, Current
      <4>4. ~trigger_activate_next_cycle BY <1>0, <3>1, <3>5 DEF Stages
      <4>5. Underway /\ Current = bus.value BY <2>5, <3>4, <4>4 DEF Underway, Current
      <4> QED BY <1>0, <2>1, <2>3, <2>4, <3>4, <4>3, <4>5 DEF Accounted
    <3>6. CASE bus.phase # "access"
      <4>1. ~trigger_activate_next_cycle BY <1>0, <2>5 DEF Stages, Asked
      <4>2. at' = "top" /\ ~trigger_activate_next_cycle' /\ ~core_activate'
        <5>1. ~selects("CMD") /\ ~write_strobe /\ ~read_strobe
          BY <3>6 DEF selects, write_strobe, read_strobe
        <5> QED BY <1>0, <3>1, <3>4, <4>1, <5>1 DEF WrapperTick, Accept, Complete
      <4>3. core'.state # "MI" BY <1>0, <3>4 DEF CoreTick, Cores
      <4>4. Underway' /\ Current' = bus.value
        BY <3>2, <3>3, <4>2, <4>3 DEF Underway, Asked, Current
      <4>5. Underway /\ Current = bus.value BY <2>5, <3>4, <4>1 DEF Underway, Current
      <4> QED BY <1>0, <2>1, <2>3, <2>4, <3>4, <4>4, <4>5 DEF Accounted
    <3> QED BY <3>5, <3>6
  <2>6. CASE trigger_activate_next_cycle
    <3>1. core.state = "M_IDLE" /\ ~core_activate /\ ~(at = "top" /\ write_strobe)
      BY <1>0, <2>6 DEF Stages, write_strobe
    <3>2. core_cmd_in' = core_cmd_in /\ (core_activate' \/ trigger_activate_next_cycle')
      BY <1>0, <2>6, <3>1 DEF WrapperTick, Accept, Complete, selects
    <3>3. core'.state # "MI" BY <1>0, <3>1 DEF CoreTick, Cores
    <3>4. Underway' /\ Current' = core_cmd_in BY <3>2, <3>3 DEF Underway, Current
    <3>5. Underway /\ Current = core_cmd_in BY <2>6, <3>1 DEF Underway, Current
    <3> QED BY <1>0, <2>1, <2>3, <2>4, <3>1, <3>4, <3>5 DEF Accounted
  <2>7. CASE core_activate
    <3>1. core.state = "M_IDLE" BY <1>0, <2>7 DEF Stages
    <3>2. core' = [state |-> "MI", cmd |-> core_cmd_in] BY <1>0, <2>7, <3>1 DEF CoreTick
    <3>3. Underway' /\ Current' = core_cmd_in BY <3>2 DEF Underway, Current
    <3>4. Underway /\ Current = core_cmd_in BY <2>7, <3>1 DEF Underway, Current
    <3> QED BY <1>0, <2>1, <2>3, <2>4, <3>1, <3>3, <3>4 DEF Accounted
  <2>8. CASE core.state = "MI"
    <3>1. Underway /\ Current = core.cmd BY <2>8 DEF Underway, Current
    <3>2. ~trigger_activate_next_cycle /\ ~core_activate /\ firmware = "poll"
      BY <1>0, <2>8 DEF Stages
    <3>3. core_data_in = written BY <1>0, <3>2 DEF Accounted
    <3>4. done' = sent
      BY <1>0, <2>8, <3>1, <3>3 DEF CoreTick, Execute, Accounted
    <3>5. core'.state # "MI" BY <1>0, <2>8 DEF CoreTick, Cores
    <3>6. ~selects("CMD") BY <1>0, <3>2 DEF Handshake, selects, write_strobe
    <3>7. ~core_activate' /\ ~trigger_activate_next_cycle'
      BY <1>0, <3>2, <3>6 DEF WrapperTick, Accept, Complete
    <3>8. firmware' = "poll" BY <2>8, KeepsPolling
    <3>9. ~Underway' BY <3>5, <3>7, <3>8 DEF Underway, Asked
    <3> QED BY <2>1, <2>3, <3>4, <3>9 DEF Accounted
  <2>9. CASE ~Underway
    <3>1. ~trigger_activate_next_cycle /\ ~core_activate /\ core.state # "MI" /\ ~Asked
      BY <2>9 DEF Underway
    <3>2. core'.state # "MI" BY <1>0, <3>1 DEF CoreTick, Cores
    <3>3. ~(at = "top" /\ selects("CMD"))
      BY <1>0, <3>1 DEF Asked, Handshake, selects, write_strobe
    <3>4. ~core_activate' /\ ~trigger_activate_next_cycle'
      BY <1>0, <3>1, <3>3 DEF WrapperTick, Accept, Complete
    <3>5. ~Asked'
      <4>1. firmware' = "access" => bus'.reg = bus.reg /\ bus.reg # "CMD"
        BY <1>0, <2>2, <3>1 DEF BusType, Asked
      <4> QED BY <4>1 DEF Asked
    <3>6. ~Underway' BY <3>2, <3>4, <3>5 DEF Underway
    <3> QED BY <1>0, <2>1, <2>3, <2>4, <2>9, <3>1, <3>6 DEF Accounted
  <2> QED BY <2>5, <2>6, <2>7, <2>8, <2>9 DEF Underway
<1> QED BY <1>2, <1>3

LEMMA FreshStep ==
  ASSUME Inv, Clock
  PROVE  Fresh'
<1>1. core \in Cores /\ done \in Seq(Entries) /\ Fresh /\ CoreTick /\ data_out \in Nat
  BY DEF Inv, Types, TypeInvariant, Clock
<1>2. CASE core.state # "MI" BY <1>1, <1>2 DEF CoreTick, Fresh, Outputs
<1>3. CASE core.state = "MI"
  <2> DEFINE e == [cmd |-> core.cmd, data |-> core_data_in]
  <2>1. core.cmd \in Codes BY <1>3 DEF Inv, Accounted, Underway, Current
  <2>2. e \in Entries BY <2>1 DEF Entries, Inv, Types, TypeInvariant
  <2>3. done' = Append(done, e) BY <1>1, <1>3 DEF CoreTick, Execute
  <2>4. /\ Len(done') = Len(done) + 1 /\ DOMAIN done = 1..Len(done) /\ Len(done) \in Nat
        /\ DOMAIN done' = 1..(Len(done) + 1)
        /\ \A i \in 1..Len(done) : done'[i] = done[i]
        /\ done'[Len(done) + 1] = e
    BY <1>1, <2>2, <2>3
  <2>5. e.cmd = core.cmd OBVIOUS
  <2> HIDE DEF e
  <2>6. CASE core.cmd \in Operations
    <3>1. core.cmd \notin Registers BY <2>6, WrapperAssumption
    <3>2. data_out' = data_out BY <1>1, <1>3, <2>6 DEF CoreTick
    <3>3. Outputs(done') = Outputs(done) BY <2>4, <2>5, <3>1 DEF Outputs
    <3> QED BY <1>1, <3>2, <3>3 DEF Fresh
  <2>7. CASE core.cmd \notin Operations
    <3>1. core.cmd \in Registers BY <2>1, <2>7 DEF Codes
    <3>2. data_out' = Len(done) + 1 BY <1>1, <1>3, <2>7 DEF CoreTick
    <3>3. Len(done) + 1 \in Outputs(done') /\ \A j \in Outputs(done') : j <= Len(done) + 1
      BY <2>4, <2>5, <3>1 DEF Outputs
    <3> QED BY <3>2, <3>3 DEF Fresh
  <2> QED BY <2>6, <2>7
<1> QED BY <1>2, <1>3

-----------------------------------------------------------------------------
LEMMA InitInv ==
  ASSUME Init, PowerUp \subseteq {0}
  PROVE  Inv
<1>1. BusType BY DEF Init, BusType, NoTransfer
<1>2. sent \in Seq(Entries) /\ done \in Seq(Entries) BY DEF Init
<1>3. core \in Cores BY DEF Init, Cores
<1>4. TypeInvariant
  <2>1. bus.phase = "idle" /\ core.state = "M_RESET" BY DEF Init, NoTransfer
  <2>2. at = "top" /\ PREADY = 0 /\ firmware = "return" BY DEF Init
  <2>3. {core_data_in, data_out, written, taken, calls, resets} \subseteq Nat BY DEF Init
  <2>4. core_cmd_in = NoCommand /\ {core_activate, trigger_activate_next_cycle} \subseteq BOOLEAN
    BY DEF Init
  <2> QED BY <2>1, <2>2, <2>3, <2>4 DEF TypeInvariant
<1>5. Handshake /\ Stages /\ Accounted /\ Fresh
  BY DEF Init, NoTransfer, Handshake, Stages, Accounted, Underway, Asked, Fresh, Outputs
<1> QED BY <1>1, <1>2, <1>3, <1>4, <1>5 DEF Inv, Types

LEMMA ResetStep ==
  ASSUME Inv, Reset
  PROVE  Inv'
<1>0. TypeInvariant /\ core \in Cores BY DEF Inv, Types
<1>1. Types'
  <2>1. BusType' BY DEF Reset, BusType, NoTransfer
  <2>2. sent' \in Seq(Entries) /\ done' \in Seq(Entries) BY DEF Reset
  <2>3. core' \in Cores BY <1>0 DEF Reset, Cores
  <2>4. TypeInvariant'
    <3>1. bus'.phase = "idle" BY DEF Reset, NoTransfer
    <3>2. core'.state = "M_RESET" BY <1>0 DEF Reset, Cores
    <3>3. at' = "top" /\ PREADY' \in {0, 1} /\ firmware' = "return"
      BY <1>0 DEF Reset, TypeInvariant
    <3>4. {core_data_in', data_out', written', taken', calls', resets'} \subseteq Nat
      BY <1>0 DEF Reset, TypeInvariant
    <3>5. core_cmd_in' = NoCommand /\ {core_activate', trigger_activate_next_cycle'} \subseteq BOOLEAN
      BY DEF Reset
    <3> QED BY <3>1, <3>2, <3>3, <3>4, <3>5 DEF TypeInvariant
  <2> QED BY <2>1, <2>2, <2>3, <2>4 DEF Types
<1>2. core'.state = "M_RESET" BY DEF Reset, Inv, Types, Cores
<1>3. Handshake' /\ Stages' /\ Accounted' /\ Fresh'
  BY <1>2 DEF Inv, Types, TypeInvariant, Reset, NoTransfer, Handshake, Stages, Accounted, Underway, Asked, Fresh, Outputs
<1> QED BY <1>1, <1>3 DEF Inv

LEMMA StutterStep ==
  ASSUME Inv, UNCHANGED vars
  PROVE  Inv'
BY DEF vars, wrapper, counts, Inv, Types, TypeInvariant, BusType, Handshake, Stages, Accounted,
       Underway, Current, Asked, Fresh, Outputs

LEMMA Inductive ==
  ASSUME Busy_bit = 1, Inv, [Next]_vars
  PROVE  Inv'
<1>1. CASE Clock
  BY <1>1, TypesStep, HandshakeStep, StagesStep, AccountedStep, FreshStep DEF Inv
<1>2. CASE Reset BY <1>2, ResetStep
<1>3. CASE UNCHANGED vars BY <1>3, StutterStep
<1> QED BY <1>1, <1>2, <1>3 DEF Next

\* The registers of the wrapper, the bus and the firmware keep their types.
THEOREM TypeCorrect ==
  ASSUME Busy_bit = 1, PowerUp \subseteq {0} PROVE Spec => []TypeInvariant
<1>1. Init => Inv BY InitInv
<1>2. Inv /\ [Next]_vars => Inv' BY Inductive
<1>3. Inv => TypeInvariant BY DEF Inv, Types
<1> QED BY <1>1, <1>2, <1>3, PTL DEF Spec

\* With a mask that tests the busy bit and PREADY low at power-up, a call of the firmware returns
\* only when all it has written has been executed (nand.c:12-40 over nand_apb_wrapper.v:79-127).
THEOREM ReturnsWhenDone ==
  ASSUME Busy_bit = 1, PowerUp \subseteq {0} PROVE Spec => []ReturnMeansDone
<1>1. Init => Inv BY InitInv
<1>2. Inv /\ [Next]_vars => Inv' BY Inductive
<1>3. Inv => ReturnMeansDone
  <2> SUFFICES ASSUME Inv, firmware = "return", core.state # "M_RESET" PROVE done = sent /\ ~core_busy
    BY DEF ReturnMeansDone
  <2>1. Stages /\ Accounted /\ TypeInvariant BY DEF Inv, Types
  <2>2. ~Underway BY <2>1 DEF Underway, Asked, Stages
  <2>3. core.state = "M_IDLE" BY <2>1 DEF Stages, TypeInvariant
  <2> QED BY <2>1, <2>2, <2>3 DEF Accounted, core_busy
<1> QED BY <1>1, <1>2, <1>3, PTL DEF Spec

\* Under the same assumptions nand_get_data_byte returns the output of the last command that
\* gives one (nand.c:29-34).
THEOREM ReadsFresh ==
  ASSUME Busy_bit = 1, PowerUp \subseteq {0} PROVE Spec => DataIsFresh
<1>1. Init => Inv BY InitInv
<1>2. Inv /\ [Next]_vars => Inv' BY Inductive
<1>3. Inv /\ [Next]_vars =>
        [finished /\ firmware = "access" /\ ~bus.write => data_out = LastOutput]_vars
  <2> SUFFICES ASSUME Inv, finished, firmware = "access", ~bus.write PROVE data_out = LastOutput
    OBVIOUS
  <2>1. Handshake /\ Stages /\ Accounted /\ Fresh BY DEF Inv
  <2>2. at = "read" BY <2>1 DEF Handshake, finished, Inv, Types, TypeInvariant
  <2>3. ~Underway BY <2>1, <2>2 DEF Underway, Asked, Stages
  <2>4. sent = done BY <2>1, <2>3 DEF Accounted
  <2>5. CASE Outputs(done) = {} BY <2>4, <2>5 DEF LastOutput, Outputs
  <2>6. CASE Outputs(done) # {}
    <3>1. data_out \in Outputs(done) /\ \A j \in Outputs(done) : j <= data_out
      BY <2>1, <2>6 DEF Fresh
    <3>2. Outputs(done) \subseteq Nat
      BY DEF Outputs, Inv, Types
    <3>3. \A i \in Outputs(done) : (\A j \in Outputs(done) : j <= i) => i = data_out
      BY <3>1, <3>2
    <3> QED BY <2>4, <2>6, <3>1, <3>3 DEF LastOutput, Outputs
  <2> QED BY <2>5, <2>6
<1> QED BY <1>1, <1>2, <1>3, PTL DEF Spec, DataIsFresh
=============================================================================
