------------------------------- MODULE Comblk -------------------------------
(***************************************************************************)
(* mss_comblk.c: the driver of the FIFOs between the processor and the     *)
(* system controller, as operators on the record of its globals.           *)
(*                                                                         *)
(* Four fields stand for what a step does beyond the globals: whether it   *)
(* flushes the transmit FIFO, the words it writes to it, the opcodes it    *)
(* passes to g_async_event_handler, and the completion handlers it calls.  *)
(* None of these handlers calls the driver back (mss_sys_services.c), and  *)
(* an interrupt is not interrupted, so they may act at the end of a step.  *)
(***************************************************************************)
EXTENDS Integers, Sequences, SequencesExt

POR_DIGEST_ERROR_OPCODE == 241

\* What a FIFO carries: opcodes are marked, by FRAME_START8 and in bit 15 of DATA8.
Opcode(byte) == [command |-> TRUE, byte |-> byte]
Data(byte) == [command |-> FALSE, byte |-> byte]

ResponseBytes == 0..5
NoByte == 999
Uninitialised == [i \in ResponseBytes |-> NoByte]

\* MSS_COMBLK_init: only the receive interrupt is enabled.
Initialised ==
  [state |-> "IDLE", cmd_opcode |-> 0, cmd |-> <<>>, data |-> <<>>, pages |-> <<>>,
   response |-> Uninitialised, response_size |-> 0, response_idx |-> 0,
   completion_handler |-> "none", request_in_progress |-> FALSE,
   TXTOKAY |-> FALSE, RCVOKAY |-> TRUE, nvic |-> TRUE,
   flushed |-> FALSE, sent |-> <<>>, events |-> <<>>, called |-> <<>>]

Silent(c) == [c EXCEPT !.flushed = FALSE, !.sent = <<>>, !.events = <<>>, !.called = <<>>]

process_sys_ctrl_command(c, opcode) == [c EXCEPT !.events = Append(@, opcode)]

complete_request_kept(c, length) ==
  IF c.completion_handler = "none" THEN c
  ELSE [c EXCEPT !.called = Append(@, [handler |-> c.completion_handler, length |-> length,
                                       response |-> c.response]),
                 !.request_in_progress = FALSE]

\* The handler is called before it is forgotten.
complete_request(c, length) ==
  IF c.completion_handler = "none" THEN c
  ELSE [c EXCEPT !.called = Append(@, [handler |-> c.completion_handler, length |-> length,
                                       response |-> c.response]),
                 !.completion_handler = "none", !.request_in_progress = FALSE]

abort_current_cmd(c) ==
  IF c.request_in_progress THEN [complete_request(c, c.response_idx) EXCEPT !.flushed = TRUE] ELSE c

-----------------------------------------------------------------------------
(* Sending: the interrupt is off from Prepared to Armed *)

\* The first part of the three calls that send a command.
Prepared(c, request) ==
  [abort_current_cmd(Silent(c)) EXCEPT
     !.nvic = FALSE, !.TXTOKAY = FALSE, !.RCVOKAY = (request.kind = "cmd"),
     !.request_in_progress = TRUE, !.completion_handler = request.handler,
     !.cmd_opcode = request.opcode, !.cmd = request.params, !.data = <<>>,
     !.pages = request.pages, !.response = Uninitialised,
     !.response_size = request.size, !.response_idx = 0]

\* FRAME_START8, and DATA32 for the pointer: both are written once there is room.
send_cmd_opcode(c) == [Silent(c) EXCEPT !.sent = <<Opcode(c.cmd_opcode)>>]

Fits_always(bytes, room) == Len(bytes)

Fits(bytes, room) == IF Len(bytes) < room THEN Len(bytes) ELSE room
Words(bytes) == [i \in DOMAIN bytes |-> Data(bytes[i])]
Sent(bytes, room) == Words(SubSeq(bytes, 1, Fits(bytes, room)))
Rest(bytes, room) == SubSeq(bytes, Fits(bytes, room) + 1, Len(bytes))

AfterCommand(kind) == IF kind = "paged" THEN "TX_PAGED_DATA" ELSE "WAIT_RESPONSE"

\* The last part: fill_tx_fifo (or the pointer), the state, and the interrupt enables.
Armed(c, kind, room) ==
  [Silent(c) EXCEPT
     !.sent = Sent(c.cmd, room), !.cmd = Rest(c.cmd, room),
     !.state = IF Rest(c.cmd, room) # <<>> THEN "TX_CMD" ELSE AfterCommand(kind),
     !.TXTOKAY = (kind = "paged"), !.RCVOKAY = TRUE, !.nvic = TRUE]

-----------------------------------------------------------------------------
(* The transmit interrupt *)

TxCmd(c, room) ==
  IF c.cmd = <<>> THEN abort_current_cmd(c)
  ELSE [c EXCEPT !.sent = Sent(c.cmd, room), !.cmd = Rest(c.cmd, room),
                 !.state = IF Rest(c.cmd, room) = <<>> THEN "WAIT_RESPONSE" ELSE @]

NextPage_again(c) == IF c.pages = <<>> THEN c ELSE [c EXCEPT !.data = Head(c.pages)]

\* g_comblk_page_handler: the next page, or no data when there is none left.
NextPage(c) ==
  IF c.pages = <<>> THEN c ELSE [c EXCEPT !.data = Head(c.pages), !.pages = Tail(c.pages)]

\* fill_tx_fifo, and g_comblk_p_data moved on by what was sent.
SendsData(p, room) == [p EXCEPT !.sent = Sent(p.data, room), !.data = Rest(p.data, room)]

TxPagedData(c, room) ==
  LET p == IF c.data = <<>> THEN NextPage(c) ELSE c
  IN  IF p.data = <<>> THEN [p EXCEPT !.TXTOKAY = FALSE, !.state = "WAIT_RESPONSE"]
      ELSE SendsData(p, room)

handle_tx_okay_irq(c, room) ==
  CASE c.state = "TX_CMD" -> TxCmd(c, room)
    [] c.state = "TX_PAGED_DATA" -> TxPagedData(c, room)
    [] OTHER -> [complete_request(c, 0) EXCEPT !.TXTOKAY = FALSE, !.state = "IDLE"]

-----------------------------------------------------------------------------
(* The receive interrupt *)

RxIdle(c, word) ==
  IF ~word.command THEN c
  ELSE IF word.byte # POR_DIGEST_ERROR_OPCODE THEN process_sys_ctrl_command(c, word.byte)
  ELSE [c EXCEPT !.response = [@ EXCEPT ![0] = word.byte, ![1] = 0], !.response_idx = 1,
                 !.state = "RX_RESPONSE"]

IsAnswer_any(c, word) == TRUE
IsAnswer(c, word) == word.byte = c.cmd_opcode

RxWait(c, word) ==
  IF ~word.command THEN c
  ELSE IF IsAnswer(c, word)
    THEN [c EXCEPT !.response[0] = word.byte, !.response_idx = 1, !.state = "RX_RESPONSE"]
    ELSE process_sys_ctrl_command(c, word.byte)

\* A data byte after the opcode 241 ends a power-on event; any other is one of the response.
RxData(c, byte) ==
  IF c.response[c.response_idx - 1] = POR_DIGEST_ERROR_OPCODE
    THEN [process_sys_ctrl_command(c, POR_DIGEST_ERROR_OPCODE) EXCEPT
            !.response[c.response_idx] = byte, !.state = "IDLE"]
    ELSE LET s == IF c.response_idx < c.response_size
                    THEN [c EXCEPT !.response[c.response_idx] = byte, !.response_idx = @ + 1]
                    ELSE c
         IN  IF s.response_idx = s.response_size
               THEN [complete_request(s, s.response_idx) EXCEPT !.state = "IDLE"]
               ELSE s

RxResponse_takes_all(c, word) == RxData(c, word.byte)

\* An opcode in the middle of a response is an event.
RxResponse(c, word) ==
  IF word.command THEN process_sys_ctrl_command(c, word.byte) ELSE RxData(c, word.byte)

\* A data byte while pages are sent is the status of an error.
RxPagedData(c, word) ==
  IF word.command THEN process_sys_ctrl_command(c, word.byte)
  ELSE [complete_request([c EXCEPT !.response[1] = word.byte], 2) EXCEPT !.state = "IDLE"]

RxSending(c, word) == IF word.command THEN process_sys_ctrl_command(c, word.byte) ELSE c

handle_rx_okay_irq(c, word) ==
  CASE c.state = "IDLE" -> RxIdle(c, word)
    [] c.state = "WAIT_RESPONSE" -> RxWait(c, word)
    [] c.state = "RX_RESPONSE" -> RxResponse(c, word)
    [] c.state = "TX_PAGED_DATA" -> RxPagedData(c, word)
    [] c.state = "TX_CMD" -> RxSending(c, word)

\* ComBlk_IRQHandler: receive first, then transmit, on one reading of STATUS.
ComBlk_IRQHandler(c, rx, room) ==
  LET rcv_okay == c.RCVOKAY /\ rx # <<>>
      tx_okay == c.TXTOKAY /\ room > 0
      received == IF rcv_okay THEN handle_rx_okay_irq(Silent(c), Head(rx)) ELSE Silent(c)
  IN  IF tx_okay THEN handle_tx_okay_irq(received, room) ELSE received

InterruptPending(c, rx, room) ==
  c.nvic /\ ((c.RCVOKAY /\ rx # <<>>) \/ (c.TXTOKAY /\ room > 0))
=============================================================================
