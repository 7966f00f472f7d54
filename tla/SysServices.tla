----------------------------- MODULE SysServices -----------------------------
(***************************************************************************)
(* mss_sys_services.c over mss_comblk.c: system services as requests to    *)
(* the system controller, which answers through a FIFO and an interrupt.   *)
(*                                                                         *)
(* The application calls one service after the other and waits in          *)
(* execute_service; MSS_SYS_start_isp returns at once, and the interrupt   *)
(* sends the pages of the bitstream. The interrupt handler runs to its end *)
(* before the application goes on; the controller works beside both, and   *)
(* raises events of its own whenever it likes, in the middle of an answer  *)
(* too. After a power-on it may first report a digest error.               *)
(***************************************************************************)
EXTENDS Comblk

CONSTANTS
  Depth,          \* the words a FIFO holds
  Pages,          \* the pages of the bitstream
  PointerBytes,   \* the bytes of the buffer's address, which an answer repeats
  Events,         \* the opcodes of the events the controller raises
  IspFirst,       \* whether ISP may be the first service after a power-on
  AfterIsp,       \* whether services are called after ISP has been started
  MaxCalls, MaxEvents    \* bounds

ASSUME SysServicesAssumption ==
  /\ {Depth, MaxCalls, MaxEvents} \subseteq Nat /\ Depth > 1
  /\ {IspFirst, AfterIsp} \subseteq BOOLEAN
  /\ Pages \in Seq(Seq(0..255)) /\ PointerBytes \in Seq(0..255) /\ Len(PointerBytes) = 4
  /\ Events \subseteq Nat /\ POR_DIGEST_ERROR_OPCODE \notin Events

VARIABLES
  comblk,         \* the globals of mss_comblk.c
  g_request_in_progress, g_last_response_length,    \* those of mss_sys_services.c
  tx, rx,         \* the FIFOs to and from the system controller
  main, request,  \* where the application is in a call, and the command it sends
  serving,        \* the controller: its command, what came with it, the words to send back
  replied,        \* history: the statuses of the controller's answers
  returned,       \* history: the statuses that services have returned
  reported,       \* history: the statuses passed to the completion handler of ISP
  raised, told,   \* history: the events of the controller, and those the application was told
  calls           \* history: the services called

services == <<g_request_in_progress, g_last_response_length>>
driver == <<comblk, services, tx, reported, told>>
controller == <<serving, replied, raised>>
vars == <<driver, rx, main, request, controller, returned, calls>>

MSS_SYS_UNEXPECTED_ERROR == 127
Status == {0, 1}
SERIAL_NUMBER == 1
DIGEST_CHECK == 23
ISP_PROGRAMMING == 21
POINTER == 1000

\* A service by a pointer, one by its parameters, and in-system programming.
Serial == [kind |-> "ptr", opcode |-> SERIAL_NUMBER, params |-> <<POINTER>>, pages |-> <<>>,
           size |-> 6, handler |-> "request"]
Digest == [kind |-> "cmd", opcode |-> DIGEST_CHECK, params |-> <<1>>, pages |-> <<>>,
           size |-> 2, handler |-> "request"]
Isp == [kind |-> "paged", opcode |-> ISP_PROGRAMMING, params |-> <<0>>, pages |-> Pages,
        size |-> 2, handler |-> "isp"]

Room == Depth - Len(tx)

\* The elements of a sequence that are in a set, in their order.
Kept(s, S) ==
  LET kept[i \in 0..Len(s)] ==
        IF i = 0 THEN <<>>
        ELSE IF s[i] \in S THEN Append(kept[i - 1], s[i]) ELSE kept[i - 1]
  IN  kept[Len(s)]

-----------------------------------------------------------------------------
(* The system controller *)

Idle == [opcode |-> 0, got |-> <<>>, reply |-> <<>>, answered |-> TRUE]

\* It takes no command before it has answered the last one; a bitstream it may drain.
ControllerTakes ==
  /\ tx # <<>> /\ (serving.reply = <<>> \/ serving.opcode = ISP_PROGRAMMING)
  /\ Head(tx).command => serving.answered
  /\ tx' = Tail(tx)
  /\ serving' = IF Head(tx).command
                  THEN [opcode |-> Head(tx).byte, got |-> <<>>, reply |-> <<>>, answered |-> FALSE]
                  ELSE [serving EXCEPT !.got = Append(@, Head(tx).byte)]
  /\ UNCHANGED <<comblk, services, reported, told, rx, main, request, replied, raised, returned, calls>>

Bitstream == FlattenSeq(Pages)

\* A bitstream may be refused before its end, not accepted.
CanAnswer(status) ==
  serving.opcode = ISP_PROGRAMMING /\ Len(serving.got) <= Len(Bitstream) => status # 0

ControllerAnswers ==
  /\ ~serving.answered /\ serving.got # <<>>
  /\ \E status \in Status :
       /\ CanAnswer(status)
       /\ replied' = Append(replied, status)
       /\ serving' = [serving EXCEPT !.answered = TRUE,
            !.reply = <<Opcode(serving.opcode), Data(status)>> \o
                      (IF serving.opcode = SERIAL_NUMBER THEN Words(PointerBytes) ELSE <<>>)]
  /\ UNCHANGED <<driver, rx, main, request, raised, returned, calls>>

ControllerSends ==
  /\ serving.reply # <<>> /\ Len(rx) < Depth
  /\ rx' = Append(rx, Head(serving.reply))
  /\ serving' = [serving EXCEPT !.reply = Tail(@)]
  /\ UNCHANGED <<driver, main, request, replied, raised, returned, calls>>

ControllerRaises ==
  /\ Len(raised) < MaxEvents /\ Len(rx) < Depth
  /\ \E e \in Events : rx' = Append(rx, Opcode(e)) /\ raised' = Append(raised, e)
  /\ UNCHANGED <<driver, main, request, serving, replied, returned, calls>>

-----------------------------------------------------------------------------
(* The handlers that mss_sys_services.c gives to mss_comblk.c *)

\* asynchronous_event_handler: the events the application is told; it ignores other opcodes.
Known == (128..160) \union (177..183) \union {POR_DIGEST_ERROR_OPCODE, 224, 225}

CallsOf(c, handler) == Kept(c.called, {call \in ToSet(c.called) : call.handler = handler})

request_completion_handler_silent(c) == UNCHANGED services

request_completion_handler(c) ==
  IF CallsOf(c, "request") = <<>> THEN UNCHANGED services
  ELSE /\ g_request_in_progress' = FALSE
       /\ g_last_response_length' = Last(CallsOf(c, "request")).length

\* It leaves g_request_in_progress as it is.
isp_sys_completion_handler(c) ==
  reported' = reported \o [i \in DOMAIN CallsOf(c, "isp") |-> CallsOf(c, "isp")[i].response[1]]

\* The driver has done a step, with all that it wrote and called.
Stepped(c) ==
  /\ comblk' = Silent(c)
  /\ tx' = (IF c.flushed THEN <<>> ELSE tx) \o c.sent
  /\ told' = told \o Kept(c.events, Known)
  /\ request_completion_handler(c)
  /\ isp_sys_completion_handler(c)

Interrupt ==
  /\ InterruptPending(comblk, rx, Room)
  /\ Stepped(ComBlk_IRQHandler(comblk, rx, Room))
  /\ rx' = IF comblk.RCVOKAY /\ rx # <<>> THEN Tail(rx) ELSE rx
  /\ UNCHANGED <<main, request, controller, returned, calls>>

-----------------------------------------------------------------------------
(* The application *)

IspStarted == request.kind = "paged"

Call(r) ==
  /\ main = "idle" /\ calls < MaxCalls
  /\ IspStarted => AfterIsp
  /\ main' = "signal" /\ calls' = calls + 1 /\ request' = r
  /\ UNCHANGED <<driver, rx, controller, returned>>

MSS_SYS_get_serial_number == Call(Serial)
MSS_SYS_check_digest == Call(Digest)
MSS_SYS_start_isp == (IspFirst \/ calls > 0) /\ Call(Isp)

\* signal_request_start waits for the request before, then the driver is called.
signal_request_start ==
  /\ main = "signal" /\ ~g_request_in_progress
  /\ g_request_in_progress' = TRUE /\ g_last_response_length' = 0
  /\ main' = "prepare"
  /\ UNCHANGED <<comblk, tx, rx, reported, told, request, controller, returned, calls>>

Prepares ==
  /\ main = "prepare" /\ main' = "opcode"
  /\ Stepped(Prepared(comblk, request))
  /\ UNCHANGED <<rx, request, controller, returned, calls>>

SendsOpcode ==
  /\ main = "opcode" /\ main' = "params" /\ Room > 0
  /\ Stepped(send_cmd_opcode(comblk))
  /\ UNCHANGED <<rx, request, controller, returned, calls>>

\* A service waits for its completion; MSS_SYS_start_isp returns.
SendsParameters ==
  /\ main = "params" /\ (request.kind = "ptr" => Room > 0)
  /\ Stepped(Armed(comblk, request.kind, Room))
  /\ main' = IF request.kind = "paged" THEN "idle" ELSE "wait"
  /\ UNCHANGED <<rx, request, controller, returned, calls>>

\* What execute_service makes of the response.
ServiceStatus ==
  IF g_last_response_length = request.size /\ comblk.response[0] = request.opcode
    THEN comblk.response[1] ELSE MSS_SYS_UNEXPECTED_ERROR

wait_for_request_completion ==
  /\ main = "wait" /\ ~g_request_in_progress /\ main' = "idle"
  /\ returned' = Append(returned, ServiceStatus)
  /\ UNCHANGED <<driver, rx, request, controller, calls>>

Application ==
  signal_request_start \/ Prepares \/ SendsOpcode \/ SendsParameters \/ wait_for_request_completion

-----------------------------------------------------------------------------
\* MSS_SYS_init after a power-on, with or without a digest error to report.
Init ==
  /\ comblk = Initialised
  /\ g_request_in_progress = FALSE /\ g_last_response_length = 0
  /\ tx = <<>> /\ rx = <<>> /\ main = "idle"
  /\ request = Serial
  /\ \E power_on \in {<<>>} \union {<<Opcode(POR_DIGEST_ERROR_OPCODE), Data(s)>> : s \in Status} :
       serving = [Idle EXCEPT !.reply = power_on]
  /\ replied = <<>> /\ returned = <<>> /\ reported = <<>> /\ raised = <<>> /\ told = <<>>
  /\ calls = 0

Next ==
  \/ ControllerTakes \/ ControllerAnswers \/ ControllerSends \/ ControllerRaises
  \/ MSS_SYS_get_serial_number \/ MSS_SYS_check_digest \/ MSS_SYS_start_isp
  \/ Application \/ Interrupt

Spec == Init /\ [][Next]_vars

\* The controller serves, interrupts are taken, and a call goes on.
FairSpec ==
  /\ Spec /\ WF_vars(ControllerTakes) /\ WF_vars(ControllerAnswers) /\ WF_vars(ControllerSends)
  /\ WF_vars(Interrupt) /\ WF_vars(Application)

-----------------------------------------------------------------------------
(* Properties *)

\* The driver is in one of its states, counts no byte past the longest response (6), and puts no
\* more words in the transmit FIFO than it has room for.
TypeInvariant ==
  /\ comblk.state \in {"IDLE", "TX_CMD", "WAIT_RESPONSE", "RX_RESPONSE", "TX_PAGED_DATA"}
  /\ comblk.completion_handler \in {"none", "request", "isp"}
  /\ comblk.response_idx \in ResponseBytes \union {6}
  /\ {comblk.TXTOKAY, comblk.RCVOKAY, comblk.nvic, g_request_in_progress} \subseteq BOOLEAN
  /\ g_last_response_length \in 0..6
  /\ main \in {"idle", "signal", "prepare", "opcode", "params", "wait"}
  /\ Len(tx) <= Depth /\ Len(rx) <= Depth

\* The events of the controller reach the application in order, each once: those it has been
\* told and those still in the FIFO are those raised. (Power-on errors are another matter: a
\* service called between their two bytes makes the driver forget them.)
EventsDelivered ==
  LET waiting == Kept(rx, {Opcode(e) : e \in Events})
  IN  Kept(told, Events) \o [i \in DOMAIN waiting |-> waiting[i].byte] = raised

\* A service returns the status of the controller's answer to this very request.
AnswersMatch ==
  /\ Len(returned) <= Len(replied)
  /\ \A i \in DOMAIN returned : returned[i] = replied[i]

\* The controller gets the pages of the bitstream in order, each byte once: what it has got,
\* what is in the FIFO and what the driver still holds are the bitstream.
BitstreamInOrder ==
  IspStarted /\ serving.opcode = ISP_PROGRAMMING /\ serving.got # <<>> =>
    Tail(serving.got) \o [i \in DOMAIN tx |-> tx[i].byte] \o comblk.data
      \o FlattenSeq(comblk.pages) = Bitstream

\* The completion handler of ISP is called at most once, with the status of the controller.
IspReported ==
  /\ Len(reported) <= 1
  /\ reported # <<>> => Len(replied) = calls /\ reported[1] = replied[calls]

\* Every call returns.
CallsReturn == main # "idle" ~> main = "idle"
=============================================================================
