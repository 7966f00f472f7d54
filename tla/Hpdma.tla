-------------------------------- MODULE Hpdma --------------------------------
(***************************************************************************)
(* mss_hpdma.c: a transfer of any size as chunks of 64 kbytes, handed to   *)
(* the four descriptors of the DMA controller.                             *)
(*                                                                         *)
(* Two threads share the globals of the driver: the application (main) and *)
(* the interrupt handlers (isr), which run to their end before the         *)
(* application goes on. The handler that the application has registered    *)
(* may start the next transfer from inside an interrupt. The controller    *)
(* runs beside both. A chunk is its place in the transfer: source,         *)
(* destination and remaining size advance together.                        *)
(***************************************************************************)
EXTENDS Integers, Sequences

CONSTANTS
  Sizes,          \* the sizes of the transfers, in chunks
  Preempts,       \* whether an interrupt may come in the middle of a call of the driver
  RestartOn,      \* the outcomes on which the handler starts another transfer
  Errors,         \* the errors that may stop the controller
  MaxTransfers, MaxPauses    \* bounds

ASSUME HpdmaAssumption ==
  /\ Sizes \subseteq Nat \ {0} /\ Preempts \in BOOLEAN
  /\ {MaxTransfers, MaxPauses} \subseteq Nat
  /\ Errors \subseteq {"SOURCE_ERROR", "DESTINATION_ERROR", "WORD_ALIGN_ERROR"}

VARIABLES
  state,          \* g_transfer.state
  next,           \* g_transfer.src_addr and des_addr: the chunk they point at
  left,           \* g_transfer.xfr_size
  g_hpdma_end_desc, g_hpdma_current_desc,
  Descriptor,     \* the registers of the four descriptors
  running,        \* the descriptor the controller works on, or None
  error,          \* the error that has stopped it, or "none"
  main, isr,      \* where the application is in a call; where the interrupt handler is
  erring,         \* whether the handler is that of the error interrupt
  transfer,       \* history: the number and the size of the transfer
  delivered,      \* history: the chunks the controller has moved, each with its transfer
  outcomes,       \* history: what the application has been told of each transfer
  aborted,        \* history: whether it has aborted the transfer
  wild,           \* history: whether a descriptor past the last one was written
  pauses

indices == <<g_hpdma_end_desc, g_hpdma_current_desc>>
hardware == <<Descriptor, running, error>>
threads == <<main, isr, erring>>
history == <<transfer, delivered, outcomes, aborted, pauses>>
vars == <<state, next, left, indices, hardware, threads, history, wild>>

NO_OF_HPDMA_DESCRIPTORS == 4
Slot == 0..NO_OF_HPDMA_DESCRIPTORS - 1
None == 9
NextSlot(d) == (d + 1) % NO_OF_HPDMA_DESCRIPTORS

\* A descriptor that has been cleared.
Clear == [valid |-> FALSE, pause |-> TRUE, irq |-> FALSE, done |-> FALSE, chunk |-> <<0, 0>>]

-----------------------------------------------------------------------------
(* The controller: it serves the descriptors in turn, from the first one enabled *)

Turn(d, descriptors) ==
  LET waiting == {k \in 1..NO_OF_HPDMA_DESCRIPTORS : descriptors[(d + k) % NO_OF_HPDMA_DESCRIPTORS].valid}
  IN  IF waiting = {} THEN None
      ELSE (d + CHOOSE k \in waiting : \A j \in waiting : k <= j) % NO_OF_HPDMA_DESCRIPTORS

Works == running # None /\ error = "none" /\ ~Descriptor[running].pause

ChunkDone ==
  /\ Works
  /\ delivered' = Append(delivered, Descriptor[running].chunk)
  /\ Descriptor' = [Descriptor EXCEPT ![running].valid = FALSE, ![running].done = TRUE]
  /\ running' = Turn(running, Descriptor')
  /\ UNCHANGED <<state, next, left, indices, error, threads, transfer, outcomes, aborted, wild, pauses>>

\* An error stops the controller until the descriptor is cleared.
ChunkFails ==
  /\ Works /\ error' \in Errors
  /\ UNCHANGED <<state, next, left, indices, Descriptor, running, threads, history, wild>>

CompletionPending == \E d \in Slot : Descriptor[d].done /\ Descriptor[d].irq
ErrorPending == error # "none" /\ Descriptor[running].irq

-----------------------------------------------------------------------------
(* Starting *)

Handed_without_address(descriptors, d) ==
  IF d \notin Slot THEN descriptors
  ELSE [descriptors EXCEPT ![d].valid = TRUE, ![d].pause = FALSE, ![d].irq = TRUE]

\* The registers of descriptor d with the next chunk; its completion status stays. What is
\* written to a descriptor past the last one lands in the registers behind them.
Handed(descriptors, d) ==
  IF d \notin Slot THEN descriptors
  ELSE [descriptors EXCEPT ![d].valid = TRUE, ![d].pause = FALSE, ![d].irq = TRUE,
                           ![d].chunk = <<transfer.number, next>>]

start_transfer(descriptors, d) ==
  /\ Descriptor' = Handed(descriptors, d)
  /\ running' = IF running = None /\ d \in Slot THEN d ELSE running
  /\ wild' = (wild \/ d \notin Slot)
  /\ IF left > 1 THEN next' = next + 1 /\ left' = left - 1 ELSE left' = 0 /\ UNCHANGED next

\* MSS_HPDMA_start, up to its loop.
StartGlobals(n) ==
  /\ state' = "IN_PROGRESS" /\ next' = 1 /\ left' = n
  /\ g_hpdma_current_desc' = 0 /\ g_hpdma_end_desc' = 0
  /\ transfer' = [number |-> transfer.number + 1, size |-> n]
  /\ delivered' = <<>> /\ aborted' = FALSE

LoopGoesOn_unlimited(e) == e < transfer.size
LoopGoesOn(e) == e < transfer.size /\ e < NO_OF_HPDMA_DESCRIPTORS

\* The loop of MSS_HPDMA_start in either thread, at pc: start_transfer, then the count.
StartLoop(pc, pc_next, over) ==
  \/ /\ pc = "fill" /\ LoopGoesOn(g_hpdma_end_desc)
     /\ start_transfer(Descriptor, g_hpdma_end_desc) /\ pc_next = "count"
     /\ UNCHANGED <<state, indices, error, history>>
  \/ /\ pc = "count" /\ pc_next = "fill"
     /\ g_hpdma_end_desc' = g_hpdma_end_desc + 1
     /\ UNCHANGED <<state, next, left, g_hpdma_current_desc, hardware, history, wild>>
  \/ /\ pc = "fill" /\ ~LoopGoesOn(g_hpdma_end_desc) /\ pc_next = over
     /\ UNCHANGED <<state, next, left, indices, hardware, history, wild>>

-----------------------------------------------------------------------------
(* The application *)

Calls == isr = "none" /\ main = "idle"

MSS_HPDMA_start ==
  /\ Calls /\ state # "IN_PROGRESS" /\ transfer.number < MaxTransfers
  /\ \E n \in Sizes : StartGlobals(n)
  /\ main' = "fill"
  /\ UNCHANGED <<isr, erring, hardware, outcomes, wild, pauses>>

StartFills ==
  isr = "none" /\ StartLoop(main, main', "idle") /\ UNCHANGED <<isr, erring>>

\* Pausing and resuming act on the descriptor the driver believes to be running.
MSS_HPDMA_pause ==
  /\ Calls /\ state = "IN_PROGRESS" /\ pauses < MaxPauses
  /\ Descriptor' = [Descriptor EXCEPT ![g_hpdma_current_desc].pause = TRUE]
  /\ pauses' = pauses + 1
  /\ UNCHANGED <<state, next, left, indices, running, error, threads, transfer, delivered,
                 outcomes, aborted, wild>>

MSS_HPDMA_resume ==
  /\ Calls /\ state = "IN_PROGRESS" /\ Descriptor[g_hpdma_current_desc].pause
  /\ Descriptor' = [Descriptor EXCEPT ![g_hpdma_current_desc].pause = FALSE]
  /\ UNCHANGED <<state, next, left, indices, running, error, threads, history, wild>>

Abort == <<"abort 0", "abort 1", "abort 2", "abort 3", "abort end">>

MSS_HPDMA_abort ==
  /\ Calls /\ state = "IN_PROGRESS" /\ main' = Abort[1] /\ aborted' = TRUE
  /\ UNCHANGED <<state, next, left, indices, hardware, isr, erring, transfer, delivered,
                 outcomes, wild, pauses>>

\* What clearing a descriptor does to the controller.
ClearDescriptor(d) ==
  /\ Descriptor' = [Descriptor EXCEPT ![d] = Clear]
  /\ running' = IF running = d THEN Turn(d, Descriptor') ELSE running
  /\ error' = IF running = d THEN "none" ELSE error

AbortClears_not_last ==
  /\ isr = "none"
  /\ \E i \in 1..4 : /\ main = Abort[i] /\ main' = Abort[i + 1]
                     /\ IF i < 4 THEN ClearDescriptor(i - 1) ELSE UNCHANGED hardware
  /\ UNCHANGED <<state, next, left, indices, isr, erring, history, wild>>

\* The loop of MSS_HPDMA_abort, one descriptor at a time.
AbortClears ==
  /\ isr = "none"
  /\ \E i \in 1..4 : main = Abort[i] /\ main' = Abort[i + 1] /\ ClearDescriptor(i - 1)
  /\ UNCHANGED <<state, next, left, indices, isr, erring, history, wild>>

AbortEnds ==
  /\ isr = "none" /\ main = Abort[5] /\ main' = "idle"
  /\ state' = "COMPLETED"
  /\ UNCHANGED <<next, left, indices, hardware, isr, erring, history, wild>>

Application == MSS_HPDMA_start \/ StartFills \/ MSS_HPDMA_pause \/ MSS_HPDMA_resume
               \/ MSS_HPDMA_abort \/ AbortClears \/ AbortEnds

-----------------------------------------------------------------------------
(* The interrupts *)

Enters == isr = "none" /\ (main = "idle" \/ Preempts)

\* The completion handler is told the outcome, and may start the next transfer.
Told(outcome, afterwards, current, end) ==
  /\ outcomes' = [outcomes EXCEPT ![transfer.number] = Append(@, outcome)]
  /\ \/ /\ state' = outcome /\ isr' = afterwards
        /\ g_hpdma_current_desc' = current /\ g_hpdma_end_desc' = end
        /\ UNCHANGED <<next, left, transfer, delivered, aborted>>
     \/ /\ outcome \in RestartOn /\ transfer.number < MaxTransfers
        /\ \E n \in Sizes : StartGlobals(n)
        /\ isr' = "fill"

Acknowledged_still_enabled == [Descriptor EXCEPT ![g_hpdma_current_desc].done = FALSE]

\* The interrupt of the descriptor believed to be running is cleared and disabled.
Acknowledged == [Descriptor EXCEPT ![g_hpdma_current_desc].done = FALSE,
                                   ![g_hpdma_current_desc].irq = FALSE]

AfterLast_unwrapped(e) == e + 1
AfterLast(e) == IF e = NO_OF_HPDMA_DESCRIPTORS THEN 0 ELSE e + 1

CompleteHandsOver ==
  /\ left > 0
  /\ g_hpdma_current_desc' = NextSlot(g_hpdma_current_desc)
  /\ g_hpdma_end_desc' = AfterLast(g_hpdma_end_desc)
  /\ start_transfer(Acknowledged, g_hpdma_end_desc')
  /\ UNCHANGED <<state, transfer, delivered, outcomes, aborted, isr>>

AllDone_unchecked == TRUE

\* No interrupt is enabled on the descriptor after the one that has completed.
AllDone == ~Acknowledged[NextSlot(g_hpdma_current_desc)].irq

CompleteWaits ==
  /\ left = 0 /\ ~AllDone
  /\ g_hpdma_current_desc' = NextSlot(g_hpdma_current_desc)
  /\ Descriptor' = Acknowledged
  /\ UNCHANGED <<state, next, left, g_hpdma_end_desc, running, transfer, delivered, outcomes,
                 aborted, isr, wild>>

CompleteEnds ==
  /\ left = 0 /\ AllDone
  /\ Descriptor' = Acknowledged
  /\ Told("COMPLETED", "none", 0, 0)
  /\ UNCHANGED <<running, wild>>

HPDMA_Complete_IRQHandler ==
  /\ Enters /\ CompletionPending
  /\ CompleteHandsOver \/ CompleteWaits \/ CompleteEnds
  /\ UNCHANGED <<error, main, erring, pauses>>

\* An address error is looked for on the descriptor believed to be running.
ErrorSeen == error = "WORD_ALIGN_ERROR" \/ running = g_hpdma_current_desc

Clearing == <<"clear 0", "clear 1", "clear 2", "clear 3", "none">>

\* The completion interrupt has the lower number, and goes first.
HPDMA_Error_IRQHandler ==
  /\ Enters /\ ErrorPending /\ ~CompletionPending
  /\ erring' = TRUE
  /\ IF ErrorSeen
       THEN Told(error, Clearing[1], g_hpdma_current_desc, g_hpdma_end_desc)
       ELSE isr' = Clearing[1] /\ UNCHANGED <<state, next, left, indices, transfer, delivered, outcomes, aborted>>
  /\ UNCHANGED <<hardware, main, wild, pauses>>

\* The transfer that the completion handler starts.
HandlerFills ==
  StartLoop(isr, isr', IF erring THEN Clearing[1] ELSE "none") /\ UNCHANGED <<main, erring>>

\* The last loop of the error handler, one descriptor at a time: the controller goes on with
\* those behind the one that failed until they are cleared too.
ErrorClears ==
  /\ \E i \in 1..4 : isr = Clearing[i] /\ isr' = Clearing[i + 1] /\ ClearDescriptor(i - 1)
  /\ erring' = (isr' # "none")
  /\ UNCHANGED <<state, next, left, indices, main, history, wild>>

Interrupts == HPDMA_Complete_IRQHandler \/ HPDMA_Error_IRQHandler \/ HandlerFills \/ ErrorClears

-----------------------------------------------------------------------------
\* MSS_HPDMA_init has been called.
Init ==
  /\ state = "COMPLETED" /\ next = 1 /\ left = 0
  /\ g_hpdma_end_desc = 0 /\ g_hpdma_current_desc = 0
  /\ Descriptor = [d \in Slot |-> Clear] /\ running = None /\ error = "none"
  /\ main = "idle" /\ isr = "none" /\ erring = FALSE
  /\ transfer = [number |-> 0, size |-> 0] /\ delivered = <<>>
  /\ outcomes = [t \in 1..MaxTransfers |-> <<>>]
  /\ aborted = FALSE /\ wild = FALSE /\ pauses = 0

Next == ChunkDone \/ ChunkFails \/ Application \/ Interrupts
Spec == Init /\ [][Next]_vars

\* The controller works, interrupts are served, a call goes on, and the application resumes
\* what it has paused.
FairSpec ==
  /\ Spec /\ WF_vars(ChunkDone) /\ WF_vars(Interrupts)
  /\ WF_vars(StartFills \/ AbortClears \/ AbortEnds) /\ WF_vars(MSS_HPDMA_resume)

-----------------------------------------------------------------------------
(* Properties *)

TypeInvariant ==
  /\ state \in {"IN_PROGRESS", "COMPLETED"} \union Errors
  /\ {next, left, pauses, transfer.number, transfer.size} \subseteq Nat
  /\ g_hpdma_current_desc \in Slot /\ g_hpdma_end_desc \in 0..NO_OF_HPDMA_DESCRIPTORS
  /\ running \in Slot \union {None} /\ error \in {"none"} \union Errors
  /\ main \in {"idle", "fill", "count"} \union {Abort[i] : i \in 1..5}
  /\ isr \in {"none", "fill", "count"} \union {Clearing[i] : i \in 1..4}
  /\ \A d \in Slot : {Descriptor[d].valid, Descriptor[d].pause, Descriptor[d].irq, Descriptor[d].done}
                       \subseteq BOOLEAN

\* The memory receives the chunks of the transfer in progress one after the other: none
\* twice, none of a transfer before, and none left out unless an abort or an error stops it.
ChunksInOrder ==
  /\ \A i \in DOMAIN delivered :
       /\ delivered[i][1] = transfer.number /\ delivered[i][2] \in 1..transfer.size
       /\ i > 1 => delivered[i][2] > delivered[i - 1][2]
  /\ ~aborted /\ state \notin Errors => \A i \in DOMAIN delivered : delivered[i][2] = i

\* A transfer that has not been aborted is reported once; as completed only when all of it
\* has been moved.
OutcomeOnce ==
  /\ \A t \in DOMAIN outcomes : Len(outcomes[t]) <= 1
  /\ state # "IN_PROGRESS" /\ isr = "none" /\ transfer.number > 0 /\ ~aborted =>
       /\ outcomes[transfer.number] = <<state>>
       /\ state = "COMPLETED" => Len(delivered) = transfer.size

\* No chunk is handed to a descriptor that does not exist.
DescriptorsInBounds == ~wild

\* Once a transfer is over, by its end, an error or MSS_HPDMA_abort, the controller is at rest.
StoppedMeansQuiet ==
  state # "IN_PROGRESS" /\ main = "idle" /\ isr = "none" =>
    running = None /\ \A d \in Slot : ~Descriptor[d].valid /\ ~Descriptor[d].irq

\* Every transfer ends: with its last chunk, an error or an abort.
TransferEnds == \A t \in 1..MaxTransfers :
  state = "IN_PROGRESS" /\ transfer.number = t ~> state # "IN_PROGRESS" \/ transfer.number > t
=============================================================================
