----------------------------- MODULE Hpdma_proofs -----------------------------
(***************************************************************************)
(* Theorems about Hpdma, for interrupts that do not come in the middle of  *)
(* a call of the driver. First its types, and that a transfer of up to     *)
(* eight chunks touches no descriptor past the last one. Then the four     *)
(* descriptors as a ring through which the chunks of a transfer pass in    *)
(* order: a transfer is reported once, and one that is over leaves the     *)
(* controller at rest; for transfers of up to eight chunks, and an         *)
(* application that starts none from the report of an error.               *)
(***************************************************************************)
EXTENDS Hpdma, TLAPS, SequenceTheorems

Registers == [valid : BOOLEAN, pause : BOOLEAN, irq : BOOLEAN, done : BOOLEAN, chunk : Nat \X Nat]
MainPlaces == {"idle", "fill", "count"} \union {Abort[i] : i \in 1..5}
IsrPlaces == {"none", "fill", "count"} \union {Clearing[i] : i \in 1..4}

\* One thread at a time is inside the driver.
Threads ==
  /\ main \in MainPlaces /\ isr \in IsrPlaces
  /\ isr # "none" => main = "idle"

Filling == main = "fill" \/ isr = "fill"
Counting == main = "count" \/ isr = "count"

Controller ==
  /\ Descriptor \in [Slot -> Registers]
  /\ running \in Slot \union {None} /\ error \in {"none"} \union Errors

Transfer ==
  /\ state \in {"IN_PROGRESS", "COMPLETED"} \union Errors
  /\ next \in Nat /\ left \in Nat /\ transfer \in [number : Nat, size : Nat]
  /\ g_hpdma_current_desc \in Slot /\ g_hpdma_end_desc \in 0..4
  /\ Counting => g_hpdma_end_desc < 4

Inv == Threads /\ Controller /\ Transfer /\ pauses \in Nat

-----------------------------------------------------------------------------
LEMMA AbortPlaces ==
  /\ \A i \in 1..5 : Abort[i] \notin {"idle", "fill", "count"}
  /\ \A i \in 1..4 : Abort[i + 1] \in MainPlaces
  /\ \A i, j \in 1..5 : Abort[i] = Abort[j] => i = j
<1>1. /\ Abort[1] = "abort 0" /\ Abort[2] = "abort 1" /\ Abort[3] = "abort 2"
      /\ Abort[4] = "abort 3" /\ Abort[5] = "abort end"
  BY DEF Abort
<1>2. \A i \in 1..5 : i = 1 \/ i = 2 \/ i = 3 \/ i = 4 \/ i = 5 OBVIOUS
<1>3. \A i \in 1..5 : Abort[i] \notin {"idle", "fill", "count"} BY <1>1, <1>2
<1>4. \A i \in 1..4 : i + 1 \in 1..5 OBVIOUS
<1>5. \A i, j \in 1..5 : Abort[i] = Abort[j] => i = j BY <1>1, <1>2
<1> QED BY <1>3, <1>4, <1>5 DEF MainPlaces

LEMMA ClearingPlaces ==
  /\ \A i \in 1..4 : Clearing[i] \in IsrPlaces /\ Clearing[i] \notin {"none", "fill", "count"}
  /\ \A i \in 1..4 : /\ Clearing[i + 1] \in IsrPlaces /\ Clearing[i + 1] \notin {"fill", "count"}
                     /\ Clearing[i + 1] = "none" <=> i = 4
  /\ \A i, j \in 1..4 : Clearing[i] = Clearing[j] => i = j
<1>1. /\ Clearing[1] = "clear 0" /\ Clearing[2] = "clear 1" /\ Clearing[3] = "clear 2"
      /\ Clearing[4] = "clear 3" /\ Clearing[5] = "none"
  BY DEF Clearing
<1>2. \A i \in 1..4 : i = 1 \/ i = 2 \/ i = 3 \/ i = 4 OBVIOUS
<1>3. \A i \in 1..4 : Clearing[i] \in IsrPlaces /\ Clearing[i] \notin {"none", "fill", "count"}
  BY <1>1, <1>2 DEF IsrPlaces
<1>4. \A i \in 1..4 : Clearing[i + 1] = "none" <=> i = 4
  <2> TAKE i \in 1..4
  <2>1. CASE i = 4
    <3>1. i + 1 = 5 BY <2>1
    <3> QED BY <1>1, <2>1, <3>1
  <2>2. CASE i = 1 \/ i = 2 \/ i = 3
    <3>1. i + 1 = 2 \/ i + 1 = 3 \/ i + 1 = 4 BY <2>2
    <3> QED BY <1>1, <2>2, <3>1
  <2> QED BY <1>2, <2>1, <2>2
<1>5. \A i \in 1..4 : i # 4 => i + 1 \in 1..4 OBVIOUS
<1>6. \A i \in 1..4 : Clearing[i + 1] \in IsrPlaces /\ Clearing[i + 1] \notin {"fill", "count"}
  BY <1>3, <1>4, <1>5 DEF IsrPlaces
<1>7. \A i, j \in 1..4 : Clearing[i] = Clearing[j] => i = j BY <1>1, <1>2
<1> QED BY <1>3, <1>4, <1>6, <1>7

\* The next descriptor to run is one of the four, or none.
LEMMA TurnInRange ==
  ASSUME NEW d \in Slot, NEW descriptors
  PROVE  Turn(d, descriptors) \in Slot \union {None}
<1> DEFINE waiting == {k \in 1..NO_OF_HPDMA_DESCRIPTORS :
                         descriptors[(d + k) % NO_OF_HPDMA_DESCRIPTORS].valid}
           first == CHOOSE k \in waiting : \A j \in waiting : k <= j
<1>1. CASE waiting = {} BY <1>1 DEF Turn
<1>2. CASE waiting # {}
  <2>1. waiting \subseteq {1, 2, 3, 4} BY DEF NO_OF_HPDMA_DESCRIPTORS
  <2> HIDE DEF waiting
  <2>2. \E k \in waiting : \A j \in waiting : k <= j
    <3>1. CASE 1 \in waiting BY <2>1, <3>1
    <3>2. CASE 1 \notin waiting /\ 2 \in waiting BY <2>1, <3>2
    <3>3. CASE 1 \notin waiting /\ 2 \notin waiting /\ 3 \in waiting BY <2>1, <3>3
    <3>4. CASE waiting = {4} BY <3>4
    <3> QED BY <1>2, <2>1, <3>1, <3>2, <3>3, <3>4
  <2>3. first \in waiting BY <2>2
  <2>4. first \in {1, 2, 3, 4} BY <2>1, <2>3
  <2> HIDE DEF first
  <2>5. (d + first) % NO_OF_HPDMA_DESCRIPTORS \in Slot
    BY <2>4 DEF Slot, NO_OF_HPDMA_DESCRIPTORS
  <2> QED BY <1>2, <2>5 DEF Turn, first, waiting
<1> QED BY <1>1, <1>2

LEMMA StartTransfer ==
  ASSUME NEW d \in 0..4, NEW descriptors \in [Slot -> Registers], Controller,
         next \in Nat, left \in Nat, transfer \in [number : Nat, size : Nat],
         start_transfer(descriptors, d), error' = error
  PROVE  Controller' /\ next' \in Nat /\ left' \in Nat
<1>1. Handed(descriptors, d) \in [Slot -> Registers]
  <2>1. <<transfer.number, next>> \in Nat \X Nat OBVIOUS
  <2>2. \A r \in Registers : [r EXCEPT !.valid = TRUE, !.pause = FALSE, !.irq = TRUE,
                                      !.chunk = <<transfer.number, next>>] \in Registers
    BY <2>1 DEF Registers
  <2>3. CASE d \in Slot
    <3>1. Handed(descriptors, d) =
            [descriptors EXCEPT ![d] = [@ EXCEPT !.valid = TRUE, !.pause = FALSE, !.irq = TRUE,
                                                 !.chunk = <<transfer.number, next>>]]
      BY <2>3 DEF Handed, Registers
    <3>2. PICK r \in Registers : r = descriptors[d] BY <2>3
    <3>3. PICK q \in Registers : q = [r EXCEPT !.valid = TRUE, !.pause = FALSE, !.irq = TRUE,
                                              !.chunk = <<transfer.number, next>>]
      BY <2>2
    <3>4. Handed(descriptors, d) = [descriptors EXCEPT ![d] = q] BY <3>1, <3>2, <3>3
    <3> QED BY <3>4
  <2>4. CASE d \notin Slot BY <2>4 DEF Handed
  <2> QED BY <2>3, <2>4
<1>2. running' \in Slot \union {None} BY DEF start_transfer, Controller
<1>3. next' \in Nat /\ left' \in Nat BY DEF start_transfer
<1> QED BY <1>1, <1>2, <1>3 DEF start_transfer, Controller

LEMMA ClearIsRegisters == Clear \in Registers
<1>1. <<0, 0>> \in Nat \X Nat OBVIOUS
<1> QED BY <1>1 DEF Clear, Registers

LEMMA HardwareStep ==
  ASSUME Inv, ChunkDone \/ ChunkFails
  PROVE  Inv'
<1>1. CASE ChunkFails
  BY <1>1 DEF ChunkFails, Inv, Threads, Controller, Transfer, Counting, indices, threads, history
<1>2. CASE ChunkDone
  <2>1. running \in Slot BY <1>2 DEF ChunkDone, Works, Inv, Controller
  <2>2. Descriptor' \in [Slot -> Registers]
    BY <1>2, <2>1, ZenonT(30) DEF ChunkDone, Inv, Controller, Registers
  <2>3. running' \in Slot \union {None} BY <1>2, <2>1, TurnInRange DEF ChunkDone
  <2> QED BY <1>2, <2>2, <2>3 DEF ChunkDone, Inv, Threads, Controller, Transfer, Counting, indices, threads
<1> QED BY <1>1, <1>2

\* The loop of MSS_HPDMA_start hands out a chunk, in either thread.
LEMMA LoopFills ==
  ASSUME Inv, LoopGoesOn(g_hpdma_end_desc), start_transfer(Descriptor, g_hpdma_end_desc),
         UNCHANGED <<state, indices, error, history>>
  PROVE  /\ Controller' /\ next' \in Nat /\ left' \in Nat
         /\ g_hpdma_end_desc' \in 0..4 /\ g_hpdma_end_desc' < 4
         /\ UNCHANGED <<state, g_hpdma_current_desc, transfer, pauses>>
<1>1. /\ Descriptor \in [Slot -> Registers] /\ Controller
      /\ next \in Nat /\ left \in Nat /\ transfer \in [number : Nat, size : Nat]
      /\ g_hpdma_end_desc \in 0..4 /\ error' = error
  BY DEF Inv, Controller, Transfer
<1>2. Controller' /\ next' \in Nat /\ left' \in Nat BY <1>1, StartTransfer
<1>3. g_hpdma_end_desc < 4 BY DEF LoopGoesOn, NO_OF_HPDMA_DESCRIPTORS
<1> QED BY <1>1, <1>2, <1>3 DEF indices, history

\* The loop counts the chunk, or is over.
LEMMA LoopCounts ==
  ASSUME Inv,
         \/ /\ Counting /\ g_hpdma_end_desc' = g_hpdma_end_desc + 1
            /\ UNCHANGED <<state, next, left, g_hpdma_current_desc, hardware, history, wild>>
         \/ UNCHANGED <<state, next, left, indices, hardware, history, wild>>
  PROVE  /\ Controller' /\ next' \in Nat /\ left' \in Nat /\ g_hpdma_end_desc' \in 0..4
         /\ UNCHANGED <<state, g_hpdma_current_desc, transfer, pauses>>
BY DEF Inv, Controller, Transfer, hardware, history, indices

LEMMA StartStep ==
  ASSUME Inv, Sizes \subseteq Nat, NEW n \in Sizes, StartGlobals(n)
  PROVE  /\ state' = "IN_PROGRESS" /\ next' \in Nat /\ left' \in Nat
         /\ transfer' \in [number : Nat, size : Nat]
         /\ g_hpdma_current_desc' = 0 /\ g_hpdma_end_desc' = 0
BY DEF StartGlobals, Inv, Transfer

LEMMA ClearStep ==
  ASSUME Controller, NEW d \in Slot, ClearDescriptor(d)
  PROVE  Controller'
<1>1. Descriptor' \in [Slot -> Registers] BY ClearIsRegisters DEF ClearDescriptor, Controller
<1>2. running' \in Slot \union {None} BY TurnInRange DEF ClearDescriptor, Controller
<1> QED BY <1>1, <1>2 DEF ClearDescriptor, Controller

LEMMA ApplicationStep ==
  ASSUME Inv, Application
  PROVE  Inv'
<1> USE DEF Inv
<1>1. CASE MSS_HPDMA_start
  <2>1. PICK n \in Sizes : StartGlobals(n) BY <1>1 DEF MSS_HPDMA_start
  <2>2. isr = "none" /\ main' = "fill" /\ UNCHANGED <<isr, hardware, pauses>>
    BY <1>1 DEF MSS_HPDMA_start, Calls
  <2>3. Threads' BY <2>2 DEF Threads, MainPlaces, IsrPlaces
  <2>4. Controller' BY <2>2 DEF Controller, hardware
  <2>5. 0 \in Slot BY DEF Slot, NO_OF_HPDMA_DESCRIPTORS
  <2>6. Transfer' BY <2>1, <2>2, <2>5, StartStep, HpdmaAssumption DEF Transfer, Counting
  <2> QED BY <2>2, <2>3, <2>4, <2>6
<1>2. CASE StartFills
  <2>1. isr = "none" /\ isr' = isr /\ StartLoop(main, main', "idle") BY <1>2 DEF StartFills
  <2>2. CASE /\ main = "fill" /\ LoopGoesOn(g_hpdma_end_desc) /\ main' = "count"
             /\ start_transfer(Descriptor, g_hpdma_end_desc)
             /\ UNCHANGED <<state, indices, error, history>>
    BY <2>1, <2>2, LoopFills DEF Threads, Transfer, Counting, MainPlaces, IsrPlaces
  <2>3. CASE /\ main = "count" /\ main' = "fill" /\ g_hpdma_end_desc' = g_hpdma_end_desc + 1
             /\ UNCHANGED <<state, next, left, g_hpdma_current_desc, hardware, history, wild>>
    BY <2>1, <2>3, LoopCounts DEF Threads, Transfer, Counting, MainPlaces, IsrPlaces
  <2>4. CASE /\ main = "fill" /\ main' = "idle"
             /\ UNCHANGED <<state, next, left, indices, hardware, history, wild>>
    BY <2>1, <2>4, LoopCounts DEF Threads, Transfer, Counting, MainPlaces, IsrPlaces
  <2> QED BY <2>1, <2>2, <2>3, <2>4 DEF StartLoop
<1>3. CASE MSS_HPDMA_pause \/ MSS_HPDMA_resume
  <2>1. Descriptor' \in [Slot -> Registers]
    <3>1. Descriptor \in [Slot -> Registers] /\ g_hpdma_current_desc \in Slot
      BY DEF Controller, Transfer
    <3>2. \A r \in Registers, p \in BOOLEAN : [r EXCEPT !.pause = p] \in Registers BY DEF Registers
    <3>3. \E p \in BOOLEAN :
            Descriptor' = [Descriptor EXCEPT ![g_hpdma_current_desc] = [@ EXCEPT !.pause = p]]
      BY <1>3 DEF MSS_HPDMA_pause, MSS_HPDMA_resume
    <3> QED BY <3>1, <3>2, <3>3
  <2>2. pauses' \in Nat
    BY <1>3 DEF MSS_HPDMA_pause, MSS_HPDMA_resume, history
  <2> QED BY <1>3, <2>1, <2>2
          DEF MSS_HPDMA_pause, MSS_HPDMA_resume, Threads, Controller, Transfer, Counting,
              indices, threads, history
<1>4. CASE MSS_HPDMA_abort
  <2>1. isr = "none" /\ main' = Abort[1]
    BY <1>4 DEF MSS_HPDMA_abort, Calls
  <2>2. Threads' /\ ~Counting'
    BY <1>4, <2>1, AbortPlaces DEF MSS_HPDMA_abort, Threads, MainPlaces, IsrPlaces, Counting
  <2> QED BY <1>4, <2>2 DEF MSS_HPDMA_abort, Controller, Transfer, indices, hardware
<1>5. CASE AbortClears
  <2>1. PICK i \in 1..4 : main' = Abort[i + 1] /\ ClearDescriptor(i - 1) BY <1>5 DEF AbortClears
  <2>2. i - 1 \in Slot BY DEF Slot, NO_OF_HPDMA_DESCRIPTORS
  <2>3. Controller' BY <2>1, <2>2, ClearStep
  <2>4. main' \notin {"idle", "fill", "count"} /\ main' \in MainPlaces
    <3>1. i + 1 \in 1..5 OBVIOUS
    <3> QED BY <2>1, <3>1, AbortPlaces
  <2>5. isr = "none" /\ UNCHANGED <<state, next, left, indices, isr, erring, history, wild>>
    BY <1>5 DEF AbortClears
  <2>6. Threads' BY <2>4, <2>5 DEF Threads, MainPlaces
  <2>7. Transfer' BY <2>4, <2>5 DEF Transfer, Counting, indices, history
  <2> QED BY <2>3, <2>5, <2>6, <2>7 DEF history
<1>6. CASE AbortEnds
  <2>1. Threads' /\ ~Counting' BY <1>6 DEF AbortEnds, Threads, MainPlaces, Counting
  <2> QED BY <1>6, <2>1 DEF AbortEnds, Controller, Transfer, indices, hardware, history
<1> QED BY <1>1, <1>2, <1>3, <1>4, <1>5, <1>6 DEF Application

LEMMA AcknowledgedIsRegisters ==
  ASSUME Controller, g_hpdma_current_desc \in Slot
  PROVE  Acknowledged \in [Slot -> Registers]
<1>1. \A r \in Registers : [r EXCEPT !.done = FALSE, !.irq = FALSE] \in Registers BY DEF Registers
<1>2. Acknowledged = [Descriptor EXCEPT ![g_hpdma_current_desc] = [@ EXCEPT !.done = FALSE, !.irq = FALSE]]
  BY DEF Acknowledged, Controller
<1> QED BY <1>1, <1>2 DEF Controller

\* What the handler of the application may do to the globals.
LEMMA ToldStep ==
  ASSUME Inv, NEW outcome \in {"COMPLETED"} \union Errors, NEW afterwards \in {"none", Clearing[1]},
         NEW current \in Slot, NEW end \in 0..4, Told(outcome, afterwards, current, end),
         main' = main, main = "idle"
  PROVE  Transfer' /\ Threads'
<1>1. CASE /\ state' = outcome /\ isr' = afterwards
           /\ g_hpdma_current_desc' = current /\ g_hpdma_end_desc' = end
           /\ UNCHANGED <<next, left, transfer, delivered, aborted>>
  <2>1. afterwards \in IsrPlaces /\ afterwards \notin {"fill", "count"}
    BY ClearingPlaces DEF IsrPlaces
  <2> QED BY <1>1, <2>1 DEF Inv, Transfer, Threads, Counting, MainPlaces
<1>2. CASE isr' = "fill" /\ \E n \in Sizes : StartGlobals(n)
  <2>1. Sizes \subseteq Nat /\ 0 \in Slot BY HpdmaAssumption DEF Slot, NO_OF_HPDMA_DESCRIPTORS
  <2>2. PICK n \in Sizes : StartGlobals(n) BY <1>2
  <2>3. /\ state' = "IN_PROGRESS" /\ next' \in Nat /\ left' \in Nat
        /\ transfer' \in [number : Nat, size : Nat]
        /\ g_hpdma_current_desc' = 0 /\ g_hpdma_end_desc' = 0
    BY <2>1, <2>2, StartStep
  <2> QED BY <1>2, <2>1, <2>3 DEF Transfer, Threads, Counting, MainPlaces, IsrPlaces
<1> QED BY <1>1, <1>2 DEF Told

LEMMA InterruptsStep ==
  ASSUME Inv, Preempts = FALSE, Interrupts
  PROVE  Inv'
<1>0. Threads /\ Controller /\ Transfer /\ pauses \in Nat BY DEF Inv
<1>1. CASE HPDMA_Complete_IRQHandler
  <2>1. main = "idle" /\ isr = "none" /\ main' = main /\ error' = error /\ pauses' = pauses
    BY <1>1 DEF HPDMA_Complete_IRQHandler, Enters
  <2>2. g_hpdma_current_desc \in Slot /\ NextSlot(g_hpdma_current_desc) \in Slot
    BY <1>0 DEF Transfer, NextSlot, Slot, NO_OF_HPDMA_DESCRIPTORS
  <2>3. Acknowledged \in [Slot -> Registers] BY <1>0, <2>2, AcknowledgedIsRegisters
  <2>4. CASE CompleteHandsOver
    <3>1. g_hpdma_end_desc' \in 0..4
      BY <1>0, <2>4 DEF CompleteHandsOver, Transfer, AfterLast, NO_OF_HPDMA_DESCRIPTORS
    <3>2. /\ start_transfer(Acknowledged, g_hpdma_end_desc')
          /\ next \in Nat /\ left \in Nat /\ transfer \in [number : Nat, size : Nat]
      BY <1>0, <2>4 DEF CompleteHandsOver, Transfer
    <3>3. Controller' /\ next' \in Nat /\ left' \in Nat
      BY <1>0, <2>1, <2>3, <3>1, <3>2, StartTransfer
    <3>4. UNCHANGED <<state, transfer, isr>>
          /\ g_hpdma_current_desc' = NextSlot(g_hpdma_current_desc)
      BY <2>4 DEF CompleteHandsOver
    <3>5. Threads' /\ ~Counting' BY <1>0, <2>1, <3>4 DEF Threads, Counting
    <3>6. Transfer' BY <1>0, <2>2, <3>1, <3>3, <3>4, <3>5 DEF Transfer
    <3> QED BY <1>0, <2>1, <3>3, <3>5, <3>6 DEF Inv
  <2>5. CASE CompleteWaits
    <3>1. UNCHANGED <<state, next, left, g_hpdma_end_desc, running, transfer, isr>>
          /\ g_hpdma_current_desc' = NextSlot(g_hpdma_current_desc) /\ Descriptor' = Acknowledged
      BY <2>5 DEF CompleteWaits
    <3>2. Threads' /\ ~Counting' BY <1>0, <2>1, <3>1 DEF Threads, Counting
    <3>3. Controller' BY <1>0, <2>1, <2>3, <3>1 DEF Controller
    <3>4. Transfer' BY <1>0, <2>2, <3>1, <3>2 DEF Transfer
    <3> QED BY <1>0, <2>1, <3>2, <3>3, <3>4 DEF Inv
  <2>6. CASE CompleteEnds
    <3>1. Descriptor' = Acknowledged /\ running' = running /\ Told("COMPLETED", "none", 0, 0)
      BY <2>6 DEF CompleteEnds
    <3>2. Controller' BY <1>0, <2>1, <2>3, <3>1 DEF Controller
    <3>3. 0 \in Slot BY DEF Slot, NO_OF_HPDMA_DESCRIPTORS
    <3>4. Transfer' /\ Threads' BY <2>1, <3>1, <3>3, ToldStep
    <3> QED BY <1>0, <2>1, <3>2, <3>4 DEF Inv
  <2> QED BY <1>1, <2>4, <2>5, <2>6 DEF HPDMA_Complete_IRQHandler
<1>2. CASE HPDMA_Error_IRQHandler
  <2>1. main = "idle" /\ isr = "none" /\ UNCHANGED <<main, hardware, pauses>>
    BY <1>2 DEF HPDMA_Error_IRQHandler, Enters
  <2>2. Controller' BY <1>0, <2>1 DEF Controller, hardware
  <2>3. error \in Errors BY <1>0, <1>2 DEF HPDMA_Error_IRQHandler, ErrorPending, Controller
  <2>4. CASE Told(error, Clearing[1], g_hpdma_current_desc, g_hpdma_end_desc)
    <3>1. g_hpdma_current_desc \in Slot /\ g_hpdma_end_desc \in 0..4 BY <1>0 DEF Transfer
    <3>2. Transfer' /\ Threads' BY <2>1, <2>3, <2>4, <3>1, ToldStep
    <3> QED BY <1>0, <2>1, <2>2, <3>2 DEF Inv
  <2>5. CASE isr' = Clearing[1] /\ UNCHANGED <<state, next, left, indices, transfer>>
    <3>1. Threads' BY <2>1, <2>5, ClearingPlaces DEF Threads, MainPlaces
    <3>2. Transfer' BY <1>0, <2>1, <2>5, ClearingPlaces DEF Transfer, Counting, indices
    <3> QED BY <1>0, <2>1, <2>2, <3>1, <3>2 DEF Inv
  <2> QED BY <1>2, <2>4, <2>5 DEF HPDMA_Error_IRQHandler
<1>3. CASE HandlerFills
  <2>1. main' = main BY <1>3 DEF HandlerFills
  <2>2. CASE /\ isr = "fill" /\ LoopGoesOn(g_hpdma_end_desc) /\ isr' = "count"
             /\ start_transfer(Descriptor, g_hpdma_end_desc)
             /\ UNCHANGED <<state, indices, error, history>>
    BY <1>0, <2>1, <2>2, LoopFills DEF Inv, Threads, Transfer, Counting, MainPlaces, IsrPlaces
  <2>3. CASE /\ isr = "count" /\ isr' = "fill" /\ g_hpdma_end_desc' = g_hpdma_end_desc + 1
             /\ UNCHANGED <<state, next, left, g_hpdma_current_desc, hardware, history, wild>>
    BY <1>0, <2>1, <2>3, LoopCounts DEF Inv, Threads, Transfer, Counting, MainPlaces, IsrPlaces
  <2>4. CASE /\ isr = "fill" /\ isr' \in {Clearing[1], "none"}
             /\ UNCHANGED <<state, next, left, indices, hardware, history, wild>>
    <3>1. isr' \in IsrPlaces /\ isr' # "count" BY <2>4, ClearingPlaces DEF IsrPlaces
    <3> QED BY <1>0, <2>1, <2>4, <3>1, LoopCounts DEF Inv, Threads, Transfer, Counting, MainPlaces
  <2> QED BY <1>3, <2>2, <2>3, <2>4 DEF HandlerFills, StartLoop
<1>4. CASE ErrorClears
  <2>1. PICK i \in 1..4 : isr = Clearing[i] /\ isr' = Clearing[i + 1] /\ ClearDescriptor(i - 1)
    BY <1>4 DEF ErrorClears
  <2>2. i - 1 \in Slot BY DEF Slot, NO_OF_HPDMA_DESCRIPTORS
  <2>3. Controller' BY <1>0, <2>1, <2>2, ClearStep
  <2>4. isr # "none" /\ isr' \in IsrPlaces /\ isr' \notin {"fill", "count"} BY <2>1, ClearingPlaces
  <2>5. main = "idle" /\ UNCHANGED <<state, next, left, indices, main, history>>
    BY <1>0, <1>4, <2>4 DEF ErrorClears, Threads
  <2>6. Threads' /\ ~Counting' BY <2>4, <2>5 DEF Threads, Counting, MainPlaces
  <2>7. Transfer' BY <1>0, <2>5, <2>6 DEF Transfer, indices, history
  <2> QED BY <1>0, <2>3, <2>5, <2>6, <2>7 DEF Inv, history
<1> QED BY <1>1, <1>2, <1>3, <1>4 DEF Interrupts

LEMMA Inductive ==
  ASSUME Preempts = FALSE, Inv, [Next]_vars
  PROVE  Inv'
<1>1. CASE UNCHANGED vars
  BY <1>1 DEF vars, indices, hardware, threads, history, Inv, Threads, Controller, Transfer, Counting
<1> QED BY <1>1, HardwareStep, ApplicationStep, InterruptsStep DEF Next

LEMMA InitInv ==
  ASSUME Init
  PROVE  Inv
<1>1. Threads BY DEF Init, Threads, MainPlaces, IsrPlaces
<1>2. Controller BY ClearIsRegisters DEF Init, Controller
<1>3. Transfer BY DEF Init, Transfer, Counting, Slot, NO_OF_HPDMA_DESCRIPTORS
<1> QED BY <1>1, <1>2, <1>3 DEF Inv, Init

\* The driver's indices, counters and registers keep their types: the index of the descriptor
\* believed to be running is always one of the four (mss_hpdma.c:308-421).
THEOREM TypeCorrect ==
  ASSUME Preempts = FALSE PROVE Spec => []TypeInvariant
<1>1. Init => Inv BY InitInv
<1>2. Inv /\ [Next]_vars => Inv' BY Inductive
<1>3. Inv => TypeInvariant
  <2> SUFFICES ASSUME Inv PROVE TypeInvariant OBVIOUS
  <2>1. Threads /\ Controller /\ Transfer /\ pauses \in Nat BY DEF Inv
  <2>2. {next, left, pauses, transfer.number, transfer.size} \subseteq Nat BY <2>1 DEF Transfer
  <2>3. \A d \in Slot : {Descriptor[d].valid, Descriptor[d].pause, Descriptor[d].irq, Descriptor[d].done}
                           \subseteq BOOLEAN
    BY <2>1 DEF Controller, Registers
  <2> QED BY <2>1, <2>2, <2>3
          DEF TypeInvariant, Threads, Controller, Transfer, MainPlaces, IsrPlaces, NO_OF_HPDMA_DESCRIPTORS
<1> QED BY <1>1, <1>2, <1>3, PTL DEF Spec

-----------------------------------------------------------------------------
(* No descriptor past the last one *)

\* How far the end descriptor and the remaining chunks are from each other.
Counters ==
  /\ Filling => left = transfer.size - g_hpdma_end_desc
  /\ Counting => left = transfer.size - g_hpdma_end_desc - 1
  /\ ~Filling /\ ~Counting /\ left > 0 =>
       \/ g_hpdma_end_desc = 4 /\ left = transfer.size - 4
       \/ g_hpdma_end_desc < 4 /\ left <= transfer.size - 5 - g_hpdma_end_desc

Bounded == Inv /\ Counters /\ transfer.size <= 8 /\ DescriptorsInBounds

\* The actions that leave the counters as they are, and start or end no loop.
LEMMA CountersKept ==
  ASSUME Bounded,
         UNCHANGED <<left, g_hpdma_end_desc, transfer, wild>>, Filling' = Filling, Counting' = Counting
  PROVE  Counters' /\ transfer'.size <= 8 /\ DescriptorsInBounds'
BY DEF Bounded, Counters, DescriptorsInBounds

LEMMA CountersStart ==
  ASSUME Bounded, Sizes \subseteq 1..8, NEW n \in Sizes, StartGlobals(n), wild' = wild,
         Filling', ~Counting'
  PROVE  Counters' /\ transfer'.size <= 8 /\ DescriptorsInBounds'
<1>1. transfer'.size = n BY DEF StartGlobals
<1> QED BY <1>1 DEF StartGlobals, Bounded, Counters, DescriptorsInBounds

LEMMA CountersLoop ==
  ASSUME Bounded,
         \/ /\ LoopGoesOn(g_hpdma_end_desc) /\ start_transfer(Descriptor, g_hpdma_end_desc)
            /\ UNCHANGED <<indices, transfer>> /\ Filling /\ ~Filling' /\ Counting'
         \/ /\ g_hpdma_end_desc' = g_hpdma_end_desc + 1 /\ UNCHANGED <<left, transfer, wild>>
            /\ Counting /\ ~Counting' /\ Filling'
         \/ /\ ~LoopGoesOn(g_hpdma_end_desc) /\ UNCHANGED <<left, indices, transfer, wild>>
            /\ Filling /\ ~Counting' /\ ~Filling'
  PROVE  Counters' /\ transfer'.size <= 8 /\ DescriptorsInBounds'
<1>0. /\ left \in Nat /\ transfer.size \in Nat /\ g_hpdma_end_desc \in 0..4 /\ transfer.size <= 8
      /\ Counters /\ ~wild
  BY DEF Bounded, Inv, Transfer, DescriptorsInBounds
<1>1. CASE /\ LoopGoesOn(g_hpdma_end_desc) /\ start_transfer(Descriptor, g_hpdma_end_desc)
           /\ UNCHANGED <<indices, transfer>> /\ Filling /\ ~Filling' /\ Counting'
  <2>1. g_hpdma_end_desc \in Slot /\ g_hpdma_end_desc < transfer.size
    BY <1>0, <1>1 DEF LoopGoesOn, Slot, NO_OF_HPDMA_DESCRIPTORS
  <2>2. left = transfer.size - g_hpdma_end_desc BY <1>0, <1>1 DEF Counters
  <2>3. left' = left - 1 BY <1>0, <1>1, <2>1, <2>2 DEF start_transfer
  <2>4. ~wild'
    <3>1. wild' = (wild \/ g_hpdma_end_desc \notin Slot) BY <1>1 DEF start_transfer
    <3> QED BY <1>0, <2>1, <3>1, Zenon
  <2> QED BY <1>0, <1>1, <2>2, <2>3, <2>4 DEF Counters, DescriptorsInBounds, indices
<1>2. CASE /\ g_hpdma_end_desc' = g_hpdma_end_desc + 1 /\ UNCHANGED <<left, transfer, wild>>
           /\ Counting /\ ~Counting' /\ Filling'
  BY <1>0, <1>2 DEF Counters, DescriptorsInBounds
<1>3. CASE /\ ~LoopGoesOn(g_hpdma_end_desc) /\ UNCHANGED <<left, indices, transfer, wild>>
           /\ Filling /\ ~Counting' /\ ~Filling'
  BY <1>0, <1>3 DEF Counters, DescriptorsInBounds, LoopGoesOn, NO_OF_HPDMA_DESCRIPTORS, indices
<1> QED BY <1>1, <1>2, <1>3

\* The completion handler hands over a chunk only while the end descriptor has not come round.
LEMMA CountersHandOver ==
  ASSUME Bounded, CompleteHandsOver, ~Filling, ~Counting, ~Filling', ~Counting'
  PROVE  Counters' /\ transfer'.size <= 8 /\ DescriptorsInBounds'
<1>1. /\ left \in Nat /\ transfer.size \in Nat /\ g_hpdma_end_desc \in 0..4 /\ transfer.size <= 8
      /\ left > 0 /\ transfer' = transfer /\ g_hpdma_end_desc' = AfterLast(g_hpdma_end_desc)
      /\ start_transfer(Acknowledged, g_hpdma_end_desc') /\ ~wild
  BY DEF Bounded, Inv, Transfer, CompleteHandsOver, DescriptorsInBounds
<1>2. \/ g_hpdma_end_desc = 4 /\ left = transfer.size - 4
      \/ g_hpdma_end_desc < 3 /\ left <= transfer.size - 5 - g_hpdma_end_desc
  BY <1>1 DEF Bounded, Counters
<1>3. \/ g_hpdma_end_desc = 4 /\ g_hpdma_end_desc' = 0
      \/ g_hpdma_end_desc < 3 /\ g_hpdma_end_desc' = g_hpdma_end_desc + 1
  BY <1>1, <1>2 DEF AfterLast, NO_OF_HPDMA_DESCRIPTORS
<1>4. g_hpdma_end_desc' \in Slot BY <1>1, <1>3 DEF Slot, NO_OF_HPDMA_DESCRIPTORS
<1>5. left' = left - 1 BY <1>1 DEF start_transfer
<1>6. ~wild'
  <2>1. wild' = (wild \/ g_hpdma_end_desc' \notin Slot) BY <1>1 DEF start_transfer
  <2> QED BY <1>1, <1>4, <2>1, Zenon
<1> QED BY <1>1, <1>2, <1>3, <1>5, <1>6 DEF Counters, DescriptorsInBounds

LEMMA CountersTold ==
  ASSUME Bounded, Sizes \subseteq 1..8, NEW outcome, NEW afterwards \in {"none", Clearing[1]},
         NEW current, NEW end, Told(outcome, afterwards, current, end),
         main = "idle", main' = "idle", isr = "none", wild' = wild,
         end = g_hpdma_end_desc \/ left = 0
  PROVE  Counters' /\ transfer'.size <= 8 /\ DescriptorsInBounds'
<1>1. CASE isr' = afterwards /\ g_hpdma_end_desc' = end /\ UNCHANGED <<left, transfer>>
  BY <1>1, ClearingPlaces DEF Bounded, Counters, DescriptorsInBounds, Filling, Counting
<1>2. CASE isr' = "fill" /\ \E n \in Sizes : StartGlobals(n)
  <2>1. PICK n \in Sizes : StartGlobals(n) BY <1>2
  <2>2. Filling' /\ ~Counting' BY <1>2 DEF Filling, Counting
  <2> QED BY <2>1, <2>2, CountersStart
<1> QED BY <1>1, <1>2 DEF Told

LEMMA BoundedStep ==
  ASSUME Bounded, Preempts = FALSE, Sizes \subseteq 1..8, Next
  PROVE  Counters' /\ transfer'.size <= 8 /\ DescriptorsInBounds'
<1>0. Inv /\ Threads BY DEF Bounded, Inv
<1>1. CASE ChunkDone \/ ChunkFails
  BY <1>1, CountersKept DEF ChunkDone, ChunkFails, indices, threads, history, Filling, Counting
<1>2. CASE MSS_HPDMA_start
  <2>1. PICK n \in Sizes : StartGlobals(n) BY <1>2 DEF MSS_HPDMA_start
  <2>2. wild' = wild /\ Filling' /\ ~Counting'
    BY <1>2 DEF MSS_HPDMA_start, Calls, Filling, Counting
  <2> QED BY <2>1, <2>2, CountersStart
<1>3. CASE StartFills \/ HandlerFills
  <2>1. CASE StartFills
    <3>1. isr = "none" /\ isr' = "none" BY <2>1 DEF StartFills
    <3> QED BY <2>1, <3>1, CountersLoop DEF StartFills, StartLoop, Filling, Counting, history
  <2>2. CASE HandlerFills
    <3>1. main = "idle" /\ main' = "idle"
      BY <1>0, <2>2 DEF HandlerFills, StartLoop, Threads
    <3>2. PICK over : over \notin {"fill", "count"} /\ StartLoop(isr, isr', over)
      BY <2>2, ClearingPlaces DEF HandlerFills
    <3> QED BY <3>1, <3>2, CountersLoop DEF StartLoop, Filling, Counting, history
  <2> QED BY <1>3, <2>1, <2>2
<1>4. CASE MSS_HPDMA_pause \/ MSS_HPDMA_resume
  BY <1>4, CountersKept DEF MSS_HPDMA_pause, MSS_HPDMA_resume, indices, threads, history, Filling, Counting
<1>5. CASE MSS_HPDMA_abort \/ AbortClears \/ AbortEnds
  <2>1. /\ UNCHANGED <<left, g_hpdma_end_desc, transfer, wild, isr>> /\ isr = "none"
    BY <1>5 DEF MSS_HPDMA_abort, AbortClears, AbortEnds, Calls, indices, history
  <2>2. main \notin {"fill", "count"} /\ main' \notin {"fill", "count"}
    <3>1. CASE MSS_HPDMA_abort BY <3>1, AbortPlaces DEF MSS_HPDMA_abort, Calls
    <3>2. CASE AbortClears
      <4>1. PICK i \in 1..4 : main = Abort[i] /\ main' = Abort[i + 1] BY <3>2 DEF AbortClears
      <4>2. i \in 1..5 /\ i + 1 \in 1..5 OBVIOUS
      <4> QED BY <4>1, <4>2, AbortPlaces
    <3>3. CASE AbortEnds BY <3>3, AbortPlaces DEF AbortEnds
    <3> QED BY <1>5, <3>1, <3>2, <3>3
  <2> QED BY <2>1, <2>2, CountersKept DEF Filling, Counting
<1>6. CASE HPDMA_Complete_IRQHandler
  <2>1. main = "idle" /\ main' = "idle" /\ isr = "none"
    BY <1>6 DEF HPDMA_Complete_IRQHandler, Enters
  <2>2. CASE CompleteHandsOver
    BY <2>1, <2>2, CountersHandOver DEF CompleteHandsOver, Filling, Counting
  <2>3. CASE CompleteWaits BY <2>1, <2>3, CountersKept DEF CompleteWaits, Filling, Counting
  <2>4. CASE CompleteEnds BY <2>1, <2>4, CountersTold DEF CompleteEnds
  <2> QED BY <1>6, <2>2, <2>3, <2>4 DEF HPDMA_Complete_IRQHandler
<1>7. CASE HPDMA_Error_IRQHandler
  <2>1. main = "idle" /\ main' = "idle" /\ isr = "none" /\ wild' = wild
    BY <1>7 DEF HPDMA_Error_IRQHandler, Enters
  <2>2. CASE Told(error, Clearing[1], g_hpdma_current_desc, g_hpdma_end_desc)
    BY <2>1, <2>2, CountersTold
  <2>3. CASE isr' = Clearing[1] /\ UNCHANGED <<left, indices, transfer>>
    BY <2>1, <2>3, CountersKept, ClearingPlaces DEF Filling, Counting, indices
  <2> QED BY <1>7, <2>2, <2>3 DEF HPDMA_Error_IRQHandler
<1>8. CASE ErrorClears
  <2>1. isr \notin {"fill", "count"} /\ isr' \notin {"fill", "count"}
    BY <1>8, ClearingPlaces DEF ErrorClears
  <2> QED BY <1>8, <2>1, CountersKept DEF ErrorClears, indices, history, Filling, Counting
<1> QED BY <1>1, <1>2, <1>3, <1>4, <1>5, <1>6, <1>7, <1>8 DEF Next, Application, Interrupts

\* A transfer of up to eight chunks (512 kbytes) is handed to the four descriptors only. The
\* ninth chunk would go to Descriptor[4], which does not exist (mss_hpdma.c:322-336).
THEOREM EightChunksInBounds ==
  ASSUME Preempts = FALSE, Sizes \subseteq 1..8 PROVE Spec => []DescriptorsInBounds
<1>1. Init => Bounded
  <2>1. Init => Inv BY InitInv
  <2> QED BY <2>1 DEF Init, Bounded, Counters, DescriptorsInBounds, Filling, Counting
<1>2. Bounded /\ [Next]_vars => Bounded'
  <2> SUFFICES ASSUME Bounded, [Next]_vars PROVE Bounded' OBVIOUS
  <2>1. Inv' BY Inductive DEF Bounded
  <2>2. CASE Next BY <2>1, <2>2, BoundedStep DEF Bounded
  <2>3. CASE UNCHANGED vars
    BY <2>1, <2>3, CountersKept DEF vars, indices, threads, history, Filling, Counting, Bounded
  <2> QED BY <2>2, <2>3
<1>3. Bounded => DescriptorsInBounds BY DEF Bounded
<1> QED BY <1>1, <1>2, <1>3, PTL DEF Spec

-----------------------------------------------------------------------------
(* The ring *)

\* A chunk of a transfer: its number and the chunk's place.
Chunks == Nat \X Nat

\* The k-th descriptor from the one the driver believes to be running.
Ahead(current, k) == (current + k) % 4

\* What a descriptor holds while chunk j passes through it.
Finished(r) == r.done /\ r.irq /\ ~r.valid
Waiting(r, number, j) == r.valid /\ r.irq /\ ~r.done /\ r.chunk = <<number, j>>
Free(r) == ~r.valid /\ ~r.irq /\ ~r.done

\* Chunks up to a have been acknowledged, up to d moved, up to h handed over.
Ring(descriptors, current, number, a, d, h) ==
  \A k \in 0..3 :
    /\ a + 1 + k <= d => Finished(descriptors[Ahead(current, k)])
    /\ d < a + 1 + k /\ a + 1 + k <= h =>
         Waiting(descriptors[Ahead(current, k)], number, a + 1 + k)
    /\ h < a + 1 + k => Free(descriptors[Ahead(current, k)])

\* The controller works on the first chunk that waits.
Serves(place, current, a, d, h) ==
  /\ d < h => place = Ahead(current, d - a)
  /\ d = h => place = None

\* Where the driver stands in its transfer: in the loop of MSS_HPDMA_start, or between interrupts.
Stands(a, h) ==
  /\ Filling => a = 0 /\ g_hpdma_current_desc = 0 /\ g_hpdma_end_desc = h /\ h <= 4
  /\ Counting => a = 0 /\ g_hpdma_current_desc = 0 /\ g_hpdma_end_desc = h - 1 /\ 1 <= h /\ h <= 4
  /\ ~Filling /\ ~Counting =>
       /\ a < h
       /\ left > 0 => /\ h = a + 4 /\ a < 4 /\ g_hpdma_current_desc = a
                      /\ g_hpdma_end_desc = IF a = 0 THEN 4 ELSE a - 1

\* The first chunks of the transfer, none left out.
Exact(chunks, number) == \A i \in 1..Len(chunks) : chunks[i] = <<number, i>>

\* A transfer in progress: d chunks moved, h handed over.
Live ==
  /\ main \in {"idle", "fill", "count"} /\ isr \in {"none", "fill", "count"}
  /\ transfer.size \in 1..8 /\ transfer.number \in 1..MaxTransfers
  /\ running = None => error = "none"
  /\ Exact(delivered, transfer.number)
  /\ \E a, d, h \in Nat :
       /\ d = Len(delivered) /\ h + left = transfer.size /\ (left > 0 => next = h + 1)
       /\ a <= d /\ d <= h /\ h <= a + 4
       /\ Ring(Descriptor, g_hpdma_current_desc, transfer.number, a, d, h)
       /\ Serves(running, g_hpdma_current_desc, a, d, h)
       /\ Stands(a, h)

\* Chunks of a transfer, each after the one before.
InOrder(chunks, number, size) ==
  \A i \in 1..Len(chunks) :
    /\ chunks[i][1] = number /\ chunks[i][2] \in 1..size
    /\ i > 1 => chunks[i][2] > chunks[i - 1][2]

LastChunk(chunks) == IF Len(chunks) = 0 THEN 0 ELSE chunks[Len(chunks)][2]

\* The chunks that wait come after those delivered, and in the order of the ring.
Remaining(descriptors, current, number, size, a, last) ==
  \A k \in 0..3 : descriptors[Ahead(current, k)].valid =>
    /\ descriptors[Ahead(current, k)].chunk = <<number, a + 1 + k>>
    /\ last < a + 1 + k /\ a + 1 + k <= size

First(descriptors, place, current) ==
  \/ place = None /\ \A k \in 0..3 : ~descriptors[Ahead(current, k)].valid
  \/ \E r \in 0..3 : /\ place = Ahead(current, r) /\ descriptors[place].valid
                     /\ \A k \in 0..3 : k < r => ~descriptors[Ahead(current, k)].valid

\* A transfer being stopped: the descriptors before the i-th have been cleared, and the controller
\* still moves the chunks that wait in those behind.
Cleared(i) ==
  /\ transfer.number \in 1..MaxTransfers
  /\ running = None => error = "none"
  /\ \A d \in Slot : d < i - 1 => Free(Descriptor[d])
  /\ \E a \in Nat :
       /\ Remaining(Descriptor, g_hpdma_current_desc, transfer.number, transfer.size, a,
                    LastChunk(delivered))
       /\ First(Descriptor, running, g_hpdma_current_desc)

\* By MSS_HPDMA_abort, or by the error handler.
Aborting == isr = "none" /\ \E i \in 1..5 : main = Abort[i] /\ Cleared(i)
Failing ==
  /\ main = "idle" /\ state \notin {"IN_PROGRESS", "COMPLETED"}
  /\ \E i \in 1..4 : isr = Clearing[i] /\ Cleared(i)

Quiet == running = None /\ error = "none" /\ \A d \in Slot : Free(Descriptor[d])

\* No transfer in progress: the controller is at rest, once the error handler has cleared it.
Over == (main = "idle" /\ isr = "none" /\ Quiet) \/ Failing

Reported ==
  /\ DOMAIN outcomes = 1..MaxTransfers /\ transfer.number <= MaxTransfers
  /\ \A t \in 1..MaxTransfers : /\ Len(outcomes[t]) <= 1
                                /\ t > transfer.number => outcomes[t] = <<>>
  /\ state = "IN_PROGRESS" \/ aborted => \A t \in 1..MaxTransfers : t = transfer.number => outcomes[t] = <<>>
  /\ state # "IN_PROGRESS" /\ ~aborted /\ transfer.number > 0 =>
       /\ outcomes[transfer.number] = <<state>>
       /\ state = "COMPLETED" => Len(delivered) = transfer.size

Passing ==
  /\ delivered \in Seq(Chunks) /\ erring = (isr \notin {"none", "fill", "count"})
  /\ InOrder(delivered, transfer.number, transfer.size)
  /\ state \in {"IN_PROGRESS", "COMPLETED"} /\ ~aborted =>
       \A i \in 1..Len(delivered) : delivered[i][2] = i
  /\ Reported
  /\ state = "IN_PROGRESS" /\ ~aborted => Live
  /\ state = "IN_PROGRESS" /\ aborted => Aborting
  /\ state # "IN_PROGRESS" => Over

RingInv == Inv /\ Passing

-----------------------------------------------------------------------------
(* The ring *)

LEMMA Slots == Slot = {0, 1, 2, 3}
BY DEF Slot, NO_OF_HPDMA_DESCRIPTORS

\* The four places from the current one are the four descriptors, each once.
LEMMA AheadSlots ==
  ASSUME NEW c \in Slot
  PROVE  /\ \A k \in 0..3 : Ahead(c, k) \in Slot
         /\ \A k, l \in 0..3 : Ahead(c, k) = Ahead(c, l) => k = l
         /\ \A d \in Slot : \E k \in 0..3 : d = Ahead(c, k)
         /\ Ahead(c, 0) = c
<1>1. c = 0 \/ c = 1 \/ c = 2 \/ c = 3 BY Slots
<1>2. \A k \in 0..3 : k = 0 \/ k = 1 \/ k = 2 \/ k = 3 OBVIOUS
<1>3. 0 \in 0..3 /\ 1 \in 0..3 /\ 2 \in 0..3 /\ 3 \in 0..3 OBVIOUS
<1>4. CASE c = 0
  <2>1. Ahead(c, 0) = 0 /\ Ahead(c, 1) = 1 /\ Ahead(c, 2) = 2 /\ Ahead(c, 3) = 3 BY <1>4 DEF Ahead
  <2> QED BY <1>2, <1>3, <1>4, <2>1, Slots
<1>5. CASE c = 1
  <2>1. Ahead(c, 0) = 1 /\ Ahead(c, 1) = 2 /\ Ahead(c, 2) = 3 /\ Ahead(c, 3) = 0 BY <1>5 DEF Ahead
  <2> QED BY <1>2, <1>3, <1>5, <2>1, Slots
<1>6. CASE c = 2
  <2>1. Ahead(c, 0) = 2 /\ Ahead(c, 1) = 3 /\ Ahead(c, 2) = 0 /\ Ahead(c, 3) = 1 BY <1>6 DEF Ahead
  <2> QED BY <1>2, <1>3, <1>6, <2>1, Slots
<1>7. CASE c = 3
  <2>1. Ahead(c, 0) = 3 /\ Ahead(c, 1) = 0 /\ Ahead(c, 2) = 1 /\ Ahead(c, 3) = 2 BY <1>7 DEF Ahead
  <2> QED BY <1>2, <1>3, <1>7, <2>1, Slots
<1> QED BY <1>1, <1>4, <1>5, <1>6, <1>7

\* Going on from a place of the ring.
LEMMA AheadSum ==
  ASSUME NEW c \in Slot, NEW r \in 0..3, NEW j \in 1..4
  PROVE  /\ (Ahead(c, r) + j) % 4 \in Slot
         /\ r + j <= 3 => (Ahead(c, r) + j) % 4 = Ahead(c, r + j)
<1>1. c \in Nat /\ r \in Nat /\ j \in Nat /\ Ahead(c, r) \in Nat BY Slots DEF Ahead
<1>2. (Ahead(c, r) + j) % 4 \in 0..3 BY <1>1
<1>3. (((c + r) % 4) + j) % 4 = (c + (r + j)) % 4 BY <1>1
<1> QED BY <1>2, <1>3, Slots DEF Ahead

\* The controller's turn goes to the first enabled descriptor after the one that has ended.
LEMMA TurnFirst ==
  ASSUME NEW d, NEW descs, NEW k \in 1..4, descs[(d + k) % 4].valid,
         \A j \in 1..4 : j < k => ~descs[(d + j) % 4].valid
  PROVE  Turn(d, descs) = (d + k) % 4
<1> DEFINE waiting == {x \in 1..4 : descs[(d + x) % 4].valid}
<1>1. k \in waiting /\ waiting # {} OBVIOUS
<1>2. \A j \in waiting : k <= j OBVIOUS
<1>3. \A x \in waiting : (\A j \in waiting : x <= j) => x = k
  <2> TAKE x \in waiting
  <2> HAVE \A j \in waiting : x <= j
  <2>1. x <= k /\ k <= x /\ x \in 1..4 BY <1>1, <1>2
  <2> QED BY <2>1
<1> HIDE DEF waiting
<1>4. (CHOOSE x \in waiting : \A j \in waiting : x <= j) = k BY <1>1, <1>2, <1>3
<1>5. Turn(d, descs) =
        IF waiting = {} THEN None ELSE (d + CHOOSE x \in waiting : \A j \in waiting : x <= j) % 4
  BY DEF Turn, waiting, NO_OF_HPDMA_DESCRIPTORS
<1> QED BY <1>1, <1>4, <1>5

LEMMA TurnNone ==
  ASSUME NEW d, NEW descs, \A j \in 1..4 : ~descs[(d + j) % 4].valid
  PROVE  Turn(d, descs) = None
<1>1. {x \in 1..4 : descs[(d + x) % 4].valid} = {} OBVIOUS
<1> QED BY <1>1 DEF Turn, NO_OF_HPDMA_DESCRIPTORS

\* When no descriptor up to the r-th is enabled, the turn from the r-th goes to the first.
LEMMA TurnInRing ==
  ASSUME NEW c \in Slot, NEW r \in 0..3, NEW descs,
         \A k \in 0..3 : k <= r => ~descs[Ahead(c, k)].valid
  PROVE  First(descs, Turn(Ahead(c, r), descs), c)
<1>1. CASE \A k \in 0..3 : ~descs[Ahead(c, k)].valid
  <2>1. \A j \in 1..4 : ~descs[(Ahead(c, r) + j) % 4].valid BY <1>1, AheadSlots, AheadSum
  <2>2. Turn(Ahead(c, r), descs) = None BY <2>1, TurnNone
  <2> QED BY <1>1, <2>2 DEF First
<1>2. CASE \E k \in 0..3 : descs[Ahead(c, k)].valid
  <2>1. \E m \in 0..3 : descs[Ahead(c, m)].valid /\ \A k \in 0..3 : k < m => ~descs[Ahead(c, k)].valid
    <3> DEFINE P(k) == descs[Ahead(c, k)].valid
    <3>1. \E k \in 0..3 : P(k) BY <1>2
    <3> HIDE DEF P
    <3>2. \E m \in 0..3 : P(m) /\ \A k \in 0..3 : k < m => ~P(k)
      <4>1. CASE P(0) BY <4>1
      <4>2. CASE ~P(0) /\ P(1) BY <4>2
      <4>3. CASE ~P(0) /\ ~P(1) /\ P(2) BY <4>3
      <4>4. CASE ~P(0) /\ ~P(1) /\ ~P(2) /\ P(3) BY <4>4
      <4>5. \A k \in 0..3 : k = 0 \/ k = 1 \/ k = 2 \/ k = 3 OBVIOUS
      <4> QED BY <3>1, <4>1, <4>2, <4>3, <4>4, <4>5
    <3> QED BY <3>2 DEF P
  <2>2. PICK m \in 0..3 : /\ descs[Ahead(c, m)].valid
                          /\ \A k \in 0..3 : k < m => ~descs[Ahead(c, k)].valid
    BY <2>1
  <2>3. r < m BY <2>2
  <2>4. m - r \in 1..4 /\ r + (m - r) = m BY <2>3
  <2>5. (Ahead(c, r) + (m - r)) % 4 = Ahead(c, m) BY <2>4, AheadSum
  <2>6. \A j \in 1..4 : j < m - r => ~descs[(Ahead(c, r) + j) % 4].valid
    <3> TAKE j \in 1..4
    <3> HAVE j < m - r
    <3>1. r + j < m /\ r + j \in 0..3 /\ r + j <= 3 OBVIOUS
    <3>2. (Ahead(c, r) + j) % 4 = Ahead(c, r + j) BY <3>1, AheadSum
    <3> QED BY <2>2, <3>1, <3>2
  <2>7. Turn(Ahead(c, r), descs) = (Ahead(c, r) + (m - r)) % 4 BY <2>2, <2>4, <2>5, <2>6, TurnFirst
  <2> QED BY <2>2, <2>5, <2>7 DEF First
<1> QED BY <1>1, <1>2

\* The controller moves the first chunk that waits.
LEMMA RingDone ==
  ASSUME NEW c \in Slot, NEW number, NEW a \in Nat, NEW d \in Nat, NEW h \in Nat,
         a <= d, d < h, h <= a + 4, NEW descs \in [Slot -> Registers], NEW place,
         place = Ahead(c, d - a), Ring(descs, c, number, a, d, h),
         NEW after, after = [descs EXCEPT ![place].valid = FALSE, ![place].done = TRUE]
  PROVE  Ring(after, c, number, a, d + 1, h) /\ Serves(Turn(place, after), c, a, d + 1, h)
<1> DEFINE r == d - a
<1>1. r \in 0..3 /\ a + 1 + r = d + 1 OBVIOUS
<1>2. place \in Slot /\ \A k \in 0..3 : Ahead(c, k) = place <=> k = r BY <1>1, AheadSlots
<1>3. /\ after[place] = [descs[place] EXCEPT !.valid = FALSE, !.done = TRUE]
      /\ \A s \in Slot : s # place => after[s] = descs[s]
  BY <1>2 DEF Registers
<1>4. Waiting(descs[place], number, d + 1) BY <1>1, <1>2 DEF Ring
<1>5. Finished(after[place])
  <2>1. descs[place] \in Registers BY <1>2
  <2>2. \A q \in Registers : q.irq => Finished([q EXCEPT !.valid = FALSE, !.done = TRUE])
    BY DEF Finished, Registers
  <2> QED BY <1>3, <1>4, <2>1, <2>2 DEF Waiting
<1>6. Ring(after, c, number, a, d + 1, h)
  <2> SUFFICES ASSUME NEW k \in 0..3
               PROVE  /\ a + 1 + k <= d + 1 => Finished(after[Ahead(c, k)])
                      /\ d + 1 < a + 1 + k /\ a + 1 + k <= h => Waiting(after[Ahead(c, k)], number, a + 1 + k)
                      /\ h < a + 1 + k => Free(after[Ahead(c, k)])
    BY DEF Ring
  <2>1. CASE k = r BY <1>1, <1>2, <1>5, <2>1
  <2>2. CASE k # r
    <3>1. after[Ahead(c, k)] = descs[Ahead(c, k)] BY <1>2, <1>3, <2>2, AheadSlots
    <3>2. /\ a + 1 + k <= d => Finished(descs[Ahead(c, k)])
          /\ d < a + 1 + k /\ a + 1 + k <= h => Waiting(descs[Ahead(c, k)], number, a + 1 + k)
          /\ h < a + 1 + k => Free(descs[Ahead(c, k)])
      BY DEF Ring
    <3>3. a + 1 + k # d + 1 BY <2>2
    <3>4. (a + 1 + k <= d + 1 => a + 1 + k <= d) /\ (d + 1 < a + 1 + k => d < a + 1 + k) BY <3>3
    <3> QED BY <3>1, <3>2, <3>4
  <2> QED BY <2>1, <2>2
<1>7. \A k \in 0..3 : (d + 1 < a + 1 + k /\ a + 1 + k <= h) \/ ~after[Ahead(c, k)].valid
  BY <1>6 DEF Ring, Finished, Free
<1>8. CASE d + 1 < h
  <2>1. r + 1 \in 0..3 /\ 1 \in 1..4 /\ r + 1 = (d + 1) - a BY <1>1, <1>8
  <2>2. (place + 1) % 4 = Ahead(c, r + 1) BY <1>1, <2>1, AheadSum
  <2>3. after[Ahead(c, r + 1)].valid BY <1>6, <1>8, <2>1 DEF Ring, Waiting
  <2>4. after[(place + 1) % 4].valid BY <2>2, <2>3
  <2>5. \A j \in 1..4 : ~(j < 1) OBVIOUS
  <2>6. Turn(place, after) = (place + 1) % 4 BY <2>1, <2>4, <2>5, TurnFirst, Zenon
  <2> QED BY <1>6, <1>8, <2>1, <2>2, <2>6 DEF Serves
<1>9. CASE d + 1 = h
  <2>1. \A k \in 0..3 : ~after[Ahead(c, k)].valid BY <1>7, <1>9
  <2>2. \A j \in 1..4 : ~after[(place + j) % 4].valid BY <1>1, <2>1, AheadSlots, AheadSum
  <2>3. Turn(place, after) = None BY <2>2, TurnNone, Zenon
  <2>4. ~(d + 1 < h) BY <1>9
  <2> QED BY <1>6, <2>3, <2>4, Zenon DEF Serves
<1> QED BY <1>8, <1>9

\* A chunk is handed to the first free descriptor.
LEMMA RingFill ==
  ASSUME NEW c \in Slot, NEW number, NEW a \in Nat, NEW d \in Nat, NEW h \in Nat,
         a <= d, d <= h, h < a + 4, NEW descs \in [Slot -> Registers], NEW place, NEW serving,
         place = Ahead(c, h - a), Ring(descs, c, number, a, d, h), Serves(serving, c, a, d, h),
         NEW after, Free(descs[place]) => Waiting(after[place], number, h + 1),
         \A s \in Slot : s # place => after[s] = descs[s]
  PROVE  /\ Ring(after, c, number, a, d, h + 1)
         /\ Serves(IF serving = None THEN place ELSE serving, c, a, d, h + 1)
<1> DEFINE r == h - a
<1>1. r \in 0..3 /\ a + 1 + r = h + 1 OBVIOUS
<1>2. place \in Slot /\ \A k \in 0..3 : Ahead(c, k) = place <=> k = r BY <1>1, AheadSlots
<1>3. Waiting(after[place], number, h + 1)
  <2>1. Free(descs[place]) BY <1>1, <1>2 DEF Ring
  <2> QED BY <2>1
<1>4. Ring(after, c, number, a, d, h + 1)
  <2> SUFFICES ASSUME NEW k \in 0..3
               PROVE  /\ a + 1 + k <= d => Finished(after[Ahead(c, k)])
                      /\ d < a + 1 + k /\ a + 1 + k <= h + 1 => Waiting(after[Ahead(c, k)], number, a + 1 + k)
                      /\ h + 1 < a + 1 + k => Free(after[Ahead(c, k)])
    BY DEF Ring
  <2>1. CASE k = r BY <1>1, <1>2, <1>3, <2>1
  <2>2. CASE k # r
    <3>1. after[Ahead(c, k)] = descs[Ahead(c, k)] BY <1>2, <2>2, AheadSlots
    <3>2. /\ a + 1 + k <= d => Finished(descs[Ahead(c, k)])
          /\ d < a + 1 + k /\ a + 1 + k <= h => Waiting(descs[Ahead(c, k)], number, a + 1 + k)
          /\ h < a + 1 + k => Free(descs[Ahead(c, k)])
      BY DEF Ring
    <3>3. a + 1 + k # h + 1 BY <2>2
    <3>4. (a + 1 + k <= h + 1 => a + 1 + k <= h) /\ (h + 1 < a + 1 + k => h < a + 1 + k) BY <3>3
    <3> QED BY <3>1, <3>2, <3>4
  <2> QED BY <2>1, <2>2
<1>5. Serves(IF serving = None THEN place ELSE serving, c, a, d, h + 1)
  <2>1. CASE d = h BY <2>1 DEF Serves
  <2>2. CASE d < h
    <3>1. d - a \in 0..3 BY <2>2
    <3>2. Ahead(c, d - a) # None BY <3>1, AheadSlots, Slots DEF None
    <3> QED BY <2>2, <3>2 DEF Serves
  <2> QED BY <2>1, <2>2
<1> QED BY <1>4, <1>5

\* The interrupt of the first chunk that is done is cleared and disabled.
LEMMA RingAcknowledged ==
  ASSUME NEW c \in Slot, NEW number, NEW a \in Nat, NEW d \in Nat, NEW h \in Nat,
         a < d, d <= h, h <= a + 4, NEW descs \in [Slot -> Registers], NEW serving,
         Ring(descs, c, number, a, d, h), Serves(serving, c, a, d, h),
         NEW after, Finished(descs[c]) => Free(after[c]), \A s \in Slot : s # c => after[s] = descs[s]
  PROVE  /\ Ring(after, Ahead(c, 1), number, a + 1, d, h) /\ Serves(serving, Ahead(c, 1), a + 1, d, h)
         /\ a + 1 < h <=> after[Ahead(c, 1)].irq
<1> DEFINE c1 == Ahead(c, 1)
<1>1. 0 \in 0..3 /\ 1 \in 0..3 /\ 3 \in 0..3 OBVIOUS
<1>2. c1 \in Slot /\ c1 # c /\ Ahead(c, 0) = c BY <1>1, AheadSlots
<1>3. Free(after[c])
  <2>1. Finished(descs[c]) BY <1>1, <1>2 DEF Ring
  <2> QED BY <2>1
<1>4. \A s \in Slot : s # c => after[s] = descs[s] OBVIOUS
<1>5. /\ \A k \in 0..2 : k + 1 \in 0..3 /\ Ahead(c1, k) = Ahead(c, k + 1) /\ Ahead(c, k + 1) # c
      /\ Ahead(c1, 3) = c
  <2>1. \A k \in 0..2 : k + 1 \in 0..3 OBVIOUS
  <2>2. c \in Nat BY Slots
  <2>3. \A k \in 0..2 : Ahead(c1, k) = Ahead(c, k + 1)
    <3>1. \A k \in Nat : (((c + 1) % 4) + k) % 4 = (c + (k + 1)) % 4 BY <2>2
    <3> QED BY <3>1 DEF Ahead
  <2>4. Ahead(c1, 3) = c
    <3>1. (((c + 1) % 4) + 3) % 4 = c BY Slots
    <3> QED BY <3>1 DEF Ahead
  <2>5. \A k \in 0..2 : Ahead(c, k + 1) # c BY <1>1, <1>2, <2>1, AheadSlots
  <2> QED BY <2>1, <2>3, <2>4, <2>5
<1>6. Ring(after, c1, number, a + 1, d, h)
  <2> SUFFICES ASSUME NEW k \in 0..3
               PROVE  /\ a + 1 + 1 + k <= d => Finished(after[Ahead(c1, k)])
                      /\ d < a + 1 + 1 + k /\ a + 1 + 1 + k <= h =>
                           Waiting(after[Ahead(c1, k)], number, a + 1 + 1 + k)
                      /\ h < a + 1 + 1 + k => Free(after[Ahead(c1, k)])
    BY DEF Ring
  <2>1. CASE k = 3 BY <1>3, <1>5, <2>1
  <2>2. CASE k # 3
    <3> DEFINE l == k + 1
    <3>1. k \in 0..2 BY <2>2
    <3>2. l \in 0..3 /\ Ahead(c1, k) = Ahead(c, l) /\ Ahead(c, l) # c BY <1>5, <3>1
    <3>3. after[Ahead(c1, k)] = descs[Ahead(c, l)] BY <1>4, <3>2, AheadSlots
    <3>4. a + 1 + 1 + k = a + 1 + l OBVIOUS
    <3> HIDE DEF l
    <3>5. /\ a + 1 + l <= d => Finished(descs[Ahead(c, l)])
          /\ d < a + 1 + l /\ a + 1 + l <= h => Waiting(descs[Ahead(c, l)], number, a + 1 + l)
          /\ h < a + 1 + l => Free(descs[Ahead(c, l)])
      BY <3>2 DEF Ring
    <3> QED BY <3>3, <3>4, <3>5
  <2> QED BY <2>1, <2>2
<1>7. Serves(serving, c1, a + 1, d, h)
  <2>1. CASE d = h BY <2>1 DEF Serves
  <2>2. CASE d < h
    <3>1. d - (a + 1) \in 0..2 /\ (d - (a + 1)) + 1 = d - a BY <2>2
    <3>2. Ahead(c1, d - (a + 1)) = Ahead(c, d - a) BY <1>5, <3>1
    <3> QED BY <2>2, <3>2 DEF Serves
  <2> QED BY <2>1, <2>2
<1>8. a + 1 < h <=> after[c1].irq
  <2>1. after[c1] = descs[c1] BY <1>2, <1>4
  <2>2. a + 1 < h => descs[c1].irq BY <1>1 DEF Ring, Finished, Waiting
  <2>3. ~(a + 1 < h) => ~descs[c1].irq BY <1>1 DEF Ring, Free
  <2> QED BY <2>1, <2>2, <2>3
<1> QED BY <1>6, <1>7, <1>8

-----------------------------------------------------------------------------
(* The chunks delivered *)

LEMMA ExactInOrder ==
  ASSUME NEW chunks \in Seq(Chunks), NEW number \in Nat, NEW size \in Nat,
         Exact(chunks, number), Len(chunks) <= size
  PROVE  /\ InOrder(chunks, number, size) /\ \A i \in 1..Len(chunks) : chunks[i][2] = i
         /\ LastChunk(chunks) = Len(chunks)
<1> DEFINE d == Len(chunks)
<1>1. d \in Nat /\ d <= size BY LenProperties
<1>2. \A i \in 1..d : chunks[i][1] = number /\ chunks[i][2] = i BY DEF Exact
<1>3. LastChunk(chunks) = d
  <2>1. LastChunk(chunks) = IF d = 0 THEN 0 ELSE chunks[d][2] BY DEF LastChunk
  <2> HIDE DEF d
  <2> QED BY <1>1, <1>2, <2>1
<1>4. \A i \in 1..d : /\ chunks[i][1] = number /\ chunks[i][2] \in 1..size
                      /\ i > 1 => chunks[i][2] > chunks[i - 1][2]
  <2> HIDE DEF d
  <2> TAKE i \in 1..d
  <2>1. chunks[i][1] = number /\ chunks[i][2] = i BY <1>2
  <2>2. i > 1 => i - 1 \in 1..d BY <1>1
  <2>3. i > 1 => chunks[i - 1][2] = i - 1 BY <1>2, <2>2
  <2> QED BY <1>1, <2>1, <2>3
<1> QED BY <1>2, <1>3, <1>4 DEF InOrder

LEMMA LastInOrder ==
  ASSUME NEW chunks \in Seq(Chunks), NEW number, NEW size \in Nat, InOrder(chunks, number, size)
  PROVE  LastChunk(chunks) \in Nat
<1> DEFINE d == Len(chunks)
<1>1. d \in Nat BY LenProperties
<1>2. \A i \in 1..d : chunks[i][2] \in 1..size BY DEF InOrder
<1>3. LastChunk(chunks) = IF d = 0 THEN 0 ELSE chunks[d][2] BY DEF LastChunk
<1> HIDE DEF d
<1>4. d # 0 => d \in 1..d BY <1>1
<1>5. d # 0 => chunks[d][2] \in Nat BY <1>2, <1>4
<1> QED BY <1>3, <1>5

LEMMA AppendsExact ==
  ASSUME NEW chunks \in Seq(Chunks), NEW number \in Nat, Exact(chunks, number),
         NEW after, after = Append(chunks, <<number, Len(chunks) + 1>>)
  PROVE  /\ after \in Seq(Chunks) /\ Exact(after, number) /\ Len(after) = Len(chunks) + 1
<1> DEFINE d == Len(chunks)
<1>1. d \in Nat BY LenProperties
<1>2. <<number, d + 1>> \in Chunks BY <1>1 DEF Chunks
<1>3. /\ after \in Seq(Chunks) /\ Len(after) = d + 1
      /\ \A i \in 1..d : after[i] = chunks[i]
      /\ after[d + 1] = <<number, d + 1>>
  BY <1>2, AppendProperties
<1>4. \A i \in 1..d : chunks[i] = <<number, i>> BY DEF Exact
<1>5. \A i \in 1..d + 1 : after[i] = <<number, i>>
  <2> HIDE DEF d
  <2> TAKE i \in 1..d + 1
  <2>1. i \in 1..d \/ i = d + 1 BY <1>1
  <2> QED BY <1>3, <1>4, <2>1
<1> QED BY <1>3, <1>5 DEF Exact

LEMMA LastAppended ==
  ASSUME NEW chunks \in Seq(Chunks), NEW chunk \in Chunks, NEW after, after = Append(chunks, chunk)
  PROVE  after \in Seq(Chunks) /\ LastChunk(after) = chunk[2]
<1> DEFINE d == Len(chunks)
<1>1. d \in Nat BY LenProperties
<1>3. after \in Seq(Chunks) /\ Len(after) = d + 1 /\ after[d + 1] = chunk
  BY AppendProperties
<1> HIDE DEF d
<1>4. Len(after) # 0 /\ after[Len(after)] = chunk BY <1>1, <1>3
<1> QED BY <1>3, <1>4 DEF LastChunk

LEMMA AppendsInOrder ==
  ASSUME NEW chunks \in Seq(Chunks), NEW number \in Nat, NEW size \in Nat,
         InOrder(chunks, number, size), NEW last \in Nat, last = LastChunk(chunks),
         NEW j \in Nat, last < j, j <= size,
         NEW after, after = Append(chunks, <<number, j>>)
  PROVE  InOrder(after, number, size)
<1> DEFINE d == Len(chunks)
<1>1. d \in Nat BY LenProperties
<1>2. <<number, j>> \in Chunks BY DEF Chunks
<1>3. /\ after \in Seq(Chunks) /\ Len(after) = d + 1
      /\ \A i \in 1..d : after[i] = chunks[i]
      /\ after[d + 1] = <<number, j>>
  BY <1>2, AppendProperties
<1>4. \A i \in 1..d : /\ chunks[i][1] = number /\ chunks[i][2] \in 1..size
                      /\ i > 1 => chunks[i][2] > chunks[i - 1][2]
  BY DEF InOrder
<1>5. d # 0 => chunks[d][2] < j BY DEF LastChunk
<1>6. j # 0 OBVIOUS
<1> HIDE DEF d
<1>7. \A i \in 1..d + 1 : /\ after[i][1] = number /\ after[i][2] \in 1..size
                          /\ i > 1 => after[i][2] > after[i - 1][2]
  <2> TAKE i \in 1..d + 1
  <2>1. CASE i \in 1..d
    <3>1. after[i] = chunks[i] BY <1>3, <2>1
    <3>2. i > 1 => i - 1 \in 1..d BY <1>1, <2>1
    <3>3. i > 1 => after[i - 1] = chunks[i - 1] BY <1>3, <3>2
    <3> QED BY <1>4, <2>1, <3>1, <3>3
  <2>2. CASE i = d + 1
    <3>1. after[i][1] = number /\ after[i][2] = j BY <1>3, <2>2
    <3>2. j \in 1..size BY <1>6
    <3>3. i > 1 => d # 0 /\ d \in 1..d /\ i - 1 = d BY <1>1, <2>2
    <3>4. i > 1 => after[i - 1] = chunks[d] BY <1>3, <3>3
    <3>5. i > 1 => chunks[d][2] \in 1..size BY <1>4, <3>3
    <3>6. i > 1 => j > chunks[d][2] BY <1>5, <3>3, <3>5
    <3> QED BY <3>1, <3>2, <3>4, <3>6
  <2>3. i \in 1..d \/ i = d + 1 BY <1>1
  <2> QED BY <2>1, <2>2, <2>3
<1> QED BY <1>3, <1>7 DEF InOrder

-----------------------------------------------------------------------------
(* The controller's steps *)

LEMMA Types ==
  ASSUME RingInv
  PROVE  /\ Descriptor \in [Slot -> Registers] /\ g_hpdma_current_desc \in Slot
         /\ left \in Nat /\ next \in Nat /\ transfer.number \in Nat /\ transfer.size \in Nat
         /\ transfer \in [number : Nat, size : Nat]
         /\ delivered \in Seq(Chunks) /\ Len(delivered) \in Nat /\ Threads
         /\ running \in Slot \union {None} /\ None \notin Slot
<1>1. delivered \in Seq(Chunks) /\ Len(delivered) \in Nat BY LenProperties DEF RingInv, Passing
<1>2. None \notin Slot BY Slots DEF None
<1> QED BY <1>1, <1>2 DEF RingInv, Inv, Controller, Transfer

\* What the reports say is kept while the transfer goes on.
LEMMA ReportedKept ==
  ASSUME Reported, state' = "IN_PROGRESS", state = "IN_PROGRESS", UNCHANGED <<outcomes, transfer>>
  PROVE  Reported'
BY DEF Reported

LEMMA StandsKept ==
  ASSUME NEW a, NEW h, Stands(a, h), UNCHANGED <<indices, left, main, isr>>
  PROVE  Stands(a, h)'
BY DEF Stands, indices, Filling, Counting

\* Clearing or ending the descriptor at work gives the turn to the next that waits.
LEMMA RemainingEnds ==
  ASSUME NEW c \in Slot, NEW number, NEW size \in Nat, NEW a \in Nat, NEW last, NEW r \in Nat, r <= 3,
         NEW descs, NEW after, NEW place, place = Ahead(c, r),
         Remaining(descs, c, number, size, a, last),
         \A k \in 0..3 : k < r => ~descs[Ahead(c, k)].valid,
         ~after[place].valid, \A s \in Slot : s # place => after[s] = descs[s]
  PROVE  /\ Remaining(after, c, number, size, a, last)
         /\ Remaining(after, c, number, size, a, a + 1 + r)
         /\ First(after, Turn(place, after), c)
<1>1. \A k \in 0..3 : k # r => after[Ahead(c, k)] = descs[Ahead(c, k)] BY AheadSlots
<1>2. \A k \in 0..3 : k <= r => ~after[Ahead(c, k)].valid
  <2> TAKE k \in 0..3
  <2> HAVE k <= r
  <2>1. k = r \/ k < r OBVIOUS
  <2> QED BY <1>1, <2>1
<1>3. First(after, Turn(place, after), c) BY <1>2, TurnInRing
<1>4. \A k \in 0..3 : after[Ahead(c, k)].valid =>
        /\ after[Ahead(c, k)].chunk = <<number, a + 1 + k>> /\ last < a + 1 + k /\ a + 1 + k <= size
        /\ a + 1 + r < a + 1 + k
  <2> SUFFICES ASSUME NEW k \in 0..3, after[Ahead(c, k)].valid
               PROVE  /\ after[Ahead(c, k)].chunk = <<number, a + 1 + k>>
                      /\ last < a + 1 + k /\ a + 1 + k <= size
                      /\ a + 1 + r < a + 1 + k
    OBVIOUS
  <2>1. ~(k <= r) BY <1>2
  <2>2. r < k /\ k # r BY <2>1
  <2>3. after[Ahead(c, k)] = descs[Ahead(c, k)] /\ descs[Ahead(c, k)].valid BY <1>1, <2>2
  <2>4. descs[Ahead(c, k)].chunk = <<number, a + 1 + k>> /\ last < a + 1 + k /\ a + 1 + k <= size
    BY <2>3 DEF Remaining
  <2> QED BY <2>2, <2>3, <2>4
<1> QED BY <1>3, <1>4 DEF Remaining

LEMMA LiveChunkDone ==
  ASSUME RingInv, ChunkDone, state = "IN_PROGRESS", ~aborted
  PROVE  Passing'
<1>0. /\ Passing /\ Works /\ delivered' = Append(delivered, Descriptor[running].chunk)
      /\ Descriptor' = [Descriptor EXCEPT ![running].valid = FALSE, ![running].done = TRUE]
      /\ running' = Turn(running, Descriptor')
      /\ UNCHANGED <<state, next, left, indices, error, main, isr, erring, transfer, outcomes, aborted>>
  BY DEF RingInv, ChunkDone, threads
<1>1. running \in Slot /\ error = "none" BY <1>0, Types DEF Works
<1>2. Reported' BY <1>0, ReportedKept DEF Passing
<1>3. Live BY <1>0 DEF Passing
<1>4. PICK a, d, h \in Nat :
        /\ d = Len(delivered) /\ h + left = transfer.size /\ (left > 0 => next = h + 1)
        /\ a <= d /\ d <= h /\ h <= a + 4
        /\ Ring(Descriptor, g_hpdma_current_desc, transfer.number, a, d, h)
        /\ Serves(running, g_hpdma_current_desc, a, d, h)
        /\ Stands(a, h)
  BY <1>3 DEF Live
<1> DEFINE c == g_hpdma_current_desc
           n == transfer.number
<1>5. d < h /\ running = Ahead(c, d - a)
  <2>1. d # h BY <1>1, <1>4, Types DEF Serves
  <2> QED BY <1>4, <2>1 DEF Serves
<1>6. Descriptor[running].chunk = <<n, d + 1>>
  <2> DEFINE k == d - a
  <2>1. k \in 0..3 /\ a + 1 + k = d + 1 BY <1>4, <1>5
  <2>2. running = Ahead(c, k) BY <1>5
  <2> HIDE DEF k
  <2>3. d < a + 1 + k /\ a + 1 + k <= h BY <1>4, <1>5, <2>1
  <2>4. Waiting(Descriptor[Ahead(c, k)], n, a + 1 + k) BY <1>4, <2>1, <2>3 DEF Ring
  <2> QED BY <2>1, <2>2, <2>4 DEF Waiting
<1>7. Ring(Descriptor', c, n, a, d + 1, h) /\ Serves(running', c, a, d + 1, h)
  <2>1. c \in Slot /\ Descriptor \in [Slot -> Registers] BY Types
  <2> HIDE DEF c, n
  <2> QED BY <1>0, <1>4, <1>5, <2>1, RingDone DEF c, n
<1>8. delivered' \in Seq(Chunks) /\ Exact(delivered', n) /\ Len(delivered') = d + 1
  <2>1. delivered \in Seq(Chunks) /\ n \in Nat /\ Exact(delivered, n) BY <1>3, Types DEF Live
  <2>2. delivered' = Append(delivered, <<n, Len(delivered) + 1>>) BY <1>0, <1>4, <1>6
  <2> HIDE DEF n
  <2> QED BY <1>4, <2>1, <2>2, AppendsExact
<1>9. InOrder(delivered', n, transfer.size) /\ \A i \in 1..Len(delivered') : delivered'[i][2] = i
  <2>1. n \in Nat /\ transfer.size \in Nat /\ d + 1 <= transfer.size BY <1>4, <1>5, Types
  <2> HIDE DEF n
  <2> QED BY <1>8, <2>1, ExactInOrder
<1>10. Live'
  <2>1. Stands(a, h)' BY <1>0, <1>4, StandsKept
  <2>2. c' = c /\ n' = n BY <1>0 DEF indices
  <2>3. Ring(Descriptor, c, n, a, d + 1, h)' /\ Serves(running, c, a, d + 1, h)'
    BY <1>7, <2>2 DEF Ring, Serves, Waiting, Finished, Free, Ahead
  <2>4. d + 1 \in Nat /\ a <= d + 1 /\ d + 1 <= h BY <1>4, <1>5
  <2>5. \E aa, dd, hh \in Nat :
          /\ dd = Len(delivered') /\ hh + left' = transfer'.size /\ (left' > 0 => next' = hh + 1)
          /\ aa <= dd /\ dd <= hh /\ hh <= aa + 4
          /\ Ring(Descriptor, g_hpdma_current_desc, transfer.number, aa, dd, hh)'
          /\ Serves(running, g_hpdma_current_desc, aa, dd, hh)'
          /\ Stands(aa, hh)'
    BY <1>0, <1>4, <1>8, <2>1, <2>3, <2>4
  <2>6. Exact(delivered', transfer'.number) BY <1>8, <2>2
  <2> QED BY <1>0, <1>1, <1>3, <2>5, <2>6 DEF Live, Exact
<1> QED BY <1>0, <1>2, <1>8, <1>9, <1>10 DEF Passing, InOrder

\* The controller goes on while the descriptors are cleared one by one.
LEMMA ClearedChunkDone ==
  ASSUME RingInv, ChunkDone, NEW i, Cleared(i)
  PROVE  /\ Cleared(i)' /\ delivered' \in Seq(Chunks)
         /\ InOrder(delivered', transfer.number, transfer.size)
<1>0. /\ Passing /\ Works /\ delivered' = Append(delivered, Descriptor[running].chunk)
      /\ Descriptor' = [Descriptor EXCEPT ![running].valid = FALSE, ![running].done = TRUE]
      /\ running' = Turn(running, Descriptor')
      /\ UNCHANGED <<state, next, left, indices, error, main, isr, erring, transfer, outcomes, aborted>>
  BY DEF RingInv, ChunkDone, threads
<1>1. running \in Slot /\ error = "none" BY <1>0, Types DEF Works
<1> DEFINE c == g_hpdma_current_desc
           n == transfer.number
           size == transfer.size
<1>4. PICK a \in Nat : /\ Remaining(Descriptor, c, n, size, a, LastChunk(delivered))
                       /\ First(Descriptor, running, c)
  BY DEF Cleared
<1>5. PICK r \in 0..3 : /\ running = Ahead(c, r) /\ Descriptor[running].valid
                        /\ \A k \in 0..3 : k < r => ~Descriptor[Ahead(c, k)].valid
  <2>1. running # None BY <1>1, Types
  <2> QED BY <1>4, <2>1 DEF First
<1> DEFINE j == a + 1 + r
<1>6. /\ Descriptor[running].chunk = <<n, j>>
      /\ LastChunk(delivered) < j /\ j <= size /\ j \in Nat /\ j # 0
  BY <1>4, <1>5 DEF Remaining
<1>7. delivered' \in Seq(Chunks) /\ InOrder(delivered', n, size) /\ LastChunk(delivered') = j
  <2>1. delivered \in Seq(Chunks) /\ n \in Nat /\ size \in Nat /\ InOrder(delivered, n, size)
    BY <1>0, Types DEF Passing
  <2>2. delivered' = Append(delivered, <<n, j>>) BY <1>0, <1>6
  <2> HIDE DEF n, size, j
  <2>3. LastChunk(delivered) < j /\ j <= size /\ j \in Nat /\ j # 0 BY <1>6
  <2>4. PICK last \in Nat : last = LastChunk(delivered) BY <2>1, LastInOrder
  <2>5. last < j BY <2>3, <2>4
  <2>6. InOrder(delivered', n, size) BY <2>1, <2>2, <2>3, <2>4, <2>5, AppendsInOrder
  <2>7. PICK chunk \in Chunks : chunk = <<n, j>> BY <2>1, <2>3 DEF Chunks
  <2>8. delivered' \in Seq(Chunks) /\ LastChunk(delivered') = chunk[2]
    BY <2>1, <2>2, <2>7, LastAppended
  <2>9. chunk[2] = j BY <2>7
  <2> QED BY <2>6, <2>8, <2>9
<1>8. /\ ~Descriptor'[running].valid
      /\ \A s \in Slot : s # running => Descriptor'[s] = Descriptor[s]
  <2>1. Descriptor'[running] = [Descriptor[running] EXCEPT !.valid = FALSE, !.done = TRUE]
    BY <1>0, <1>1, Types DEF Registers
  <2>2. Descriptor[running] \in Registers BY <1>1, Types
  <2>3. \A q \in Registers : ~[q EXCEPT !.valid = FALSE, !.done = TRUE].valid BY DEF Registers
  <2>4. \A s \in Slot : s # running => Descriptor'[s] = Descriptor[s] BY <1>0, <1>1, Types
  <2> QED BY <2>1, <2>2, <2>3, <2>4
<1>9. Remaining(Descriptor', c, n, size, a, j) /\ First(Descriptor', running', c)
  <2>1. c \in Slot /\ size \in Nat BY Types
  <2>2. PICK after : after = Descriptor' OBVIOUS
  <2>3. /\ ~after[running].valid /\ \A s \in Slot : s # running => after[s] = Descriptor[s]
        /\ running' = Turn(running, after)
    BY <1>0, <1>8, <2>2
  <2>4. PICK last : last = LastChunk(delivered) OBVIOUS
  <2>5. Remaining(Descriptor, c, n, size, a, last) BY <1>4, <2>4
  <2>6. /\ r \in Nat /\ r <= 3 /\ running = Ahead(c, r)
        /\ \A k \in 0..3 : k < r => ~Descriptor[Ahead(c, k)].valid
    BY <1>5
  <2> HIDE DEF c, n, size, j
  <2>7. PICK place : place = running OBVIOUS
  <2>8. PICK descs : descs = Descriptor OBVIOUS
  <2>9. /\ Remaining(descs, c, n, size, a, last) /\ r \in Nat /\ r <= 3 /\ place = Ahead(c, r)
        /\ \A k \in 0..3 : k < r => ~descs[Ahead(c, k)].valid
        /\ ~after[place].valid /\ \A s \in Slot : s # place => after[s] = descs[s]
    BY <2>3, <2>5, <2>6, <2>7, <2>8
  <2>10. /\ Remaining(after, c, n, size, a, last)
         /\ Remaining(after, c, n, size, a, a + 1 + r)
         /\ First(after, Turn(place, after), c)
    BY <2>1, <2>9, RemainingEnds
  <2> QED BY <2>2, <2>3, <2>7, <2>10 DEF j
<1>10. Cleared(i)'
  <2>1. c' = c /\ n' = n /\ size' = size BY <1>0 DEF indices
  <2>2. Remaining(Descriptor, c, n, size, a, LastChunk(delivered))'
    BY <1>7, <1>9, <2>1 DEF Remaining, Ahead, LastChunk
  <2>3. First(Descriptor, running, c)' BY <1>9, <2>1 DEF First, Ahead
  <2>4. \A d \in Slot : Free(Descriptor[d]) => Free(Descriptor'[d])
    BY <1>5, <1>8 DEF Free
  <2>5. \A d \in Slot : d < i - 1 => Free(Descriptor'[d]) BY <2>4 DEF Cleared
  <2>6. n \in 1..MaxTransfers BY DEF Cleared
  <2> QED BY <1>0, <1>1, <2>1, <2>2, <2>3, <2>5, <2>6 DEF Cleared, Free
<1> QED BY <1>7, <1>10

LEMMA StoppingChunkDone ==
  ASSUME RingInv, ChunkDone, ~(state = "IN_PROGRESS" /\ ~aborted)
  PROVE  Passing'
<1>0. /\ Passing /\ Works
      /\ UNCHANGED <<state, next, left, indices, error, main, isr, erring, transfer, outcomes, aborted>>
  BY DEF RingInv, ChunkDone, threads
<1>1. CASE state = "IN_PROGRESS" /\ aborted
  <2>1. PICK i \in 1..5 : main = Abort[i] /\ Cleared(i) BY <1>0, <1>1 DEF Passing, Aborting
  <2>2. /\ Cleared(i)' /\ delivered' \in Seq(Chunks)
        /\ InOrder(delivered', transfer.number, transfer.size)
    BY <2>1, ClearedChunkDone
  <2>3. Aborting' BY <1>0, <1>1, <2>1, <2>2 DEF Passing, Aborting
  <2>4. Reported' BY <1>0, <1>1, ReportedKept DEF Passing
  <2> QED BY <1>0, <1>1, <2>2, <2>3, <2>4 DEF Passing, InOrder
<1>2. CASE state # "IN_PROGRESS"
  <2>1. Failing BY <1>0, <1>2 DEF Passing, Over, Quiet, Works
  <2>2. PICK i \in 1..4 : isr = Clearing[i] /\ Cleared(i) BY <2>1 DEF Failing
  <2>3. i \in 1..5 OBVIOUS
  <2>4. /\ Cleared(i)' /\ delivered' \in Seq(Chunks)
        /\ InOrder(delivered', transfer.number, transfer.size)
    BY <2>2, <2>3, ClearedChunkDone
  <2>5. Failing' BY <1>0, <2>1, <2>2, <2>4 DEF Failing
  <2>6. Reported'
    <3>1. state \notin {"IN_PROGRESS", "COMPLETED"} BY <2>1 DEF Failing
    <3> QED BY <1>0, <3>1 DEF Passing, Reported
  <2> QED BY <1>0, <1>2, <2>1, <2>4, <2>5, <2>6 DEF Passing, Over, Failing, InOrder
<1> QED BY <1>1, <1>2

LEMMA FailingPlaces == Failing => isr \notin {"none", "fill", "count"}
BY ClearingPlaces DEF Failing

\* What is cleared stays so while the registers are not touched.
LEMMA ClearedKept ==
  ASSUME NEW i, Cleared(i), running' = None => error' = "none",
         UNCHANGED <<Descriptor, running, g_hpdma_current_desc, transfer, delivered>>
  PROVE  Cleared(i)'
BY DEF Cleared, Remaining, First, Free, Ahead, LastChunk

LEMMA StoppingKept ==
  ASSUME Passing, ~(state = "IN_PROGRESS" /\ ~aborted), running' = None => error' = "none",
         state = "IN_PROGRESS" \/ isr # "none" \/ error' = error,
         UNCHANGED <<state, Descriptor, running, g_hpdma_current_desc, main, isr, erring, transfer,
                     delivered, outcomes, aborted>>
  PROVE  Passing'
<1>1. CASE state = "IN_PROGRESS" /\ aborted
  <2>1. PICK i \in 1..5 : main = Abort[i] /\ Cleared(i) BY <1>1 DEF Passing, Aborting
  <2>2. Cleared(i)' BY <2>1, ClearedKept
  <2>3. Aborting' BY <1>1, <2>1, <2>2 DEF Passing, Aborting
  <2>4. Reported' BY <1>1, ReportedKept DEF Passing
  <2> QED BY <1>1, <2>3, <2>4 DEF Passing, InOrder
<1>2. CASE state # "IN_PROGRESS"
  <2>1. Over'
    <3>1. CASE main = "idle" /\ isr = "none" /\ Quiet BY <1>2, <3>1 DEF Over, Quiet, Free
    <3>2. CASE Failing
      <4>1. PICK i \in 1..4 : isr = Clearing[i] /\ Cleared(i) BY <3>2 DEF Failing
      <4>2. Cleared(i)' BY <4>1, ClearedKept
      <4> QED BY <3>2, <4>1, <4>2 DEF Failing, Over
    <3> QED BY <1>2, <3>1, <3>2 DEF Passing, Over
  <2>2. Reported' BY <1>2 DEF Passing, Reported
  <2> QED BY <1>2, <2>1, <2>2 DEF Passing, InOrder
<1> QED BY <1>1, <1>2

\* The descriptors as the ring sees them: whether they pause does not matter.
SameRing(descriptors, after) ==
  \A s \in Slot : /\ after[s].valid = descriptors[s].valid /\ after[s].irq = descriptors[s].irq
                  /\ after[s].done = descriptors[s].done /\ after[s].chunk = descriptors[s].chunk

LEMMA LiveKept ==
  ASSUME RingInv, Live, state = "IN_PROGRESS", ~aborted, SameRing(Descriptor, Descriptor'),
         running' = None => error' = "none",
         UNCHANGED <<state, next, left, indices, running, main, isr, erring, transfer, delivered,
                     outcomes, aborted>>
  PROVE  Passing'
<1>1. PICK a, d, h \in Nat :
        /\ d = Len(delivered) /\ h + left = transfer.size /\ (left > 0 => next = h + 1)
        /\ a <= d /\ d <= h /\ h <= a + 4
        /\ Ring(Descriptor, g_hpdma_current_desc, transfer.number, a, d, h)
        /\ Serves(running, g_hpdma_current_desc, a, d, h)
        /\ Stands(a, h)
  BY DEF Live
<1>2. Ring(Descriptor, g_hpdma_current_desc, transfer.number, a, d, h)'
  <2> DEFINE W(k) == Ahead(g_hpdma_current_desc, k)
  <2>1. \A k \in 0..3 : W(k) \in Slot BY Types, AheadSlots
  <2>2. Ring(Descriptor', g_hpdma_current_desc, transfer.number, a, d, h)
    <3> SUFFICES ASSUME NEW k \in 0..3
                 PROVE  /\ a + 1 + k <= d => Finished(Descriptor'[W(k)])
                        /\ d < a + 1 + k /\ a + 1 + k <= h =>
                             Waiting(Descriptor'[W(k)], transfer.number, a + 1 + k)
                        /\ h < a + 1 + k => Free(Descriptor'[W(k)])
      BY DEF Ring
    <3>1. PICK q : q = Descriptor'[W(k)] OBVIOUS
    <3>2. PICK o : o = Descriptor[W(k)] OBVIOUS
    <3>3. q.valid = o.valid /\ q.irq = o.irq /\ q.done = o.done /\ q.chunk = o.chunk
      BY <2>1, <3>1, <3>2 DEF SameRing
    <3>4. /\ a + 1 + k <= d => Finished(o)
          /\ d < a + 1 + k /\ a + 1 + k <= h => Waiting(o, transfer.number, a + 1 + k)
          /\ h < a + 1 + k => Free(o)
      BY <1>1, <3>2 DEF Ring
    <3> QED BY <3>1, <3>3, <3>4 DEF Finished, Waiting, Free
  <2>3. g_hpdma_current_desc' = g_hpdma_current_desc /\ transfer' = transfer BY DEF indices
  <2> QED BY <2>2, <2>3 DEF Ring, Waiting, Finished, Free, Ahead
<1>3. Stands(a, h)' BY <1>1, StandsKept
<1>4. Serves(running, g_hpdma_current_desc, a, d, h)' BY <1>1 DEF Serves, Ahead, indices
<1>5. Live' BY <1>1, <1>2, <1>3, <1>4 DEF Live, Exact
<1>6. Passing BY DEF RingInv
<1>7. Reported' BY <1>6, ReportedKept DEF Passing
<1> QED BY <1>5, <1>6, <1>7 DEF Passing, InOrder

LEMMA ChunkFailsStep ==
  ASSUME RingInv, ChunkFails
  PROVE  Passing'
<1>0. /\ Passing /\ Works
      /\ UNCHANGED <<state, next, left, indices, Descriptor, running, main, isr, erring, transfer,
                     delivered, outcomes, aborted>>
  BY DEF RingInv, ChunkFails, threads, history
<1>1. running # None BY <1>0 DEF Works
<1>2. CASE state = "IN_PROGRESS" /\ ~aborted
  <2>1. Live BY <1>0, <1>2 DEF Passing
  <2>2. SameRing(Descriptor, Descriptor') BY <1>0 DEF SameRing
  <2> QED BY <1>0, <1>1, <1>2, <2>1, <2>2, LiveKept
<1>3. CASE ~(state = "IN_PROGRESS" /\ ~aborted)
  <2>1. state = "IN_PROGRESS" \/ isr # "none" BY <1>0, <1>1, FailingPlaces DEF Passing, Over, Quiet
  <2> QED BY <1>0, <1>1, <1>3, <2>1, StoppingKept DEF indices
<1> QED BY <1>2, <1>3

-----------------------------------------------------------------------------
(* Starting *)

\* The first state of a transfer.
LEMMA Started ==
  ASSUME NEW size \in 1..8, StartGlobals(size), transfer.number \in Nat, MaxTransfers \in Nat,
         transfer.number < MaxTransfers, running' = None, error' = "none",
         \A d \in Slot : Free(Descriptor'[d]),
         (main' = "fill" /\ isr' = "none") \/ (main' = "idle" /\ isr' = "fill")
  PROVE  /\ Live' /\ state' = "IN_PROGRESS" /\ ~aborted'
         /\ transfer'.number = transfer.number + 1
         /\ delivered' \in Seq(Chunks) /\ InOrder(delivered', transfer'.number, transfer'.size)
         /\ \A i \in 1..Len(delivered') : delivered'[i][2] = i
<1>1. /\ state' = "IN_PROGRESS" /\ next' = 1 /\ left' = size /\ delivered' = <<>> /\ ~aborted'
      /\ transfer'.number = transfer.number + 1 /\ transfer'.size = size
      /\ g_hpdma_current_desc' = 0 /\ g_hpdma_end_desc' = 0
  BY DEF StartGlobals
<1>2. transfer'.number \in 1..MaxTransfers BY <1>1
<1>3. /\ delivered' \in Seq(Chunks) /\ Len(delivered') = 0 /\ \A i \in 1..Len(delivered') : FALSE
  BY <1>1
<1>4. Ring(Descriptor', 0, transfer'.number, 0, 0, 0)
  <2>1. 0 \in Slot BY Slots
  <2>2. \A k \in 0..3 : Free(Descriptor'[Ahead(0, k)]) BY <2>1, AheadSlots
  <2>3. \A k \in 0..3 : ~(0 + 1 + k <= 0) OBVIOUS
  <2> QED BY <2>2, <2>3 DEF Ring
<1>5. Ring(Descriptor, g_hpdma_current_desc, transfer.number, 0, 0, 0)'
  BY <1>1, <1>4 DEF Ring, Waiting, Finished, Free, Ahead
<1>6. Serves(running, g_hpdma_current_desc, 0, 0, 0)' BY DEF Serves
<1>7. Stands(0, 0)' BY <1>1 DEF Stands, Filling, Counting
<1>8. \E a, d, h \in Nat :
        /\ d = Len(delivered') /\ h + left' = transfer'.size /\ (left' > 0 => next' = h + 1)
        /\ a <= d /\ d <= h /\ h <= a + 4
        /\ Ring(Descriptor, g_hpdma_current_desc, transfer.number, a, d, h)'
        /\ Serves(running, g_hpdma_current_desc, a, d, h)'
        /\ Stands(a, h)'
  <2>1. 0 \in Nat /\ 0 <= 0 /\ 0 <= 0 + 4 /\ 0 + left' = transfer'.size /\ next' = 0 + 1 BY <1>1
  <2> QED BY <1>3, <1>5, <1>6, <1>7, <2>1
<1>9. Live' BY <1>1, <1>2, <1>3, <1>8 DEF Live, Exact
<1> QED BY <1>1, <1>3, <1>9 DEF InOrder

\* The loop of MSS_HPDMA_start runs only in a transfer that is in progress.
LEMMA LoopLive ==
  ASSUME RingInv, Filling \/ Counting
  PROVE  state = "IN_PROGRESS" /\ ~aborted /\ Live /\ Passing
<1>1. Passing BY DEF RingInv
<1>2. ~Over BY FailingPlaces DEF RingInv, Inv, Threads, Over, Filling, Counting
<1>3. ~Aborting
  <2> SUFFICES ASSUME Aborting PROVE FALSE OBVIOUS
  <2>1. PICK i \in 1..5 : main = Abort[i] BY DEF Aborting
  <2>2. main \notin {"fill", "count"} BY <2>1, AbortPlaces
  <2> QED BY <2>2 DEF Aborting, Filling, Counting
<1> QED BY <1>1, <1>2, <1>3 DEF Passing

LEMMA HandedSlot ==
  ASSUME NEW descs \in [Slot -> Registers], NEW d \in Slot,
         transfer.number \in Nat, next \in Nat
  PROVE  /\ Free(descs[d]) => Waiting(Handed(descs, d)[d], transfer.number, next)
         /\ \A s \in Slot : s # d => Handed(descs, d)[s] = descs[s]
<1>1. Handed(descs, d) =
        [descs EXCEPT ![d] = [@ EXCEPT !.valid = TRUE, !.pause = FALSE, !.irq = TRUE,
                                       !.chunk = <<transfer.number, next>>]]
  BY DEF Handed, Registers
<1>2. descs[d] \in Registers OBVIOUS
<1>3. \A q \in Registers : Free(q) =>
        Waiting([q EXCEPT !.valid = TRUE, !.pause = FALSE, !.irq = TRUE,
                          !.chunk = <<transfer.number, next>>], transfer.number, next)
  BY DEF Registers, Free, Waiting
<1>4. Handed(descs, d)[d] = [descs[d] EXCEPT !.valid = TRUE, !.pause = FALSE, !.irq = TRUE,
                                             !.chunk = <<transfer.number, next>>]
  BY <1>1
<1>5. \A s \in Slot : s # d => Handed(descs, d)[s] = descs[s] BY <1>1
<1> QED BY <1>2, <1>3, <1>4, <1>5

LEMMA FillStep ==
  ASSUME RingInv, Filling, LoopGoesOn(g_hpdma_end_desc), start_transfer(Descriptor, g_hpdma_end_desc),
         UNCHANGED <<state, indices, error, history, erring>>, Counting', ~Filling',
         main' \in {"idle", "fill", "count"}, isr' \in {"none", "fill", "count"}, ~erring
  PROVE  Passing'
<1>0. state = "IN_PROGRESS" /\ ~aborted /\ Live /\ Passing BY LoopLive
<1>1. PICK a, d, h \in Nat :
        /\ d = Len(delivered) /\ h + left = transfer.size /\ (left > 0 => next = h + 1)
        /\ a <= d /\ d <= h /\ h <= a + 4
        /\ Ring(Descriptor, g_hpdma_current_desc, transfer.number, a, d, h)
        /\ Serves(running, g_hpdma_current_desc, a, d, h)
        /\ Stands(a, h)
  BY <1>0 DEF Live
<1> DEFINE n == transfer.number
           e == g_hpdma_end_desc
           c == g_hpdma_current_desc
<1>2. a = 0 /\ g_hpdma_current_desc = 0 /\ e = h /\ h <= 4 BY <1>1 DEF Stands
<1>3. e < transfer.size /\ e < 4 BY DEF LoopGoesOn, NO_OF_HPDMA_DESCRIPTORS
<1>4. e \in Slot /\ e = Ahead(0, h - a) /\ left > 0 /\ next = h + 1
  BY <1>1, <1>2, <1>3, Types, Slots, SMTT(20) DEF Ahead
<1>5. /\ Descriptor' = Handed(Descriptor, e) /\ running' = IF running = None THEN e ELSE running
      /\ h + 1 + left' = transfer.size /\ (left' > 0 => next' = (h + 1) + 1)
  BY <1>1, <1>4, Types DEF start_transfer
<1>6. Ring(Descriptor', c, n, a, d, h + 1) /\ Serves(running', c, a, d, h + 1)
  <2>1. c \in Slot /\ Descriptor \in [Slot -> Registers] /\ h < a + 4 BY <1>2, <1>3, Types
  <2>2. Ring(Descriptor, c, n, a, d, h) /\ Serves(running, c, a, d, h) BY <1>1
  <2>3. a <= d /\ d <= h /\ e = Ahead(c, h - a) BY <1>1, <1>2, <1>4
  <2>4. /\ Free(Descriptor[e]) => Waiting(Descriptor'[e], n, h + 1)
        /\ \A s \in Slot : s # e => Descriptor'[s] = Descriptor[s]
    BY <1>4, <1>5, Types, HandedSlot
  <2>5. PICK after : after = Descriptor' OBVIOUS
  <2>6. Free(Descriptor[e]) => Waiting(after[e], n, h + 1) BY <2>4, <2>5
  <2>7. \A s \in Slot : s # e => after[s] = Descriptor[s] BY <2>4, <2>5
  <2> HIDE DEF n, e, c
  <2>8. Ring(after, c, n, a, d, h + 1) BY <2>1, <2>2, <2>3, <2>6, <2>7, RingFill
  <2>9. Serves(IF running = None THEN e ELSE running, c, a, d, h + 1)
    BY <2>1, <2>2, <2>3, <2>6, <2>7, RingFill
  <2> QED BY <1>5, <2>5, <2>8, <2>9
<1>7. /\ Ring(Descriptor, g_hpdma_current_desc, transfer.number, a, d, h + 1)'
      /\ Serves(running, g_hpdma_current_desc, a, d, h + 1)'
  <2>1. c' = c /\ n' = n BY DEF indices, history
  <2> QED BY <1>6, <2>1 DEF Ring, Serves, Waiting, Finished, Free, Ahead
<1>8. Stands(a, h + 1)' BY <1>2, <1>3 DEF Stands, indices
<1>9. h + 1 \in Nat /\ d <= h + 1 /\ h + 1 <= a + 4 BY <1>1, <1>2, <1>3
<1>10. running' # None
  <2>1. None \notin Slot BY Types
  <2> QED BY <1>4, <1>5, <2>1
<1>11. Live'
  <2>1. UNCHANGED <<transfer, delivered, error>> BY DEF history
  <2>2. \E aa, dd, hh \in Nat :
          /\ dd = Len(delivered') /\ hh + left' = transfer'.size /\ (left' > 0 => next' = hh + 1)
          /\ aa <= dd /\ dd <= hh /\ hh <= aa + 4
          /\ Ring(Descriptor, g_hpdma_current_desc, transfer.number, aa, dd, hh)'
          /\ Serves(running, g_hpdma_current_desc, aa, dd, hh)'
          /\ Stands(aa, hh)'
    BY <1>1, <1>5, <1>7, <1>8, <1>9, <2>1
  <2> QED BY <1>0, <1>10, <2>1, <2>2 DEF Live, Exact
<1>12. Reported' BY <1>0, ReportedKept DEF Passing, history
<1> QED BY <1>0, <1>11, <1>12 DEF Passing, InOrder, history

\* The loop counts the chunk it has handed over, or is over.
LEMMA CountStep ==
  ASSUME RingInv, ~erring, MaxTransfers \in Nat,
         main' \in {"idle", "fill", "count"}, isr' \in {"none", "fill", "count"},
         UNCHANGED <<state, next, left, g_hpdma_current_desc, hardware, history, erring>>,
         \/ /\ Counting /\ ~Filling /\ Filling' /\ ~Counting' /\ g_hpdma_end_desc' = g_hpdma_end_desc + 1
         \/ /\ Filling /\ ~LoopGoesOn(g_hpdma_end_desc) /\ ~Filling' /\ ~Counting'
            /\ g_hpdma_end_desc' = g_hpdma_end_desc
  PROVE  Passing'
<1>0. state = "IN_PROGRESS" /\ ~aborted /\ Live /\ Passing BY LoopLive
<1>1. PICK a, d, h \in Nat :
        /\ d = Len(delivered) /\ h + left = transfer.size /\ (left > 0 => next = h + 1)
        /\ a <= d /\ d <= h /\ h <= a + 4
        /\ Ring(Descriptor, g_hpdma_current_desc, transfer.number, a, d, h)
        /\ Serves(running, g_hpdma_current_desc, a, d, h)
        /\ Stands(a, h)
  BY <1>0 DEF Live
<1>2. Stands(a, h)'
  <2>1. CASE Counting /\ Filling' /\ ~Counting' /\ g_hpdma_end_desc' = g_hpdma_end_desc + 1
    <3>1. a = 0 /\ g_hpdma_current_desc = 0 /\ g_hpdma_end_desc = h - 1 /\ h <= 4 BY <1>1, <2>1 DEF Stands
    <3> QED BY <2>1, <3>1 DEF Stands
  <2>2. CASE /\ Filling /\ ~LoopGoesOn(g_hpdma_end_desc) /\ ~Filling' /\ ~Counting'
             /\ g_hpdma_end_desc' = g_hpdma_end_desc
    <3>1. a = 0 /\ g_hpdma_current_desc = 0 /\ g_hpdma_end_desc = h /\ h <= 4 BY <1>1, <2>2 DEF Stands
    <3>2. transfer.size >= 1 /\ transfer.size \in Nat BY <1>0 DEF Live
    <3>3. h >= transfer.size \/ h >= 4
      BY <2>2, <3>1, <3>2 DEF LoopGoesOn, NO_OF_HPDMA_DESCRIPTORS
    <3>4. a < h BY <3>1, <3>2, <3>3
    <3>5. left > 0 => h = 4 BY <1>1, <3>1, <3>3, Types
    <3> QED BY <2>2, <3>1, <3>4, <3>5 DEF Stands
  <2> QED BY <2>1, <2>2
<1>3. UNCHANGED <<Descriptor, running, error, transfer, delivered, outcomes, aborted>>
  BY DEF hardware, history
<1>4. Ring(Descriptor, g_hpdma_current_desc, transfer.number, a, d, h)'
  BY <1>1, <1>3 DEF Ring, Finished, Waiting, Free, Ahead
<1>5. Serves(running, g_hpdma_current_desc, a, d, h)' BY <1>1, <1>3 DEF Serves, Ahead
<1>6. Live' BY <1>0, <1>1, <1>2, <1>3, <1>4, <1>5 DEF Live, Exact
<1>7. Reported' BY <1>0, <1>3, ReportedKept DEF Passing
<1> QED BY <1>0, <1>3, <1>6, <1>7 DEF Passing, InOrder

LEMMA LoopStep ==
  ASSUME RingInv, StartFills \/ HandlerFills
  PROVE  Passing'
<1>0. Threads /\ (isr \in {"none", "fill", "count"} => ~erring) /\ MaxTransfers \in Nat
  BY HpdmaAssumption DEF RingInv, Inv, Passing
<1>1. CASE StartFills
  <2>1. isr = "none" /\ isr' = "none" /\ ~erring /\ erring' = erring /\ StartLoop(main, main', "idle")
    BY <1>0, <1>1 DEF StartFills
  <2>2. CASE /\ main = "fill" /\ LoopGoesOn(g_hpdma_end_desc) /\ main' = "count"
             /\ start_transfer(Descriptor, g_hpdma_end_desc)
             /\ UNCHANGED <<state, indices, error, history>>
    <3>1. Filling /\ Counting' /\ ~Filling' BY <2>1, <2>2 DEF Filling, Counting
    <3> QED BY <2>1, <2>2, <3>1, FillStep
  <2>3. CASE /\ main = "count" /\ main' = "fill" /\ g_hpdma_end_desc' = g_hpdma_end_desc + 1
             /\ UNCHANGED <<state, next, left, g_hpdma_current_desc, hardware, history, wild>>
    <3>1. Counting /\ ~Filling /\ Filling' /\ ~Counting' BY <2>1, <2>3 DEF Filling, Counting
    <3> QED BY <1>0, <2>1, <2>3, <3>1, CountStep
  <2>4. CASE /\ main = "fill" /\ ~LoopGoesOn(g_hpdma_end_desc) /\ main' = "idle"
             /\ UNCHANGED <<state, next, left, indices, hardware, history, wild>>
    <3>1. Filling /\ ~Filling' /\ ~Counting' BY <2>1, <2>4 DEF Filling, Counting
    <3> QED BY <1>0, <2>1, <2>4, <3>1, CountStep DEF indices
  <2> QED BY <2>1, <2>2, <2>3, <2>4 DEF StartLoop
<1>2. CASE HandlerFills
  <2>1. /\ isr \in {"fill", "count"} /\ ~erring /\ erring' = erring /\ main = "idle" /\ main' = "idle"
        /\ StartLoop(isr, isr', "none")
    BY <1>0, <1>2 DEF HandlerFills, StartLoop, Threads
  <2>2. CASE /\ isr = "fill" /\ LoopGoesOn(g_hpdma_end_desc) /\ isr' = "count"
             /\ start_transfer(Descriptor, g_hpdma_end_desc)
             /\ UNCHANGED <<state, indices, error, history>>
    <3>1. Filling /\ Counting' /\ ~Filling' BY <2>1, <2>2 DEF Filling, Counting
    <3> QED BY <2>1, <2>2, <3>1, FillStep
  <2>3. CASE /\ isr = "count" /\ isr' = "fill" /\ g_hpdma_end_desc' = g_hpdma_end_desc + 1
             /\ UNCHANGED <<state, next, left, g_hpdma_current_desc, hardware, history, wild>>
    <3>1. Counting /\ ~Filling /\ Filling' /\ ~Counting' BY <2>1, <2>3 DEF Filling, Counting
    <3> QED BY <1>0, <2>1, <2>3, <3>1, CountStep
  <2>4. CASE /\ isr = "fill" /\ ~LoopGoesOn(g_hpdma_end_desc) /\ isr' = "none"
             /\ UNCHANGED <<state, next, left, indices, hardware, history, wild>>
    <3>1. Filling /\ ~Filling' /\ ~Counting' BY <2>1, <2>4 DEF Filling, Counting
    <3> QED BY <1>0, <2>1, <2>4, <3>1, CountStep DEF indices
  <2> QED BY <2>1, <2>2, <2>3, <2>4 DEF StartLoop
<1> QED BY <1>1, <1>2

\* A transfer is started from the application: the controller is at rest.
LEMMA StartsTransfer ==
  ASSUME RingInv, Sizes \subseteq 1..8, MSS_HPDMA_start
  PROVE  Passing'
<1>1. PICK n \in Sizes : StartGlobals(n) BY DEF MSS_HPDMA_start
<1>2. /\ main = "idle" /\ isr = "none" /\ state # "IN_PROGRESS" /\ transfer.number < MaxTransfers
      /\ main' = "fill" /\ UNCHANGED <<isr, erring, hardware, outcomes>>
  BY DEF MSS_HPDMA_start, Calls
<1>3. Passing /\ Quiet BY <1>2, FailingPlaces DEF RingInv, Passing, Over
<1>4. /\ running' = None /\ error' = "none" /\ \A d \in Slot : Free(Descriptor'[d])
  BY <1>2, <1>3 DEF Quiet, hardware
<1>5. n \in 1..8 /\ MaxTransfers \in Nat /\ isr' = "none" BY <1>2, HpdmaAssumption
<1>6. /\ Live' /\ state' = "IN_PROGRESS" /\ ~aborted' /\ transfer'.number = transfer.number + 1
      /\ delivered' \in Seq(Chunks) /\ InOrder(delivered', transfer'.number, transfer'.size)
      /\ \A i \in 1..Len(delivered') : delivered'[i][2] = i
  BY <1>1, <1>2, <1>4, <1>5, Types, Started
<1>7. Reported' BY <1>2, <1>3, <1>6, Types, HpdmaAssumption, SMTT(20) DEF Reported, Passing
<1> QED BY <1>2, <1>3, <1>6, <1>7 DEF Passing, InOrder

-----------------------------------------------------------------------------
(* Pausing and aborting *)

\* Between interrupts, a transfer that is in progress has not been aborted.
LEMMA IdleLive ==
  ASSUME RingInv, main = "idle", state = "IN_PROGRESS"
  PROVE  ~aborted /\ Live /\ Passing
<1>1. Passing BY DEF RingInv
<1>2. ~Aborting
  <2> SUFFICES ASSUME Aborting PROVE FALSE OBVIOUS
  <2>1. PICK i \in 1..5 : main = Abort[i] BY DEF Aborting
  <2> QED BY <2>1, AbortPlaces
<1> QED BY <1>1, <1>2 DEF Passing

LEMMA PauseStep ==
  ASSUME RingInv, MSS_HPDMA_pause \/ MSS_HPDMA_resume
  PROVE  Passing'
<1>1. /\ main = "idle" /\ state = "IN_PROGRESS"
      /\ UNCHANGED <<state, next, left, indices, running, error, main, isr, erring, transfer, delivered,
                     outcomes, aborted>>
  BY DEF MSS_HPDMA_pause, MSS_HPDMA_resume, Calls, threads, history
<1>2. ~aborted /\ Live BY <1>1, IdleLive
<1>3. SameRing(Descriptor, Descriptor')
  <2>1. PICK p \in BOOLEAN : Descriptor' = [Descriptor EXCEPT ![g_hpdma_current_desc].pause = p]
    BY DEF MSS_HPDMA_pause, MSS_HPDMA_resume
  <2>2. \A s \in Slot : Descriptor'[s] = IF s = g_hpdma_current_desc THEN [Descriptor[s] EXCEPT !.pause = p]
                                                                     ELSE Descriptor[s]
    BY <2>1, Types
  <2>3. \A q \in Registers : LET r == [q EXCEPT !.pause = p]
                             IN r.valid = q.valid /\ r.irq = q.irq /\ r.done = q.done /\ r.chunk = q.chunk
    BY DEF Registers
  <2>4. \A s \in Slot : Descriptor[s] \in Registers BY Types
  <2> QED BY <2>2, <2>3, <2>4 DEF SameRing
<1>4. running' = None => error' = "none" BY <1>1, <1>2 DEF Live
<1> QED BY <1>1, <1>2, <1>3, <1>4, LiveKept

\* A transfer in progress that is about to be stopped: nothing has been cleared yet.
LEMMA LiveCleared ==
  ASSUME RingInv, Live, state = "IN_PROGRESS", ~aborted
  PROVE  Cleared(1)
<1>1. PICK a, d, h \in Nat :
        /\ d = Len(delivered) /\ h + left = transfer.size
        /\ a <= d /\ d <= h /\ h <= a + 4
        /\ Ring(Descriptor, g_hpdma_current_desc, transfer.number, a, d, h)
        /\ Serves(running, g_hpdma_current_desc, a, d, h)
  BY DEF Live
<1> DEFINE c == g_hpdma_current_desc
           n == transfer.number
           W(k) == Descriptor[Ahead(c, k)]
<1>2. LastChunk(delivered) = d
  <2>1. \A i \in 1..Len(delivered) : delivered[i][2] = i BY DEF RingInv, Passing
  <2>2. d # 0 => d \in 1..d OBVIOUS
  <2> QED BY <1>1, <2>1, <2>2 DEF LastChunk
<1>3. \A k \in 0..3 : /\ a + 1 + k <= d => ~W(k).valid
                      /\ d < a + 1 + k /\ a + 1 + k <= h => W(k).valid /\ W(k).chunk = <<n, a + 1 + k>>
                      /\ h < a + 1 + k => ~W(k).valid
  BY <1>1 DEF Ring, Finished, Waiting, Free
<1>4. Remaining(Descriptor, c, n, transfer.size, a, d)
  <2> SUFFICES ASSUME NEW k \in 0..3, W(k).valid
               PROVE  W(k).chunk = <<n, a + 1 + k>> /\ d < a + 1 + k /\ a + 1 + k <= transfer.size
    BY DEF Remaining
  <2>1. ~(a + 1 + k <= d) /\ ~(h < a + 1 + k) BY <1>3
  <2>2. d < a + 1 + k /\ a + 1 + k <= h BY <2>1
  <2>3. a + 1 + k <= transfer.size BY <1>1, <2>2, Types
  <2> QED BY <1>3, <2>2, <2>3
<1>5. First(Descriptor, running, c)
  <2>1. CASE d = h
    <3>1. running = None BY <1>1, <2>1 DEF Serves
    <3>2. \A k \in 0..3 : ~W(k).valid BY <1>3, <2>1
    <3> QED BY <3>1, <3>2 DEF First
  <2>2. CASE d < h
    <3> DEFINE r == d - a
    <3>1. r \in 0..3 /\ a + 1 + r = d + 1 BY <1>1, <2>2
    <3>2. running = Ahead(c, r) BY <1>1, <2>2 DEF Serves
    <3>3. W(r).valid
      <4> HIDE DEF r
      <4>1. d < a + 1 + r /\ a + 1 + r <= h BY <1>1, <2>2, <3>1
      <4> QED BY <1>3, <3>1, <4>1
    <3>4. \A k \in 0..3 : k < r => ~W(k).valid
      <4> TAKE k \in 0..3
      <4> HAVE k < r
      <4>1. a + 1 + k <= d OBVIOUS
      <4> QED BY <1>3, <4>1
    <3> HIDE DEF r
    <3> QED BY <3>1, <3>2, <3>3, <3>4 DEF First
  <2> QED BY <1>1, <2>1, <2>2
<1>6. \A s \in Slot : ~(s < 1 - 1) BY Slots
<1>7. Remaining(Descriptor, c, n, transfer.size, a, LastChunk(delivered)) BY <1>2, <1>4
<1> QED BY <1>5, <1>6, <1>7 DEF Cleared, Live

LEMMA AbortStep ==
  ASSUME RingInv, MSS_HPDMA_abort
  PROVE  Passing'
<1>1. /\ main = "idle" /\ isr = "none" /\ state = "IN_PROGRESS" /\ main' = Abort[1] /\ aborted'
      /\ UNCHANGED <<state, next, left, indices, hardware, isr, erring, transfer, delivered, outcomes>>
  BY DEF MSS_HPDMA_abort, Calls
<1>2. ~aborted /\ Live /\ Passing BY <1>1, IdleLive
<1>3. Cleared(1) BY <1>1, <1>2, LiveCleared
<1>4. UNCHANGED <<Descriptor, running, error, g_hpdma_current_desc>> BY <1>1 DEF hardware, indices
<1>5. running' = None => error' = "none" BY <1>2, <1>4 DEF Live
<1>6. Cleared(1)' BY <1>1, <1>3, <1>4, <1>5, ClearedKept
<1>7. 1 \in 1..5 OBVIOUS
<1>8. Aborting' BY <1>1, <1>6, <1>7 DEF Aborting
<1>9. Reported' BY <1>1, <1>2, ReportedKept DEF Passing
<1> QED BY <1>1, <1>2, <1>8, <1>9 DEF Passing, InOrder

\* One descriptor is cleared: the controller goes on to the next that waits.
LEMMA ClearedStep ==
  ASSUME RingInv, NEW i \in 1..4, Cleared(i), ClearDescriptor(i - 1),
         UNCHANGED <<g_hpdma_current_desc, transfer, delivered>>
  PROVE  Cleared(i + 1)'
<1> DEFINE c == g_hpdma_current_desc
           n == transfer.number
           size == transfer.size
           s0 == i - 1
<1>1. PICK a \in Nat : /\ Remaining(Descriptor, c, n, size, a, LastChunk(delivered))
                       /\ First(Descriptor, running, c)
  BY DEF Cleared
<1>2. s0 \in Slot BY Slots
<1>3. /\ Descriptor'[s0] = Clear /\ \A s \in Slot : s # s0 => Descriptor'[s] = Descriptor[s]
      /\ running' = IF running = s0 THEN Turn(s0, Descriptor') ELSE running
      /\ error' = IF running = s0 THEN "none" ELSE error
  BY <1>2, Types DEF ClearDescriptor
<1>4. Free(Descriptor'[s0]) /\ ~Descriptor'[s0].valid BY <1>3 DEF Clear, Free
<1>5. /\ Remaining(Descriptor', c, n, size, a, LastChunk(delivered))
       /\ First(Descriptor', running', c)
  <2>1. c \in Slot /\ size \in Nat BY Types
  <2>2. PICK after : after = Descriptor' OBVIOUS
  <2>3. PICK last : last = LastChunk(delivered) OBVIOUS
  <2>4. Remaining(Descriptor, c, n, size, a, last) BY <1>1, <2>3
  <2>5. CASE running = s0
    <3>1. PICK r \in 0..3 : /\ running = Ahead(c, r)
                            /\ \A k \in 0..3 : k < r => ~Descriptor[Ahead(c, k)].valid
      BY <1>1, <1>2, <2>5, Types DEF First
    <3>2. r \in Nat /\ r <= 3 /\ s0 = Ahead(c, r) BY <2>5, <3>1
    <3>3. /\ ~after[s0].valid /\ \A s \in Slot : s # s0 => after[s] = Descriptor[s]
          /\ running' = Turn(s0, after)
      BY <1>3, <1>4, <2>2, <2>5
    <3> HIDE DEF c, n, size, s0
    <3>4. Remaining(after, c, n, size, a, last) BY <2>1, <2>4, <3>1, <3>2, <3>3, RemainingEnds
    <3>5. First(after, Turn(s0, after), c) BY <2>1, <2>4, <3>1, <3>2, <3>3, RemainingEnds
    <3> QED BY <2>2, <2>3, <3>3, <3>4, <3>5
  <2>6. CASE running # s0
    <3>1. running' = running BY <1>3, <2>6
    <3>2. \A s \in Slot : after[s].valid => s # s0 /\ after[s] = Descriptor[s] BY <1>3, <1>4, <2>2
    <3>3. \A k \in 0..3 : Ahead(c, k) \in Slot BY Types, AheadSlots
    <3>4. \A k \in 0..3 : after[Ahead(c, k)].valid => after[Ahead(c, k)] = Descriptor[Ahead(c, k)]
      BY <3>2, <3>3
    <3>5. Remaining(after, c, n, size, a, last) BY <2>4, <3>4 DEF Remaining
    <3>6. running \in Slot => after[running] = Descriptor[running] BY <1>3, <2>2, <2>6
    <3>7. First(after, running, c)
      <4>1. CASE running = None /\ \A k \in 0..3 : ~Descriptor[Ahead(c, k)].valid
        <5>1. \A k \in 0..3 : ~after[Ahead(c, k)].valid BY <3>4, <4>1
        <5> QED BY <4>1, <5>1 DEF First
      <4>2. CASE \E r \in 0..3 : /\ running = Ahead(c, r) /\ Descriptor[running].valid
                                 /\ \A k \in 0..3 : k < r => ~Descriptor[Ahead(c, k)].valid
        <5>1. PICK r \in 0..3 : /\ running = Ahead(c, r) /\ Descriptor[running].valid
                                /\ \A k \in 0..3 : k < r => ~Descriptor[Ahead(c, k)].valid
          BY <4>2
        <5>2. after[running].valid BY <3>3, <3>6, <5>1
        <5>3. \A k \in 0..3 : k < r => ~after[Ahead(c, k)].valid BY <3>4, <5>1
        <5> QED BY <5>1, <5>2, <5>3 DEF First
      <4> QED BY <1>1, <4>1, <4>2 DEF First
    <3> QED BY <2>2, <2>3, <3>1, <3>5, <3>7
  <2> QED BY <2>5, <2>6
<1>6. \A s \in Slot : s < (i + 1) - 1 => Free(Descriptor'[s])
  <2>1. \A s \in Slot : s < i - 1 => Free(Descriptor[s]) BY DEF Cleared
  <2> TAKE s \in Slot
  <2> HAVE s < (i + 1) - 1
  <2>2. s = s0 \/ (s # s0 /\ s < i - 1) BY Slots
  <2> QED BY <1>3, <1>4, <2>1, <2>2
<1>7. running' = None => error' = "none"
  <2>1. running = None => error = "none" BY DEF Cleared
  <2> QED BY <1>3, <2>1
<1>8. Remaining(Descriptor, c, n, size, a, LastChunk(delivered))'
  BY <1>5 DEF Remaining, Ahead, LastChunk
<1>9. First(Descriptor, running, c)' BY <1>5 DEF First, Ahead
<1>10. n \in 1..MaxTransfers BY DEF Cleared
<1> QED BY <1>6, <1>7, <1>8, <1>9, <1>10 DEF Cleared, Free

\* When all four are free, the controller works on none.
LEMMA ClearedNone ==
  ASSUME NEW c \in Slot, NEW descs, NEW place, First(descs, place, c), \A s \in Slot : Free(descs[s])
  PROVE  place = None
<1>1. \A k \in 0..3 : ~descs[Ahead(c, k)].valid BY AheadSlots DEF Free
<1> QED BY <1>1 DEF First

\* The loop of MSS_HPDMA_abort clears one descriptor.
LEMMA AbortClearsStep ==
  ASSUME RingInv, AbortClears
  PROVE  Passing'
<1>1. PICK i \in 1..4 : main = Abort[i] /\ main' = Abort[i + 1] /\ ClearDescriptor(i - 1)
  BY DEF AbortClears
<1>2. UNCHANGED <<state, next, left, indices, g_hpdma_current_desc, isr, erring, transfer, delivered,
                  outcomes, aborted>>
  BY DEF AbortClears, history, indices
<1>3. Passing BY DEF RingInv
<1>4. i \in 1..5 /\ i + 1 \in 1..5 /\ main \notin {"idle", "fill", "count"}
  <2>1. i \in 1..5 /\ i + 1 \in 1..5 OBVIOUS
  <2> QED BY <1>1, <2>1, AbortPlaces
<1>5. state = "IN_PROGRESS" /\ aborted /\ Aborting BY <1>3, <1>4 DEF Passing, Over, Failing, Live
<1>6. Cleared(i)
  <2>1. PICK j \in 1..5 : main = Abort[j] /\ Cleared(j) BY <1>5 DEF Aborting
  <2> QED BY <1>1, <1>4, <2>1, AbortPlaces
<1>7. Cleared(i + 1)' BY <1>1, <1>2, <1>6, ClearedStep
<1>8. Aborting' BY <1>1, <1>2, <1>4, <1>5, <1>7 DEF Aborting
<1>9. Reported' BY <1>2, <1>3, <1>5, ReportedKept DEF Passing
<1> QED BY <1>2, <1>3, <1>5, <1>8, <1>9 DEF Passing, InOrder

LEMMA AbortEndsStep ==
  ASSUME RingInv, AbortEnds
  PROVE  Passing'
<1>1. /\ isr = "none" /\ main = Abort[5] /\ main' = "idle" /\ state' = "COMPLETED"
      /\ UNCHANGED <<next, left, indices, hardware, isr, erring, transfer, delivered, outcomes, aborted>>
  BY DEF AbortEnds, history
<1>2. Passing BY DEF RingInv
<1>3. 5 \in 1..5 /\ main \notin {"idle", "fill", "count"} BY <1>1, AbortPlaces
<1>4. state = "IN_PROGRESS" /\ aborted /\ Aborting BY <1>2, <1>3 DEF Passing, Over, Failing, Live
<1>5. Cleared(5)
  <2>1. PICK j \in 1..5 : main = Abort[j] /\ Cleared(j) BY <1>4 DEF Aborting
  <2> QED BY <1>1, <1>3, <2>1, AbortPlaces
<1>6. \A s \in Slot : Free(Descriptor[s]) BY <1>5, Slots DEF Cleared
<1>7. running = None /\ error = "none" BY <1>5, <1>6, Types, ClearedNone DEF Cleared
<1>8. Over' BY <1>1, <1>6, <1>7 DEF Over, Quiet, hardware, Free
<1>9. Reported' BY <1>1, <1>2, <1>4 DEF Passing, Reported
<1> QED BY <1>1, <1>2, <1>4, <1>8, <1>9 DEF Passing, InOrder

-----------------------------------------------------------------------------
(* The interrupts *)

LEMMA AcknowledgedSlot ==
  ASSUME Descriptor \in [Slot -> Registers], g_hpdma_current_desc \in Slot
  PROVE  /\ Finished(Descriptor[g_hpdma_current_desc]) => Free(Acknowledged[g_hpdma_current_desc])
         /\ \A s \in Slot : s # g_hpdma_current_desc => Acknowledged[s] = Descriptor[s]
         /\ Acknowledged \in [Slot -> Registers]
<1> DEFINE c == g_hpdma_current_desc
<1>1. Acknowledged = [Descriptor EXCEPT ![c] = [@ EXCEPT !.done = FALSE, !.irq = FALSE]]
  BY DEF Acknowledged
<1>2. \A q \in Registers : /\ [q EXCEPT !.done = FALSE, !.irq = FALSE] \in Registers
                           /\ Finished(q) => Free([q EXCEPT !.done = FALSE, !.irq = FALSE])
  BY DEF Registers, Finished, Free
<1>3. Descriptor[c] \in Registers OBVIOUS
<1>4. Acknowledged[c] = [Descriptor[c] EXCEPT !.done = FALSE, !.irq = FALSE] BY <1>1
<1>5. \A s \in Slot : s # c => Acknowledged[s] = Descriptor[s] BY <1>1
<1>6. Acknowledged \in [Slot -> Registers] BY <1>1, <1>2, <1>3
<1> QED BY <1>2, <1>3, <1>4, <1>5, <1>6

\* One report is added to those of the transfer in progress, which has none.
LEMMA ToldOnce ==
  ASSUME Reported, state = "IN_PROGRESS", transfer.number \in Nat,
         transfer.number \in 1..MaxTransfers, NEW outcome,
         outcomes' = [outcomes EXCEPT ![transfer.number] = Append(@, outcome)]
  PROVE  /\ DOMAIN outcomes' = 1..MaxTransfers /\ outcomes'[transfer.number] = <<outcome>>
         /\ \A t \in 1..MaxTransfers : /\ Len(outcomes'[t]) <= 1
                                       /\ t > transfer.number => outcomes'[t] = <<>>
<1> DEFINE n == transfer.number
<1>1. /\ DOMAIN outcomes = 1..MaxTransfers /\ outcomes[n] = <<>>
      /\ \A t \in 1..MaxTransfers : Len(outcomes[t]) <= 1 /\ (t > n => outcomes[t] = <<>>)
  BY DEF Reported
<1>2. Append(<<>>, outcome) = <<outcome>> OBVIOUS
<1>3. outcomes'[n] = <<outcome>> BY <1>1, <1>2
<1>4. \A t \in 1..MaxTransfers : t # n => outcomes'[t] = outcomes[t] BY <1>1
<1>5. Len(<<outcome>>) <= 1 OBVIOUS
<1>6. DOMAIN outcomes' = 1..MaxTransfers BY <1>1
<1>7. \A t \in 1..MaxTransfers : Len(outcomes'[t]) <= 1 /\ (t > n => outcomes'[t] = <<>>)
  <2> TAKE t \in 1..MaxTransfers
  <2>1. CASE t = n
    <3>1. ~(t > n) BY <2>1
    <3> QED BY <1>3, <1>5, <2>1, <3>1
  <2>2. CASE t # n BY <1>1, <1>4, <2>2
  <2> QED BY <2>1, <2>2
<1> QED BY <1>3, <1>6, <1>7

\* When the completion interrupt comes, the first chunk not acknowledged has been moved.
LEMMA Completed ==
  ASSUME RingInv, Preempts = FALSE, Enters, CompletionPending
  PROVE  /\ state = "IN_PROGRESS" /\ ~aborted /\ Live /\ Passing /\ main = "idle" /\ isr = "none"
         /\ \E a, d, h \in Nat :
              /\ d = Len(delivered) /\ h + left = transfer.size /\ (left > 0 => next = h + 1)
              /\ a < d /\ d <= h /\ h <= a + 4
              /\ Ring(Acknowledged, NextSlot(g_hpdma_current_desc), transfer.number, a + 1, d, h)
              /\ Serves(running, NextSlot(g_hpdma_current_desc), a + 1, d, h)
              /\ Stands(a, h)
              /\ a + 1 < h <=> Acknowledged[NextSlot(g_hpdma_current_desc)].irq
<1>1. main = "idle" /\ isr = "none" BY DEF Enters
<1>2. PICK s \in Slot : Descriptor[s].done /\ Descriptor[s].irq BY DEF CompletionPending
<1>3. state = "IN_PROGRESS"
  <2>1. ~Free(Descriptor[s]) BY <1>2 DEF Free
  <2>2. ~Over BY <1>1, <2>1, FailingPlaces DEF Over, Quiet
  <2> QED BY <2>2 DEF RingInv, Passing
<1>4. ~aborted /\ Live /\ Passing BY <1>1, <1>3, IdleLive
<1>5. PICK a, d, h \in Nat :
        /\ d = Len(delivered) /\ h + left = transfer.size /\ (left > 0 => next = h + 1)
        /\ a <= d /\ d <= h /\ h <= a + 4
        /\ Ring(Descriptor, g_hpdma_current_desc, transfer.number, a, d, h)
        /\ Serves(running, g_hpdma_current_desc, a, d, h)
        /\ Stands(a, h)
  BY <1>4 DEF Live
<1> DEFINE c == g_hpdma_current_desc
           n == transfer.number
<1>6. a < d
  <2>1. PICK k \in 0..3 : s = Ahead(c, k) BY Types, AheadSlots
  <2>2. ~(d < a + 1 + k /\ a + 1 + k <= h) /\ ~(h < a + 1 + k)
    BY <1>2, <1>5, <2>1 DEF Ring, Waiting, Free
  <2> QED BY <1>5, <2>2
<1>7. NextSlot(c) = Ahead(c, 1) BY DEF NextSlot, Ahead, NO_OF_HPDMA_DESCRIPTORS
<1>8. /\ Ring(Acknowledged, Ahead(c, 1), n, a + 1, d, h) /\ Serves(running, Ahead(c, 1), a + 1, d, h)
      /\ a + 1 < h <=> Acknowledged[Ahead(c, 1)].irq
  <2>1. c \in Slot /\ Descriptor \in [Slot -> Registers] BY Types
  <2>2. PICK after : after = Acknowledged OBVIOUS
  <2>3. Finished(Descriptor[c]) => Free(after[c]) BY <2>1, <2>2, AcknowledgedSlot
  <2>4. \A t \in Slot : t # c => after[t] = Descriptor[t] BY <2>1, <2>2, AcknowledgedSlot
  <2>5. d <= h /\ h <= a + 4 /\ Ring(Descriptor, c, n, a, d, h) /\ Serves(running, c, a, d, h) BY <1>5
  <2> HIDE DEF c, n
  <2>6. Ring(after, Ahead(c, 1), n, a + 1, d, h) BY <1>6, <2>1, <2>3, <2>4, <2>5, RingAcknowledged
  <2>7. Serves(running, Ahead(c, 1), a + 1, d, h) BY <1>6, <2>1, <2>3, <2>4, <2>5, RingAcknowledged
  <2>8. a + 1 < h <=> after[Ahead(c, 1)].irq BY <1>6, <2>1, <2>3, <2>4, <2>5, RingAcknowledged, SMTT(20)
  <2> QED BY <2>2, <2>6, <2>7, <2>8
<1>9. /\ Ring(Acknowledged, NextSlot(c), n, a + 1, d, h) /\ Serves(running, NextSlot(c), a + 1, d, h)
      /\ a + 1 < h <=> Acknowledged[NextSlot(c)].irq
  BY <1>7, <1>8
<1> HIDE DEF c, n
<1>10. \E aa, dd, hh \in Nat :
         /\ dd = Len(delivered) /\ hh + left = transfer.size /\ (left > 0 => next = hh + 1)
         /\ aa < dd /\ dd <= hh /\ hh <= aa + 4
         /\ Ring(Acknowledged, NextSlot(c), n, aa + 1, dd, hh)
         /\ Serves(running, NextSlot(c), aa + 1, dd, hh)
         /\ Stands(aa, hh)
         /\ aa + 1 < hh <=> Acknowledged[NextSlot(c)].irq
  BY <1>5, <1>6, <1>9
<1> QED BY <1>1, <1>3, <1>4, <1>10 DEF c, n

\* The descriptor that has ended takes the next chunk.
LEMMA HandsOverStep ==
  ASSUME RingInv, Preempts = FALSE, HPDMA_Complete_IRQHandler, CompleteHandsOver
  PROVE  Passing'
<1>1. Enters /\ CompletionPending /\ UNCHANGED <<error, main, erring>>
  BY DEF HPDMA_Complete_IRQHandler
<1>2. state = "IN_PROGRESS" /\ ~aborted /\ Live /\ Passing /\ main = "idle" /\ isr = "none"
  BY <1>1, Completed
<1> DEFINE c == g_hpdma_current_desc
           c1 == NextSlot(c)
           n == transfer.number
<1>3. PICK a, d, h \in Nat :
        /\ d = Len(delivered) /\ h + left = transfer.size /\ (left > 0 => next = h + 1)
        /\ a < d /\ d <= h /\ h <= a + 4
        /\ Ring(Acknowledged, c1, n, a + 1, d, h)
        /\ Serves(running, c1, a + 1, d, h)
        /\ Stands(a, h)
  BY <1>1, Completed
<1>4. /\ left > 0 /\ c' = c1 /\ g_hpdma_end_desc' = AfterLast(g_hpdma_end_desc)
      /\ start_transfer(Acknowledged, g_hpdma_end_desc')
      /\ UNCHANGED <<state, transfer, delivered, outcomes, aborted, isr>>
  BY DEF CompleteHandsOver
<1>5. h = a + 4 /\ a < 4 /\ c = a /\ g_hpdma_end_desc = IF a = 0 THEN 4 ELSE a - 1
  BY <1>2, <1>3, <1>4 DEF Stands, Filling, Counting
<1>6. g_hpdma_end_desc' = c
  BY <1>4, <1>5 DEF AfterLast, NO_OF_HPDMA_DESCRIPTORS
<1>7. c \in Slot /\ c1 \in Slot /\ c = Ahead(c1, 3)
  <2>1. c \in Slot BY Types
  <2>2. c = 0 \/ c = 1 \/ c = 2 \/ c = 3 BY <2>1, Slots
  <2>3. c1 = (c + 1) % 4 BY DEF NextSlot, NO_OF_HPDMA_DESCRIPTORS
  <2> QED BY <2>1, <2>2, <2>3, Slots DEF Ahead
<1>8. /\ Descriptor' = Handed(Acknowledged, c) /\ running' = IF running = None THEN c ELSE running
      /\ h + 1 + left' = transfer.size /\ (left' > 0 => next' = (h + 1) + 1 /\ left > 1)
      /\ next = h + 1
  BY <1>3, <1>4, <1>6, <1>7, Types DEF start_transfer
<1>9. Ring(Descriptor', c1, n, a + 1, d, h + 1) /\ Serves(running', c1, a + 1, d, h + 1)
  <2> DEFINE b == a + 1
  <2>1. b \in Nat /\ b <= d /\ d <= h /\ h < b + 4 BY <1>3, <1>5
  <2>2. c = Ahead(c1, h - b)
    <3>1. h - b = 3 BY <1>3, <1>5
    <3> QED BY <1>7, <3>1
  <2>3. PICK descs : descs = Acknowledged OBVIOUS
  <2>4. PICK after : after = Descriptor' OBVIOUS
  <2>5. descs \in [Slot -> Registers] BY <2>3, Types, AcknowledgedSlot
  <2>6. /\ Free(descs[c]) => Waiting(Handed(descs, c)[c], n, next)
        /\ \A s \in Slot : s # c => Handed(descs, c)[s] = descs[s]
    BY <1>7, <2>5, Types, HandedSlot
  <2>7. after = Handed(descs, c) BY <1>8, <2>3, <2>4
  <2>8. Free(descs[c]) => Waiting(after[c], n, h + 1) BY <1>8, <2>6, <2>7
  <2>9. \A s \in Slot : s # c => after[s] = descs[s] BY <2>6, <2>7
  <2>10. Ring(descs, c1, n, b, d, h) /\ Serves(running, c1, b, d, h) BY <1>3, <2>3
  <2>11. running' = IF running = None THEN c ELSE running BY <1>8
  <2>12. c1 \in Slot BY <1>7
  <2> HIDE DEF b, c, c1, n
  <2>13. Ring(after, c1, n, b, d, h + 1) BY <2>1, <2>2, <2>5, <2>8, <2>9, <2>10, <2>12, RingFill
  <2>14. Serves(IF running = None THEN c ELSE running, c1, b, d, h + 1)
    BY <2>1, <2>2, <2>5, <2>8, <2>9, <2>10, <2>12, RingFill
  <2> QED BY <2>4, <2>11, <2>13, <2>14 DEF b
<1>10. /\ Ring(Descriptor, g_hpdma_current_desc, transfer.number, a + 1, d, h + 1)'
       /\ Serves(running, g_hpdma_current_desc, a + 1, d, h + 1)'
  BY <1>4, <1>9 DEF Ring, Serves, Waiting, Finished, Free, Ahead
<1>11. Stands(a + 1, h + 1)'
  <2>1. ~Filling' /\ ~Counting' BY <1>1, <1>2, <1>4 DEF Filling, Counting
  <2>2. left' > 0 => h + 1 = (a + 1) + 4 /\ a + 1 < 4
    <3>1. transfer.size <= 8 BY <1>2 DEF Live
    <3> QED BY <1>3, <1>5, <1>8, <3>1, Types
  <2>3. a + 1 < 4 => c1 = a + 1 BY <1>5 DEF NextSlot, NO_OF_HPDMA_DESCRIPTORS
  <2>4. g_hpdma_end_desc' = (a + 1) - 1 /\ a + 1 # 0 BY <1>5, <1>6
  <2>5. a + 1 < h + 1 BY <1>5
  <2> QED BY <1>4, <2>1, <2>2, <2>3, <2>4, <2>5 DEF Stands
<1>12. running' # None
  <2>1. None \notin Slot BY Types
  <2> QED BY <1>7, <1>8, <2>1
<1>13. Live'
  <2>1. a + 1 \in Nat /\ h + 1 \in Nat /\ a + 1 <= d /\ d <= h + 1 /\ h + 1 <= (a + 1) + 4
    BY <1>3, <1>5
  <2>2. \E aa, dd, hh \in Nat :
          /\ dd = Len(delivered') /\ hh + left' = transfer'.size /\ (left' > 0 => next' = hh + 1)
          /\ aa <= dd /\ dd <= hh /\ hh <= aa + 4
          /\ Ring(Descriptor, g_hpdma_current_desc, transfer.number, aa, dd, hh)'
          /\ Serves(running, g_hpdma_current_desc, aa, dd, hh)'
          /\ Stands(aa, hh)'
    BY <1>3, <1>4, <1>8, <1>10, <1>11, <2>1
  <2> QED BY <1>1, <1>2, <1>4, <1>12, <2>2 DEF Live, Exact
<1>14. Reported' BY <1>2, <1>4, ReportedKept DEF Passing
<1> QED BY <1>1, <1>2, <1>4, <1>13, <1>14 DEF Passing, InOrder

LEMMA WaitsStep ==
  ASSUME RingInv, Preempts = FALSE, HPDMA_Complete_IRQHandler, CompleteWaits
  PROVE  Passing'
<1>1. Enters /\ CompletionPending /\ UNCHANGED <<error, main, erring>>
  BY DEF HPDMA_Complete_IRQHandler
<1>2. state = "IN_PROGRESS" /\ ~aborted /\ Live /\ Passing /\ main = "idle" /\ isr = "none"
  BY <1>1, Completed
<1> DEFINE c1 == NextSlot(g_hpdma_current_desc)
           n == transfer.number
<1>3. PICK a, d, h \in Nat :
        /\ d = Len(delivered) /\ h + left = transfer.size
        /\ a < d /\ d <= h /\ h <= a + 4
        /\ Ring(Acknowledged, c1, n, a + 1, d, h)
        /\ Serves(running, c1, a + 1, d, h)
        /\ a + 1 < h <=> Acknowledged[c1].irq
  BY <1>1, Completed
<1>4. /\ left = 0 /\ ~AllDone /\ g_hpdma_current_desc' = c1 /\ Descriptor' = Acknowledged
      /\ UNCHANGED <<state, next, left, g_hpdma_end_desc, running, transfer, delivered, outcomes,
                     aborted, isr>>
  BY DEF CompleteWaits
<1>5. a + 1 < h BY <1>3, <1>4 DEF AllDone
<1>6. /\ Ring(Descriptor, g_hpdma_current_desc, transfer.number, a + 1, d, h)'
      /\ Serves(running, g_hpdma_current_desc, a + 1, d, h)'
  BY <1>3, <1>4 DEF Ring, Serves, Waiting, Finished, Free, Ahead
<1>7. Stands(a + 1, h)'
  <2>1. ~Filling' /\ ~Counting' BY <1>1, <1>2, <1>4 DEF Filling, Counting
  <2> QED BY <1>4, <1>5, <2>1 DEF Stands
<1>8. Live'
  <2>1. a + 1 \in Nat /\ a + 1 <= d /\ h <= (a + 1) + 4 BY <1>3
  <2>2. \E aa, dd, hh \in Nat :
          /\ dd = Len(delivered') /\ hh + left' = transfer'.size /\ (left' > 0 => next' = hh + 1)
          /\ aa <= dd /\ dd <= hh /\ hh <= aa + 4
          /\ Ring(Descriptor, g_hpdma_current_desc, transfer.number, aa, dd, hh)'
          /\ Serves(running, g_hpdma_current_desc, aa, dd, hh)'
          /\ Stands(aa, hh)'
    BY <1>3, <1>4, <1>6, <1>7, <2>1
  <2> QED BY <1>1, <1>2, <1>4, <2>2 DEF Live, Exact
<1>9. Reported' BY <1>2, <1>4, ReportedKept DEF Passing
<1> QED BY <1>1, <1>2, <1>4, <1>8, <1>9 DEF Passing, InOrder

\* The last chunk has been moved: the transfer is over, and the next one may start.
LEMMA EndsStep ==
  ASSUME RingInv, Preempts = FALSE, Sizes \subseteq 1..8, HPDMA_Complete_IRQHandler, CompleteEnds
  PROVE  Passing'
<1>1. Enters /\ CompletionPending /\ UNCHANGED <<error, main, erring>>
  BY DEF HPDMA_Complete_IRQHandler
<1>2. state = "IN_PROGRESS" /\ ~aborted /\ Live /\ Passing /\ main = "idle" /\ isr = "none"
  BY <1>1, Completed
<1> DEFINE c1 == NextSlot(g_hpdma_current_desc)
           n == transfer.number
<1>3. PICK a, d, h \in Nat :
        /\ d = Len(delivered) /\ h + left = transfer.size
        /\ a < d /\ d <= h /\ h <= a + 4
        /\ Ring(Acknowledged, c1, n, a + 1, d, h)
        /\ Serves(running, c1, a + 1, d, h)
        /\ Stands(a, h)
        /\ a + 1 < h <=> Acknowledged[c1].irq
  BY <1>1, Completed
<1>4. /\ left = 0 /\ AllDone /\ Descriptor' = Acknowledged /\ running' = running
      /\ Told("COMPLETED", "none", 0, 0)
  BY DEF CompleteEnds
<1>5. d = h /\ h = a + 1 /\ h = transfer.size
  <2>1. ~(a + 1 < h) BY <1>3, <1>4 DEF AllDone
  <2> QED BY <1>3, <1>4, <2>1, Types
<1>6. Quiet'
  <2>1. c1 \in Slot BY Types, Slots DEF NextSlot, NO_OF_HPDMA_DESCRIPTORS
  <2>2. \A k \in 0..3 : Free(Acknowledged[Ahead(c1, k)])
    <3> TAKE k \in 0..3
    <3>1. h < a + 1 + 1 + k BY <1>5
    <3> QED BY <1>3, <3>1 DEF Ring
  <2>3. \A s \in Slot : Free(Descriptor'[s]) BY <1>4, <2>1, <2>2, AheadSlots
  <2>4. running = None BY <1>3, <1>5 DEF Serves
  <2>5. error = "none" BY <1>2, <2>4 DEF Live
  <2> QED BY <1>1, <1>4, <2>3, <2>4, <2>5 DEF Quiet, Free
<1>7. /\ DOMAIN outcomes' = 1..MaxTransfers /\ outcomes'[n] = <<"COMPLETED">>
      /\ \A t \in 1..MaxTransfers : Len(outcomes'[t]) <= 1 /\ (t > n => outcomes'[t] = <<>>)
  <2>1. Reported /\ n \in 1..MaxTransfers /\ n \in Nat BY <1>2, Types DEF Passing, Live
  <2>2. outcomes' = [outcomes EXCEPT ![n] = Append(@, "COMPLETED")] BY <1>4 DEF Told
  <2> QED BY <1>2, <2>1, <2>2, ToldOnce
<1>8. CASE /\ state' = "COMPLETED" /\ isr' = "none"
           /\ UNCHANGED <<next, left, transfer, delivered, aborted>>
  <2>1. Over' BY <1>1, <1>2, <1>6, <1>8 DEF Over
  <2>2. Reported'
    <3>1. transfer' = transfer /\ delivered' = delivered /\ ~aborted' BY <1>2, <1>8
    <3>2. transfer.number <= MaxTransfers BY <1>2 DEF Passing, Reported
    <3>3. Len(delivered) = transfer.size BY <1>3, <1>5
    <3> QED BY <1>7, <1>8, <3>1, <3>2, <3>3 DEF Reported
  <2> QED BY <1>1, <1>2, <1>8, <2>1, <2>2 DEF Passing, InOrder
<1>9. CASE transfer.number < MaxTransfers /\ (\E s \in Sizes : StartGlobals(s)) /\ isr' = "fill"
  <2>1. PICK s \in 1..8 : StartGlobals(s) BY <1>9
  <2>2. running' = None /\ error' = "none" /\ \A t \in Slot : Free(Descriptor'[t])
    BY <1>6 DEF Quiet, Free
  <2>3. /\ Live' /\ state' = "IN_PROGRESS" /\ ~aborted' /\ transfer'.number = transfer.number + 1
        /\ delivered' \in Seq(Chunks) /\ InOrder(delivered', transfer'.number, transfer'.size)
        /\ \A i \in 1..Len(delivered') : delivered'[i][2] = i
    BY <1>1, <1>2, <1>9, <2>1, <2>2, Types, HpdmaAssumption, Started
  <2>4. Reported' BY <1>7, <1>9, <2>3, Types, HpdmaAssumption, SMTT(20) DEF Reported
  <2> QED BY <1>1, <1>2, <1>9, <2>3, <2>4 DEF Passing, InOrder
<1> QED BY <1>4, <1>8, <1>9 DEF Told

\* An error is reported at the descriptor that the driver believes to be running.
LEMMA ErrorStep ==
  ASSUME RingInv, Preempts = FALSE, RestartOn \subseteq {"COMPLETED"}, HPDMA_Error_IRQHandler
  PROVE  Passing'
<1>1. /\ main = "idle" /\ isr = "none" /\ error # "none" /\ ~CompletionPending
      /\ erring' = TRUE /\ UNCHANGED <<hardware, main>>
  BY DEF HPDMA_Error_IRQHandler, Enters, ErrorPending
<1>2. state = "IN_PROGRESS" BY <1>1, FailingPlaces DEF RingInv, Passing, Over, Quiet
<1>3. ~aborted /\ Live /\ Passing BY <1>1, <1>2, IdleLive
<1>4. PICK a, d, h \in Nat :
        /\ d = Len(delivered) /\ a <= d /\ d <= h /\ h <= a + 4
        /\ Ring(Descriptor, g_hpdma_current_desc, transfer.number, a, d, h)
        /\ Serves(running, g_hpdma_current_desc, a, d, h)
  BY <1>3 DEF Live
<1>5. running = g_hpdma_current_desc
  <2>1. Ahead(g_hpdma_current_desc, 0) = g_hpdma_current_desc /\ g_hpdma_current_desc \in Slot
    BY Types, AheadSlots
  <2>2. ~(a < d)
    <3> SUFFICES ASSUME a < d PROVE FALSE OBVIOUS
    <3>1. 0 \in 0..3 /\ a + 1 + 0 <= d OBVIOUS
    <3>2. Finished(Descriptor[g_hpdma_current_desc]) BY <1>4, <2>1, <3>1 DEF Ring
    <3> QED BY <1>1, <2>1, <3>2 DEF CompletionPending, Finished
  <2>3. d = a BY <1>4, <2>2
  <2>4. d < h BY <1>1, <1>3, <1>4 DEF Live, Serves
  <2>5. d - a = 0 BY <2>3
  <2> QED BY <1>4, <2>1, <2>4, <2>5 DEF Serves
<1>6. Told(error, Clearing[1], g_hpdma_current_desc, g_hpdma_end_desc)
  BY <1>5 DEF HPDMA_Error_IRQHandler, ErrorSeen
<1>7. error \in Errors /\ error \notin {"COMPLETED", "IN_PROGRESS"}
  BY <1>1, HpdmaAssumption DEF RingInv, Inv, Controller
<1>8. /\ state' = error /\ isr' = Clearing[1]
      /\ UNCHANGED <<g_hpdma_current_desc, transfer, delivered, aborted>>
  BY <1>6, <1>7 DEF Told
<1>9. Failing'
  <2>1. Cleared(1) BY <1>2, <1>3, LiveCleared
  <2>2. UNCHANGED <<Descriptor, running, error>> BY <1>1 DEF hardware
  <2>3. running' = None => error' = "none" BY <1>3, <2>2 DEF Live
  <2>4. Cleared(1)' BY <1>8, <2>1, <2>2, <2>3, ClearedKept
  <2>5. 1 \in 1..4 OBVIOUS
  <2> QED BY <1>1, <1>7, <1>8, <2>4, <2>5 DEF Failing
<1>10. Reported'
  <2> DEFINE n == transfer.number
  <2>1. Reported /\ n \in 1..MaxTransfers /\ n \in Nat BY <1>3, Types DEF Passing, Live
  <2>2. outcomes' = [outcomes EXCEPT ![n] = Append(@, error)] BY <1>6 DEF Told
  <2>3. /\ DOMAIN outcomes' = 1..MaxTransfers /\ outcomes'[n] = <<error>>
        /\ \A t \in 1..MaxTransfers : Len(outcomes'[t]) <= 1 /\ (t > n => outcomes'[t] = <<>>)
    BY <1>2, <2>1, <2>2, ToldOnce
  <2>4. transfer.number <= MaxTransfers BY <2>1 DEF Reported
  <2> QED BY <1>3, <1>7, <1>8, <2>3, <2>4 DEF Reported
<1>11. isr' \notin {"none", "fill", "count"}
  <2>1. 1 \in 1..4 OBVIOUS
  <2> QED BY <1>8, <2>1, ClearingPlaces
<1> QED BY <1>1, <1>3, <1>7, <1>8, <1>9, <1>10, <1>11 DEF Passing, Over, InOrder

\* The last loop of the error handler clears one descriptor; after the last one, the controller
\* is at rest.
LEMMA ErrorClearsStep ==
  ASSUME RingInv, ErrorClears
  PROVE  Passing'
<1>1. PICK i \in 1..4 : isr = Clearing[i] /\ isr' = Clearing[i + 1] /\ ClearDescriptor(i - 1)
  BY DEF ErrorClears
<1>2. /\ erring' = (isr' # "none")
      /\ UNCHANGED <<state, g_hpdma_current_desc, main, transfer, delivered, outcomes, aborted>>
  BY DEF ErrorClears, history, indices
<1>3. Passing /\ isr \notin {"none", "fill", "count"} BY <1>1, ClearingPlaces DEF RingInv
<1>4. state # "IN_PROGRESS" /\ Failing BY <1>3 DEF Passing, Live, Aborting, Over
<1>5. Cleared(i)
  <2>1. PICK j \in 1..4 : isr = Clearing[j] /\ Cleared(j) BY <1>4 DEF Failing
  <2> QED BY <1>1, <2>1, ClearingPlaces
<1>6. Cleared(i + 1)' BY <1>1, <1>2, <1>5, ClearedStep
<1>7. Over' /\ erring' = (isr' \notin {"none", "fill", "count"})
  <2>1. CASE i = 4
    <3>1. isr' = "none" BY <1>1, <2>1, ClearingPlaces
    <3>2. \A s \in Slot : Free(Descriptor'[s]) BY <1>6, <2>1, Slots DEF Cleared, Free
    <3>3. g_hpdma_current_desc \in Slot /\ First(Descriptor', running', g_hpdma_current_desc)
      BY <1>2, <1>6, Types DEF Cleared, First, Ahead
    <3>4. running' = None BY <3>2, <3>3, ClearedNone
    <3>5. error' = "none" BY <1>6, <3>4 DEF Cleared
    <3> QED BY <1>2, <1>4, <3>1, <3>2, <3>4, <3>5 DEF Over, Quiet, Free, Failing
  <2>2. CASE i # 4
    <3>1. i + 1 \in 1..4 /\ isr' \notin {"none", "fill", "count"} BY <1>1, <2>2, ClearingPlaces
    <3>2. Failing' BY <1>1, <1>2, <1>4, <1>6, <3>1 DEF Failing
    <3> QED BY <1>1, <1>2, <3>1, <3>2 DEF Over
  <2> QED BY <2>1, <2>2
<1>8. Reported' BY <1>2, <1>3 DEF Passing, Reported
<1> QED BY <1>2, <1>3, <1>4, <1>7, <1>8 DEF Passing, InOrder

-----------------------------------------------------------------------------
(* The theorems *)

\* The scope of the theorems: what a transfer may ask, and from where one may be started.
Scope == Preempts = FALSE /\ Sizes \subseteq 1..8 /\ RestartOn \subseteq {"COMPLETED"}

LEMMA RingInit ==
  ASSUME Init
  PROVE  RingInv
<1>1. Inv BY InitInv
<1>2. /\ delivered = <<>> /\ erring = FALSE /\ isr = "none" /\ main = "idle" /\ state = "COMPLETED"
      /\ transfer.number = 0 /\ outcomes = [t \in 1..MaxTransfers |-> <<>>]
      /\ running = None /\ error = "none" /\ Descriptor = [d \in Slot |-> Clear]
  BY DEF Init
<1>3. delivered \in Seq(Chunks) /\ \A i \in 1..Len(delivered) : FALSE BY <1>2
<1>4. Over BY <1>2 DEF Over, Quiet, Free, Clear
<1>5. Reported BY <1>2, HpdmaAssumption DEF Reported
<1> QED BY <1>1, <1>2, <1>3, <1>4, <1>5 DEF RingInv, Passing, InOrder

LEMMA RingStep ==
  ASSUME RingInv, Scope, [Next]_vars
  PROVE  RingInv'
<1>1. Inv' BY Inductive DEF RingInv, Scope
<1>2. Passing'
  <2>1. CASE ChunkDone BY <2>1, LiveChunkDone, StoppingChunkDone
  <2>2. CASE ChunkFails BY <2>2, ChunkFailsStep
  <2>3. CASE Application
    BY <2>3, StartsTransfer, LoopStep, PauseStep, AbortStep, AbortClearsStep, AbortEndsStep
       DEF Application, Scope
  <2>4. CASE Interrupts
    BY <2>4, HandsOverStep, WaitsStep, EndsStep, ErrorStep, LoopStep, ErrorClearsStep
       DEF Interrupts, HPDMA_Complete_IRQHandler, Scope
  <2>5. CASE UNCHANGED vars
    <3>1. UNCHANGED <<state, next, left, indices, hardware, Descriptor, running, error, main, isr, erring,
                      transfer, delivered, outcomes, aborted>>
      BY <2>5 DEF vars, hardware, threads, history
    <3>2. Passing BY DEF RingInv
    <3>3. CASE state = "IN_PROGRESS" /\ ~aborted
      <4>1. Live /\ SameRing(Descriptor, Descriptor') BY <3>1, <3>2, <3>3 DEF Passing, SameRing
      <4>2. running' = None => error' = "none" BY <3>1, <4>1 DEF Live
      <4> QED BY <3>1, <3>3, <4>1, <4>2, LiveKept
    <3>4. CASE ~(state = "IN_PROGRESS" /\ ~aborted)
      <4>1. running = None => error = "none" BY <3>2, <3>4 DEF Passing, Aborting, Over, Failing, Quiet, Cleared
      <4> QED BY <3>1, <3>2, <3>4, <4>1, StoppingKept DEF indices
    <3> QED BY <3>3, <3>4
  <2> QED BY <2>1, <2>2, <2>3, <2>4, <2>5 DEF Next
<1> QED BY <1>1, <1>2 DEF RingInv

\* The chunks of a transfer reach the memory one after the other, none twice and none of an
\* earlier transfer, and none is left out unless an abort or an error stops it: the completion handler
\* hands the descriptor it acknowledges to the next chunk while the controller goes on to the
\* one after (mss_hpdma.c:326-340).
THEOREM DeliveredInOrder ==
  ASSUME Scope PROVE Spec => []ChunksInOrder
<1>1. Init => RingInv BY RingInit
<1>2. RingInv /\ [Next]_vars => RingInv' BY RingStep
<1>3. RingInv => ChunksInOrder
  <2> SUFFICES ASSUME RingInv PROVE ChunksInOrder OBVIOUS
  <2>1. Passing BY DEF RingInv
  <2>2. DOMAIN delivered = 1..Len(delivered) BY <2>1, LenProperties DEF Passing
  <2>3. state \notin Errors => state \in {"IN_PROGRESS", "COMPLETED"} BY DEF RingInv, Inv, Transfer
  <2> QED BY <2>1, <2>2, <2>3 DEF Passing, InOrder, ChunksInOrder
<1> QED BY <1>1, <1>2, <1>3, PTL DEF Spec

\* The application is told of each transfer once, and told that it is complete only when the
\* memory has all of it: the handler recognises the last chunk by the interrupt that is not
\* enabled on the next descriptor (mss_hpdma.c:341-354).
THEOREM ReportedOnce ==
  ASSUME Scope PROVE Spec => []OutcomeOnce
<1>1. Init => RingInv BY RingInit
<1>2. RingInv /\ [Next]_vars => RingInv' BY RingStep
<1>3. RingInv => OutcomeOnce
  <2> SUFFICES ASSUME RingInv PROVE OutcomeOnce OBVIOUS
  <2>1. Reported BY DEF RingInv, Passing
  <2> QED BY <2>1 DEF Reported, OutcomeOnce
<1> QED BY <1>1, <1>2, <1>3, PTL DEF Spec

\* Once a transfer is over, completed, failed or aborted, no descriptor is left enabled and the
\* controller works on none: what is started next begins on a free ring (mss_hpdma.c:141-183).
THEOREM AtRest ==
  ASSUME Scope PROVE Spec => []StoppedMeansQuiet
<1>1. Init => RingInv BY RingInit
<1>2. RingInv /\ [Next]_vars => RingInv' BY RingStep
<1>3. RingInv => StoppedMeansQuiet
  BY FailingPlaces DEF RingInv, Passing, Over, Quiet, Free, StoppedMeansQuiet
<1> QED BY <1>1, <1>2, <1>3, PTL DEF Spec
=============================================================================
