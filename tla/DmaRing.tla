------------------------------- MODULE DmaRing -------------------------------
(***************************************************************************)
(* The acquisition ring of the sensor: the uDMA controller moves ADC       *)
(* samples into dma_buffer[DMA_NUM_BUFFERS] through two control structures *)
(* in ping-pong mode, isr_dma_done re-arms the structure that has stopped  *)
(* with the next buffer and posts dws_semaphore, and thread_downsampling   *)
(* takes one buffer per post.  Nothing stops the controller from writing a *)
(* buffer the thread has not taken yet: the ring relies on the thread      *)
(* keeping up.                                                             *)
(*                                                                         *)
(* An operator whose name extends that of the definition it precedes       *)
(* (NextWriteByTwo, PostBinary) is a bug the code does not have, kept to   *)
(* see that the properties notice it.                                      *)
(***************************************************************************)
EXTENDS Samples

CONSTANTS
    DMA_NUM_BUFFERS,  \* buffers of the ring (30 in the firmware)
    CounterMod,       \* values of the uint16_t cnt_dma_write (2^16)
    MaxTransfers      \* bound of the model: the ADC stops after this many

ASSUME DmaRingAssumption ==
    /\ DMA_NUM_BUFFERS \in Nat /\ DMA_NUM_BUFFERS >= 4
    /\ CounterMod \in Nat /\ CounterMod > DMA_NUM_BUFFERS
    /\ MaxTransfers \in Nat

VARIABLES
    dma,                \* the two control structures: mode and destination
    active,             \* the structure the controller is working through
    irq,                \* TRUE while the ADC's DMA-done interrupt is pending
    cnt_dma_write,      \* uint16_t: the buffer handed to the controller last
    dws_semaphore,      \* posts of the ISR that the thread has not taken
    transfers,          \* number of transfers completed
    content,            \* per buffer, the transfer that last started into it
    dws_pc,             \* thread_downsampling: "pend" or "process"
    seen,               \* what the thread found in its buffer when it began
    cnt_buffer_in,      \* index of the buffer the thread takes next
    data_buffer_count,  \* uint64_t: number of buffers processed
    emitted             \* the samples that the last processing step delivered

dmaVars == <<dma, active, irq, cnt_dma_write, transfers, content>>
dwsVars == <<dws_pc, seen, cnt_buffer_in, data_buffer_count, emitted>>
vars == <<dmaVars, dws_semaphore, dwsVars>>

Structures == {"PRI", "ALT"}
Buffers == 0 .. DMA_NUM_BUFFERS - 1

Other(s) == IF s = "PRI" THEN "ALT" ELSE "PRI"

Armed(b) == [mode |-> "PINGPONG", buf |-> b]
-----------------------------------------------------------------------------
(* mainThread arms buffer 0 and buffer 1 and leaves cnt_dma_write at 2, the *)
(* number of the next buffer.                                              *)
Init ==
    /\ dma = [s \in Structures |-> IF s = "PRI" THEN Armed(0) ELSE Armed(1)]
    /\ active = "PRI"
    /\ irq = FALSE
    /\ cnt_dma_write = (1 + 1) % DMA_NUM_BUFFERS
    /\ dws_semaphore = 0
    /\ transfers = 0
    /\ content = [b \in Buffers |-> IF b = 0 THEN 0 ELSE Zeros]
    /\ dws_pc = "pend"
    /\ seen = Zeros
    /\ cnt_buffer_in = 0
    /\ data_buffer_count = 0
    /\ emitted = Zeros

(* The controller has filled the buffer of the active structure: it stops  *)
(* that structure, goes on with the other one, and raises the interrupt.   *)
(* The ISR of one completion runs before the next completion, one buffer   *)
(* (12.8 ms) later.                                                        *)
DmaComplete ==
    /\ transfers < MaxTransfers
    /\ ~irq
    /\ dma[active].mode = "PINGPONG"
    /\ irq' = TRUE
    /\ dma' = [dma EXCEPT ![active].mode = "STOP"]
    /\ active' = Other(active)
    /\ transfers' = transfers + 1
    /\ content' = [content EXCEPT ![dma[Other(active)].buf] = transfers + 1]
    /\ UNCHANGED <<cnt_dma_write, dws_semaphore, dwsVars>>

(* dma_stop_mode_get looks at the primary structure first.                 *)
StopModeInverted == IF dma["PRI"].mode # "STOP" THEN "PRI"
                    ELSE IF dma["ALT"].mode # "STOP" THEN "ALT" ELSE "NONE"
StopMode == IF dma["PRI"].mode = "STOP" THEN "PRI"
            ELSE IF dma["ALT"].mode = "STOP" THEN "ALT" ELSE "NONE"

(* The increment wraps at 16 bits, the modulo is taken only to index.      *)
NextWriteByTwo == (cnt_dma_write + 2) % CounterMod
NextWrite == (cnt_dma_write + 1) % CounterMod

WriteBufferUnincremented == cnt_dma_write % DMA_NUM_BUFFERS
WriteBuffer == NextWrite % DMA_NUM_BUFFERS

(* SemaphoreP_post of a counting semaphore.                                *)
PostBinary(semaphore) == 1
Post(semaphore) == semaphore + 1

isr_dma_done ==
    /\ irq
    /\ irq' = FALSE
    /\ StopMode # "NONE"
    /\ cnt_dma_write' = NextWrite
    /\ dma' = [dma EXCEPT ![StopMode] = Armed(WriteBuffer)]
    /\ dws_semaphore' = Post(dws_semaphore)
    /\ UNCHANGED <<active, transfers, content, dwsVars>>

(* The samples in buffer b, as far as they are complete.                   *)
Sample(b) == IF dma[active].buf = b THEN Torn ELSE content[b]

(* SemaphoreP_pend returns and the thread begins to read its buffer ...    *)
DwsPend ==
    /\ dws_pc = "pend"
    /\ dws_semaphore > 0
    /\ dws_semaphore' = dws_semaphore - 1
    /\ dws_pc' = "process"
    /\ seen' = Sample(cnt_buffer_in)
    /\ UNCHANGED <<dmaVars, cnt_buffer_in, data_buffer_count, emitted>>

NextReadShort == (cnt_buffer_in + 1) % (DMA_NUM_BUFFERS - 1)
NextRead == (cnt_buffer_in + 1) % DMA_NUM_BUFFERS

(* ... and it ends.  Interrupts and the controller go on in between.       *)
DwsFinish ==
    /\ dws_pc = "process"
    /\ dws_pc' = "pend"
    /\ emitted' = IF Sample(cnt_buffer_in) = seen THEN seen ELSE Torn
    /\ data_buffer_count' = data_buffer_count + 1
    /\ cnt_buffer_in' = NextRead
    /\ UNCHANGED <<dmaVars, dws_semaphore, seen>>

(* The model's bound: the capture has ended and all of it is processed.    *)
CaptureEnded ==
    /\ transfers = MaxTransfers /\ ~irq
    /\ dws_semaphore = 0 /\ dws_pc = "pend"
    /\ UNCHANGED vars

Next == DmaComplete \/ isr_dma_done \/ DwsPend \/ DwsFinish \/ CaptureEnded

(* The interrupt is taken and the highest-priority ready thread runs; the  *)
(* hardware promises nothing.                                              *)
Fairness == WF_vars(isr_dma_done) /\ WF_vars(DwsPend) /\ WF_vars(DwsFinish)

Spec == Init /\ [][Next]_vars
FairSpec == Spec /\ Fairness
-----------------------------------------------------------------------------
TypeOK ==
    /\ dma \in [Structures -> [mode : {"PINGPONG", "STOP"}, buf : Buffers]]
    /\ active \in Structures
    /\ irq \in BOOLEAN
    /\ cnt_dma_write \in 0 .. CounterMod - 1
    /\ dws_semaphore \in Nat
    /\ transfers \in Nat
    /\ content \in [Buffers -> Contents \ {Torn}]
    /\ dws_pc \in {"pend", "process"}
    /\ seen \in Contents
    /\ cnt_buffer_in \in Buffers
    /\ data_buffer_count \in Nat
    /\ emitted \in Contents

(* The ring keeps its order as long as the thread is not too far behind    *)
(* and the counter of the ISR has not wrapped out of step: it cannot if    *)
(* its range is a multiple of the ring (2^16 is not a multiple of 30).     *)
KeepsUp == dws_semaphore <= DMA_NUM_BUFFERS - 4
NoSlip  == \/ CounterMod % DMA_NUM_BUFFERS = 0
           \/ transfers + 2 < CounterMod

(* Safety: while thread_downsampling reads dma_buffer[cnt_buffer_in], the  *)
(* controller neither writes that buffer nor is set up to write it next,   *)
(* if at most DMA_NUM_BUFFERS - 4 further buffers wait (empty.c:486-494    *)
(* against dws_user.c:75-169).                                             *)
NoOverrun ==
    dws_pc = "process" /\ KeepsUp /\ NoSlip =>
        \A s \in Structures :
            dma[s].mode = "PINGPONG" => dma[s].buf # cnt_buffer_in

(* Safety: under the same condition the k-th buffer the thread processes   *)
(* holds whole and unmixed the transfer of that position in the stream, so *)
(* data_buffer_count numbers the samples consistently (dws_user.c:149-169).*)
ReadsInOrder ==
    dws_pc = "process" /\ KeepsUp /\ NoSlip =>
        seen = Delivered(data_buffer_count)

(* Action property: what a processing step delivers is the transfer of its *)
(* position, even if the ISR and the controller moved while it read        *)
(* (dws_user.c:113-152).                                                   *)
EmitsInOrder ==
    [][DwsFinish /\ KeepsUp /\ NoSlip =>
            emitted' = Delivered(data_buffer_count)]_vars

(* Safety: the controller always has a structure to work with.  The ISR    *)
(* finds the stopped one by testing the primary first (udma_user.c:158-171)*)
(* and must re-arm that one before the other runs out.                     *)
ControllerRuns ==
    /\ dma[active].mode = "PINGPONG"
    /\ ~irq => dma[Other(active)].mode = "PINGPONG"

(* Action property: the ISR never redirects the structure the controller   *)
(* is writing through (empty.c:473-505).                                   *)
RunningUntouched ==
    [][isr_dma_done => dma'[active] = dma[active]]_vars

(* Liveness: every transfer the controller completes is processed          *)
(* (empty.c:489, dws_user.c:72-170).                                       *)
AllProcessed ==
    \A k \in 1 .. MaxTransfers :
        transfers >= k ~> data_buffer_count >= k

(* Refinement: the ring implements the in-order stream, with the margin    *)
(* that DMA_NUM_BUFFERS leaves and until the counter wraps (empty.c:292-305*)
(* and 473-505, dws_user.c:72-170).                                        *)
Stream == INSTANCE SampleStream WITH
    Margin <- DMA_NUM_BUFFERS - 4, InStepFor <- CounterMod - 2,
    captured <- transfers, delivered <- data_buffer_count, last <- emitted

ImplementsStream == Stream!Spec

(* dws_user.c:168: "Buffer_downsampling points to dma_buffer which needs   *)
(* proccess".  A buffer whose samples were already processed, and were not *)
(* overwritten since, does not need it again.                              *)
ReadsNewBuffer ==
    [][DwsFinish /\ KeepsUp /\ emitted' >= 0 => emitted' > emitted]_vars
=============================================================================
