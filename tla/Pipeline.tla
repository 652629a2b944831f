------------------------------ MODULE Pipeline ------------------------------
(***************************************************************************)
(* The path of the samples from the ADC to the broker: the acquisition     *)
(* ring (DmaRing) and the message ring (MessageRing) joined in             *)
(* thread_downsampling, whose processing step takes a buffer from the one, *)
(* reduces its samples and packs the bytes into the other.  This module    *)
(* adds the samples to the buffers and the bytes to the messages.          *)
(***************************************************************************)
EXTENDS MessageRing, Samples, DownSampling

CONSTANTS
    DMA_NUM_BUFFERS, CounterMod,   \* see DmaRing
    GROUPS,         \* groups of sixteen words in a buffer (50)
    Adc(_, _),      \* external: the conversion at a place of a transfer
    Trash(_, _)     \* external: the four other bits of its word

ASSUME PipelineAssumption ==
    /\ DMA_NUM_BUFFERS \in Nat /\ DMA_NUM_BUFFERS >= 4
    /\ CounterMod \in Nat /\ CounterMod > DMA_NUM_BUFFERS
    /\ GROUPS \in Nat \ {0}
    /\ \A t \in 0 .. MaxBuffers, j \in 0 .. GroupLen * GROUPS - 1 :
          Adc(t, j) \in Conversions /\ Trash(t, j) \in 0 .. 15

VARIABLES
    dma, active, irq, cnt_dma_write, dws_semaphore, transfers, content,
    dws_pc, seen, cnt_buffer_in, emitted,
    msg_bytes,           \* per message and position, the bytes packed there
    published_bytes,     \* the bytes of the message published last
    late                 \* history: some buffer was processed out of order

Ring == INSTANCE DmaRing WITH MaxTransfers <- MaxBuffers

ringOnly == <<dma, active, irq, cnt_dma_write, dws_semaphore, transfers,
              content, dws_pc, seen, cnt_buffer_in, emitted>>
msgsOnly == <<cnt_buffer_out, dws_n_msg, msg_data, send_data_semaphore,
              sendVars, send_data_status>>
ownVars  == <<msg_bytes, published_bytes, late>>
pipelineVars == <<ringOnly, data_buffer_count, msgsOnly, ownVars>>

(* The words of a buffer: zeros before the first transfer into it.         *)
Buffer(c) ==
    [j \in 0 .. GroupLen * GROUPS - 1 |->
        IF c = Zeros THEN 0 ELSE Word(Adc(c, j), Trash(c, j))]

(* The bytes made of each buffer; nothing is known of a torn one.          *)
Untorn == {Zeros} \cup 0 .. MaxBuffers
BytesOf == [c \in Untorn |-> Reduce(Buffer(c), GROUPS)]
Packed(c) == IF c = Torn THEN << >> ELSE BytesOf[c]

BlankBytes == [i \in Positions |-> << >>]
-----------------------------------------------------------------------------
PipelineInit ==
    /\ Ring!Init
    /\ Init
    /\ msg_bytes = [m \in Messages |-> BlankBytes]
    /\ published_bytes = BlankBytes
    /\ late = FALSE

(* The controller, the interrupt, and the thread taking a buffer.          *)
Acquire ==
    /\ Ring!DmaComplete \/ Ring!isr_dma_done \/ Ring!DwsPend
    /\ UNCHANGED <<msgsOnly, ownVars>>

(* The rest of a processing step: the samples are reduced straight into    *)
(* the message and the buffer is numbered.                                 *)
Process ==
    /\ Ring!DwsFinish
    /\ Pack
    /\ msg_bytes' = [msg_bytes EXCEPT
                         ![dws_n_msg][cnt_buffer_out] = Packed(emitted')]
    /\ late' = (late \/ ~Ring!KeepsUp \/ ~Ring!NoSlip)
    /\ UNCHANGED published_bytes

(* send_data and test_wifi have the priority of thread_downsampling: they  *)
(* run only while it waits for its semaphore.                              *)
CpuFree == dws_pc = "pend"

Send ==
    /\ CpuFree
    /\ SendPend \/ SendPoll \/ PublishFail
    /\ UNCHANGED <<ringOnly, ownVars>>

Test ==
    /\ CpuFree
    /\ TestWifi
    /\ UNCHANGED <<ringOnly, ownVars>>

Publish ==
    /\ CpuFree
    /\ PublishOk
    /\ published_bytes' = msg_bytes[snd_n_msg]
    /\ UNCHANGED <<ringOnly, msg_bytes, late>>

PipelineNext == Acquire \/ Process \/ Send \/ Publish \/ Test

(* The interrupt is taken, each of the two threads goes on when it can;    *)
(* mqtt_publish returns.                                                   *)
PipelineFairness ==
    /\ WF_pipelineVars(Acquire /\ Ring!isr_dma_done)
    /\ WF_pipelineVars((Acquire /\ Ring!DwsPend) \/ Process)
    /\ WF_pipelineVars(Send \/ Publish)

PipelineSpec == PipelineInit /\ [][PipelineNext]_pipelineVars
PipelineFairSpec == PipelineSpec /\ PipelineFairness
-----------------------------------------------------------------------------
(* The values of the variables this module adds, and of those it takes     *)
(* over.                                                                   *)
PackedBuffers == [0 .. 3 * GROUPS - 1 -> Bytes] \cup {<< >>}

PipelineTypeOK ==
    /\ Ring!TypeOK
    /\ TypeOK
    /\ msg_bytes \in [Messages -> [Positions -> PackedBuffers]]
    /\ published_bytes \in [Positions -> PackedBuffers]
    /\ late \in BOOLEAN

(* What the recipient should read: the averages, rounded down, of eight    *)
(* conversions each.                                                       *)
MeanOfEight(c, a) ==
    IF c = Zeros THEN 0
    ELSE (Adc(c, a) + Adc(c, a + 1) + Adc(c, a + 2) + Adc(c, a + 3)
          + Adc(c, a + 4) + Adc(c, a + 5) + Adc(c, a + 6) + Adc(c, a + 7)) \div 8

Means == [c \in Untorn |->
            [g \in 0 .. GROUPS - 1 |->
                <<MeanOfEight(c, 16 * g), MeanOfEight(c, 16 * g + 8)>>]]

Read(bytes) == [g \in 0 .. GROUPS - 1 |-> Unpack(bytes, g)]

(* Action property, end to end: from the bytes at position i of a message  *)
(* that the broker takes with the number d, the recipient reads the        *)
(* averages of what the ADC converted for the (d * DATA_BUFFER_MAX + i)-th *)
(* buffer of the stream, provided both threads keep up (empty.c:473,       *)
(* dws_user.c:113-163, mqtt_user.c:949, print_user.c:63-70).               *)
EndToEnd ==
    [][Publish /\ KeepsUp /\ ~late =>
        \A i \in Positions :
            Read(published_bytes'[i]) =
                Means[Delivered(msg_data_id * DATA_BUFFER_MAX + i)]
      ]_pipelineVars

(* Liveness: if the status settles at start, the broker is offered all     *)
(* that was captured, up to a last message that is not full (empty.c:489,  *)
(* dws_user.c:162, mqtt_user.c:949).                                       *)
AllOffered ==
    <>[](send_data_status = "start") =>
        []<>(msg_data_id = transfers \div DATA_BUFFER_MAX)
=============================================================================
