--------------------------- MODULE DmaRing_proofs ---------------------------
(***************************************************************************)
(* Proofs about the acquisition ring, for every ring of at least four      *)
(* buffers, every counter width and every length of the capture.           *)
(*                                                                         *)
(* The argument: the n-th transfer goes into a buffer that depends on n    *)
(* alone (BufOf), the counters of the ISR and of the thread are remainders *)
(* of the numbers of transfers handled and processed, and two numbers less *)
(* than a ring apart have different remainders.                            *)
(***************************************************************************)
EXTENDS DmaRing, RingArithmetic

(* Transfers the ISR has handled: all of them but one whose interrupt waits *)
Handled == IF irq THEN transfers - 1 ELSE transfers

(* The buffer of the t-th transfer.                                        *)
BufOf(t) == IF t < 2 THEN t ELSE ((t + 1) % CounterMod) % DMA_NUM_BUFFERS

Processing == IF dws_pc = "process" THEN 1 ELSE 0

(* The counters count what they should.                                    *)
CounterInv ==
    /\ irq => transfers > 0
    /\ cnt_dma_write = (Handled + 2) % CounterMod
    /\ data_buffer_count + Processing + dws_semaphore = Handled
    /\ cnt_buffer_in = data_buffer_count % DMA_NUM_BUFFERS

(* The structures are set up for the current and the next transfer.        *)
ArmedInv ==
    /\ dma[active] = Armed(BufOf(transfers))
    /\ dma[Other(active)] =
          IF irq THEN [mode |-> "STOP", buf |-> BufOf(transfers - 1)]
                 ELSE Armed(BufOf(transfers + 1))

(* How many transfers later the buffer of transfer t is still untouched.   *)
Lifetime(t) == IF t < 2 THEN DMA_NUM_BUFFERS - 2 ELSE DMA_NUM_BUFFERS - 1

(* The buffers hold the recent transfers, and buffer 2 none at first.      *)
ContentInv ==
    /\ \A b \in Buffers : content[b] <= transfers
    /\ seen <= transfers
    /\ NoSlip =>
        /\ \A t \in 0 .. transfers :
              transfers - t <= Lifetime(t) => content[BufOf(t)] = t
        /\ transfers <= DMA_NUM_BUFFERS => content[2] = Zeros

(* The inductive invariant.                                                *)
IInv == TypeOK /\ CounterInv /\ ArmedInv /\ ContentInv /\ ReadsInOrder
-----------------------------------------------------------------------------
(* Transfer numbers whose buffers the counter still reaches in order.      *)
InStep(t) == CounterMod % DMA_NUM_BUFFERS = 0 \/ t + 1 < CounterMod

LEMMA SizesOK ==
    /\ DMA_NUM_BUFFERS \in Nat \ {0} /\ DMA_NUM_BUFFERS >= 4
    /\ CounterMod \in Nat \ {0} /\ CounterMod > DMA_NUM_BUFFERS
BY DmaRingAssumption

(* The range of a position, for the ring of buffers and for the counter.   *)
LEMMA Position ==
    ASSUME NEW a \in Nat
    PROVE  a % DMA_NUM_BUFFERS \in Buffers /\ a % CounterMod \in 0 .. CounterMod - 1
BY SizesOK, ModRange DEF Buffers

(* ModInjective for the ring of buffers.                                   *)
LEMMA Apart ==
    ASSUME NEW a \in Nat, NEW b \in Nat, a < b, b - a < DMA_NUM_BUFFERS
    PROVE  a % DMA_NUM_BUFFERS # b % DMA_NUM_BUFFERS
<1> DEFINE n == DMA_NUM_BUFFERS
<1>1. n \in Nat \ {0} /\ b - a < n
  BY SizesOK
<1> HIDE DEF n
<1>2. a % n # b % n
  BY <1>1, ModInjective
<1> QED BY <1>2 DEF n

LEMMA BufOfType ==
    ASSUME NEW t \in Nat
    PROVE  BufOf(t) \in Buffers
<1>1. CASE t < 2
  BY <1>1, SizesOK DEF BufOf, Buffers
<1>2. CASE t >= 2
  <2>1. (t + 1) % CounterMod \in Nat
    BY SizesOK, ModRange, t + 1 \in Nat
  <2>2. ((t + 1) % CounterMod) % DMA_NUM_BUFFERS \in 0 .. DMA_NUM_BUFFERS - 1
    BY <2>1, SizesOK, ModRange
  <2> QED BY <2>2, <1>2 DEF BufOf, Buffers
<1> QED BY <1>1, <1>2

(* In step, transfer t goes one buffer beyond its number.                  *)
LEMMA BufOfInStep ==
    ASSUME NEW t \in Nat, t >= 2, InStep(t)
    PROVE  BufOf(t) = (t + 1) % DMA_NUM_BUFFERS
<1>1. BufOf(t) = ((t + 1) % CounterMod) % DMA_NUM_BUFFERS
  BY DEF BufOf
<1>2. CASE CounterMod % DMA_NUM_BUFFERS = 0
  <2>1. t + 1 \in Nat
    OBVIOUS
  <2> QED BY <1>1, <1>2, <2>1, SizesOK, ModOfMod
<1>3. CASE t + 1 < CounterMod
  BY <1>1, <1>3, SizesOK, ModSmall, t + 1 \in Nat
<1> QED BY <1>2, <1>3 DEF InStep

(* A later transfer leaves the buffer of t alone for its lifetime.         *)
LEMMA BufApart ==
    ASSUME NEW t \in Nat, NEW u \in Nat, t < u, u - t <= Lifetime(t), InStep(u)
    PROVE  BufOf(t) # BufOf(u)
<1> USE SizesOK
<1>1. CASE u < 2
  BY <1>1 DEF BufOf
<1>2. CASE u >= 2 /\ t < 2
  <2>1. BufOf(t) = t /\ BufOf(u) = (u + 1) % DMA_NUM_BUFFERS
    BY <1>2, BufOfInStep DEF BufOf
  <2>2. t % DMA_NUM_BUFFERS = t
    BY <1>2, ModSmall
  <2>3. PICK v \in Nat : v = u + 1
    OBVIOUS
  <2>4. t % DMA_NUM_BUFFERS # v % DMA_NUM_BUFFERS
    <3>1. t < v /\ v - t < DMA_NUM_BUFFERS
      BY <1>2, <2>3 DEF Lifetime
    <3> QED BY <3>1, Apart
  <2> QED BY <2>1, <2>2, <2>3, <2>4
<1>3. CASE t >= 2
  <2>1. InStep(t)
    BY DEF InStep
  <2>2. /\ BufOf(t) = (t + 1) % DMA_NUM_BUFFERS
        /\ BufOf(u) = (u + 1) % DMA_NUM_BUFFERS
    BY <1>3, <2>1, BufOfInStep
  <2>3. /\ t + 1 \in Nat /\ u + 1 \in Nat
        /\ t + 1 < u + 1 /\ (u + 1) - (t + 1) < DMA_NUM_BUFFERS
    BY <1>3 DEF Lifetime
  <2> QED BY <2>2, <2>3, Apart
<1> QED BY <1>1, <1>2, <1>3

(* No transfer of the first pass goes into buffer 2.                       *)
LEMMA BufNotTwo ==
    ASSUME NEW u \in Nat, u <= DMA_NUM_BUFFERS, InStep(u)
    PROVE  BufOf(u) # 2
<1> USE SizesOK
<1>1. CASE u < 2
  BY <1>1 DEF BufOf
<1>2. CASE u >= 2
  <2>1. BufOf(u) = (u + 1) % DMA_NUM_BUFFERS
    BY <1>2, BufOfInStep
  <2>2. 2 % DMA_NUM_BUFFERS = 2
    BY ModSmall
  <2>3. PICK v \in Nat : v = u + 1
    OBVIOUS
  <2>4. 2 % DMA_NUM_BUFFERS # v % DMA_NUM_BUFFERS
    <3>1. 2 < v /\ v - 2 < DMA_NUM_BUFFERS
      BY <1>2, <2>3
    <3> QED BY <3>1, Apart
  <2> QED BY <2>1, <2>2, <2>3, <2>4
<1> QED BY <1>1, <1>2

(* A buffer read at position k is not the one of a transfer shortly ahead. *)
LEMMA ReadApart ==
    ASSUME NEW k \in Nat, NEW u \in Nat, k + 1 <= u,
           u <= k + DMA_NUM_BUFFERS - 2, InStep(u)
    PROVE  BufOf(u) # k % DMA_NUM_BUFFERS
<1> USE SizesOK
<1>1. CASE u < 2
  <2>1. k = 0 /\ u = 1
    BY <1>1
  <2>2. 0 % DMA_NUM_BUFFERS = 0
    BY ModSmall
  <2> QED BY <2>1, <2>2 DEF BufOf
<1>2. CASE u >= 2
  <2>1. BufOf(u) = (u + 1) % DMA_NUM_BUFFERS
    BY <1>2, BufOfInStep
  <2>2. PICK v \in Nat : v = u + 1
    OBVIOUS
  <2>3. k % DMA_NUM_BUFFERS # v % DMA_NUM_BUFFERS
    <3>1. k < v /\ v - k < DMA_NUM_BUFFERS
      BY <2>2
    <3> QED BY <3>1, Apart
  <2> QED BY <2>1, <2>2, <2>3
<1> QED BY <1>1, <1>2
-----------------------------------------------------------------------------
(* Types.                                                                  *)
LEMMA InitTypeOK == Init => TypeOK
<1> SUFFICES ASSUME Init PROVE TypeOK
  OBVIOUS
<1> USE SizesOK
<1>1. (1 + 1) % DMA_NUM_BUFFERS = 2
  BY ModSmall
<1>2. dma \in [Structures -> [mode : {"PINGPONG", "STOP"}, buf : Buffers]]
  BY DEF Init, Armed, Structures, Buffers
<1>3. content \in [Buffers -> Contents \ {Torn}]
  BY DEF Init, Buffers, Contents, Zeros, Torn
<1>4. cnt_dma_write \in 0 .. CounterMod - 1 /\ cnt_buffer_in \in Buffers
  BY <1>1 DEF Init, Buffers
<1> QED
  BY <1>2, <1>3, <1>4 DEF Init, TypeOK, Structures, Contents

LEMMA NextTypeOK == TypeOK /\ [Next]_vars => TypeOK'
<1> SUFFICES ASSUME TypeOK, [Next]_vars PROVE TypeOK'
  OBVIOUS
<1> USE SizesOK
<1>1. CASE DmaComplete
  <2>1. Other(active) \in Structures /\ dma[Other(active)].buf \in Buffers
    BY DEF TypeOK, Other, Structures
  <2>2. dma' \in [Structures -> [mode : {"PINGPONG", "STOP"}, buf : Buffers]]
    BY <1>1 DEF DmaComplete, TypeOK, Structures
  <2>3. content' \in [Buffers -> Contents \ {Torn}]
    BY <1>1, <2>1 DEF DmaComplete, TypeOK, Contents, Zeros, Torn
  <2> QED
    BY <1>1, <2>1, <2>2, <2>3 DEF DmaComplete, TypeOK, dwsVars
<1>2. CASE isr_dma_done
  <2>1. StopMode \in Structures
    BY <1>2 DEF isr_dma_done, StopMode, Structures
  <2>2. NextWrite \in 0 .. CounterMod - 1
    <3>1. cnt_dma_write + 1 \in Nat
      BY DEF TypeOK
    <3> QED BY <3>1, Position DEF NextWrite
  <2>3. NextWrite % DMA_NUM_BUFFERS \in Buffers
    <3>1. NextWrite \in Nat
      BY <2>2
    <3> QED BY <3>1, Position
  <2>4. Armed(NextWrite % DMA_NUM_BUFFERS)
            \in [mode : {"PINGPONG", "STOP"}, buf : Buffers]
    BY <2>3 DEF Armed
  <2>5. dma' \in [Structures -> [mode : {"PINGPONG", "STOP"}, buf : Buffers]]
    BY <1>2, <2>1, <2>4 DEF isr_dma_done, WriteBuffer, TypeOK
  <2>6. /\ irq' = FALSE /\ cnt_dma_write' = NextWrite
        /\ dws_semaphore' = dws_semaphore + 1
        /\ UNCHANGED <<active, transfers, content, dwsVars>>
    BY <1>2 DEF isr_dma_done, Post
  <2>7. cnt_dma_write' \in 0 .. CounterMod - 1 /\ dws_semaphore' \in Nat
    BY <2>2, <2>6 DEF TypeOK
  <2>8. UNCHANGED <<active, transfers, content, dwsVars>> /\ irq' \in BOOLEAN
    BY <2>6
  <2> QED
    BY <2>5, <2>7, <2>8 DEF TypeOK, dwsVars
<1>3. CASE DwsPend
  <2>1. Sample(cnt_buffer_in) \in Contents
    BY DEF Sample, TypeOK, Contents
  <2> QED
    BY <1>3, <2>1 DEF DwsPend, TypeOK, dmaVars
<1>4. CASE DwsFinish
  <2>1. emitted' \in Contents
    BY <1>4 DEF DwsFinish, TypeOK, Contents
  <2>2. cnt_buffer_in' \in Buffers
    <3>1. cnt_buffer_in + 1 \in Nat
      BY DEF TypeOK, Buffers
    <3> QED BY <1>4, <3>1, Position DEF DwsFinish, NextRead
  <2> QED
    BY <1>4, <2>1, <2>2 DEF DwsFinish, TypeOK, dmaVars
<1>5. CASE CaptureEnded \/ UNCHANGED vars
  BY <1>5 DEF CaptureEnded, TypeOK, vars, dmaVars, dwsVars
<1> QED
  BY <1>1, <1>2, <1>3, <1>4, <1>5 DEF Next

(* Type correctness of the ring, whatever its size and the counter's width *)
(* (empty.c:108-127, dws_user.c:41-50).                                    *)
THEOREM TypeCorrect == Spec => []TypeOK
<1>1. Init => TypeOK
  BY InitTypeOK
<1>2. TypeOK /\ [Next]_vars => TypeOK'
  BY NextTypeOK
<1> QED BY <1>1, <1>2, PTL DEF Spec
-----------------------------------------------------------------------------
(* The inductive invariant.                                                *)
LEMMA NoSlipInStep ==
    ASSUME TypeOK, NoSlip
    PROVE  InStep(transfers) /\ InStep(transfers + 1)
BY SizesOK DEF TypeOK, NoSlip, InStep

(* What the thread finds if it is k + 1 to k + DMA_NUM_BUFFERS - 2         *)
(* transfers into the stream when it reads at position k.                  *)
LEMMA SampleInOrder ==
    ASSUME TypeOK, ArmedInv, ContentInv, NoSlip, NEW k \in Nat,
           k + 1 <= transfers, transfers <= k + DMA_NUM_BUFFERS - 2
    PROVE  Sample(k % DMA_NUM_BUFFERS) = Delivered(k)
<1> USE SizesOK
<1>1. transfers \in Nat
  BY DEF TypeOK
<1>2. dma[active].buf = BufOf(transfers)
  BY DEF ArmedInv, Armed
<1>3. BufOf(transfers) # k % DMA_NUM_BUFFERS
  BY <1>1, NoSlipInStep, ReadApart
<1>4. Sample(k % DMA_NUM_BUFFERS) = content[k % DMA_NUM_BUFFERS]
  BY <1>2, <1>3 DEF Sample
<1>5. CASE k < 2
  <2>1. k % DMA_NUM_BUFFERS = k /\ BufOf(k) = k
    BY <1>5, ModSmall DEF BufOf
  <2>2. k \in 0 .. transfers /\ transfers - k <= Lifetime(k)
    BY <1>1, <1>5 DEF Lifetime
  <2>3. content[BufOf(k)] = k
    BY <2>2 DEF ContentInv
  <2> QED BY <1>4, <1>5, <2>1, <2>3 DEF Delivered
<1>6. CASE k = 2
  <2>1. k % DMA_NUM_BUFFERS = 2
    BY <1>6, ModSmall
  <2>2. content[2] = Zeros
    BY <1>1, <1>6 DEF ContentInv
  <2> QED BY <1>4, <1>6, <2>1, <2>2 DEF Delivered
<1>7. CASE k > 2
  <2>1. PICK t \in Nat : t + 1 = k /\ t >= 2
    BY <1>7
  <2>2. InStep(t)
    BY <1>1, <2>1, NoSlipInStep DEF InStep
  <2>3. BufOf(t) = k % DMA_NUM_BUFFERS
    BY <2>1, <2>2, BufOfInStep
  <2>4. t \in 0 .. transfers /\ transfers - t <= Lifetime(t)
    BY <1>1, <2>1 DEF Lifetime
  <2>5. content[BufOf(t)] = t
    BY <2>4 DEF ContentInv
  <2> QED BY <1>4, <1>7, <2>1, <2>3, <2>5 DEF Delivered
<1> QED BY <1>5, <1>6, <1>7

LEMMA InitIInv == Init => IInv
<1> SUFFICES ASSUME Init PROVE IInv
  OBVIOUS
<1> USE SizesOK
<1>1. TypeOK
  BY InitTypeOK
<1>2. CounterInv
  <2>1. (1 + 1) % DMA_NUM_BUFFERS = 2 /\ (0 + 2) % CounterMod = 2
    BY ModSmall
  <2>2. 0 % DMA_NUM_BUFFERS = 0
    BY ModSmall
  <2>3. Handled = 0 /\ Processing = 0
    BY DEF Init, Handled, Processing
  <2> QED BY <2>1, <2>2, <2>3 DEF Init, CounterInv
<1>3. ArmedInv
  BY DEF Init, ArmedInv, Armed, BufOf, Other, Structures
<1>4. ContentInv
  <2>1. 0 \in Buffers /\ 2 \in Buffers /\ BufOf(0) = 0
    BY DEF Buffers, BufOf
  <2>2. content[0] = 0 /\ content[2] = Zeros /\ seen = Zeros /\ transfers = 0
    BY <2>1 DEF Init
  <2>3. \A b \in Buffers : content[b] <= transfers
    BY DEF Init, Zeros
  <2>4. \A t \in 0 .. transfers : content[BufOf(t)] = t
    BY <2>1, <2>2
  <2> QED BY <2>2, <2>3, <2>4 DEF ContentInv, Zeros
<1>5. ReadsInOrder
  BY DEF Init, ReadsInOrder
<1> QED BY <1>1, <1>2, <1>3, <1>4, <1>5 DEF IInv

(* The controller begins transfer transfers + 1.                           *)
LEMMA DmaCompleteIInv == IInv /\ TypeOK' /\ DmaComplete => IInv'
<1> SUFFICES ASSUME IInv, TypeOK', DmaComplete PROVE IInv'
  OBVIOUS
<1> DEFINE next == transfers + 1
<1> USE SizesOK
<1>0. TypeOK /\ CounterInv /\ ArmedInv /\ ContentInv /\ ReadsInOrder
  BY DEF IInv
<1>1. /\ ~irq /\ irq' = TRUE /\ active' = Other(active)
      /\ transfers' = next /\ next \in Nat
      /\ dma' = [dma EXCEPT ![active].mode = "STOP"]
      /\ content' = [content EXCEPT ![dma[Other(active)].buf] = next]
      /\ UNCHANGED <<cnt_dma_write, dws_semaphore, dws_pc, seen,
                     cnt_buffer_in, data_buffer_count, emitted>>
  BY <1>0 DEF DmaComplete, dwsVars, TypeOK
<1>2. /\ dma[active] = Armed(BufOf(transfers))
      /\ dma[Other(active)] = Armed(BufOf(next))
      /\ active \in Structures /\ Other(active) \in Structures
      /\ Other(active) # active /\ Other(Other(active)) = active
  BY <1>0, <1>1 DEF ArmedInv, TypeOK, Other, Structures
<1>3. content' = [content EXCEPT ![BufOf(next)] = next]
  BY <1>1, <1>2 DEF Armed
<1>4. BufOf(next) \in Buffers
  BY <1>1, BufOfType
<1>5. CounterInv'
  BY <1>0, <1>1 DEF CounterInv, Handled, Processing, TypeOK
<1>6. ArmedInv'
  <2>1. dma'[Other(active)] = Armed(BufOf(next))
    BY <1>0, <1>1, <1>2 DEF TypeOK
  <2>2. dma'[active] = [mode |-> "STOP", buf |-> BufOf(transfers)]
    BY <1>0, <1>1, <1>2 DEF TypeOK, Armed
  <2>3. transfers' - 1 = transfers
    BY <1>0, <1>1 DEF TypeOK
  <2> QED BY <1>1, <1>2, <2>1, <2>2, <2>3 DEF ArmedInv, BufOf
<1>7. ContentInv'
  <2>1. (\A b \in Buffers : content'[b] <= transfers') /\ seen' <= transfers'
    <3>1. \A b \in Buffers : content[b] <= transfers /\ content[b] \in Int
      BY <1>0 DEF ContentInv, TypeOK, Contents, Zeros, Torn
    <3>2. seen <= transfers /\ seen \in Int /\ transfers \in Nat
      BY <1>0 DEF ContentInv, TypeOK, Contents, Zeros, Torn
    <3>3. \A b \in Buffers : content'[b] = IF b = BufOf(next) THEN next
                                                              ELSE content[b]
      BY <1>0, <1>3, <1>4 DEF TypeOK
    <3> QED BY <1>1, <3>1, <3>2, <3>3
  <2>2. ASSUME NoSlip', NEW t \in 0 .. transfers',
               transfers' - t <= Lifetime(t)
        PROVE  content'[BufOf(t)] = t
    <3>1. NoSlip /\ InStep(next)
      BY <1>0, <1>1, <2>2 DEF NoSlip, InStep, TypeOK
    <3>2. CASE t = next
      BY <1>0, <1>3, <1>4, <3>2 DEF TypeOK
    <3>3. CASE t # next
      <4>1. t \in 0 .. transfers /\ t \in Nat /\ t < next
        BY <1>0, <1>1, <3>3 DEF TypeOK
      <4>2. transfers - t <= Lifetime(t) /\ next - t <= Lifetime(t)
        BY <1>0, <1>1, <2>2, <4>1 DEF Lifetime, TypeOK
      <4>3. content[BufOf(t)] = t
        BY <1>0, <3>1, <4>1, <4>2 DEF ContentInv
      <4>4. BufOf(t) # BufOf(next) /\ BufOf(t) \in Buffers
        BY <1>1, <3>1, <4>1, <4>2, BufApart, BufOfType
      <4> QED BY <1>0, <1>3, <4>3, <4>4 DEF TypeOK
    <3> QED BY <3>2, <3>3
  <2>3. ASSUME NoSlip', transfers' <= DMA_NUM_BUFFERS
        PROVE  content'[2] = Zeros
    <3>1. NoSlip /\ InStep(next)
      BY <1>0, <1>1, <2>3 DEF NoSlip, InStep, TypeOK
    <3>2. content[2] = Zeros
      BY <1>0, <1>1, <2>3, <3>1 DEF ContentInv, TypeOK
    <3>3. BufOf(next) # 2 /\ 2 \in Buffers
      BY <1>1, <2>3, <3>1, BufNotTwo DEF Buffers
    <3> QED BY <1>0, <1>3, <3>2, <3>3 DEF TypeOK
  <2> QED BY <2>1, <2>2, <2>3 DEF ContentInv, Lifetime, BufOf
<1>8. ReadsInOrder'
  <2>1. NoSlip' => NoSlip
    BY <1>0, <1>1 DEF NoSlip, TypeOK
  <2> QED BY <1>0, <1>1, <2>1 DEF ReadsInOrder, KeepsUp
<1> QED BY <1>5, <1>6, <1>7, <1>8 DEF IInv

(* The ISR hands out the buffer after the last one.                        *)
LEMMA IsrIInv == IInv /\ TypeOK' /\ isr_dma_done => IInv'
<1> SUFFICES ASSUME IInv, TypeOK', isr_dma_done PROVE IInv'
  OBVIOUS
<1> USE SizesOK
<1>0. TypeOK /\ CounterInv /\ ArmedInv /\ ContentInv /\ ReadsInOrder
  BY DEF IInv
<1>1. /\ irq /\ irq' = FALSE
      /\ cnt_dma_write' = NextWrite
      /\ dma' = [dma EXCEPT ![StopMode] = Armed(NextWrite % DMA_NUM_BUFFERS)]
      /\ dws_semaphore' = dws_semaphore + 1
      /\ UNCHANGED <<active, transfers, content, dws_pc, seen,
                     cnt_buffer_in, data_buffer_count, emitted>>
  BY DEF isr_dma_done, Post, WriteBuffer, dwsVars
<1>2. transfers \in Nat /\ transfers > 0 /\ Handled = transfers - 1
  BY <1>0, <1>1 DEF CounterInv, Handled, TypeOK
<1>3. NextWrite = (transfers + 2) % CounterMod
  <2>1. PICK a \in Nat : a = transfers + 1
    BY <1>2
  <2>2. cnt_dma_write = a % CounterMod
    BY <1>0, <1>2, <2>1 DEF CounterInv
  <2>3. ((a % CounterMod) + 1) % CounterMod = (a + 1) % CounterMod
    BY ModIncrement
  <2>4. a + 1 = transfers + 2
    BY <1>2, <2>1
  <2> QED BY <2>2, <2>3, <2>4 DEF NextWrite
<1>4. NextWrite % DMA_NUM_BUFFERS = BufOf(transfers + 1)
  BY <1>2, <1>3 DEF BufOf
<1>5. StopMode = Other(active)
  BY <1>0, <1>1 DEF ArmedInv, Armed, TypeOK, StopMode, Other, Structures
<1>6. CounterInv'
  BY <1>0, <1>1, <1>2, <1>3 DEF CounterInv, Handled, Processing, TypeOK
<1>7. ArmedInv'
  <2>1. /\ active \in Structures /\ Other(active) \in Structures
        /\ Other(active) # active
    BY <1>0 DEF TypeOK, Structures, Other
  <2>2. dma'[Other(active)] = Armed(BufOf(transfers + 1))
    BY <1>0, <1>1, <1>4, <1>5, <2>1 DEF TypeOK
  <2>3. dma'[active] = dma[active]
    BY <1>0, <1>1, <1>5, <2>1 DEF TypeOK
  <2> QED BY <1>0, <1>1, <2>2, <2>3 DEF ArmedInv, BufOf
<1>8. ContentInv'
  BY <1>0, <1>1 DEF ContentInv, NoSlip, Lifetime, BufOf
<1>9. ReadsInOrder'
  BY <1>0, <1>1 DEF ReadsInOrder, KeepsUp, NoSlip, TypeOK
<1> QED BY <1>6, <1>7, <1>8, <1>9 DEF IInv

(* The thread takes a buffer.                                              *)
LEMMA DwsPendIInv == IInv /\ TypeOK' /\ DwsPend => IInv'
<1> SUFFICES ASSUME IInv, TypeOK', DwsPend PROVE IInv'
  OBVIOUS
<1> USE SizesOK
<1>0. TypeOK /\ CounterInv /\ ArmedInv /\ ContentInv /\ ReadsInOrder
  BY DEF IInv
<1>1. /\ dws_pc = "pend" /\ dws_pc' = "process"
      /\ dws_semaphore > 0 /\ dws_semaphore' = dws_semaphore - 1
      /\ seen' = Sample(cnt_buffer_in)
      /\ UNCHANGED <<dma, active, irq, cnt_dma_write, transfers, content,
                     cnt_buffer_in, data_buffer_count, emitted>>
  BY DEF DwsPend, dmaVars
<1>2. CounterInv'
  BY <1>0, <1>1 DEF CounterInv, Handled, Processing, TypeOK
<1>3. ArmedInv'
  BY <1>0, <1>1 DEF ArmedInv, BufOf
<1>4. ContentInv'
  <2>1. seen' <= transfers
    <3>1. cnt_buffer_in \in Buffers /\ transfers \in Nat
      BY <1>0 DEF TypeOK
    <3>2. content[cnt_buffer_in] <= transfers
      BY <1>0, <3>1 DEF ContentInv
    <3>3. Torn <= transfers
      BY <3>1 DEF Torn
    <3> QED BY <1>1, <3>2, <3>3 DEF Sample
  <2> QED BY <1>0, <1>1, <2>1 DEF ContentInv, NoSlip, Lifetime, BufOf
<1>5. ASSUME KeepsUp', NoSlip'
      PROVE  seen' = Delivered(data_buffer_count')
  <2>1. NoSlip
    BY <1>1, <1>5 DEF NoSlip
  <2>2. /\ data_buffer_count \in Nat
        /\ data_buffer_count + 1 <= transfers
        /\ transfers <= data_buffer_count + DMA_NUM_BUFFERS - 2
    BY <1>0, <1>1, <1>5
    DEF CounterInv, Handled, Processing, TypeOK, KeepsUp
  <2>3. cnt_buffer_in = data_buffer_count % DMA_NUM_BUFFERS
    BY <1>0 DEF CounterInv
  <2>4. Sample(data_buffer_count % DMA_NUM_BUFFERS)
            = Delivered(data_buffer_count)
    BY <1>0, <2>1, <2>2, SampleInOrder
  <2> QED BY <1>1, <2>3, <2>4
<1>6. ReadsInOrder'
  BY <1>5 DEF ReadsInOrder, Delivered
<1> QED BY <1>2, <1>3, <1>4, <1>6 DEF IInv

(* What a processing step reads at its end is what it should.              *)
LEMMA FinishInOrder ==
    IInv /\ DwsFinish /\ KeepsUp /\ NoSlip =>
        emitted' = Delivered(data_buffer_count)
<1> SUFFICES ASSUME IInv, DwsFinish, KeepsUp, NoSlip
             PROVE  emitted' = Delivered(data_buffer_count)
  OBVIOUS
<1> USE SizesOK
<1>0. TypeOK /\ CounterInv /\ ArmedInv /\ ContentInv /\ ReadsInOrder
  BY DEF IInv
<1>1. /\ dws_pc = "process"
      /\ emitted' = IF Sample(cnt_buffer_in) = seen THEN seen ELSE Torn
  BY DEF DwsFinish
<1>2. seen = Delivered(data_buffer_count)
  BY <1>0, <1>1 DEF ReadsInOrder
<1>3. /\ data_buffer_count \in Nat
      /\ data_buffer_count + 1 <= transfers
      /\ transfers <= data_buffer_count + DMA_NUM_BUFFERS - 2
  BY <1>0, <1>1 DEF CounterInv, Handled, Processing, TypeOK, KeepsUp
<1>4. Sample(cnt_buffer_in) = Delivered(data_buffer_count)
  BY <1>0, <1>3, SampleInOrder DEF CounterInv
<1> QED BY <1>1, <1>2, <1>4

(* The thread is done with its buffer.                                     *)
LEMMA DwsFinishIInv == IInv /\ TypeOK' /\ DwsFinish => IInv'
<1> SUFFICES ASSUME IInv, TypeOK', DwsFinish PROVE IInv'
  OBVIOUS
<1> USE SizesOK
<1>0. TypeOK /\ CounterInv /\ ArmedInv /\ ContentInv /\ ReadsInOrder
  BY DEF IInv
<1>1. /\ dws_pc = "process" /\ dws_pc' = "pend"
      /\ data_buffer_count' = data_buffer_count + 1
      /\ cnt_buffer_in' = (cnt_buffer_in + 1) % DMA_NUM_BUFFERS
      /\ UNCHANGED <<dma, active, irq, cnt_dma_write, transfers, content,
                     dws_semaphore, seen>>
  BY DEF DwsFinish, NextRead, dmaVars
<1>2. CounterInv'
  <2>1. cnt_buffer_in' = data_buffer_count' % DMA_NUM_BUFFERS
    <3>1. ((data_buffer_count % DMA_NUM_BUFFERS) + 1) % DMA_NUM_BUFFERS
             = (data_buffer_count + 1) % DMA_NUM_BUFFERS
      BY <1>0, ModIncrement DEF TypeOK
    <3> QED BY <1>0, <1>1, <3>1 DEF CounterInv
  <2> QED
    BY <1>0, <1>1, <2>1 DEF CounterInv, Handled, Processing, TypeOK
<1>3. ArmedInv'
  BY <1>0, <1>1 DEF ArmedInv, BufOf
<1>4. ContentInv'
  BY <1>0, <1>1 DEF ContentInv, NoSlip, Lifetime, BufOf
<1>5. ReadsInOrder'
  BY <1>1 DEF ReadsInOrder
<1> QED BY <1>2, <1>3, <1>4, <1>5 DEF IInv

LEMMA NextIInv == IInv /\ [Next]_vars => IInv'
<1> SUFFICES ASSUME IInv, [Next]_vars PROVE IInv'
  OBVIOUS
<1>1. TypeOK'
  BY NextTypeOK DEF IInv
<1>2. CASE DmaComplete
  BY <1>1, <1>2, DmaCompleteIInv
<1>3. CASE isr_dma_done
  BY <1>1, <1>3, IsrIInv
<1>4. CASE DwsPend
  BY <1>1, <1>4, DwsPendIInv
<1>5. CASE DwsFinish
  BY <1>1, <1>5, DwsFinishIInv
<1>6. CASE CaptureEnded \/ UNCHANGED vars
  BY <1>1, <1>6
  DEF CaptureEnded, vars, dmaVars, dwsVars, IInv, CounterInv, ArmedInv,
      ContentInv, ReadsInOrder, KeepsUp, NoSlip, Handled, Processing, BufOf,
      Lifetime
<1> QED BY <1>2, <1>3, <1>4, <1>5, <1>6 DEF Next

THEOREM Invariance == Spec => []IInv
<1>1. Init => IInv
  BY InitIInv
<1>2. IInv /\ [Next]_vars => IInv'
  BY NextIInv
<1> QED BY <1>1, <1>2, PTL DEF Spec
-----------------------------------------------------------------------------
(* The properties of the ring.                                             *)

LEMMA IInvNoOverrun == IInv => NoOverrun
<1> SUFFICES ASSUME IInv, dws_pc = "process", KeepsUp, NoSlip,
                    NEW s \in Structures, dma[s].mode = "PINGPONG"
             PROVE  dma[s].buf # cnt_buffer_in
  BY DEF NoOverrun
<1> USE SizesOK
<1>0. TypeOK /\ CounterInv /\ ArmedInv
  BY DEF IInv
<1>1. /\ data_buffer_count \in Nat /\ transfers \in Nat
      /\ data_buffer_count + 1 <= transfers
      /\ transfers <= data_buffer_count + DMA_NUM_BUFFERS - 2
      /\ ~irq => transfers + 1 <= data_buffer_count + DMA_NUM_BUFFERS - 2
  BY <1>0 DEF CounterInv, Handled, Processing, TypeOK, KeepsUp
<1>2. cnt_buffer_in = data_buffer_count % DMA_NUM_BUFFERS
  BY <1>0 DEF CounterInv
<1>3. CASE s = active
  <2>1. dma[s].buf = BufOf(transfers)
    BY <1>0, <1>3 DEF ArmedInv, Armed
  <2> QED BY <1>0, <1>1, <1>2, <2>1, NoSlipInStep, ReadApart
<1>4. CASE s = Other(active)
  <2>1. ~irq /\ dma[s].buf = BufOf(transfers + 1)
    BY <1>0, <1>4 DEF ArmedInv, Armed
  <2>2. PICK u \in Nat : u = transfers + 1
    BY <1>1
  <2>3. BufOf(u) # data_buffer_count % DMA_NUM_BUFFERS
    BY <1>0, <1>1, <2>1, <2>2, NoSlipInStep, ReadApart
  <2> QED BY <1>2, <2>1, <2>2, <2>3
<1>5. s = active \/ s = Other(active)
  BY <1>0 DEF TypeOK, Structures, Other
<1> QED BY <1>3, <1>4, <1>5

(* While the thread reads a buffer the controller neither writes it nor is *)
(* set up to, if at most DMA_NUM_BUFFERS - 4 further buffers wait and the  *)
(* counter has not wrapped or wraps at a multiple of the ring              *)
(* (empty.c:486-494 against dws_user.c:75-169).                            *)
THEOREM NoOverrunHolds == Spec => []NoOverrun
BY Invariance, IInvNoOverrun, PTL

(* Under the same conditions the thread finds the transfer of its position *)
(* (dws_user.c:75-169).                                                    *)
THEOREM ReadsInOrderHolds == Spec => []ReadsInOrder
<1>1. IInv => ReadsInOrder
  BY DEF IInv
<1> QED BY <1>1, Invariance, PTL

(* And what it delivers is that transfer, although the controller and the  *)
(* ISR run while it reads (dws_user.c:113-152).                            *)
THEOREM EmitsInOrderHolds == Spec => EmitsInOrder
<1>1. IInv /\ [Next]_vars =>
        [DwsFinish /\ KeepsUp /\ NoSlip =>
            emitted' = Delivered(data_buffer_count)]_vars
  BY FinishInOrder
<1> QED BY <1>1, Invariance, PTL DEF Spec, EmitsInOrder

(* Buffer 2 is passed over in the first pass of the controller, for every  *)
(* size of the ring, and the third buffer the thread takes is that one: it *)
(* is activated for a buffer that was never filled (empty.c:305, 487),     *)
(* where dws_user.c:34-36 says "When UDMA fills a buffer, a semaphore post *)
(* in done. While semaphore is posted this thread will be activated".      *)
THEOREM BufferTwoPassedOver ==
    Spec => [](NoSlip =>
        /\ transfers <= DMA_NUM_BUFFERS => content[2] = Zeros
        /\ dws_pc = "process" /\ data_buffer_count = 2 /\ KeepsUp =>
                cnt_buffer_in = 2 /\ seen = Zeros)
<1>1. IInv /\ NoSlip =>
        /\ transfers <= DMA_NUM_BUFFERS => content[2] = Zeros
        /\ dws_pc = "process" /\ data_buffer_count = 2 /\ KeepsUp =>
                cnt_buffer_in = 2 /\ seen = Zeros
  <2> SUFFICES ASSUME IInv, NoSlip
               PROVE  /\ transfers <= DMA_NUM_BUFFERS => content[2] = Zeros
                      /\ dws_pc = "process" /\ data_buffer_count = 2 /\ KeepsUp
                            => cnt_buffer_in = 2 /\ seen = Zeros
    OBVIOUS
  <2>1. transfers <= DMA_NUM_BUFFERS => content[2] = Zeros
    BY DEF IInv, ContentInv
  <2>2. dws_pc = "process" /\ data_buffer_count = 2 /\ KeepsUp => seen = Zeros
    BY DEF IInv, ReadsInOrder, Delivered
  <2>3. data_buffer_count = 2 => cnt_buffer_in = 2
    <3>1. 2 % DMA_NUM_BUFFERS = 2
      BY SizesOK, ModSmall
    <3> QED BY <3>1 DEF IInv, CounterInv
  <2> QED BY <2>1, <2>2, <2>3
<1> QED BY <1>1, Invariance, PTL

(* The controller never finds its next structure stopped, and once the ISR *)
(* has run both are armed (udma_user.c:158-171, empty.c:473-505).          *)
THEOREM ControllerRunsHolds == Spec => []ControllerRuns
<1>1. IInv => ControllerRuns
  BY DEF IInv, ArmedInv, Armed, ControllerRuns
<1> QED BY <1>1, Invariance, PTL

(* The ISR re-arms the structure that has stopped, never the other one     *)
(* (empty.c:473-505).                                                      *)
THEOREM RunningUntouchedHolds == Spec => RunningUntouched
<1>1. IInv /\ [Next]_vars =>
        [isr_dma_done => dma'[active] = dma[active]]_vars
  <2> SUFFICES ASSUME IInv, isr_dma_done
               PROVE  dma'[active] = dma[active]
    OBVIOUS
  <2>1. TypeOK /\ ArmedInv /\ irq
    BY DEF IInv, isr_dma_done
  <2>2. StopMode = Other(active)
    BY <2>1 DEF ArmedInv, Armed, TypeOK, StopMode, Other, Structures
  <2>3. active \in Structures /\ StopMode # active
    BY <2>1, <2>2 DEF TypeOK, Structures, Other
  <2> QED BY <2>1, <2>3 DEF isr_dma_done, TypeOK
<1> QED BY <1>1, Invariance, PTL DEF Spec, RunningUntouched

(* Every step of the ring is a step of the in-order stream or leaves it    *)
(* alone: the safety part of ImplementsStream.                             *)
THEOREM RefinesStream == Spec => Stream!Init /\ [][Stream!Next]_Stream!vars
<1>1. Init => Stream!Init
  BY DEF Init, Stream!Init, Zeros, Stream!Zeros
<1>2. IInv /\ [Next]_vars => [Stream!Next]_Stream!vars
  <2> SUFFICES ASSUME IInv, [Next]_vars
               PROVE  [Stream!Next]_Stream!vars
    OBVIOUS
  <2>1. TypeOK /\ CounterInv /\ ContentInv
    BY DEF IInv
  <2>2. CASE DmaComplete
    BY <2>2 DEF DmaComplete, dwsVars, Stream!Next, Stream!Capture
  <2>3. CASE DwsFinish
    <3>1. /\ data_buffer_count < transfers
          /\ data_buffer_count' = data_buffer_count + 1
          /\ UNCHANGED transfers
      BY <2>1, <2>3
      DEF DwsFinish, dmaVars, CounterInv, Handled, Processing, TypeOK
    <3>2. ASSUME Stream!OnTime
          PROVE  emitted' = Delivered(data_buffer_count)
      <4>1. KeepsUp
        BY <2>1, <2>3, <3>2, SizesOK
        DEF Stream!OnTime, KeepsUp, DwsFinish, CounterInv, Handled,
            Processing, TypeOK
      <4>2. NoSlip
        BY <2>1, <3>2, SizesOK DEF Stream!OnTime, NoSlip, TypeOK
      <4> QED BY <2>3, <4>1, <4>2, FinishInOrder
    <3>3. emitted' \in 0 .. transfers \cup {Zeros, Torn}
      <4>1. seen \in Contents /\ seen <= transfers /\ transfers \in Nat
        BY <2>1 DEF TypeOK, ContentInv
      <4>2. emitted' = seen \/ emitted' = Torn
        BY <2>3 DEF DwsFinish
      <4> QED BY <4>1, <4>2 DEF Contents
    <3>4. Stream!Deliver
      BY <3>1, <3>2, <3>3
      DEF Stream!Deliver, Stream!Zeros, Stream!Torn, Stream!Delivered,
          Zeros, Torn, Delivered
    <3> QED BY <3>4 DEF Stream!Next
  <2>4. CASE isr_dma_done \/ DwsPend \/ CaptureEnded \/ UNCHANGED vars
    BY <2>4 DEF isr_dma_done, DwsPend, CaptureEnded, vars, dmaVars, dwsVars,
                Stream!vars
  <2> QED BY <2>2, <2>3, <2>4 DEF Next
<1> QED BY <1>1, <1>2, Invariance, PTL DEF Spec
=============================================================================
