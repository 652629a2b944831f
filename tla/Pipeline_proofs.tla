-------------------------- MODULE Pipeline_proofs --------------------------
(***************************************************************************)
(* Proofs about the path of the samples, for every size of the two rings,  *)
(* of a buffer and of a message, for any samples and any number of         *)
(* buffers.                                                                *)
(*                                                                         *)
(* First part, of MessageRing alone (Spec): every message has a number,    *)
(* and its slot is the remainder of that number, for the packing thread as *)
(* for the sender.  The last N_MSG_DATA messages have different slots, so  *)
(* packing one leaves the others alone, and the one the sender holds is    *)
(* among them while it keeps up.                                           *)
(*                                                                         *)
(* Second part: at the widths of the code the three bytes of a group hold  *)
(* its two averages, whatever the samples are.                             *)
(*                                                                         *)
(* Third part, of the whole path (PipelineSpec): the acquisition ring      *)
(* delivers the transfer of a position of the stream (DmaRing_proofs, of   *)
(* which Rp is the instance for Pipeline), and the message ring has the    *)
(* last N_MSG_DATA messages in their slots.  What is added is BytesInv:    *)
(* the bytes at a packed position of a recent message are those of the     *)
(* buffer whose number the position has.                                   *)
(***************************************************************************)
EXTENDS Pipeline, RingArithmetic

(* The slot of the message of number d and the id of its first buffer.     *)
Slot(d)  == d % N_MSG_DATA
First(d) == d * DATA_BUFFER_MAX

(* Messages the sender has taken; the number of the message being packed.  *)
Taken   == IF snd_pc = "pend" THEN msg_data_id ELSE msg_data_id + 1
Current == Taken + send_data_semaphore

(* Both threads are at the slot of their message's number, and every       *)
(* buffer packed is in a message.                                          *)
SlotInv ==
    /\ dws_n_msg = Slot(Current)
    /\ snd_n_msg = Slot(msg_data_id)
    /\ data_buffer_count = First(Current) + cnt_buffer_out

(* The positions packed so far of the message of number d.                 *)
PackedPositions(d) == {i \in Positions : d = Current => i < cnt_buffer_out}

(* The last N_MSG_DATA messages are in their slots.                        *)
ContentInv ==
    \A d \in Nat : d <= Current /\ Current < d + N_MSG_DATA =>
        \A i \in PackedPositions(d) :
            msg_data[Slot(d)].ids[i] = First(d) + i

(* The message the sender holds has its number.                            *)
HeaderInv == snd_pc # "pend" => msg_data[snd_n_msg].data_id = msg_data_id

(* The inductive invariant.                                                *)
IInv == TypeOK /\ SlotInv /\ ContentInv /\ HeaderInv
------------------------------------------------------------------------------
LEMMA RingSizes ==
    /\ N_MSG_DATA \in Nat \ {0} /\ N_MSG_DATA >= 2
    /\ DATA_BUFFER_MAX \in Nat \ {0}
BY MessageRingAssumption

(* The number of the current message is one.                               *)
LEMMA CurrentType ==
    ASSUME TypeOK
    PROVE  Taken \in Nat /\ Current \in Nat
BY DEF TypeOK, Taken, Current

LEMMA SlotType ==
    ASSUME NEW d \in Nat
    PROVE  Slot(d) \in Messages
BY RingSizes, ModRange DEF Slot, Messages

(* One slot further is the slot of the next number.                        *)
LEMMA AdvanceCounts ==
    ASSUME NEW d \in Nat
    PROVE  Advance(Slot(d)) = Slot(d + 1)
BY RingSizes, ModIncrement DEF Advance, Slot

(* The slots of recent messages differ.                                    *)
LEMMA SlotsDiffer ==
    ASSUME NEW a \in Nat, NEW b \in Nat, a < b, b < a + N_MSG_DATA
    PROVE  Slot(a) # Slot(b)
<1>1. N_MSG_DATA \in Nat \ {0}
  BY RingSizes
<1>2. b - a < N_MSG_DATA
  BY <1>1
<1>3. a % N_MSG_DATA # b % N_MSG_DATA
  BY ONLY ModInjective, <1>1, <1>2, a \in Nat, b \in Nat, a < b
<1> QED BY <1>3 DEF Slot

(* A message follows the one before without a gap.                         *)
LEMMA NextFirst ==
    ASSUME NEW d \in Nat
    PROVE  First(d) \in Nat /\ First(d + 1) = First(d) + DATA_BUFFER_MAX
BY RingSizes DEF First
------------------------------------------------------------------------------
LEMMA InitIInv == Init => IInv
<1> SUFFICES ASSUME Init PROVE IInv
  OBVIOUS
<1> USE RingSizes
<1>1. TypeOK
  BY DEF Init, TypeOK, Positions, Messages, Message, Blank, NoId
<1>2. Current = 0 /\ Taken = 0
  BY DEF Init, Current, Taken
<1>3. SlotInv
  BY <1>2, ModSmall DEF Init, SlotInv, Slot, First
<1>4. ContentInv
  BY <1>2 DEF Init, ContentInv, PackedPositions, Positions
<1>5. HeaderInv
  BY DEF Init, HeaderInv
<1> QED BY <1>1, <1>3, <1>4, <1>5 DEF IInv

(* What packing a buffer does to the counts.                               *)
LEMMA PackCounts ==
    ASSUME IInv, Pack
    PROVE  /\ Taken' = Taken
           /\ Full => Current' = Current + 1 /\ cnt_buffer_out' = 0
           /\ ~Full => Current' = Current /\ cnt_buffer_out' = cnt_buffer_out + 1
<1>1. snd_pc' = snd_pc /\ msg_data_id' = msg_data_id
  BY DEF Pack, sendVars
<1>2. Taken' = Taken
  BY <1>1 DEF Taken
<1>3. Taken \in Nat /\ send_data_semaphore \in Nat
  BY CurrentType DEF IInv, TypeOK
<1> QED BY <1>2, <1>3 DEF Pack, Current, Post

LEMMA PackType ==
    ASSUME IInv, Pack
    PROVE  TypeOK'
<1>1. /\ TypeOK /\ Current \in Nat /\ dws_n_msg = Slot(Current)
      /\ cnt_buffer_out \in Positions
  BY CurrentType DEF IInv, SlotInv, TypeOK
<1>2. cnt_buffer_out' \in Positions
  BY <1>1, RingSizes DEF Pack, Full, Positions
<1>3. dws_n_msg' \in Messages
  <2>1. CASE Full
    BY <1>1, <2>1, AdvanceCounts, SlotType DEF Pack
  <2>2. CASE ~Full
    BY <1>1, <2>2 DEF Pack, TypeOK
  <2> QED BY <2>1, <2>2
<1>4. send_data_semaphore' \in Nat
  BY <1>1 DEF Pack, Post, TypeOK
<1>5. (msg_data \in [Messages -> Message])' /\ (data_buffer_count \in Nat)'
  BY <1>1 DEF TypeOK, Pack, Message
<1> QED BY <1>1, <1>2, <1>3, <1>4, <1>5 DEF TypeOK, Pack, sendVars

LEMMA PackSlots ==
    ASSUME IInv, Pack
    PROVE  SlotInv'
<1>1. /\ Current \in Nat /\ First(Current) \in Nat /\ SlotInv
      /\ cnt_buffer_out \in Nat /\ DATA_BUFFER_MAX \in Nat
  BY CurrentType, NextFirst, RingSizes DEF IInv, TypeOK, Positions
<1>2. snd_n_msg' = Slot(msg_data_id')
  BY <1>1 DEF SlotInv, Pack, sendVars
<1>3. dws_n_msg' = Slot(Current')
  BY <1>1, PackCounts, AdvanceCounts DEF SlotInv, Pack
<1>4. data_buffer_count' = First(Current') + cnt_buffer_out'
  <2>1. data_buffer_count' = First(Current) + cnt_buffer_out + 1
    BY <1>1 DEF SlotInv, Pack
  <2>2. CASE Full
    <3>1. cnt_buffer_out + 1 = DATA_BUFFER_MAX /\ cnt_buffer_out' = 0
      BY <2>2, PackCounts DEF Full
    <3>2. First(Current') = First(Current) + DATA_BUFFER_MAX
      BY <1>1, <2>2, PackCounts, NextFirst
    <3> QED BY <1>1, <2>1, <3>1, <3>2
  <2>3. CASE ~Full
    BY <1>1, <2>1, <2>3, PackCounts
  <2> QED BY <2>2, <2>3
<1> QED BY <1>2, <1>3, <1>4 DEF SlotInv

(* The buffer packed is the one of its position, and no other position of  *)
(* a recent message is written.                                            *)
LEMMA PackContent ==
    ASSUME IInv, Pack
    PROVE  ContentInv'
<1>1. /\ Current \in Nat /\ cnt_buffer_out \in Positions /\ TypeOK
      /\ dws_n_msg = Slot(Current) /\ ContentInv
      /\ data_buffer_count = First(Current) + cnt_buffer_out
  BY CurrentType DEF IInv, SlotInv, TypeOK
<1>2. ASSUME NEW m \in Messages, NEW i \in Positions
      PROVE  msg_data'[m].ids[i] = IF m = dws_n_msg /\ i = cnt_buffer_out
                                     THEN data_buffer_count
                                     ELSE msg_data[m].ids[i]
  BY <1>1 DEF TypeOK, Message, Pack
<1> SUFFICES ASSUME NEW d \in Nat, d <= Current', Current' < d + N_MSG_DATA,
                    NEW i \in Positions, d = Current' => i < cnt_buffer_out'
             PROVE  msg_data'[Slot(d)].ids[i] = First(d) + i
  BY DEF ContentInv, PackedPositions
<1>3. Slot(d) \in Messages
  BY SlotType
<1>4. d <= Current /\ Current < d + N_MSG_DATA
  BY <1>1, PackCounts, RingSizes DEF Positions
<1>5. CASE d = Current /\ i = cnt_buffer_out
  BY <1>1, <1>2, <1>3, <1>5
<1>6. CASE d = Current /\ i # cnt_buffer_out
  <2>1. i < cnt_buffer_out
    BY <1>1, <1>6, PackCounts, RingSizes DEF Full, Positions
  <2>2. msg_data[Slot(d)].ids[i] = First(d) + i
    BY <1>1, <1>4, <2>1 DEF ContentInv, PackedPositions
  <2> QED BY <1>2, <1>3, <1>6, <2>2
<1>7. CASE d # Current
  <2>1. msg_data[Slot(d)].ids[i] = First(d) + i
    BY <1>1, <1>4, <1>7 DEF ContentInv, PackedPositions
  <2>2. Slot(d) # dws_n_msg
    BY <1>1, <1>4, <1>7, SlotsDiffer
  <2> QED BY <1>2, <1>3, <2>1, <2>2
<1> QED BY <1>5, <1>6, <1>7

LEMMA PackIInv ==
    ASSUME IInv, Pack
    PROVE  IInv'
<1>1. HeaderInv'
  <2>1. ASSUME NEW m \in Messages
        PROVE  msg_data'[m].data_id = msg_data[m].data_id
    BY DEF IInv, TypeOK, Message, Pack
  <2> QED BY <2>1 DEF IInv, TypeOK, HeaderInv, Pack, sendVars
<1> QED BY <1>1, PackType, PackSlots, PackContent DEF IInv
------------------------------------------------------------------------------
(* A step that packs nothing keeps the contents.                           *)
LEMMA ContentKept ==
    ASSUME IInv, Current' = Current, cnt_buffer_out' = cnt_buffer_out,
           \A m \in Messages : msg_data'[m].ids = msg_data[m].ids
    PROVE  ContentInv'
<1> SUFFICES ASSUME NEW d \in Nat, d <= Current', Current' < d + N_MSG_DATA,
                    NEW i \in Positions, d = Current' => i < cnt_buffer_out'
             PROVE  msg_data'[Slot(d)].ids[i] = First(d) + i
  BY DEF ContentInv, PackedPositions
<1>1. msg_data[Slot(d)].ids[i] = First(d) + i
  BY DEF IInv, ContentInv, PackedPositions
<1> QED BY <1>1, SlotType

(* The number of the current message does not change when the sender moves *)
(* or the status does.                                                     *)
LEMMA SendPendIInv ==
    ASSUME IInv, SendPend
    PROVE  IInv'
<1>1. TypeOK /\ SlotInv
  BY DEF IInv
<1>2. TypeOK'
  BY <1>1 DEF TypeOK, SendPend, packVars, Message
<1>3. Current' = Current
  BY <1>1 DEF TypeOK, Current, Taken, SendPend
<1>4. SlotInv'
  BY <1>1, <1>3 DEF SlotInv, SendPend, packVars
<1>5. \A m \in Messages : msg_data'[m].ids = msg_data[m].ids
  BY <1>1 DEF TypeOK, Message, SendPend
<1>6. ContentInv'
  BY <1>3, <1>5, ContentKept DEF SendPend, packVars
<1>7. HeaderInv'
  BY <1>1 DEF TypeOK, Message, HeaderInv, SendPend
<1> QED BY <1>2, <1>4, <1>6, <1>7 DEF IInv

LEMMA SendPollIInv ==
    ASSUME IInv, SendPoll
    PROVE  IInv'
<1>1. TypeOK /\ SlotInv
  BY DEF IInv
<1>2. TypeOK'
  BY <1>1 DEF TypeOK, SendPoll, packVars
<1>3. Current' = Current
  BY DEF Current, Taken, SendPoll
<1>4. SlotInv'
  BY <1>1, <1>3 DEF SlotInv, SendPoll, packVars
<1>5. ContentInv'
  BY <1>3, ContentKept DEF SendPoll, packVars
<1>6. HeaderInv'
  BY DEF IInv, HeaderInv, SendPoll
<1> QED BY <1>2, <1>4, <1>5, <1>6 DEF IInv

LEMMA PublishIInv ==
    ASSUME IInv, PublishOk \/ PublishFail
    PROVE  IInv'
<1>1. TypeOK /\ SlotInv
  BY DEF IInv
<1>2. /\ snd_pc = "publish" /\ snd_pc' = "pend" /\ NextMessage
      /\ published' \in Message
      /\ UNCHANGED <<packVars, msg_data, send_data_semaphore, send_data_status>>
  BY <1>1 DEF PublishOk, PublishFail, TypeOK
<1>3. snd_n_msg' = Slot(msg_data_id')
  BY <1>1, <1>2, AdvanceCounts DEF TypeOK, SlotInv, NextMessage
<1>4. msg_data_id' \in Nat /\ snd_n_msg' \in Messages
  BY <1>1, <1>2, <1>3, SlotType DEF TypeOK, NextMessage
<1>5. TypeOK'
  BY <1>1, <1>2, <1>4 DEF TypeOK, packVars
<1>6. Current' = Current
  BY <1>2 DEF Current, Taken, NextMessage
<1>7. SlotInv'
  BY <1>1, <1>2, <1>3, <1>6 DEF SlotInv, packVars
<1>8. ContentInv'
  BY <1>2, <1>6, ContentKept DEF packVars
<1>9. HeaderInv'
  BY <1>2 DEF HeaderInv
<1> QED BY <1>5, <1>7, <1>8, <1>9 DEF IInv

LEMMA TestWifiIInv ==
    ASSUME IInv, TestWifi
    PROVE  IInv'
<1>1. TypeOK /\ SlotInv
  BY DEF IInv
<1>2. TypeOK'
  BY <1>1 DEF TypeOK, TestWifi, packVars, sendVars
<1>3. Current' = Current
  BY DEF Current, Taken, TestWifi, sendVars
<1>4. SlotInv'
  BY <1>1, <1>3 DEF SlotInv, TestWifi, packVars, sendVars
<1>5. ContentInv'
  BY <1>3, ContentKept DEF TestWifi, packVars
<1>6. HeaderInv'
  BY DEF IInv, HeaderInv, TestWifi, sendVars
<1> QED BY <1>2, <1>4, <1>5, <1>6 DEF IInv
------------------------------------------------------------------------------
LEMMA NextIInv == IInv /\ [Next]_vars => IInv'
<1> SUFFICES ASSUME IInv, [Next]_vars
             PROVE  IInv'
  OBVIOUS
<1>1. CASE Pack
  BY <1>1, PackIInv
<1>2. CASE SendPend
  BY <1>2, SendPendIInv
<1>3. CASE SendPoll
  BY <1>3, SendPollIInv
<1>4. CASE PublishOk \/ PublishFail
  BY <1>4, PublishIInv
<1>5. CASE TestWifi
  BY <1>5, TestWifiIInv
<1>6. CASE UNCHANGED vars
  <2>1. TypeOK' /\ SlotInv' /\ HeaderInv'
    BY <1>6 DEF IInv, TypeOK, SlotInv, HeaderInv, Current, Taken, vars,
                packVars, sendVars
  <2>2. Current' = Current
    BY <1>6 DEF Current, Taken, vars, sendVars
  <2>3. ContentInv'
    BY <1>6, <2>2, ContentKept DEF vars, packVars
  <2> QED BY <2>1, <2>3 DEF IInv
<1> QED BY <1>1, <1>2, <1>3, <1>4, <1>5, <1>6 DEF Next

(* The message of the sender is one of the last N_MSG_DATA.                *)
LEMMA HeldIsRecent ==
    ASSUME IInv, snd_pc # "pend", KeepsUp
    PROVE  /\ msg_data_id \in Nat /\ Current \in Nat
           /\ snd_n_msg = Slot(msg_data_id)
           /\ msg_data_id < Current /\ Current < msg_data_id + N_MSG_DATA
BY CurrentType, RingSizes
DEF IInv, SlotInv, TypeOK, Current, Taken, KeepsUp

LEMMA IInvHoldsWholeMessage == IInv => HoldsWholeMessage
<1> SUFFICES ASSUME IInv, snd_pc # "pend", KeepsUp
             PROVE  msg_data[snd_n_msg] = Whole(msg_data_id)
  BY DEF HoldsWholeMessage
<1>1. TypeOK /\ ContentInv /\ msg_data[snd_n_msg] \in Message
  BY DEF IInv, TypeOK
<1>2. \A i \in Positions :
          msg_data[snd_n_msg].ids[i] = msg_data_id * DATA_BUFFER_MAX + i
  <2>1. \A i \in Positions :
            msg_data[snd_n_msg].ids[i] = First(msg_data_id) + i
    BY <1>1, HeldIsRecent DEF ContentInv, PackedPositions
  <2> QED BY <2>1 DEF First
<1>3. msg_data[snd_n_msg].data_id = msg_data_id
  BY DEF IInv, HeaderInv
<1>4. msg_data[snd_n_msg].ids
        = [i \in Positions |-> msg_data_id * DATA_BUFFER_MAX + i]
  BY <1>1, <1>2 DEF Message
<1>5. \A r \in Message : r = [data_id |-> r.data_id, ids |-> r.ids]
  BY DEF Message
<1>6. msg_data[snd_n_msg] = [data_id |-> msg_data[snd_n_msg].data_id,
                             ids |-> msg_data[snd_n_msg].ids]
  BY <1>1, <1>5
<1> QED BY <1>3, <1>4, <1>6 DEF Whole

LEMMA IInvSlotsApart == IInv => SlotsApart
<1> SUFFICES ASSUME IInv, snd_pc # "pend", KeepsUp
             PROVE  dws_n_msg # snd_n_msg
  BY DEF SlotsApart
<1>1. dws_n_msg = Slot(Current)
  BY DEF IInv, SlotInv
<1> QED BY <1>1, HeldIsRecent, SlotsDiffer
------------------------------------------------------------------------------
(* The invariant of the ring: slots follow from the numbers, and the last  *)
(* N_MSG_DATA messages are in their slots (dws_user.c:149-163,             *)
(* mqtt_user.c:903-961).                                                   *)
THEOREM Invariance == Spec => []IInv
<1>1. Init => IInv
  BY InitIInv
<1>2. IInv /\ [Next]_vars => IInv'
  BY NextIInv
<1> QED BY <1>1, <1>2, PTL DEF Spec

(* Types: the counters stay natural numbers and the positions inside the   *)
(* ring and the message, for any number of buffers (dws_user.c:149-163).   *)
THEOREM TypeCorrect == Spec => []TypeOK
<1>1. IInv => TypeOK
  BY DEF IInv
<1> QED BY <1>1, Invariance, PTL

(* While the sender keeps up, its slot holds the whole message of its      *)
(* number, however often the publication failed or the status changed      *)
(* (mqtt_user.c:895-965 against dws_user.c:149-163).                       *)
THEOREM HoldsWholeMessageHolds == Spec => []HoldsWholeMessage
BY Invariance, IInvHoldsWholeMessage, PTL

(* While the sender keeps up, the packing thread is at another slot        *)
(* (dws_user.c:157-163, mqtt_user.c:903).                                  *)
THEOREM SlotsApartHolds == Spec => []SlotsApart
BY Invariance, IInvSlotsApart, PTL
-----------------------------------------------------------------------------
Rp == INSTANCE DmaRing_proofs WITH MaxTransfers <- MaxBuffers

(* The bytes at the packed positions of the last N_MSG_DATA messages.      *)
BytesInv ==
    ~late =>
        \A d \in Nat : d <= Current /\ Current < d + N_MSG_DATA =>
            \A i \in PackedPositions(d) :
                msg_bytes[Slot(d)][i] = Packed(Delivered(First(d) + i))

BytesType ==
    /\ msg_bytes \in [Messages -> [Positions -> PackedBuffers]]
    /\ published_bytes \in [Positions -> PackedBuffers]
    /\ late \in BOOLEAN

(* The inductive invariant: those of the two rings, the model's bound on   *)
(* the transfers, and the bytes.                                           *)
PipelineIInv ==
    /\ Rp!IInv
    /\ IInv
    /\ transfers <= MaxBuffers
    /\ BytesType
    /\ BytesInv
-----------------------------------------------------------------------------
(* Removing the trash: the conversion is recovered whatever the other four *)
(* bits of the word are (dws_user.c:118-127).                              *)
THEOREM TrashRemoved ==
    ASSUME NEW c \in Conversions, NEW trash \in 0 .. 15
    PROVE  Word(c, trash) \in Nat /\ Conversion(Word(c, trash)) = c
<1>1. PICK low \in 0 .. 3, high \in 0 .. 3 :
         low = trash % 4 /\ high = trash \div 4
  OBVIOUS
<1>2. Word(c, trash) = high * 16384 + c * 4 + low
  BY <1>1 DEF Word
<1>3. high * 16384 + c * 4 + low \in Nat
  BY SMTT(30) DEF Conversions
<1>4. (high * 16384 + c * 4 + low) \div 4 = high * 4096 + c
  BY SMTT(30) DEF Conversions
<1>5. (high * 4096 + c) % 4096 = c
  BY SMTT(30) DEF Conversions
<1> QED BY <1>2, <1>3, <1>4, <1>5 DEF Conversion

(* A conversion fits its twelve bits.                                      *)
LEMMA ConversionRange ==
    ASSUME NEW word \in Nat
    PROVE  Conversion(word) \in Conversions
BY SMTT(30) DEF Conversion, Conversions

(* An average of eight conversions is one: their sum does not overflow     *)
(* sixteen bits and the average needs no more than twelve.                 *)
LEMMA SumOfEight ==
    ASSUME NEW c \in [0 .. 7 -> Conversions]
    PROVE  LET sum == c[0] + c[1] + c[2] + c[3] + c[4] + c[5] + c[6] + c[7]
           IN  sum <= 32760 /\ sum \div 8 \in Conversions
<1>1. \A i \in 0 .. 7 : c[i] \in Nat /\ c[i] <= 4095
  <2>1. \A x \in Conversions : x \in Nat /\ x <= 4095
    BY SMTT(30) DEF Conversions
  <2> QED BY <2>1
<1> DEFINE low  == c[0] + c[1] + c[2] + c[3]
           high == c[4] + c[5] + c[6] + c[7]
           sum  == c[0] + c[1] + c[2] + c[3] + c[4] + c[5] + c[6] + c[7]
<1>2. low \in Nat /\ low <= 16380
  BY SMTT(30), <1>1
<1>3. high \in Nat /\ high <= 16380
  BY SMTT(30), <1>1
<1>4. sum = low + high
  BY SMTT(30), <1>1
<1> HIDE DEF low, high, sum
<1>5. sum \in Nat /\ sum <= 32760
  BY SMTT(30), <1>2, <1>3, <1>4
<1>6. sum \div 8 \in Nat /\ sum \div 8 <= 4095
  BY SMTT(30), <1>5
<1>7. \A x \in Nat : x <= 4095 => x \in Conversions
  BY SMTT(30) DEF Conversions
<1>8. sum \div 8 \in Conversions
  BY <1>6, <1>7
<1> QED BY <1>5, <1>8 DEF sum

(* The average of the eight words from position a of a buffer of n.        *)
LEMMA MeanRange ==
    ASSUME NEW n \in Nat, NEW a \in Nat, NEW w \in [0 .. n - 1 -> Nat],
           a + 7 < n
    PROVE  Sum8(w, a) <= 32760 /\ Sum8(w, a) \div 8 \in Conversions
<1>1. /\ w[a] \in Nat /\ w[a + 1] \in Nat
      /\ w[a + 2] \in Nat /\ w[a + 3] \in Nat
      /\ w[a + 4] \in Nat /\ w[a + 5] \in Nat
      /\ w[a + 6] \in Nat /\ w[a + 7] \in Nat
  OBVIOUS
<1> DEFINE c == [i \in 0 .. 7 |-> Conversion(w[a + i])]
<1>2. c \in [0 .. 7 -> Conversions]
  <2>1. \A i \in 0 .. 7 : w[a + i] \in Nat
    OBVIOUS
  <2> QED BY <2>1, ConversionRange
<1>3. Sum8(w, a) = c[0] + c[1] + c[2] + c[3] + c[4] + c[5] + c[6] + c[7]
  BY <1>1 DEF Sum8
<1> HIDE DEF c
<1> QED BY <1>2, <1>3, SumOfEight

(* The two averages of a group fit their twelve bits.                      *)
LEMMA AverageRange ==
    ASSUME NEW n \in Nat, NEW w \in [0 .. n * GroupLen - 1 -> Nat],
           NEW g \in 0 .. n - 1
    PROVE  Right(w, g) \in Conversions /\ Left(w, g) \in Conversions
<1>1. n * GroupLen \in Nat /\ g * GroupLen \in Nat
      /\ DWS_RATE_FIX + g * GroupLen \in Nat
  BY DEF GroupLen, DWS_RATE_FIX
<1>2. /\ g * GroupLen + 7 < n * GroupLen
      /\ DWS_RATE_FIX + g * GroupLen + 7 < n * GroupLen
  BY DEF GroupLen, DWS_RATE_FIX
<1>3. Right(w, g) \in Conversions
  BY <1>1, <1>2, MeanRange DEF Right
<1>4. Left(w, g) \in Conversions
  <2>1. Sum8(w, DWS_RATE_FIX + g * GroupLen) \div 8 \in Conversions
    BY <1>1, <1>2, MeanRange
  <2> QED BY <2>1 DEF Left, DWS_RATE_FIX
<1> QED BY <1>3, <1>4

(* Three bytes hold two twelve-bit values (dws_user.c:142-144 against      *)
(* print_user.c:69-70).                                                    *)
LEMMA BytesHoldBoth ==
    ASSUME NEW right \in Conversions, NEW left \in Conversions
    PROVE  LET b == LowBytes(Join(right, left))
           IN  /\ b \in [0 .. 2 -> Bytes]
               /\ UnpackRight(b, 0) = right
               /\ UnpackLeft(b, 0) = left
<1> DEFINE x == Join(right, left)
           b == LowBytes(x)
<1>1. /\ x = right + left * 4096 /\ x \in Nat /\ x <= 16777215
      /\ right \in Nat /\ right <= 4095 /\ left \in Nat
  BY SMTT(30) DEF Join, Conversions
<1>2. /\ b[0] = x % 256
      /\ b[1] = (x \div 256) % 256
      /\ b[2] = (x \div 65536) % 256
  BY DEF LowBytes
<1> HIDE DEF x
<1>3. b \in [0 .. 2 -> Bytes]
  <2>1. x % 256 \in Bytes /\ (x \div 256) % 256 \in Bytes
        /\ (x \div 65536) % 256 \in Bytes
    BY SMTT(30), <1>1 DEF Bytes
  <2> QED BY <2>1 DEF LowBytes
<1>4. UnpackRight(b, 0) = right
  <2>1. ((x % 256) + ((x \div 256) % 256) * 256) = x % 65536
    BY SMTT(30), <1>1
  <2>2. (x % 65536) % 4096 = x % 4096
    BY SMTT(30), <1>1
  <2>3. x % 4096 = right
    BY SMTT(30), <1>1
  <2> QED BY <1>2, <2>1, <2>2, <2>3 DEF UnpackRight
<1>5. UnpackLeft(b, 0) = left
  <2>1. ((x \div 256) % 256) \div 16 = (x \div 4096) % 16
    BY SMTT(30), <1>1
  <2>2. (x \div 65536) % 256 = x \div 65536
    BY SMTT(30), <1>1
  <2>3. ((x \div 4096) % 16) + (x \div 65536) * 16 = x \div 4096
    BY SMTT(30), <1>1
  <2>4. x \div 4096 = left
    BY SMTT(30), <1>1
  <2> QED BY <1>2, <2>1, <2>2, <2>3, <2>4 DEF UnpackLeft
<1> QED BY <1>3, <1>4, <1>5 DEF x

(* Reading the bytes of a buffer of n groups gives the two averages of     *)
(* every group, at its place and for every content of the buffer           *)
(* (dws_user.c:113-147 against print_user.c:63-70).                        *)
THEOREM ReductionReadable ==
    ASSUME NEW n \in Nat, NEW w \in [0 .. n * GroupLen - 1 -> Nat],
           NEW g \in 0 .. n - 1
    PROVE  Unpack(Reduce(w, n), g) = <<Right(w, g), Left(w, g)>>
<1> DEFINE r == Right(w, g)
           l == Left(w, g)
           c == LowBytes(Join(r, l))
           b == Reduce(w, n)
<1>1. r \in Conversions /\ l \in Conversions
  BY AverageRange
<1>2. b[3 * g] = c[0] /\ b[3 * g + 1] = c[1] /\ b[3 * g + 2] = c[2]
  <2>1. \A i \in 0 .. 2 : /\ 3 * g + i \in 0 .. 3 * n - 1
                          /\ (3 * g + i) \div 3 = g
                          /\ (3 * g + i) % 3 = i
    OBVIOUS
  <2>2. \A i \in 0 .. 2 : b[3 * g + i] = c[i]
    <3> TAKE i \in 0 .. 2
    <3>1. 3 * g + i \in 0 .. 3 * n - 1
          /\ (3 * g + i) \div 3 = g /\ (3 * g + i) % 3 = i
      BY <2>1
    <3>2. b[3 * g + i] = LowBytes(Join(Right(w, (3 * g + i) \div 3),
                              Left(w, (3 * g + i) \div 3)))[(3 * g + i) % 3]
      BY <3>1 DEF Reduce
    <3> QED BY <3>1, <3>2
  <2>3. 3 * g + 0 = 3 * g
    OBVIOUS
  <2> HIDE DEF b, c
  <2> QED BY <2>2, <2>3
<1>3. UnpackRight(c, 0) = r /\ UnpackLeft(c, 0) = l
  BY <1>1, BytesHoldBoth
<1> HIDE DEF b, c, r, l
<1>4. UnpackRight(b, 3 * g) = r /\ UnpackLeft(b, 3 * g) = l
  BY <1>2, <1>3 DEF UnpackRight, UnpackLeft
<1> QED BY <1>4 DEF Unpack, b, r, l
-----------------------------------------------------------------------------
(* What the recipient reads of a buffer.                                   *)

LEMMA Sizes ==
    /\ GROUPS \in Nat \ {0}
    /\ DATA_BUFFER_MAX \in Nat \ {0}
    /\ MaxBuffers \in Nat
    /\ Rp!DmaRingAssumption
BY PipelineAssumption, MessageRingAssumption DEF Rp!DmaRingAssumption

(* The words of a whole buffer, and the conversions in them.               *)
LEMMA BufferWords ==
    ASSUME NEW c \in Untorn
    PROVE  /\ Buffer(c) \in [0 .. GROUPS * GroupLen - 1 -> Nat]
           /\ \A j \in 0 .. GROUPS * GroupLen - 1 :
                Conversion(Buffer(c)[j]) = IF c = Zeros THEN 0 ELSE Adc(c, j)
<1>1. GroupLen * GROUPS = GROUPS * GroupLen
  BY Sizes DEF GroupLen, DWS_RATE_FIX
<1>2. ASSUME NEW j \in 0 .. GROUPS * GroupLen - 1
      PROVE  /\ Buffer(c)[j] \in Nat
             /\ Conversion(Buffer(c)[j]) = IF c = Zeros THEN 0 ELSE Adc(c, j)
  <2>1. CASE c = Zeros
    <3>1. Buffer(c)[j] = 0
      BY <1>1, <2>1 DEF Buffer
    <3> QED BY <2>1, <3>1 DEF Conversion
  <2>2. CASE c # Zeros
    <3>1. c \in 0 .. MaxBuffers
      BY <2>2 DEF Untorn
    <3>2. Adc(c, j) \in Conversions /\ Trash(c, j) \in 0 .. 15
      BY <1>1, <3>1, PipelineAssumption
    <3>3. Buffer(c)[j] = Word(Adc(c, j), Trash(c, j))
      BY <1>1, <2>2 DEF Buffer
    <3> QED BY <2>2, <3>2, <3>3, TrashRemoved
  <2> QED BY <2>1, <2>2
<1>3. Buffer(c) = [j \in 0 .. GROUPS * GroupLen - 1 |-> Buffer(c)[j]]
  BY <1>1 DEF Buffer
<1> QED BY <1>2, <1>3

(* The averages of the code are those the recipient should read.           *)
LEMMA SumIsMean ==
    ASSUME NEW c \in Untorn, NEW a \in Nat, a + 7 < GROUPS * GroupLen
    PROVE  Sum8(Buffer(c), a) \div 8 = MeanOfEight(c, a)
<1>1. /\ a \in 0 .. GROUPS * GroupLen - 1
      /\ a + 1 \in 0 .. GROUPS * GroupLen - 1
      /\ a + 2 \in 0 .. GROUPS * GroupLen - 1
      /\ a + 3 \in 0 .. GROUPS * GroupLen - 1
      /\ a + 4 \in 0 .. GROUPS * GroupLen - 1
      /\ a + 5 \in 0 .. GROUPS * GroupLen - 1
      /\ a + 6 \in 0 .. GROUPS * GroupLen - 1
      /\ a + 7 \in 0 .. GROUPS * GroupLen - 1
  BY Sizes DEF GroupLen, DWS_RATE_FIX
<1>2. CASE c = Zeros
  <2>1. Sum8(Buffer(c), a) = 0
    BY <1>1, <1>2, BufferWords DEF Sum8
  <2> QED BY <1>2, <2>1 DEF MeanOfEight
<1>3. CASE c # Zeros
  <2>1. Sum8(Buffer(c), a)
          = Adc(c, a) + Adc(c, a + 1) + Adc(c, a + 2) + Adc(c, a + 3)
            + Adc(c, a + 4) + Adc(c, a + 5) + Adc(c, a + 6) + Adc(c, a + 7)
    BY <1>1, <1>3, BufferWords DEF Sum8
  <2> QED BY <1>3, <2>1 DEF MeanOfEight
<1> QED BY <1>2, <1>3

LEMMA ReadMeans ==
    ASSUME NEW c \in Untorn
    PROVE  Read(Packed(c)) = Means[c]
<1>1. Packed(c) = Reduce(Buffer(c), GROUPS)
  BY DEF Packed, BytesOf, Untorn, Torn, Zeros
<1>2. ASSUME NEW g \in 0 .. GROUPS - 1
      PROVE  Unpack(Reduce(Buffer(c), GROUPS), g)
               = <<MeanOfEight(c, 16 * g), MeanOfEight(c, 16 * g + 8)>>
  <2>1. Unpack(Reduce(Buffer(c), GROUPS), g)
          = <<Right(Buffer(c), g), Left(Buffer(c), g)>>
    BY Sizes, BufferWords, ReductionReadable
  <2>2. /\ g * GroupLen = 16 * g /\ DWS_RATE_FIX + g * GroupLen = 16 * g + 8
        /\ 16 * g \in Nat /\ 16 * g + 8 \in Nat
        /\ 16 * g + 7 < GROUPS * GroupLen
        /\ (16 * g + 8) + 7 < GROUPS * GroupLen
    BY Sizes DEF GroupLen, DWS_RATE_FIX
  <2>3. Right(Buffer(c), g) = MeanOfEight(c, 16 * g)
    BY <2>2, SumIsMean DEF Right
  <2>4. Left(Buffer(c), g) = MeanOfEight(c, 16 * g + 8)
    <3>1. Sum8(Buffer(c), 16 * g + 8) \div 8 = MeanOfEight(c, 16 * g + 8)
      BY <2>2, SumIsMean
    <3> QED BY <2>2, <3>1 DEF Left, DWS_RATE_FIX
  <2> QED BY <2>1, <2>3, <2>4
<1> QED BY <1>1, <1>2 DEF Read, Means

(* What is packed are bytes, three for a group, or nothing known.          *)
LEMMA PackedType ==
    ASSUME NEW c \in Untorn \cup {Torn}
    PROVE  Packed(c) \in PackedBuffers
<1>1. CASE c = Torn
  BY <1>1 DEF Packed, PackedBuffers
<1>2. CASE c # Torn
  <2>1. Packed(c) = Reduce(Buffer(c), GROUPS)
    BY <1>2 DEF Packed, BytesOf
  <2>2. ASSUME NEW k \in 0 .. 3 * GROUPS - 1
        PROVE  Reduce(Buffer(c), GROUPS)[k] \in Bytes
    <3> DEFINE g == k \div 3
               r == Right(Buffer(c), g)
               l == Left(Buffer(c), g)
               b == LowBytes(Join(r, l))
    <3>1. g \in 0 .. GROUPS - 1 /\ k % 3 \in 0 .. 2
      BY Sizes
    <3>2. r \in Conversions /\ l \in Conversions
      BY <1>2, <3>1, Sizes, BufferWords, AverageRange
    <3>3. b \in [0 .. 2 -> Bytes]
      BY <3>2, BytesHoldBoth
    <3>4. Reduce(Buffer(c), GROUPS)[k] = b[k % 3]
      BY DEF Reduce
    <3> HIDE DEF b
    <3> QED BY <3>1, <3>3, <3>4
  <2>3. Reduce(Buffer(c), GROUPS) \in [0 .. 3 * GROUPS - 1 -> Bytes]
    BY <2>2 DEF Reduce
  <2> QED BY <2>1, <2>3 DEF PackedBuffers
<1> QED BY <1>1, <1>2
-----------------------------------------------------------------------------
(* The instances of the acquisition ring in Pipeline and here are one.     *)

LEMMA SameRing ==
    /\ Ring!Init => Rp!Init
    /\ Ring!DmaComplete \/ Ring!isr_dma_done \/ Ring!DwsPend \/ Ring!DwsFinish
          => Rp!Next
    /\ Ring!DwsFinish => Rp!DwsFinish
    /\ Ring!KeepsUp = Rp!KeepsUp
    /\ Ring!NoSlip = Rp!NoSlip
    /\ Rp!TypeOK = Ring!TypeOK
<1>1. Ring!Init => Rp!Init
  BY DEF Ring!Init, Ring!Structures, Ring!Buffers, Ring!Armed, Ring!Zeros,
         Rp!Init, Rp!Structures, Rp!Buffers, Rp!Armed, Rp!Zeros
<1>2. Ring!DmaComplete => Rp!DmaComplete
  BY DEF Ring!DmaComplete, Ring!Other, Ring!dwsVars,
         Rp!DmaComplete, Rp!Other, Rp!dwsVars
<1>3. Ring!isr_dma_done => Rp!isr_dma_done
  BY DEF Ring!isr_dma_done, Ring!StopMode, Ring!NextWrite, Ring!WriteBuffer,
         Ring!Post, Ring!Armed, Ring!dwsVars,
         Rp!isr_dma_done, Rp!StopMode, Rp!NextWrite, Rp!WriteBuffer,
         Rp!Post, Rp!Armed, Rp!dwsVars
<1>4. Ring!DwsPend => Rp!DwsPend
  BY DEF Ring!DwsPend, Ring!Sample, Ring!Torn, Ring!dmaVars,
         Rp!DwsPend, Rp!Sample, Rp!Torn, Rp!dmaVars
<1>5. Ring!DwsFinish => Rp!DwsFinish
  BY DEF Ring!DwsFinish, Ring!Sample, Ring!NextRead, Ring!Torn, Ring!dmaVars,
         Rp!DwsFinish, Rp!Sample, Rp!NextRead, Rp!Torn, Rp!dmaVars
<1>6. Ring!KeepsUp = Rp!KeepsUp /\ Ring!NoSlip = Rp!NoSlip
  BY DEF Ring!KeepsUp, Rp!KeepsUp, Ring!NoSlip, Rp!NoSlip
<1>7. Rp!TypeOK = Ring!TypeOK
  BY DEF Rp!TypeOK, Rp!Structures, Rp!Buffers, Rp!Contents, Rp!Torn, Rp!Zeros,
         Ring!TypeOK, Ring!Structures, Ring!Buffers, Ring!Contents, Ring!Torn,
         Ring!Zeros
<1> QED BY <1>1, <1>2, <1>3, <1>4, <1>5, <1>6, <1>7 DEF Rp!Next

(* What is used of the ring's invariant.                                   *)
LEMMA RingFacts ==
    ASSUME Rp!IInv, transfers <= MaxBuffers
    PROVE  /\ transfers \in Nat /\ data_buffer_count \in Nat
           /\ data_buffer_count <= transfers
           /\ dws_pc = "process" => data_buffer_count < transfers
           /\ seen \in Untorn \cup {Torn}
BY Sizes
DEF Rp!IInv, Rp!TypeOK, Rp!CounterInv, Rp!ContentInv, Rp!Handled,
    Rp!Processing, Rp!Contents, Rp!Zeros, Rp!Torn, Untorn, Zeros, Torn

(* A step of the ring keeps its invariant.                                 *)
LEMMA RingStep ==
    ASSUME Rp!IInv,
           Ring!DmaComplete \/ Ring!isr_dma_done \/ Ring!DwsPend \/ Ring!DwsFinish
    PROVE  Rp!IInv'
BY SameRing, Sizes, Rp!NextIInv

(* Nothing the ring's invariant speaks of changes.                         *)
LEMMA RingIdle ==
    ASSUME Rp!IInv, UNCHANGED ringOnly, UNCHANGED data_buffer_count
    PROVE  Rp!IInv'
BY Sizes, Rp!NextIInv DEF ringOnly, Rp!vars, Rp!dmaVars, Rp!dwsVars

LEMMA MessagesIdle ==
    ASSUME IInv, UNCHANGED msgsOnly, UNCHANGED data_buffer_count
    PROVE  IInv'
BY NextIInv DEF msgsOnly, vars, packVars, sendVars
-----------------------------------------------------------------------------
(* The inductive invariant.                                                *)

LEMMA InitPipelineIInv == PipelineInit => PipelineIInv
<1> SUFFICES ASSUME PipelineInit PROVE PipelineIInv
  OBVIOUS
<1>1. Rp!IInv
  BY SameRing, Sizes, Rp!InitIInv DEF PipelineInit
<1>2. IInv
  BY InitIInv DEF PipelineInit
<1>3. transfers <= MaxBuffers
  BY Sizes DEF PipelineInit, Ring!Init
<1>4. BytesType
  BY DEF PipelineInit, BytesType, BlankBytes, PackedBuffers
<1>5. BytesInv
  BY DEF PipelineInit, Init, BytesInv, PackedPositions, Current, Taken, Positions
<1> QED BY <1>1, <1>2, <1>3, <1>4, <1>5 DEF PipelineIInv

(* A step that packs nothing keeps the bytes.                              *)
LEMMA BytesKept ==
    ASSUME BytesInv, Current' = Current, cnt_buffer_out' = cnt_buffer_out,
           msg_bytes' = msg_bytes, late' = late
    PROVE  BytesInv'
BY DEF BytesInv, PackedPositions

(* The controller and the interrupt work on the ring alone.                *)
LEMMA AcquireIInv == PipelineIInv /\ Acquire => PipelineIInv'
<1> SUFFICES ASSUME PipelineIInv, Acquire PROVE PipelineIInv'
  OBVIOUS
<1>1. Rp!IInv'
  BY RingStep DEF PipelineIInv, Acquire
<1>2. UNCHANGED data_buffer_count
  BY DEF Acquire, Ring!DmaComplete, Ring!isr_dma_done, Ring!DwsPend,
         Ring!dwsVars
<1>3. IInv'
  BY <1>2, MessagesIdle DEF PipelineIInv, Acquire
<1>4. (transfers <= MaxBuffers)'
  <2>1. transfers \in Nat /\ MaxBuffers \in Nat
    BY RingFacts, Sizes DEF PipelineIInv
  <2> QED BY <2>1 DEF PipelineIInv, Acquire, Ring!DmaComplete,
                      Ring!isr_dma_done, Ring!DwsPend, Ring!dmaVars
<1>5. BytesType'
  BY DEF PipelineIInv, BytesType, Acquire, ownVars
<1>6. BytesInv'
  BY BytesKept
  DEF PipelineIInv, Acquire, ownVars, msgsOnly, sendVars, Current, Taken
<1> QED BY <1>1, <1>3, <1>4, <1>5, <1>6 DEF PipelineIInv

(* The bytes packed are those of the transfer of the buffer's position.    *)
LEMMA ProcessBytes ==
    ASSUME PipelineIInv, Process
    PROVE  BytesInv'
<1>1. /\ IInv /\ TypeOK /\ Current \in Nat /\ cnt_buffer_out \in Positions
      /\ dws_n_msg = Slot(Current) /\ BytesInv /\ Pack
      /\ data_buffer_count = First(Current) + cnt_buffer_out
  BY CurrentType DEF PipelineIInv, IInv, SlotInv, TypeOK, Process
<1>2. ASSUME NEW m \in Messages, NEW i \in Positions
      PROVE  msg_bytes'[m][i] = IF m = dws_n_msg /\ i = cnt_buffer_out
                                  THEN Packed(emitted') ELSE msg_bytes[m][i]
  BY <1>1 DEF Process, PipelineIInv, BytesType
<1> SUFFICES ASSUME ~late', NEW d \in Nat,
                    d <= Current', Current' < d + N_MSG_DATA,
                    NEW i \in Positions, d = Current' => i < cnt_buffer_out'
             PROVE  msg_bytes'[Slot(d)][i] = Packed(Delivered(First(d) + i))
  BY DEF BytesInv, PackedPositions
<1>3. ~late /\ emitted' = Delivered(data_buffer_count)
  <2>1. ~late /\ Ring!KeepsUp /\ Ring!NoSlip
    BY DEF Process
  <2>2. emitted' = Rp!Delivered(data_buffer_count)
    BY <2>1, SameRing, Sizes, Rp!FinishInOrder DEF Process, PipelineIInv
  <2> QED BY <2>1, <2>2 DEF Rp!Delivered, Rp!Zeros, Delivered, Zeros
<1>4. Slot(d) \in Messages
  BY SlotType
<1>5. d <= Current /\ Current < d + N_MSG_DATA
  BY <1>1, PackCounts, RingSizes DEF Positions
<1>6. CASE d = Current /\ i = cnt_buffer_out
  BY <1>1, <1>2, <1>3, <1>4, <1>6
<1>7. CASE d = Current /\ i # cnt_buffer_out
  <2>1. i < cnt_buffer_out
    BY <1>1, <1>7, PackCounts, RingSizes DEF Full, Positions
  <2>2. msg_bytes[Slot(d)][i] = Packed(Delivered(First(d) + i))
    BY <1>1, <1>3, <1>5, <2>1 DEF BytesInv, PackedPositions
  <2> QED BY <1>2, <1>4, <1>7, <2>2
<1>8. CASE d # Current
  <2>1. msg_bytes[Slot(d)][i] = Packed(Delivered(First(d) + i))
    BY <1>1, <1>3, <1>5, <1>8 DEF BytesInv, PackedPositions
  <2>2. Slot(d) # dws_n_msg
    BY <1>1, <1>5, <1>8, SlotsDiffer
  <2> QED BY <1>2, <1>4, <2>1, <2>2
<1> QED BY <1>6, <1>7, <1>8

LEMMA ProcessIInv == PipelineIInv /\ Process => PipelineIInv'
<1> SUFFICES ASSUME PipelineIInv, Process PROVE PipelineIInv'
  OBVIOUS
<1>1. Rp!IInv'
  BY RingStep DEF PipelineIInv, Process
<1>2. IInv'
  BY PackIInv DEF PipelineIInv, Process
<1>3. (transfers <= MaxBuffers)'
  BY DEF PipelineIInv, Process, Ring!DwsFinish, Ring!dmaVars
<1>4. BytesType'
  <2>1. emitted' \in Untorn \cup {Torn}
    BY RingFacts
    DEF PipelineIInv, Process, Ring!DwsFinish, Ring!Torn, Torn
  <2>2. Packed(emitted') \in PackedBuffers
    BY <2>1, PackedType
  <2>3. dws_n_msg \in Messages /\ cnt_buffer_out \in Positions
    BY DEF PipelineIInv, IInv, TypeOK
  <2>4. msg_bytes' \in [Messages -> [Positions -> PackedBuffers]]
    BY <2>2, <2>3 DEF PipelineIInv, Process, BytesType
  <2>5. late' \in BOOLEAN
    <3>1. late' = (late \/ ~Ring!KeepsUp \/ ~Ring!NoSlip)
      BY DEF Process
    <3>2. (late \/ ~Ring!KeepsUp \/ ~Ring!NoSlip) \in BOOLEAN
      OBVIOUS
    <3> QED BY <3>1, <3>2, Zenon
  <2>6. published_bytes' \in [Positions -> PackedBuffers]
    BY DEF PipelineIInv, Process, BytesType
  <2> QED BY <2>4, <2>5, <2>6 DEF BytesType
<1>5. BytesInv'
  BY ProcessBytes
<1> QED BY <1>1, <1>2, <1>3, <1>4, <1>5 DEF PipelineIInv

(* The sender and test_wifi do not change what was packed.                 *)
LEMMA NothingPacked ==
    ASSUME IInv,
           SendPend \/ SendPoll \/ PublishOk \/ PublishFail \/ TestWifi
    PROVE  /\ IInv'
           /\ Current' = Current
           /\ UNCHANGED <<cnt_buffer_out, data_buffer_count>>
<1>1. IInv'
  BY SendPendIInv, SendPollIInv, PublishIInv, TestWifiIInv
<1>2. Current' = Current
  BY DEF IInv, TypeOK, Current, Taken, SendPend, SendPoll, PublishOk,
         PublishFail, NextMessage, TestWifi, sendVars
<1>3. UNCHANGED <<cnt_buffer_out, data_buffer_count>>
  BY DEF SendPend, SendPoll, PublishOk, PublishFail, TestWifi, packVars
<1> QED BY <1>1, <1>2, <1>3

LEMMA SenderIInv == PipelineIInv /\ (Send \/ Publish \/ Test) => PipelineIInv'
<1> SUFFICES ASSUME PipelineIInv, Send \/ Publish \/ Test
             PROVE  PipelineIInv'
  OBVIOUS
<1>1. /\ IInv /\ UNCHANGED <<ringOnly, msg_bytes, late>>
      /\ SendPend \/ SendPoll \/ PublishOk \/ PublishFail \/ TestWifi
  BY DEF PipelineIInv, Send, Publish, Test, ownVars
<1>2. IInv' /\ Current' = Current /\ UNCHANGED <<cnt_buffer_out, data_buffer_count>>
  BY <1>1, NothingPacked
<1>3. Rp!IInv'
  BY <1>1, <1>2, RingIdle DEF PipelineIInv
<1>4. (transfers <= MaxBuffers)'
  BY <1>1 DEF PipelineIInv, ringOnly
<1>5. BytesType'
  <2>1. published_bytes' \in [Positions -> PackedBuffers]
    <3>1. CASE Publish
      BY <1>1, <3>1
      DEF PipelineIInv, IInv, TypeOK, BytesType, Publish
    <3>2. CASE Send \/ Test
      BY <3>2 DEF PipelineIInv, BytesType, Send, Test, ownVars
    <3> QED BY <3>1, <3>2
  <2> QED BY <1>1, <2>1 DEF PipelineIInv, BytesType
<1>6. BytesInv'
  BY <1>1, <1>2, BytesKept DEF PipelineIInv
<1> QED BY <1>2, <1>3, <1>4, <1>5, <1>6 DEF PipelineIInv

LEMMA NextPipelineIInv ==
    PipelineIInv /\ [PipelineNext]_pipelineVars => PipelineIInv'
<1> SUFFICES ASSUME PipelineIInv, [PipelineNext]_pipelineVars
             PROVE  PipelineIInv'
  OBVIOUS
<1>1. CASE Acquire
  BY <1>1, AcquireIInv
<1>2. CASE Process
  BY <1>2, ProcessIInv
<1>3. CASE Send \/ Publish \/ Test
  BY <1>3, SenderIInv
<1>4. CASE UNCHANGED pipelineVars
  <2>1. /\ UNCHANGED <<ringOnly, msgsOnly, ownVars>>
        /\ UNCHANGED data_buffer_count
    BY <1>4 DEF pipelineVars
  <2>2. Rp!IInv' /\ IInv'
    BY <2>1, RingIdle, MessagesIdle DEF PipelineIInv
  <2>3. BytesType' /\ (transfers <= MaxBuffers)'
    BY <2>1 DEF PipelineIInv, BytesType, ownVars, ringOnly
  <2>4. BytesInv'
    BY <2>1, BytesKept
    DEF PipelineIInv, ownVars, msgsOnly, sendVars, Current, Taken
  <2> QED BY <2>2, <2>3, <2>4 DEF PipelineIInv
<1> QED BY <1>1, <1>2, <1>3, <1>4 DEF PipelineNext
-----------------------------------------------------------------------------
(* The properties of the path.                                             *)

(* The invariants of the two rings and of the bytes hold together, for any *)
(* samples and sizes (empty.c:473-505, dws_user.c:72-170,                  *)
(* mqtt_user.c:895-965).                                                   *)
THEOREM PipelineInvariance == PipelineSpec => []PipelineIInv
BY InitPipelineIInv, NextPipelineIInv, PTL DEF PipelineSpec

(* Types: indices stay inside the rings, and what is packed are bytes,     *)
(* three for a group of sixteen samples (dws_user.c:113-169).              *)
THEOREM PipelineTypeCorrect == PipelineSpec => []PipelineTypeOK
<1>1. PipelineIInv => PipelineTypeOK
  BY SameRing
  DEF PipelineIInv, Rp!IInv, IInv, BytesType, PipelineTypeOK
<1> QED BY <1>1, PipelineInvariance, PTL

(* The promises of the message ring hold where it is fed by the            *)
(* acquisition ring (mqtt_user.c:895-965 against dws_user.c:149-163).      *)
THEOREM PipelineHoldsWholeMessage == PipelineSpec => []HoldsWholeMessage
<1>1. PipelineIInv => HoldsWholeMessage
  BY IInvHoldsWholeMessage DEF PipelineIInv
<1> QED BY <1>1, PipelineInvariance, PTL

(* In particular the two threads stay at different slots                   *)
(* (dws_user.c:157-163, mqtt_user.c:903).                                  *)
THEOREM PipelineSlotsApart == PipelineSpec => []SlotsApart
<1>1. PipelineIInv => SlotsApart
  BY IInvSlotsApart DEF PipelineIInv
<1> QED BY <1>1, PipelineInvariance, PTL

(* What the sender publishes was packed before: its positions are those of *)
(* transfers the samples of which are known.                               *)
LEMMA HeldIsKnown ==
    ASSUME PipelineIInv, snd_pc # "pend", KeepsUp, NEW i \in Positions
    PROVE  Delivered(First(msg_data_id) + i) \in Untorn
<1> DEFINE k == First(msg_data_id) + i
<1>1. /\ msg_data_id \in Nat /\ Current \in Nat /\ msg_data_id < Current
      /\ First(msg_data_id) \in Nat /\ First(Current) \in Nat
  BY HeldIsRecent, NextFirst DEF PipelineIInv
<1>2. First(Current) >= First(msg_data_id) + DATA_BUFFER_MAX
  <2>1. DATA_BUFFER_MAX * Current
          >= DATA_BUFFER_MAX * msg_data_id + DATA_BUFFER_MAX
    BY <1>1, Sizes, MultiplesApart
  <2>2. /\ DATA_BUFFER_MAX * Current = First(Current)
        /\ DATA_BUFFER_MAX * msg_data_id = First(msg_data_id)
    BY <1>1, Sizes DEF First
  <2> QED BY <2>1, <2>2
<1>3. /\ data_buffer_count = First(Current) + cnt_buffer_out
      /\ cnt_buffer_out \in Nat /\ i \in Nat /\ i < DATA_BUFFER_MAX
  BY Sizes DEF PipelineIInv, IInv, SlotInv, TypeOK, Positions
<1>4. k \in Nat /\ k < data_buffer_count
  BY <1>1, <1>2, <1>3, Sizes
<1>5. k < MaxBuffers
  BY <1>4, RingFacts, Sizes DEF PipelineIInv
<1> HIDE DEF k
<1>6. Delivered(k) \in Untorn
  BY <1>4, <1>5, Sizes DEF Delivered, Untorn
<1> QED BY <1>6 DEF k

(* End to end: from the bytes the broker takes with the number d, as long  *)
(* as both threads keep up, the recipient reads at every position i the    *)
(* averages of what the ADC converted for the (d * DATA_BUFFER_MAX + i)-th *)
(* buffer of the stream, whatever it converted (empty.c:473,               *)
(* dws_user.c:113-163, mqtt_user.c:949, print_user.c:63-70).               *)
THEOREM EndToEndHolds == PipelineSpec => EndToEnd
<1>1. ASSUME PipelineIInv, Publish, KeepsUp, ~late, NEW i \in Positions
      PROVE  Read(published_bytes'[i])
               = Means[Delivered(msg_data_id * DATA_BUFFER_MAX + i)]
  <2>1. snd_pc # "pend" /\ published_bytes' = msg_bytes[snd_n_msg]
    BY <1>1 DEF Publish, PublishOk
  <2>2. /\ msg_data_id \in Nat /\ snd_n_msg = Slot(msg_data_id)
        /\ msg_data_id < Current /\ Current < msg_data_id + N_MSG_DATA
        /\ Current \in Nat
    BY <1>1, <2>1, HeldIsRecent DEF PipelineIInv
  <2>3. i \in PackedPositions(msg_data_id) /\ msg_data_id <= Current
    BY <1>1, <2>2 DEF PackedPositions
  <2>4. msg_bytes[Slot(msg_data_id)][i]
          = Packed(Delivered(First(msg_data_id) + i))
    BY <1>1, <2>2, <2>3 DEF PipelineIInv, BytesInv
  <2>5. Delivered(First(msg_data_id) + i) \in Untorn
    BY <1>1, <2>1, HeldIsKnown
  <2>6. Read(Packed(Delivered(First(msg_data_id) + i)))
          = Means[Delivered(First(msg_data_id) + i)]
    BY <2>5, ReadMeans
  <2> QED BY <2>1, <2>2, <2>4, <2>6 DEF First
<1>2. PipelineIInv /\ [PipelineNext]_pipelineVars =>
        [Publish /\ KeepsUp /\ ~late =>
            \A i \in Positions :
                Read(published_bytes'[i]) =
                    Means[Delivered(msg_data_id * DATA_BUFFER_MAX + i)]
        ]_pipelineVars
  BY <1>1
<1> QED BY <1>2, PipelineInvariance, PTL DEF PipelineSpec, EndToEnd
=============================================================================
