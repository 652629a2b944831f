----------------------------- MODULE MessageRing -----------------------------
(***************************************************************************)
(* The message ring: thread_downsampling packs DATA_BUFFER_MAX processed   *)
(* buffers into one message of msg_data[N_MSG_DATA] and posts              *)
(* send_data_semaphore; thread send_data takes one message per post, waits *)
(* until test_wifi allows sending, and publishes it.  As in the ring of    *)
(* buffers nothing stops the packing thread from overwriting a message     *)
(* that still waits: an outage of the network is survived only up to the   *)
(* length of the ring.                                                     *)
(*                                                                         *)
(* The samples are left out here: a message is its data_id and the buffer  *)
(* ids at its positions.  Module Pipeline adds the samples and checks the  *)
(* properties below.                                                       *)
(*                                                                         *)
(* Both threads have the same priority and SYS/BIOS does not slice time,   *)
(* so a thread runs without the other from one blocking call to the next;  *)
(* the steps below are these stretches.                                    *)
(***************************************************************************)
EXTENDS Integers

CONSTANTS
    N_MSG_DATA,        \* messages of the ring (10)
    DATA_BUFFER_MAX,   \* buffers of a message (78)
    MaxBuffers         \* bound of the model: buffers packed

ASSUME MessageRingAssumption ==
    /\ N_MSG_DATA \in Nat /\ N_MSG_DATA >= 2
    /\ DATA_BUFFER_MAX \in Nat /\ DATA_BUFFER_MAX >= 1
    /\ MaxBuffers \in Nat

VARIABLES
    data_buffer_count,    \* buffers packed, the id of the next one
    cnt_buffer_out,       \* position of the next buffer in its message
    dws_n_msg,            \* message that is being packed
    msg_data,             \* the ring of messages
    send_data_semaphore,  \* packed messages the sender has not taken
    snd_pc,               \* send_data: "pend", "poll" or "publish"
    snd_n_msg,            \* message the sender handles (next)
    msg_data_id,          \* number of that message
    send_data_status,     \* "start" or "stop", written by test_wifi
    published             \* the message the broker took last

packVars == <<data_buffer_count, cnt_buffer_out, dws_n_msg>>
sendVars == <<snd_pc, snd_n_msg, msg_data_id, published>>
vars == <<packVars, msg_data, send_data_semaphore, sendVars, send_data_status>>

Messages  == 0 .. N_MSG_DATA - 1
Positions == 0 .. DATA_BUFFER_MAX - 1
NoId == -1

Blank == [data_id |-> NoId, ids |-> [i \in Positions |-> NoId]]
-----------------------------------------------------------------------------
Init ==
    /\ data_buffer_count = 0
    /\ cnt_buffer_out = 0
    /\ dws_n_msg = 0
    /\ msg_data = [m \in Messages |-> Blank]
    /\ send_data_semaphore = 0
    /\ snd_pc = "pend"
    /\ snd_n_msg = 0
    /\ msg_data_id = 0
    /\ send_data_status = "stop"
    /\ published = Blank

Advance(m) == (m + 1) % N_MSG_DATA

FullLate == cnt_buffer_out = DATA_BUFFER_MAX
Full == cnt_buffer_out + 1 = DATA_BUFFER_MAX

PostBinary(semaphore) == 1
Post(semaphore) == semaphore + 1

(* One buffer goes into the message; the last one completes it.            *)
Pack ==
    /\ msg_data' = [msg_data EXCEPT
                        ![dws_n_msg].ids[cnt_buffer_out] = data_buffer_count]
    /\ data_buffer_count' = data_buffer_count + 1
    /\ IF Full
          THEN /\ cnt_buffer_out' = 0
               /\ dws_n_msg' = Advance(dws_n_msg)
               /\ send_data_semaphore' = Post(send_data_semaphore)
          ELSE /\ cnt_buffer_out' = cnt_buffer_out + 1
               /\ UNCHANGED <<dws_n_msg, send_data_semaphore>>
    /\ UNCHANGED <<sendVars, send_data_status>>

(* The sender takes a message and fills in its header.                     *)
SendPend ==
    /\ snd_pc = "pend"
    /\ send_data_semaphore > 0
    /\ send_data_semaphore' = send_data_semaphore - 1
    /\ msg_data' = [msg_data EXCEPT ![snd_n_msg].data_id = msg_data_id]
    /\ snd_pc' = "poll"
    /\ UNCHANGED <<packVars, snd_n_msg, msg_data_id, published,
                   send_data_status>>

(* It polls the status, sleeping a millisecond after every look, the last  *)
(* one included: when it goes on to publish, the status may be old.        *)
SendPoll ==
    /\ snd_pc = "poll"
    /\ send_data_status = "start"
    /\ snd_pc' = "publish"
    /\ UNCHANGED <<packVars, msg_data, send_data_semaphore, snd_n_msg,
                   msg_data_id, published, send_data_status>>

(* What the sender does after mqtt_publish, whether it succeeded or not.   *)
NextMessageOnlyOnSuccess ==
    /\ IF published' = published THEN UNCHANGED msg_data_id
                                 ELSE msg_data_id' = msg_data_id + 1
    /\ snd_n_msg' = Advance(snd_n_msg)
NextMessage ==
    /\ msg_data_id' = msg_data_id + 1
    /\ snd_n_msg' = Advance(snd_n_msg)

(* mqtt_publish has read the message from the ring, at the latest when it  *)
(* returns, and the broker has it.                                         *)
PublishOk ==
    /\ snd_pc = "publish"
    /\ published' = msg_data[snd_n_msg]
    /\ NextMessage
    /\ snd_pc' = "pend"
    /\ UNCHANGED <<packVars, msg_data, send_data_semaphore, send_data_status>>

(* mqtt_publish fails: the message is given up.                            *)
PublishFail ==
    /\ snd_pc = "publish"
    /\ UNCHANGED published
    /\ NextMessage
    /\ snd_pc' = "pend"
    /\ UNCHANGED <<packVars, msg_data, send_data_semaphore, send_data_status>>

(* The thread test_wifi, from its side of the shared variable.             *)
TestWifi ==
    /\ send_data_status' = IF send_data_status = "start" THEN "stop" ELSE "start"
    /\ UNCHANGED <<packVars, msg_data, send_data_semaphore, sendVars>>

Next ==
    \/ data_buffer_count < MaxBuffers /\ Pack
    \/ SendPend \/ SendPoll \/ PublishOk \/ PublishFail
    \/ TestWifi

Spec == Init /\ [][Next]_vars
-----------------------------------------------------------------------------
Message == [data_id : Nat \cup {NoId}, ids : [Positions -> Nat \cup {NoId}]]

TypeOK ==
    /\ data_buffer_count \in Nat
    /\ cnt_buffer_out \in Positions
    /\ dws_n_msg \in Messages
    /\ msg_data \in [Messages -> Message]
    /\ send_data_semaphore \in Nat
    /\ snd_pc \in {"pend", "poll", "publish"}
    /\ snd_n_msg \in Messages
    /\ msg_data_id \in Nat
    /\ send_data_status \in {"start", "stop"}
    /\ published \in Message

(* The message of number d as it should be: DATA_BUFFER_MAX buffers with   *)
(* consecutive ids.                                                        *)
Whole(d) == [data_id |-> d,
             ids |-> [i \in Positions |-> d * DATA_BUFFER_MAX + i]]

(* The sender is not so late that its message is packed anew.              *)
KeepsUp == send_data_semaphore <= N_MSG_DATA - 2

(* Safety: while the sender holds message msg_data_id and at most          *)
(* N_MSG_DATA - 2 others wait, its slot holds the whole message of that    *)
(* number, however often earlier publications failed or the status changed *)
(* (mqtt_user.c:895-965 against dws_user.c:149-163).                       *)
HoldsWholeMessage ==
    snd_pc # "pend" /\ KeepsUp => msg_data[snd_n_msg] = Whole(msg_data_id)

(* Safety: the packing thread is never at the slot the sender holds, with  *)
(* the same condition (dws_user.c:157-163, mqtt_user.c:903).               *)
SlotsApart ==
    snd_pc # "pend" /\ KeepsUp => dws_n_msg # snd_n_msg
=============================================================================
