------------------------------ MODULE TimeSync ------------------------------
(***************************************************************************)
(* Time synchronisation.  Every SECONDS_TO_NTP_SYNC seconds thread         *)
(* softtimer asks an SNTP server for the time, resets the real-time clock, *)
(* stores the server's time in sntp_time and raises status_time_sync.      *)
(* thread_downsampling, at the next buffer it processes, adds the clock to *)
(* the stored time and remembers the result together with the number of    *)
(* that buffer; both go into the header of every message it packs.         *)
(*                                                                         *)
(* Time is counted in buffers: buffer k is full at instant k + 1.  The     *)
(* server's time at instant t is TimeAt(t); 0 is what sntp_get_time        *)
(* returns if the server did not answer.  The two threads have the same    *)
(* priority: each action is a stretch between blocking calls.              *)
(***************************************************************************)
EXTENDS Integers

CONSTANTS
    SyncPeriod,  \* instants between two synchronisations (1800 s)
    SyncTime,    \* instants a synchronisation takes at most (5 s time-out)
    MaxLag,      \* how far thread_downsampling may be behind
    MaxNow       \* bound of the model

ASSUME TimeSyncAssumption ==
    /\ SyncPeriod \in Nat /\ SyncTime \in Nat /\ MaxLag \in Nat
    /\ MaxNow \in Nat
    /\ SyncTime + MaxLag + 1 < SyncPeriod

VARIABLES
    now,                \* instants since the first sample
    data_buffer_count,  \* number of the buffer processed next
    st_pc,              \* softtimer: "pend", "sntp" or "log"
    syncs,              \* synchronisations begun
    sync_due,           \* when the current or last one was due
    synchro_time,       \* softtimer's copy of the server's time
    rtc_reset_at,       \* when the real-time clock was set to zero
    sntp_time,          \* shared: the server's time
    status_time_sync,   \* shared: a synchronisation waits to be used
    data_buffer_sync,   \* header: buffer of the last synchronisation ...
    time_synchro_us     \* ... and the time that belongs to it

timerVars == <<st_pc, syncs, sync_due, synchro_time>>
headerVars == <<data_buffer_sync, time_synchro_us>>
vars == <<now, data_buffer_count, timerVars, rtc_reset_at, sntp_time,
          status_time_sync, headerVars>>

TimeAt(t) == t + 1
NoAnswer == 0
NoTime  == 0    \* time_synchro_us before the first synchronisation
Invalid == -1   \* NoAnswer, less the epoch, plus the clock
-----------------------------------------------------------------------------
Init ==
    /\ now = 0
    /\ data_buffer_count = 0
    /\ st_pc = "pend" /\ syncs = 0 /\ sync_due = 0
    /\ synchro_time = NoAnswer
    /\ rtc_reset_at = 0
    /\ sntp_time = 0
    /\ status_time_sync = FALSE
    /\ data_buffer_sync = 0
    /\ time_synchro_us = NoTime

(* Time passes.  thread_downsampling keeps up and a synchronisation comes  *)
(* to its end within the bounds above.                                     *)
Tick ==
    /\ now < MaxNow
    /\ now - data_buffer_count <= MaxLag
    /\ IF st_pc = "pend" THEN now < syncs * SyncPeriod + SyncTime
                         ELSE now < sync_due + SyncTime
    /\ now' = now + 1
    /\ UNCHANGED <<data_buffer_count, timerVars, rtc_reset_at, sntp_time,
                   status_time_sync, headerVars>>

(* The softtimer's semaphore is posted every second, the thread counts the *)
(* posts, and one in SECONDS_TO_NTP_SYNC of them starts a synchronisation. *)
SyncBegin ==
    /\ st_pc = "pend"
    /\ now >= syncs * SyncPeriod
    /\ st_pc' = "sntp"
    /\ sync_due' = syncs * SyncPeriod
    /\ syncs' = syncs + 1
    /\ UNCHANGED <<now, data_buffer_count, synchro_time, rtc_reset_at,
                   sntp_time, status_time_sync, headerVars>>

(* SNTP_getTimeByAddr returns; the clock is set to zero in either case.    *)
ClockUnset == rtc_reset_at
ClockSet == now

SntpDone(answer) ==
    /\ st_pc = "sntp"
    /\ synchro_time' = answer
    /\ rtc_reset_at' = ClockSet
    /\ st_pc' = "log"
    /\ UNCHANGED <<now, data_buffer_count, syncs, sync_due, sntp_time,
                   status_time_sync, headerVars>>

SntpAnswers == SntpDone(TimeAt(now))
SntpFails   == SntpDone(NoAnswer)

(* The thread has written its log line and hands the time over.            *)
StatusUnraised == status_time_sync
StatusRaised == TRUE

Publish ==
    /\ st_pc = "log"
    /\ sntp_time' = synchro_time
    /\ status_time_sync' = StatusRaised
    /\ st_pc' = "pend"
    /\ UNCHANGED <<now, data_buffer_count, syncs, sync_due, synchro_time,
                   rtc_reset_at, headerVars>>

(* The time of the buffer that uses the synchronisation.                   *)
Corrected == IF sntp_time = NoAnswer THEN Invalid
             ELSE sntp_time + (now - rtc_reset_at)

StatusKept == status_time_sync
StatusCleared == FALSE

SyncedBufferBefore == data_buffer_count - 1
SyncedBuffer == data_buffer_count

(* One buffer is processed.                                                *)
DwsBuffer ==
    /\ data_buffer_count < now
    /\ IF status_time_sync
          THEN /\ time_synchro_us' = Corrected
               /\ data_buffer_sync' = SyncedBuffer
               /\ status_time_sync' = StatusCleared
          ELSE UNCHANGED <<headerVars, status_time_sync>>
    /\ data_buffer_count' = data_buffer_count + 1
    /\ UNCHANGED <<now, timerVars, rtc_reset_at, sntp_time>>

(* The model's bound.                                                      *)
Ended ==
    /\ now = MaxNow /\ data_buffer_count = now
    /\ st_pc = "pend" /\ now < syncs * SyncPeriod
    /\ UNCHANGED vars

Next ==
    \/ Tick \/ SyncBegin \/ SntpAnswers \/ SntpFails \/ Publish
    \/ DwsBuffer \/ Ended

Fairness ==
    /\ WF_vars(Tick) /\ WF_vars(SyncBegin) /\ WF_vars(SntpAnswers \/ SntpFails)
    /\ WF_vars(Publish) /\ WF_vars(DwsBuffer)

Spec == Init /\ [][Next]_vars
FairSpec == Spec /\ Fairness
-----------------------------------------------------------------------------
TypeOK ==
    /\ now \in Nat /\ data_buffer_count \in Nat /\ syncs \in Nat
    /\ st_pc \in {"pend", "sntp", "log"}
    /\ sync_due \in Nat
    /\ synchro_time \in Nat /\ sntp_time \in Nat
    /\ rtc_reset_at \in Nat
    /\ status_time_sync \in BOOLEAN
    /\ data_buffer_sync \in Nat
    /\ time_synchro_us \in Nat \cup {Invalid}

(* Safety: the two header fields belong together: the time is the one at   *)
(* which that buffer was processed, so it is at most MaxLag later than the *)
(* buffer was full, although the clock is reset before the time is stored  *)
(* (empty.c:537-540 against dws_user.c:84-109).                            *)
HeaderPairs ==
    time_synchro_us \notin {NoTime, Invalid} =>
        time_synchro_us \in TimeAt(data_buffer_sync + 1) ..
                            TimeAt(data_buffer_sync + 1 + MaxLag)

(* Action property: a synchronisation is used once, by a buffer after the  *)
(* one that used the last, and times only increase (dws_user.c:86-106).    *)
PairsAdvance ==
    [][headerVars' # headerVars =>
        /\ status_time_sync
        /\ data_buffer_sync' > data_buffer_sync \/ time_synchro_us = NoTime
        /\ time_synchro_us' = Invalid \/ time_synchro_us' > time_synchro_us]_vars

(* Liveness: each time the server answers with reaches the header.         *)
(* (empty.c:539-540, dws_user.c:86-109).                                   *)
AnswersUsed ==
    \A t \in 1 .. MaxNow :
        st_pc = "log" /\ synchro_time = t ~> time_synchro_us \in t .. MaxNow + 1

(* What the comment of sntp_get_time says (empty.c:548-550): "This         *)
(* function obtains the time in seconds elapsed since January 1, 1900.     *)
(* For this purpose it synchronizes with an NTP server via the established *)
(* connection."                                                            *)
HeaderTimeValid == time_synchro_us # Invalid
=============================================================================
