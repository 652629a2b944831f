--------------------------- MODULE TimeSync_proofs ---------------------------
(***************************************************************************)
(* Proofs about the time synchronisation, for every period, every duration *)
(* of a synchronisation and every lag of thread_downsampling that leave a  *)
(* margin in the period (TimeSyncAssumption).                              *)
(*                                                                         *)
(* The argument: a synchronisation that waits to be used is used by the    *)
(* next buffer, at most MaxLag + 1 instants after it was handed over, and  *)
(* that is before the next one is due.  So the clock is never reset        *)
(* between the storing of a time and its use, and the time used counts     *)
(* from the reset that belongs to it.                                      *)
(***************************************************************************)
EXTENDS TimeSync, TLAPS

(* When the next synchronisation is due.                                   *)
Due == syncs * SyncPeriod

(* thread_downsampling is at most MaxLag behind when time passes.          *)
LagInv == data_buffer_count <= now /\ now <= data_buffer_count + MaxLag + 1

(* A synchronisation begins when it is due and takes SyncTime at most.     *)
DueInv ==
    /\ syncs = 0 \/ Due = sync_due + SyncPeriod
    /\ st_pc = "pend" => now <= Due + SyncTime
    /\ st_pc # "pend" => /\ syncs # 0
                         /\ sync_due <= now /\ now <= sync_due + SyncTime

(* One that waits to be used was handed over in time, and softtimer has    *)
(* not begun the next.                                                     *)
WaitingInv ==
    status_time_sync =>
        /\ st_pc = "pend" /\ syncs # 0
        /\ data_buffer_count <= sync_due + SyncTime
        /\ sync_due <= now

(* A time that is handed over counts from the last reset of the clock.     *)
ClockInv ==
    /\ rtc_reset_at <= now
    /\ st_pc = "log" => synchro_time \in {NoAnswer, TimeAt(rtc_reset_at)}
    /\ status_time_sync => sntp_time \in {NoAnswer, TimeAt(rtc_reset_at)}

(* The header is older than the synchronisation that comes next.           *)
HeaderInv ==
    /\ time_synchro_us = NoTime \/ data_buffer_sync < data_buffer_count
    /\ st_pc = "pend" => time_synchro_us <= Due
    /\ st_pc # "pend" \/ status_time_sync => time_synchro_us <= sync_due

(* The inductive invariant.                                                *)
IInv == /\ TypeOK /\ LagInv /\ DueInv /\ WaitingInv /\ ClockInv /\ HeaderInv
        /\ HeaderPairs
------------------------------------------------------------------------------
(* Due counts in whole periods.                                            *)
LEMMA DueType ==
    ASSUME TypeOK
    PROVE  Due \in Nat
BY TimeSyncAssumption DEF TypeOK, Due

LEMMA DueMoves ==
    ASSUME TypeOK, syncs' = syncs + 1
    PROVE  Due' = Due + SyncPeriod
BY TimeSyncAssumption DEF TypeOK, Due

LEMMA InitIInv == Init => IInv
<1> SUFFICES ASSUME Init PROVE IInv
  OBVIOUS
<1>1. TypeOK
  BY DEF Init, TypeOK, NoAnswer, NoTime, Invalid
<1>2. Due = 0
  BY TimeSyncAssumption DEF Init, Due
<1>3. LagInv /\ DueInv /\ WaitingInv
  BY <1>2, TimeSyncAssumption DEF Init, LagInv, DueInv, WaitingInv
<1>4. ClockInv /\ HeaderInv /\ HeaderPairs
  BY <1>2 DEF Init, ClockInv, HeaderInv, HeaderPairs, NoTime
<1> QED BY <1>1, <1>3, <1>4 DEF IInv

(* Time passes only as far as the bounds of the two threads allow.         *)
LEMMA TickIInv == IInv /\ Tick => IInv'
<1> SUFFICES ASSUME IInv, Tick PROVE IInv'
  OBVIOUS
<1>1. /\ Due \in Nat /\ Due' = Due
      /\ st_pc = "pend" => now < Due + SyncTime
      /\ st_pc # "pend" => now < sync_due + SyncTime
  BY DueType DEF IInv, Tick, timerVars, Due
<1> USE <1>1, TimeSyncAssumption
    DEF IInv, TypeOK, Tick, timerVars, headerVars, Invalid, NoTime, NoAnswer
<1>2. TypeOK' /\ LagInv'
  BY DEF LagInv
<1>3. DueInv' /\ WaitingInv'
  BY DEF DueInv, WaitingInv
<1>4. ClockInv' /\ HeaderInv'
  BY DEF ClockInv, HeaderInv, TimeAt
<1>5. HeaderPairs'
  BY DEF HeaderPairs, TimeAt
<1> QED BY <1>2, <1>3, <1>4, <1>5

(* When a synchronisation begins, the last one has been used: its buffer   *)
(* is behind, and thread_downsampling keeps up.                            *)
LEMMA SyncBeginIInv == IInv /\ SyncBegin => IInv'
<1> SUFFICES ASSUME IInv, SyncBegin PROVE IInv'
  OBVIOUS
<1>1. /\ Due \in Nat /\ Due' = Due + SyncPeriod
      /\ now >= Due /\ sync_due' = Due
  BY DueType, DueMoves DEF IInv, SyncBegin, Due
<1> USE <1>1, TimeSyncAssumption
    DEF IInv, TypeOK, SyncBegin, headerVars, Invalid, NoTime, NoAnswer
<1>2. ~status_time_sync
  BY DEF LagInv, DueInv, WaitingInv
<1>3. TypeOK' /\ LagInv'
  BY DEF LagInv
<1>4. DueInv' /\ WaitingInv'
  BY <1>2 DEF DueInv, WaitingInv
<1>5. ClockInv' /\ HeaderInv'
  BY <1>2 DEF ClockInv, HeaderInv, TimeAt
<1>6. HeaderPairs'
  BY DEF HeaderPairs, TimeAt
<1> QED BY <1>3, <1>4, <1>5, <1>6

(* Nothing waits while softtimer asks, so the clock may be reset.          *)
LEMMA SntpIInv == IInv /\ (SntpAnswers \/ SntpFails) => IInv'
<1> SUFFICES ASSUME IInv,
                    NEW answer \in {TimeAt(now), NoAnswer}, SntpDone(answer)
             PROVE  IInv'
  BY DEF SntpAnswers, SntpFails
<1>1. Due' = Due /\ Due \in Nat
  BY DueType DEF IInv, SntpDone, Due
<1> USE <1>1, TimeSyncAssumption
    DEF IInv, TypeOK, SntpDone, ClockSet, headerVars, Invalid, NoTime,
        NoAnswer, TimeAt
<1>2. ~status_time_sync
  BY DEF WaitingInv
<1>3. TypeOK' /\ LagInv'
  BY DEF LagInv
<1>4. DueInv' /\ WaitingInv'
  BY <1>2 DEF DueInv, WaitingInv
<1>5. ClockInv' /\ HeaderInv'
  BY <1>2 DEF ClockInv, HeaderInv
<1>6. HeaderPairs'
  BY DEF HeaderPairs
<1> QED BY <1>3, <1>4, <1>5, <1>6

LEMMA PublishIInv == IInv /\ Publish => IInv'
<1> SUFFICES ASSUME IInv, Publish PROVE IInv'
  OBVIOUS
<1>1. Due' = Due /\ Due \in Nat
  BY DueType DEF IInv, Publish, Due
<1> USE <1>1, TimeSyncAssumption
    DEF IInv, TypeOK, Publish, StatusRaised, headerVars, Invalid, NoTime,
        NoAnswer, TimeAt
<1>2. TypeOK' /\ LagInv'
  BY DEF LagInv
<1>3. DueInv' /\ WaitingInv'
  BY DEF DueInv, LagInv, WaitingInv
<1>4. ClockInv' /\ HeaderInv'
  BY DEF DueInv, ClockInv, HeaderInv
<1>5. HeaderPairs'
  BY DEF HeaderPairs
<1> QED BY <1>2, <1>3, <1>4, <1>5

(* The time a buffer takes is the time at which it is processed.           *)
LEMMA CorrectedIsNow ==
    ASSUME IInv, status_time_sync
    PROVE  Corrected = Invalid \/ Corrected = TimeAt(now)
BY DEF IInv, TypeOK, ClockInv, Corrected, NoAnswer, TimeAt

LEMMA DwsBufferIInv == IInv /\ DwsBuffer => IInv'
<1> SUFFICES ASSUME IInv, DwsBuffer PROVE IInv'
  OBVIOUS
<1>1. Due' = Due /\ Due \in Nat
  BY DueType DEF IInv, DwsBuffer, timerVars, Due
<1> USE <1>1, TimeSyncAssumption
    DEF IInv, TypeOK, DwsBuffer, StatusCleared, SyncedBuffer, timerVars,
        headerVars, Invalid, NoTime, NoAnswer, TimeAt
<1>2. LagInv' /\ DueInv'
  BY DEF LagInv, DueInv
<1>3. WaitingInv' /\ ClockInv'
  BY DEF WaitingInv, ClockInv
<1>4. CASE status_time_sync
  <2>1. /\ time_synchro_us' \in {Invalid, TimeAt(now)}
        /\ data_buffer_sync' = data_buffer_count /\ ~status_time_sync'
    BY <1>4, CorrectedIsNow
  <2>2. st_pc' = "pend" /\ now + 1 <= Due
    BY <1>4 DEF LagInv, DueInv, WaitingInv
  <2>3. HeaderInv'
    BY <2>1, <2>2 DEF HeaderInv
  <2>4. HeaderPairs'
    BY <2>1 DEF HeaderPairs, LagInv
  <2>5. TypeOK'
    <3>1. time_synchro_us' \in Nat \cup {Invalid}
      BY <2>1
    <3>2. data_buffer_sync' \in Nat /\ status_time_sync' \in BOOLEAN
      BY <1>4
    <3>3. UNCHANGED <<now, timerVars, rtc_reset_at, sntp_time>>
      OBVIOUS
    <3> QED BY ONLY <3>1, <3>2, <3>3, IInv, DwsBuffer
            DEF IInv, TypeOK, DwsBuffer, timerVars
  <2> QED BY <1>2, <1>3, <2>3, <2>4, <2>5
<1>5. CASE ~status_time_sync
  BY <1>2, <1>3, <1>5 DEF HeaderInv, HeaderPairs
<1> QED BY <1>4, <1>5

LEMMA NextIInv == IInv /\ [Next]_vars => IInv'
<1> SUFFICES ASSUME IInv, UNCHANGED vars PROVE IInv'
  BY TickIInv, SyncBeginIInv, SntpIInv, PublishIInv, DwsBufferIInv
     DEF Next, Ended
<1>1. TypeOK' /\ LagInv' /\ DueInv' /\ WaitingInv'
  BY DEF IInv, TypeOK, LagInv, DueInv, WaitingInv, Due, vars, timerVars,
         headerVars
<1>2. ClockInv' /\ HeaderInv' /\ HeaderPairs'
  BY DEF IInv, ClockInv, HeaderInv, HeaderPairs, Due, vars, timerVars,
         headerVars
<1> QED BY <1>1, <1>2 DEF IInv
------------------------------------------------------------------------------
(* A synchronisation that waits is used before softtimer begins the next   *)
(* one, and the time stored counts from the last reset of the clock        *)
(* (empty.c:514-545 against dws_user.c:84-109).                            *)
THEOREM Invariance == Spec => []IInv
BY InitIInv, NextIInv, PTL DEF Spec

(* Types: the threads' counters and times stay natural numbers, the time   *)
(* of the header but for the one that no answer of the server leaves       *)
(* (empty.c:514-545, dws_user.c:84-109).                                   *)
THEOREM TypeCorrect == Spec => []TypeOK
<1>1. IInv => TypeOK
  BY DEF IInv
<1> QED BY <1>1, Invariance, PTL

(* The two header fields belong together, whatever the period and the lag: *)
(* the time is the one at which that buffer was processed                  *)
(* (empty.c:537-540 against dws_user.c:84-109).                            *)
THEOREM HeaderPairsHolds == Spec => []HeaderPairs
<1>1. IInv => HeaderPairs
  BY DEF IInv
<1> QED BY <1>1, Invariance, PTL

(* A synchronisation is used once, by a later buffer and with a later time *)
(* than the one before (dws_user.c:86-106).                                *)
THEOREM PairsAdvanceHolds == Spec => PairsAdvance
<1>1. IInv /\ [Next]_vars =>
        [headerVars' # headerVars =>
            /\ status_time_sync
            /\ data_buffer_sync' > data_buffer_sync \/ time_synchro_us = NoTime
            /\ \/ time_synchro_us' = Invalid
               \/ time_synchro_us' > time_synchro_us]_vars
  <2> SUFFICES ASSUME IInv, [Next]_vars, headerVars' # headerVars
               PROVE  /\ status_time_sync
                      /\ \/ data_buffer_sync' > data_buffer_sync
                         \/ time_synchro_us = NoTime
                      /\ \/ time_synchro_us' = Invalid
                         \/ time_synchro_us' > time_synchro_us
    OBVIOUS
  <2>1. DwsBuffer
    BY DEF Next, Tick, SyncBegin, SntpAnswers, SntpFails, SntpDone, Publish,
           Ended, vars
  <2>2. /\ status_time_sync /\ time_synchro_us' = Corrected
        /\ data_buffer_sync' = data_buffer_count
    BY <2>1 DEF DwsBuffer, SyncedBuffer
  <2>3. time_synchro_us' \in {Invalid, now + 1} /\ now \in Nat
    BY <2>2, CorrectedIsNow DEF IInv, TypeOK, TimeAt
  <2>4. time_synchro_us < now + 1
    BY <2>2 DEF IInv, TypeOK, HeaderInv, WaitingInv, Invalid
  <2>5. data_buffer_sync' > data_buffer_sync \/ time_synchro_us = NoTime
    BY <2>2 DEF IInv, TypeOK, HeaderInv
  <2> QED BY <2>2, <2>3, <2>4, <2>5
<1> QED BY <1>1, Invariance, PTL DEF Spec, PairsAdvance
=============================================================================
