---------------------------- MODULE Device_proofs ----------------------------
(***************************************************************************)
(* Proofs about the device, for every set of devices, every period of the  *)
(* watchdog and every number of failures: the types, and that a device     *)
(* that measures has its own identity.                                     *)
(*                                                                         *)
(* The argument: the MAC address is known exactly from ask_for_id on;      *)
(* before that no answer is taken, after that only the device's own, and   *)
(* ask_for_id ends only when the default identity has been replaced.       *)
(***************************************************************************)
EXTENDS Device, TLAPS

(* What each point of mainThread knows.                                    *)
BootInv ==
    /\ mac_known <=> main \in {"ask", "sleep", "measure"}
    /\ ~mac_known => id_device = NoId
    /\ mac_known => id_device \in {DefaultId, Self}
    /\ main = "measure" <=> watchdog # Closed
    /\ main = "measure" <=> snd # "none"

(* The inductive invariant.                                                *)
IInv == TypeOK /\ BootInv /\ OwnIdentity

LEMMA InitIInv == Init => IInv
<1> SUFFICES ASSUME Init PROVE IInv
  OBVIOUS
<1> USE DeviceAssumption DEF Init, NoId, DefaultId, Closed
<1>1. TypeOK
  <2>1. 0 \in 0 .. MaxDisturbances /\ {} \subseteq Devices
    OBVIOUS
  <2> QED BY <2>1 DEF TypeOK, Sessions
<1>2. BootInv /\ OwnIdentity
  BY DEF BootInv, OwnIdentity
<1> QED BY <1>1, <1>2 DEF IInv

(* The environment, and what the threads do while the device measures,     *)
(* leave identity and boot alone.                                          *)
LEMMA NetworkIInv ==
    IInv /\ (LinkComes \/ LinkGoes \/ SessionOpens \/ SessionBreaks \/ Server)
      => IInv'
<1> SUFFICES ASSUME IInv,
                    LinkComes \/ LinkGoes \/ SessionOpens \/ SessionBreaks
                      \/ Server
             PROVE  IInv'
  OBVIOUS
<1> USE DeviceAssumption
    DEF IInv, TypeOK, BootInv, OwnIdentity, Sessions, Closed, NoId, DefaultId,
        chanVars, netVars, idVars, sndVars, testVars
<1>1. CASE LinkComes
  BY <1>1 DEF LinkComes
<1>2. CASE LinkGoes
  <2>1. /\ main' = main \/ (main = "wifi" /\ main' = "stuck")
        /\ test' \in {test, "reconnects", "stuck"}
        /\ link' = FALSE /\ disturbances' \in 0 .. MaxDisturbances
    BY <1>2 DEF LinkGoes, Disturbs
  <2>2. UNCHANGED <<session, asked, answers, mqtt_connected, id_device,
                    mac_known, send_data_status, snd, send_data_semaphore,
                    watchdog>>
    BY <1>2 DEF LinkGoes
  <2>3. /\ link' \in BOOLEAN /\ session' \in Sessions
        /\ disturbances' \in 0 .. MaxDisturbances
        /\ asked' \in BOOLEAN /\ answers' \subseteq Devices
    BY <2>1, <2>2
  <2>4. main' \in {"wifi", "stuck", "connect", "wait_connected", "ask",
                  "sleep", "measure"}
    BY <2>1
  <2>5. /\ mqtt_connected' \in BOOLEAN
        /\ id_device' \in Devices \cup {DefaultId, NoId}
        /\ mac_known' \in BOOLEAN
        /\ test' \in {"none", "polls", "reconnects", "stuck"}
    BY <2>1, <2>2
  <2>6. /\ send_data_status' \in {"start", "stop"}
        /\ snd' \in {"none", "pend", "poll", "publish"}
        /\ send_data_semaphore' \in Nat
        /\ watchdog' \in {Closed} \cup 0 .. WatchdogPeriod
    BY <2>1, <2>2
  <2>7. BootInv' /\ OwnIdentity'
    BY <2>1, <2>2
  <2> QED BY <2>3, <2>4, <2>5, <2>6, <2>7
<1>3. CASE SessionOpens
  BY <1>3 DEF SessionOpens
<1>4. CASE SessionBreaks
  <2>1. disturbances' \in 0 .. MaxDisturbances
    BY <1>4 DEF SessionBreaks, Disturbs
  <2>2. /\ session' = "lost" /\ mqtt_connected' = FALSE
        /\ UNCHANGED <<link, asked, answers, main, id_device, mac_known,
                       test, send_data_status, snd, send_data_semaphore,
                       watchdog>>
    BY <1>4 DEF SessionBreaks
  <2>3. /\ link' \in BOOLEAN /\ session' \in Sessions
        /\ disturbances' \in 0 .. MaxDisturbances
        /\ asked' \in BOOLEAN /\ answers' \subseteq Devices
        /\ main' \in {"wifi", "stuck", "connect", "wait_connected", "ask",
                      "sleep", "measure"}
    BY <2>1, <2>2
  <2>4. /\ mqtt_connected' \in BOOLEAN
        /\ id_device' \in Devices \cup {DefaultId, NoId}
        /\ mac_known' \in BOOLEAN
        /\ test' \in {"none", "polls", "reconnects", "stuck"}
    BY <2>1, <2>2
  <2>5. /\ send_data_status' \in {"start", "stop"}
        /\ snd' \in {"none", "pend", "poll", "publish"}
        /\ send_data_semaphore' \in Nat
        /\ watchdog' \in {Closed} \cup 0 .. WatchdogPeriod
    BY <2>1, <2>2
  <2>6. BootInv' /\ OwnIdentity'
    BY <2>1, <2>2
  <2> QED BY <2>3, <2>4, <2>5, <2>6
<1>5. CASE Server
  <2>1. asked' \in BOOLEAN /\ answers' \subseteq Devices
    BY <1>5 DEF Server, ServerAnswers, AnswerLost
  <2>2. UNCHANGED <<netVars, main, mqtt_connected, idVars, testVars, sndVars,
                    watchdog>>
    BY <1>5 DEF Server
  <2> QED BY <2>1, <2>2
<1> QED BY <1>1, <1>2, <1>3, <1>4, <1>5

(* Only the device's own answer is taken, and only when it may be.         *)
LEMMA CmdZeroIInv ==
    ASSUME NEW d \in Devices, IInv, CmdZero(d)
    PROVE  IInv'
<1> USE DeviceAssumption
    DEF IInv, TypeOK, BootInv, OwnIdentity, Sessions, Closed, NoId, DefaultId,
        netVars, sndVars, testVars
<1>1. CASE IsOwn(d)
  BY <1>1 DEF CmdZero, IsOwn
<1>2. CASE ~IsOwn(d)
  BY <1>2 DEF CmdZero
<1> QED BY <1>1, <1>2

(* The boot sequence.                                                      *)
LEMMA BootIInv == IInv /\ Boot => IInv'
<1> SUFFICES ASSUME IInv, Boot PROVE IInv'
  OBVIOUS
<1> USE DeviceAssumption
    DEF IInv, TypeOK, BootInv, OwnIdentity, Sessions, Closed, NoId, DefaultId,
        chanVars, netVars, idVars, sndVars, testVars, Main
<1>1. CASE WifiConnects
  BY <1>1 DEF WifiConnects, Disturbs
<1>2. CASE MqttConnects
  BY <1>2 DEF MqttConnects
<1>3. CASE Connected
  BY <1>3 DEF Connected
<1>4. CASE Asks
  BY <1>4 DEF Asks
<1>5. CASE AsksInVain
  BY <1>5 DEF AsksInVain
<1>6. CASE SleepsAndAsks
  BY <1>6 DEF SleepsAndAsks, AskedAgain
<1>7. CASE StartsMeasuring
  BY <1>7 DEF StartsMeasuring
<1> QED BY <1>1, <1>2, <1>3, <1>4, <1>5, <1>6, <1>7 DEF Boot

(* send_data, test_wifi, time and the watchdog.  A device whose watchdog   *)
(* counts measures; the count stops at zero.                               *)
LEMMA MeasureIInv == IInv /\ (Threads \/ MessagePacked \/ Reset) => IInv'
<1> SUFFICES ASSUME IInv, Threads \/ MessagePacked \/ Reset PROVE IInv'
  OBVIOUS
<1> USE DeviceAssumption
    DEF IInv, TypeOK, BootInv, OwnIdentity, Sessions, Closed, NoId, DefaultId,
        chanVars, netVars, idVars, sndVars, testVars, Runs
<1>1. CASE TestPolls
  BY <1>1 DEF TestPolls, Polled
<1>2. CASE TestReconnected
  BY <1>2 DEF TestReconnected
<1>3. CASE SendPend
  BY <1>3 DEF SendPend
<1>4. CASE SendPoll
  BY <1>4 DEF SendPoll
<1>5. CASE Publishes
  <2>1. /\ watchdog' = WatchdogPeriod \/ watchdog' = watchdog
        /\ snd # "none" /\ watchdog # Closed /\ watchdog' # Closed
    BY <1>5 DEF Publishes, OnError
  <2>2. /\ snd' = "pend"
        /\ UNCHANGED <<link, session, disturbances, asked, answers, main,
                       mqtt_connected, id_device, mac_known, test,
                       send_data_status, send_data_semaphore>>
    BY <1>5 DEF Publishes
  <2>3. /\ link' \in BOOLEAN /\ session' \in Sessions
        /\ disturbances' \in 0 .. MaxDisturbances
        /\ asked' \in BOOLEAN /\ answers' \subseteq Devices
        /\ main' \in {"wifi", "stuck", "connect", "wait_connected", "ask",
                      "sleep", "measure"}
    BY <2>1, <2>2
  <2>4. /\ mqtt_connected' \in BOOLEAN
        /\ id_device' \in Devices \cup {DefaultId, NoId}
        /\ mac_known' \in BOOLEAN
        /\ test' \in {"none", "polls", "reconnects", "stuck"}
    BY <2>1, <2>2
  <2>5. /\ send_data_status' \in {"start", "stop"}
        /\ snd' \in {"none", "pend", "poll", "publish"}
        /\ send_data_semaphore' \in Nat
        /\ watchdog' \in {Closed} \cup 0 .. WatchdogPeriod
    BY <2>1, <2>2
  <2>6. BootInv' /\ OwnIdentity'
    BY <2>1, <2>2
  <2> QED BY <2>3, <2>4, <2>5, <2>6
<1>6. CASE MessagePacked
  BY <1>6 DEF MessagePacked
<1>7. CASE Reset
  BY <1>7 DEF Reset
<1> QED BY <1>1, <1>2, <1>3, <1>4, <1>5, <1>6, <1>7 DEF Threads
-----------------------------------------------------------------------------
LEMMA NextIInv == IInv /\ [Next]_vars => IInv'
<1> SUFFICES ASSUME IInv, [Next]_vars PROVE IInv'
  OBVIOUS
<1>1. CASE LinkComes \/ LinkGoes \/ SessionOpens \/ SessionBreaks \/ Server
  BY <1>1, NetworkIInv
<1>2. CASE \E d \in Devices : CmdZero(d)
  BY <1>2, CmdZeroIInv
<1>3. CASE Boot
  BY <1>3, BootIInv
<1>4. CASE Threads \/ MessagePacked \/ Reset
  BY <1>4, MeasureIInv
<1>5. CASE UNCHANGED vars
  BY <1>5 DEF vars, netVars, chanVars, idVars, testVars, sndVars, IInv, TypeOK,
              BootInv, OwnIdentity
<1> QED BY <1>1, <1>2, <1>3, <1>4, <1>5 DEF Next

(* The invariant holds of every run of the device, whatever the network,   *)
(* the server and the other devices do.                                    *)
THEOREM Invariance == Spec => []IInv
<1> QED BY InitIInv, NextIInv, PTL DEF Spec

(* The variables of mainThread, send_data, test_wifi and cmd_zero keep     *)
(* their types.                                                            *)
THEOREM TypeCorrect == Spec => []TypeOK
<1>1. IInv => TypeOK
  BY DEF IInv
<1> QED BY <1>1, Invariance, PTL

(* A device measures only under its own identity: cmd_zero takes an answer *)
(* only for its own MAC address (mqtt_user.c:1091-1101), and ask_for_id    *)
(* ends only on one (mqtt_user.c:1328-1354).                               *)
THEOREM IdentityHolds == Spec => []OwnIdentity
<1>1. IInv => OwnIdentity
  BY DEF IInv
<1> QED BY <1>1, Invariance, PTL
=============================================================================
