------------------------------- MODULE Device -------------------------------
(***************************************************************************)
(* The device as a whole: the boot sequence of mainThread, the identity it *)
(* asks the server for, the sender, the polling of the link and the        *)
(* watchdog that send_data opens and that only a successful publication    *)
(* clears.  The link, the connection to the broker and the message ring,   *)
(* modules WifiStation, MqttInterface and MessageRing, are abstracted to   *)
(* what the rest of the device sees of them.                               *)
(*                                                                         *)
(* Devices are named by the identities the server gives them.  All of them *)
(* listen to one topic (CC32xx/cmd/s2d/0), publications have QoS 0.        *)
(***************************************************************************)
EXTENDS Integers, FiniteSets

CONSTANTS
    Devices,          \* the devices the server answers
    Self,             \* this one
    WatchdogPeriod,   \* messages packed in WATCHDOG_TIMER (12)
    MaxDisturbances   \* bound of the model: failures of the environment

DefaultId == 255   \* id_device while the device asks
NoId      == 0     \* the server's own; id_device after a reset

ASSUME DeviceAssumption ==
    /\ Devices \subseteq 1 .. DefaultId - 1 /\ Self \in Devices
    /\ WatchdogPeriod \in Nat \ {0}
    /\ MaxDisturbances \in Nat

VARIABLES
    link,             \* the station has its link to the access point
    session,          \* the connection to the broker, see Sessions
    disturbances,     \* counter of the bound
    asked,            \* CMD_READY of this device is on its way to the server
    answers,          \* the devices whose CMD_RESP_ID is on its way
    main,             \* where mainThread is
    mqtt_connected, id_device,
    mac_known,        \* mac_address has been read
    test,             \* test_wifi: "none", "polls", "reconnects" or "stuck"
    send_data_status,
    snd,              \* send_data: "none", "pend", "poll" or "publish"
    send_data_semaphore,
    watchdog          \* messages until it expires

netVars  == <<link, session, disturbances>>
chanVars == <<asked, answers>>
idVars   == <<id_device, mac_known>>
sndVars  == <<snd, send_data_semaphore>>
testVars == <<test, send_data_status>>
vars == <<netVars, chanVars, main, mqtt_connected, idVars, testVars, sndVars,
          watchdog>>

Sessions == {"none", "opening", "open", "lost"}
Closed   == -1     \* the watchdog is not opened yet
-----------------------------------------------------------------------------
Init ==
    /\ link = FALSE /\ session = "none" /\ disturbances = 0
    /\ asked = FALSE /\ answers = {}
    /\ main = "wifi"
    /\ mqtt_connected = FALSE
    /\ id_device = NoId /\ mac_known = FALSE
    /\ test = "none" /\ send_data_status = "stop"
    /\ snd = "none" /\ send_data_semaphore = 0
    /\ watchdog = Closed

(* When the watchdog has expired its callback spins for ever and, as an    *)
(* interrupt, lets no thread run.                                          *)
RunsOn == TRUE
Runs   == watchdog # 0
-----------------------------------------------------------------------------
(* The environment.                                                        *)
Disturbs ==
    /\ disturbances < MaxDisturbances
    /\ disturbances' = disturbances + 1

(* The station has a request pending only while it is connecting.          *)
LinkComes ==
    /\ ~link
    /\ main = "wifi" \/ test = "reconnects"
    /\ link' = TRUE
    /\ UNCHANGED <<session, disturbances, chanVars, main, mqtt_connected,
                   idVars, testVars, sndVars, watchdog>>

(* A link that goes before wifi_connect has seen it is not asked for again *)
(* (ChecksCyclically of WifiStation).                                      *)
LinkGoes ==
    /\ link /\ Disturbs
    /\ link' = FALSE
    /\ main' \in IF main = "wifi" THEN {"wifi", "stuck"} ELSE {main}
    /\ test' \in IF test = "reconnects" THEN {"reconnects", "stuck"} ELSE {test}
    /\ UNCHANGED <<session, chanVars, mqtt_connected, idVars,
                   send_data_status, sndVars, watchdog>>

(* The server accepts; the callback of CONNACK raises the flag.            *)
SessionOpens ==
    /\ Runs
    /\ link /\ session = "opening"
    /\ session' = "open" /\ mqtt_connected' = TRUE
    /\ UNCHANGED <<link, disturbances, chanVars, main, idVars, testVars,
                   sndVars, watchdog>>

(* The broker closes, or TCP gives up on a link that is away.              *)
SessionBreaks ==
    /\ Runs
    /\ session \in {"opening", "open"}
    /\ IF link THEN Disturbs ELSE UNCHANGED disturbances
    /\ session' = "lost" /\ mqtt_connected' = FALSE
    /\ UNCHANGED <<link, chanVars, main, idVars, testVars, sndVars, watchdog>>

(* The server answers, this device once per CMD_READY it gets.             *)
ServerAnswers ==
    \/ /\ asked
       /\ answers' = answers \cup {Self}
       /\ asked' \in BOOLEAN   \* whether another CMD_READY is under way
    \/ /\ \E d \in Devices \ {Self} : answers' = answers \cup {d}
       /\ UNCHANGED asked

AnswerLost ==
    /\ \E d \in answers : answers' = answers \ {d}
    /\ UNCHANGED asked

Server ==
    /\ ServerAnswers \/ AnswerLost
    /\ UNCHANGED <<netVars, main, mqtt_connected, idVars, testVars, sndVars,
                   watchdog>>

(* cmd_zero: an answer is delivered, perhaps not the only one of its kind. *)
IsOwnAny(d) == TRUE
IsOwn(d)    == mac_known /\ d = Self

CmdZero(d) ==
    /\ Runs
    /\ link /\ session = "open"
    /\ d \in answers
    /\ answers' \in {answers, answers \ {d}}
    /\ id_device' = IF IsOwn(d) THEN d ELSE id_device
    /\ UNCHANGED <<netVars, asked, main, mqtt_connected, mac_known, testVars,
                   sndVars, watchdog>>
-----------------------------------------------------------------------------
(* mainThread.                                                             *)
Main(from, to) ==
    /\ Runs
    /\ main = from /\ main' = to

(* wifi_connect returns when it sees the link, or with an error, after     *)
(* which the boot goes on all the same.                                    *)
WifiConnects ==
    /\ Main("wifi", "connect")
    /\ IF link THEN UNCHANGED disturbances ELSE Disturbs
    /\ UNCHANGED <<link, session, chanVars, mqtt_connected, idVars, testVars,
                   sndVars, watchdog>>

MqttConnects ==
    /\ Main("connect", "wait_connected")
    /\ session' = IF link THEN "opening" ELSE "lost"
    /\ UNCHANGED <<link, disturbances, chanVars, mqtt_connected, idVars,
                   testVars, sndVars, watchdog>>

(* The MAC address is read and ask_for_id begins.                          *)
Connected ==
    /\ Main("wait_connected", "ask")
    /\ mqtt_connected
    /\ mac_known' = TRUE
    /\ id_device' = DefaultId
    /\ UNCHANGED <<netVars, chanVars, mqtt_connected, testVars, sndVars,
                   watchdog>>

(* CMD_READY is published.  Its result is only logged.                     *)
Asks ==
    /\ Main("ask", "sleep")
    /\ session = "open"
    /\ asked' = TRUE
    /\ UNCHANGED <<netVars, answers, mqtt_connected, idVars, testVars,
                   sndVars, watchdog>>

AsksInVain ==
    /\ Main("ask", "sleep")
    /\ UNCHANGED <<netVars, chanVars, mqtt_connected, idVars, testVars,
                   sndVars, watchdog>>

AskedOnce  == "sleep"
AskedAgain == "ask"

SleepsAndAsks ==
    /\ Main("sleep", AskedAgain)
    /\ id_device = DefaultId
    /\ UNCHANGED <<netVars, chanVars, mqtt_connected, idVars, testVars,
                   sndVars, watchdog>>

(* The identity is there: the acquisition and the threads are started, and *)
(* send_data opens the watchdog.                                           *)
StartsMeasuring ==
    /\ Main("sleep", "measure")
    /\ id_device # DefaultId
    /\ test' = "polls"
    /\ snd' = "pend"
    /\ watchdog' = WatchdogPeriod
    /\ UNCHANGED <<netVars, chanVars, mqtt_connected, idVars,
                   send_data_status, send_data_semaphore>>
-----------------------------------------------------------------------------
(* test_wifi, once every half second, and its reconnection.                *)
Polled == IF link THEN "start" ELSE "stop"

TestPolls ==
    /\ Runs /\ test = "polls"
    /\ send_data_status' = Polled
    /\ test' = IF link THEN "polls" ELSE "reconnects"
    /\ UNCHANGED <<netVars, chanVars, main, mqtt_connected, idVars, sndVars,
                   watchdog>>

TestReconnected ==
    /\ Runs /\ test = "reconnects" /\ link
    /\ test' = "polls"
    /\ UNCHANGED <<netVars, chanVars, main, mqtt_connected, idVars,
                   send_data_status, sndVars, watchdog>>
-----------------------------------------------------------------------------
(* send_data.                                                              *)
SendPend ==
    /\ Runs /\ snd = "pend" /\ send_data_semaphore > 0
    /\ send_data_semaphore' = send_data_semaphore - 1
    /\ snd' = "poll"
    /\ UNCHANGED <<netVars, chanVars, main, mqtt_connected, idVars, testVars,
                   watchdog>>

SendPoll ==
    /\ Runs /\ snd = "poll" /\ send_data_status = "start"
    /\ snd' = "publish"
    /\ UNCHANGED <<netVars, chanVars, main, mqtt_connected, idVars, testVars,
                   send_data_semaphore, watchdog>>

(* mqtt_publish succeeds on an open connection, also if its link has just  *)
(* gone (TCP keeps the message), or it fails.                              *)
ClearedOnError == WatchdogPeriod
OnError        == watchdog

Publishes ==
    /\ Runs /\ snd = "publish"
    /\ snd' = "pend"
    /\ \/ session = "open" /\ watchdog' = WatchdogPeriod
       \/ (session # "open" \/ ~link) /\ watchdog' = OnError
    /\ UNCHANGED <<netVars, chanVars, main, mqtt_connected, idVars, testVars,
                   send_data_semaphore>>
-----------------------------------------------------------------------------
(* Time: one more message is packed and the watchdog counts.  The sender   *)
(* and test_wifi are faster than that: they have done what they can.       *)
SenderWaits ==
    \/ snd = "pend" /\ send_data_semaphore = 0
    \/ snd = "poll" /\ send_data_status = "stop"

TestWaits == test = "polls" => send_data_status = Polled

MessagePacked ==
    /\ Runs /\ main = "measure"
    /\ SenderWaits /\ TestWaits
    /\ watchdog' = watchdog - 1
    /\ send_data_semaphore' = send_data_semaphore + 1
    /\ UNCHANGED <<netVars, chanVars, main, mqtt_connected, idVars, testVars,
                   snd>>

(* The second period without a clear resets the device, which forgets all  *)
(* but is remembered by the server.                                        *)
Reset ==
    /\ watchdog = 0
    /\ link' = FALSE /\ session' = "none"
    /\ main' = "wifi"
    /\ mqtt_connected' = FALSE
    /\ id_device' = NoId /\ mac_known' = FALSE
    /\ test' = "none" /\ send_data_status' = "stop"
    /\ snd' = "none" /\ send_data_semaphore' = 0
    /\ watchdog' = Closed
    /\ UNCHANGED <<disturbances, chanVars>>
-----------------------------------------------------------------------------
Boot == WifiConnects \/ MqttConnects \/ Connected \/ Asks \/ AsksInVain
        \/ SleepsAndAsks \/ StartsMeasuring

Threads == TestPolls \/ TestReconnected \/ SendPend \/ SendPoll \/ Publishes

Next ==
    \/ LinkComes \/ LinkGoes \/ SessionOpens \/ SessionBreaks \/ Server
    \/ \E d \in Devices : CmdZero(d)
    \/ Boot \/ Threads \/ MessagePacked \/ Reset

(* What can run does; what is asked for comes, unless something disturbs;  *)
(* of the messages sent again and again some arrive.                       *)
Fairness ==
    /\ WF_vars(LinkComes) /\ WF_vars(SessionOpens)
    /\ WF_vars(link /\ WifiConnects) /\ WF_vars(MqttConnects)
    /\ WF_vars(Connected) /\ WF_vars(Asks \/ AsksInVain) /\ SF_vars(Asks)
    /\ WF_vars(SleepsAndAsks) /\ WF_vars(StartsMeasuring)
    /\ WF_vars(asked /\ Server /\ Self \in answers') /\ SF_vars(CmdZero(Self))
    /\ WF_vars(TestPolls) /\ WF_vars(TestReconnected)
    /\ WF_vars(SendPend) /\ WF_vars(SendPoll) /\ WF_vars(Publishes)
    /\ WF_vars(MessagePacked) /\ WF_vars(Reset)

Spec == Init /\ [][Next]_vars
FairSpec == Spec /\ Fairness
-----------------------------------------------------------------------------
TypeOK ==
    /\ link \in BOOLEAN /\ session \in Sessions
    /\ disturbances \in 0 .. MaxDisturbances
    /\ asked \in BOOLEAN /\ answers \subseteq Devices
    /\ main \in {"wifi", "stuck", "connect", "wait_connected", "ask", "sleep",
                 "measure"}
    /\ mqtt_connected \in BOOLEAN
    /\ id_device \in Devices \cup {DefaultId, NoId}
    /\ mac_known \in BOOLEAN
    /\ test \in {"none", "polls", "reconnects", "stuck"}
    /\ send_data_status \in {"start", "stop"}
    /\ snd \in {"none", "pend", "poll", "publish"}
    /\ send_data_semaphore \in Nat
    /\ watchdog \in {Closed} \cup 0 .. WatchdogPeriod

(* Safety: a device that measures has the identity the server has for it,  *)
(* and keeps it, although all devices hear all answers and answers to      *)
(* requests made before a reset may still arrive (mqtt_user.c:1084-1101,   *)
(* 1325-1350).                                                             *)
OwnIdentity ==
    main = "measure" => id_device = Self

(* Liveness: a device whose connection holds measures in the end, whatever *)
(* requests and answers are lost (mqtt_user.c:1337-1354).                  *)
GetsIdentity ==
    <>[](link /\ session = "open") => <>[](main = "measure")

(* Liveness: a device that has begun to measure comes back by itself, also *)
(* from a lost connection, which no thread renews, and from a stuck        *)
(* test_wifi: by the watchdog, which must not be cleared by a publication  *)
(* that fails (mqtt_user.c:949-957, test_wifi_user.c:36-63).  A            *)
(* disturbance that meets the boot can leave it there for good.            *)
Sends ==
    /\ main = "measure" /\ link /\ session = "open"
    /\ send_data_status = "start"

Recovers ==
    [](main = "measure" /\ disturbances = MaxDisturbances => <>[]Sends)
=============================================================================
