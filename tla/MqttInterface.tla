--------------------------- MODULE MqttInterface ---------------------------
(***************************************************************************)
(* The MQTT interface (MQTT_IF_*, mqtt_user.c) on top of the MQTT client   *)
(* (mqttclient.c): one mutex, one bounded queue of events, one list of     *)
(* topics, one semaphore on which a call waits for its acknowledgement.    *)
(*                                                                         *)
(*   main  mqtt_init, mqtt_subscribe, mqtt_connect, the publications of    *)
(*         ask_for_id, then mqtt_disconnect and mqtt_connect again, or     *)
(*         mqtt_client_disconnect, which takes the module down as well,    *)
(*         and mqtt_client_connect; priority 1                             *)
(*   app   MQTTAppThread, which handles the events of the queue; 2         *)
(*   ctx   MQTTContextThread, which receives, fills the queue and deletes  *)
(*         the client when the connection has ended; 2                     *)
(*   pub   a thread that publishes while the device measures (send_data,   *)
(*         softtimer), with QoS 0; 5                                       *)
(*                                                                         *)
(* A call of the library MQTTClientCore holds a lock of the library, so    *)
(* the client's context is not deleted while a message is being sent.      *)
(***************************************************************************)
EXTENDS Naturals, Sequences, FiniteSets, Functions

CONSTANTS
    Topics,         \* the topics in the order of their MQTT_IF_Subscribe
    QueueLen,       \* mq_maxmsg (10)
    MaxUnread,      \* bound of the model: messages that wait to be read
    MaxConnects,    \* bound of the model: connections
    MaxPublishes    \* bound of the model: messages of the server

(* There is a topic, and room for two events.  Nothing says that the       *)
(* server leaves room for more: a burst of messages may fill the queue.    *)
ASSUME MqttAssumption ==
    /\ Topics \in Seq(Range(Topics)) /\ Topics # << >>
    /\ QueueLen \in Nat /\ QueueLen >= 2 /\ MaxUnread \in Nat
    /\ MaxConnects \in Nat /\ MaxPublishes \in Nat

VARIABLES
    moduleState, msgQueue, head, clientDisconnectFlag,
    moduleMutex,        \* the thread that holds it, then those that wait
    mqtt_connected,     \* the application's flag, set by its callback
    client,             \* the client's context exists
    awaitedAck, ackSyncObj, connAck,
    session,            \* external: the connection as the server sees it
    wire,               \* external: packets on their way to the device
    subscribed,         \* external: topics the server has for the device
    connects, publishes,  \* counters of the bounds
    main, app, ctx, pub,  \* where each thread is
    event,              \* the event app handles
    curr, prev          \* the positions in the list app is at, and has kept

moduleVars == <<moduleState, head, clientDisconnectFlag, mqtt_connected>>
ackVars    == <<awaitedAck, ackSyncObj, connAck>>
serverVars == <<session, wire, subscribed, publishes>>
appVars    == <<app, event, curr, prev>>
vars == <<moduleVars, moduleMutex, msgQueue, client, ackVars, serverVars,
          connects, main, appVars, ctx, pub>>

None == "none"

Init ==
    /\ moduleState = "IDLE" /\ moduleMutex = << >>
    /\ msgQueue = << >> /\ head = << >>
    /\ clientDisconnectFlag = FALSE /\ mqtt_connected = FALSE
    /\ client = FALSE
    /\ awaitedAck = None /\ ackSyncObj = 0 /\ connAck = None
    /\ session = "closed" /\ wire = << >> /\ subscribed = {}
    /\ connects = 0 /\ publishes = 0
    /\ main = "init" /\ app = "not_created" /\ ctx = "none" /\ pub = "idle"
    /\ event = None /\ curr = 0 /\ prev = 0
-----------------------------------------------------------------------------
Requests(t) == moduleMutex' = Append(moduleMutex, t)
Holds(t)    == moduleMutex # << >> /\ Head(moduleMutex) = t
Releases    == moduleMutex' = Tail(moduleMutex)

(* mq_send need not wait.                                                  *)
RoomShort == Len(msgQueue) < QueueLen - 1
Room      == Len(msgQueue) < QueueLen

(* _sl_ExtLib_AwaitedAckSet succeeds.                                      *)
MayAwait == awaitedAck # "DISCONNECT"

AckArrived == ackSyncObj > 0 /\ ackSyncObj' = ackSyncObj - 1

OnWire(ps) == ctx = "run" /\ wire # << >> /\ Head(wire) \in ps

InQueue(e) == e \in Range(msgQueue)

(* ctx has an event and the queue is full.  In its callbacks it holds      *)
(* MQTTClient_mutex, so it keeps others out of the client while it waits.  *)
(* Callback and notice are one step here, taken when there is room, except *)
(* for the end of a connection, whose callback has woken a call before.    *)
CtxWaits ==
    ~Room /\ (ctx = "disconnCB" \/ OnWire({"CONNACK", "REFUSED", "PUBLISH"}))

ClientFree == ctx = "disconnCB" => Room
-----------------------------------------------------------------------------
(* Priorities: a ready pub goes first, main goes when app and ctx cannot.  *)
PubReady == pub = "lock" /\ Holds("pub")

AppBlocked ==
    \/ app = "not_created"
    \/ app = "receive" /\ msgQueue = << >>
    \/ app = "lock" /\ ~Holds("app")
    \/ app = "await_suback" /\ ackSyncObj = 0

CtxBlocked ==
    \/ ctx \in {"none", "wait_rxtx"}
    \/ ctx = "run" /\ wire = << >> /\ MayAwait
    \/ CtxWaits
    \/ ctx = "lock" /\ ~(Holds("ctx") /\ pub # "sending")

MainLast == AppBlocked /\ CtxBlocked
-----------------------------------------------------------------------------
(* The server and the network.                                             *)
ServerAnswers ==
    /\ session = "opening"
    /\ \/ session' = "open" /\ wire' = Append(wire, "CONNACK")
       \/ session' = "refused" /\ wire' = Append(wire, "REFUSED")
    /\ UNCHANGED <<moduleVars, moduleMutex, msgQueue, client, ackVars,
                   subscribed, publishes, connects, main, appVars, ctx, pub>>

Count(queue, x) == Cardinality({i \in DOMAIN queue : queue[i] = x})

Unread == Count(msgQueue, "RECV") + Count(wire, "PUBLISH")

ServerPublishes ==
    /\ session = "open" /\ subscribed # {}
    /\ publishes < MaxPublishes /\ Unread < MaxUnread
    /\ wire' = Append(wire, "PUBLISH")
    /\ publishes' = publishes + 1
    /\ UNCHANGED <<moduleVars, moduleMutex, msgQueue, client, ackVars, session,
                   subscribed, connects, main, appVars, ctx, pub>>

ServerCloses ==
    /\ session # "closed"
    /\ session' = "closed" /\ subscribed' = {}
    /\ wire' = Append(wire, "DISCONN")
    /\ UNCHANGED <<moduleVars, moduleMutex, msgQueue, client, ackVars,
                   publishes, connects, main, appVars, ctx, pub>>
-----------------------------------------------------------------------------
(* ctx: MQTTClient_run calls back for each packet.  It blocks before the   *)
(* next one, and app, of its priority, has then taken a CONNACK event.     *)
Packet(p) ==
    /\ ctx = "run" /\ ~PubReady
    /\ ~(InQueue("CONNACK") /\ app = "receive")
    /\ wire # << >> /\ Head(wire) = p
    /\ wire' = Tail(wire)

NotifyConnack ==
    /\ Packet("CONNACK") \/ Packet("REFUSED")
    /\ Room
    /\ connAck' = Head(wire)
    /\ awaitedAck' = None
    /\ msgQueue' = Append(msgQueue, "CONNACK")
    /\ ackSyncObj' = ackSyncObj + 1
    /\ UNCHANGED <<moduleVars, moduleMutex, client, session, subscribed,
                   publishes, connects, main, appVars, ctx, pub>>

NotifySuback ==
    /\ Packet("SUBACK")
    /\ IF awaitedAck = "SUBACK"
          THEN awaitedAck' = None /\ ackSyncObj' = ackSyncObj + 1
          ELSE UNCHANGED <<awaitedAck, ackSyncObj>>
    /\ UNCHANGED <<moduleVars, moduleMutex, msgQueue, client, connAck, session,
                   subscribed, publishes, connects, main, appVars, ctx, pub>>

PublishRx ==
    /\ Packet("PUBLISH")
    /\ Room
    /\ msgQueue' = IF MayAwait THEN Append(msgQueue, "RECV") ELSE msgQueue
    /\ UNCHANGED <<moduleVars, moduleMutex, client, ackVars, session,
                   subscribed, publishes, connects, main, appVars, ctx, pub>>

(* processDisconnCB wakes the waiting call, then calls back.               *)
Wakes == IF MayAwait THEN ackSyncObj + 1 ELSE ackSyncObj

Disconn ==
    /\ Packet("DISCONN")
    /\ ackSyncObj' = Wakes
    /\ awaitedAck' = "DISCONNECT"
    /\ ctx' = "disconnCB"
    /\ UNCHANGED <<moduleVars, moduleMutex, msgQueue, client, connAck, session,
                   subscribed, publishes, connects, main, appVars, pub>>

DisconnNotify ==
    /\ ctx = "disconnCB" /\ ~PubReady /\ Room
    /\ msgQueue' = Append(msgQueue, "SERVER_DISCONNECT")
    /\ ctx' = "lock" /\ Requests("ctx")
    /\ UNCHANGED <<moduleVars, client, ackVars, serverVars, connects, main,
                   appVars, pub>>

(* The connection was never opened: MQTTClient_run returns at once.        *)
RunFails ==
    /\ ctx = "run" /\ ~PubReady /\ wire = << >> /\ ~MayAwait
    /\ ctx' = "lock" /\ Requests("ctx")
    /\ UNCHANGED <<moduleVars, msgQueue, client, ackVars, serverVars, connects,
                   main, appVars, pub>>

(* The end of MQTTContextThread: MQTTClient_delete and the state.          *)
StateAfterRunKept == moduleState
StateAfterRun     == "INITIALIZED"

DeletesUnlocked == TRUE
DeletesLocked   == Holds("ctx")

ContextEnd ==
    /\ ctx = "lock" /\ ~PubReady /\ DeletesLocked /\ pub # "sending"
    /\ Releases
    /\ client' = FALSE
    /\ awaitedAck' = None /\ connAck' = None /\ ackSyncObj' = 0
    /\ moduleState' = StateAfterRun
    /\ ctx' = "none"
    /\ UNCHANGED <<head, clientDisconnectFlag, mqtt_connected, msgQueue,
                   serverVars, connects, main, appVars, pub>>

Ctx == \/ NotifyConnack \/ NotifySuback \/ PublishRx \/ Disconn
       \/ DisconnNotify \/ RunFails \/ ContextEnd
-----------------------------------------------------------------------------
(* app: MQTTAppThread.                                                     *)
AppReceive ==
    /\ app = "receive" /\ ~PubReady /\ msgQueue # << >>
    /\ Head(msgQueue) # "DESTROY"
    /\ event' = Head(msgQueue)
    /\ msgQueue' = Tail(msgQueue)
    /\ app' = "lock" /\ Requests("app")
    /\ UNCHANGED <<moduleVars, client, ackVars, serverVars, connects, main,
                   curr, prev, ctx, pub>>

(* MQTT_IF_Deinit has asked the thread to end: it closes the queue.        *)
AppDestroy ==
    /\ app = "receive" /\ ~PubReady /\ msgQueue # << >>
    /\ Head(msgQueue) = "DESTROY"
    /\ msgQueue' = << >>
    /\ app' = "not_created"
    /\ UNCHANGED <<moduleVars, moduleMutex, client, ackVars, serverVars,
                   connects, main, event, curr, prev, ctx, pub>>

AppLocked(e) == app = "lock" /\ event = e /\ ~PubReady /\ Holds("app")

AppLeavesLocked == UNCHANGED moduleMutex /\ app' = "receive" /\ event' = None
AppLeaves       == Releases /\ app' = "receive" /\ event' = None

(* A message: the callback of its topic, cmd_zero, under the mutex.        *)
AppMessage ==
    /\ AppLocked("RECV")
    /\ AppLeaves
    /\ UNCHANGED <<moduleVars, msgQueue, client, ackVars, serverVars, connects,
                   main, curr, prev, ctx, pub>>

(* mqtt_event_callback clears the flag whoever has disconnected.           *)
AppDisconnect ==
    /\ AppLocked("SERVER_DISCONNECT")
    /\ Releases
    /\ app' = "receive" /\ event' = None
    /\ clientDisconnectFlag' = FALSE
    /\ mqtt_connected' = FALSE
    /\ UNCHANGED <<moduleState, head, msgQueue, client, ackVars, serverVars,
                   connects, main, curr, prev, ctx, pub>>

(* A new connection: subscribe to all topics of the list, under the mutex. *)
AppConnack ==
    /\ AppLocked("CONNACK")
    /\ app' = "subscribe" /\ curr' = 1 /\ prev' = 0
    /\ UNCHANGED <<moduleVars, moduleMutex, msgQueue, client, ackVars,
                   serverVars, connects, main, event, ctx, pub>>

(* What becomes of the list, and of the place in it, when a subscription   *)
(* fails: the node goes; from the middle the next one is skipped as well.  *)
AfterCurr == SubSeq(head, curr + 1, Len(head))

SubscribeAgain ==
    app' = "subscribe" /\ UNCHANGED <<head, curr, prev>>

SubscribeFails ==
    /\ IF curr = 1
          THEN head' = AfterCurr /\ curr' = 1
          ELSE /\ head' = SubSeq(head, 1, prev) \o AfterCurr
               /\ curr' = IF curr < Len(head) THEN prev + 2 ELSE prev + 1
    /\ app' = "subscribe"
    /\ UNCHANGED prev

(* MqttClientSub for the topic at curr.                                    *)
AppSubscribe ==
    /\ app = "subscribe" /\ ~PubReady
    /\ curr <= Len(head) /\ ClientFree
    /\ IF MayAwait
          THEN awaitedAck' = "SUBACK" /\ app' = "send_sub"
               /\ UNCHANGED <<head, curr, prev>>
          ELSE SubscribeFails /\ UNCHANGED awaitedAck
    /\ UNCHANGED <<moduleState, clientDisconnectFlag, mqtt_connected,
                   moduleMutex, msgQueue, client, ackSyncObj, connAck,
                   serverVars, connects, main, event, ctx, pub>>

AppSubSent ==
    /\ app = "send_sub" /\ ~PubReady
    /\ IF session = "open"
          THEN /\ wire' = Append(wire, "SUBACK")
               /\ subscribed' = subscribed \cup {head[curr]}
          ELSE UNCHANGED <<wire, subscribed>>
    /\ app' = "await_suback"
    /\ UNCHANGED <<moduleVars, moduleMutex, msgQueue, client, ackVars, session,
                   publishes, connects, main, event, curr,
                   prev, ctx, pub>>

(* A send to a connection that has gone may also fail at once.             *)
AppSubFails ==
    /\ app = "send_sub" /\ ~PubReady /\ session = "closed"
    /\ ClientFree
    /\ awaitedAck' = IF awaitedAck = "SUBACK" THEN None ELSE awaitedAck
    /\ SubscribeFails
    /\ UNCHANGED <<moduleState, clientDisconnectFlag, mqtt_connected,
                   moduleMutex, msgQueue, client, ackSyncObj, connAck,
                   serverVars, connects, main, event, ctx, pub>>

(* _sl_ExtLib_ServerAckLockedWait has returned.                            *)
SubackWithoutWait == UNCHANGED ackSyncObj
SubackWait        == AckArrived

AppSubacked ==
    /\ app = "await_suback" /\ ~PubReady
    /\ SubackWait /\ ClientFree
    /\ IF MayAwait
          THEN prev' = curr /\ curr' = curr + 1
               /\ app' = "subscribe" /\ UNCHANGED head
          ELSE SubscribeFails
    /\ UNCHANGED <<moduleState, clientDisconnectFlag, mqtt_connected,
                   moduleMutex, msgQueue, client, awaitedAck, connAck,
                   serverVars, connects, main, event, ctx, pub>>

(* mqtt_event_callback raises the flag whatever the server has answered.   *)
AppSubscribed ==
    /\ app = "subscribe" /\ ~PubReady
    /\ curr > Len(head)
    /\ AppLeaves
    /\ mqtt_connected' = TRUE
    /\ curr' = 0 /\ prev' = 0
    /\ UNCHANGED <<moduleState, head, clientDisconnectFlag, msgQueue, client,
                   ackVars, serverVars, connects, main, ctx, pub>>

App == \/ AppReceive \/ AppDestroy \/ AppMessage \/ AppDisconnect \/ AppConnack
       \/ AppSubscribe \/ AppSubSent \/ AppSubFails \/ AppSubacked
       \/ AppSubscribed
-----------------------------------------------------------------------------
(* main.                                                                   *)
Runs(at) == main = at /\ MainLast /\ ~PubReady

(* MQTT_IF_Init is refused unless the state is IDLE, and may get no queue  *)
(* or no thread; mqtt_client_connect goes on all the same.                 *)
MqttInit ==
    /\ Runs("init")
    /\ \/ moduleState = "IDLE"
          /\ moduleState' = "INITIALIZED" /\ app' = "receive"
       \/ UNCHANGED <<moduleState, app>>
    /\ main' = "subscribe"
    /\ UNCHANGED <<head, clientDisconnectFlag, mqtt_connected, moduleMutex,
                   msgQueue, client, ackVars, serverVars, connects, event,
                   curr, prev, ctx, pub>>

(* MQTT_IF_Subscribe before the connection: the topic goes to the front,   *)
(* unless the module has not been initialised.                             *)
MqttSubscribe ==
    /\ Runs("subscribe") /\ moduleMutex = << >>
    /\ IF moduleState = "IDLE"
          THEN UNCHANGED head /\ main' = "offline"
          ELSE /\ head' = <<Topics[Len(head) + 1]>> \o head
               /\ main' = IF Len(head') = Len(Topics) THEN "offline" ELSE main
    /\ UNCHANGED <<moduleState, clientDisconnectFlag, mqtt_connected,
                   moduleMutex, msgQueue, client, ackVars, serverVars,
                   connects, appVars, ctx, pub>>

(* mqtt_connect asks for nothing.  Assumed of its caller, and not a check  *)
(* of the code: it connects again only after the notice that the last      *)
(* connection has ended, whoever has ended it.                             *)
MqttConnect ==
    /\ Runs("offline") \/ Runs("up")
    /\ ~mqtt_connected /\ ~clientDisconnectFlag
    /\ connects < MaxConnects
    /\ connects' = connects + 1
    /\ Requests("main") /\ main' = "connect_lock"
    /\ UNCHANGED <<moduleVars, msgQueue, client, ackVars, serverVars, appVars,
                   ctx, pub>>

(* MQTT_IF_Connect: a new client, its thread, MQTTClient_connect.          *)
ConnectCreate ==
    /\ Runs("connect_lock") /\ Holds("main")
    /\ moduleState = "INITIALIZED" => ctx = "none"
    /\ IF moduleState = "INITIALIZED"
          THEN /\ client' = TRUE
               /\ awaitedAck' = "CONNACK" /\ ackSyncObj' = 0 /\ connAck' = None
               /\ ctx' = "wait_rxtx"
               /\ main' = "send_connect"
               /\ UNCHANGED moduleMutex
          ELSE /\ Releases /\ main' = "wait_connected"
               /\ UNCHANGED <<client, ackVars, ctx>>
    /\ UNCHANGED <<moduleVars, msgQueue, serverVars, connects, appVars, pub>>

(* MQTTClient_create fails, or pthread_create, which leaves a client that  *)
(* has no thread: mqtt_connect waits for its flag all the same.            *)
ConnectFails ==
    /\ Runs("connect_lock") /\ Holds("main")
    /\ moduleState = "INITIALIZED" /\ ctx = "none"
    /\ client' \in BOOLEAN
    /\ Releases /\ main' = "wait_connected"
    /\ UNCHANGED <<moduleVars, msgQueue, ackVars, serverVars, connects, appVars,
                   ctx, pub>>

(* The context thread of the last client is still there and will delete    *)
(* the new one (see OneContextThread): the model ends main here.           *)
ConnectOver ==
    /\ Runs("connect_lock") /\ Holds("main")
    /\ moduleState = "INITIALIZED" /\ ctx # "none"
    /\ Releases
    /\ main' = "two_clients"
    /\ UNCHANGED <<moduleVars, msgQueue, client, ackVars, serverVars, connects,
                   appVars, ctx, pub>>

SendConnect ==
    /\ Runs("send_connect")
    /\ session' = "opening"
    /\ ctx' = "run"
    /\ main' = "await_connack"
    /\ UNCHANGED <<moduleVars, moduleMutex, msgQueue, client, ackVars, wire,
                   subscribed, publishes, connects, appVars, pub>>

SendConnectFails ==
    /\ Runs("send_connect")
    /\ awaitedAck' = "DISCONNECT"
    /\ ctx' = "run"
    /\ Releases
    /\ main' = "wait_connected"
    /\ UNCHANGED <<moduleVars, msgQueue, client, ackSyncObj, connAck,
                   serverVars, connects, appVars, pub>>

(* A disconnection instead of the answer leaves ret as the send set it.    *)
StateAfterConnectKept == moduleState
StateAfterConnect ==
    IF MayAwait /\ connAck = "REFUSED" THEN moduleState ELSE "CONNECTED"

ConnackTaken ==
    /\ Runs("await_connack") /\ AckArrived /\ ClientFree
    /\ moduleState' = StateAfterConnect
    /\ Releases
    /\ main' = "wait_connected"
    /\ UNCHANGED <<head, clientDisconnectFlag, mqtt_connected, msgQueue,
                   client, awaitedAck, connAck, serverVars, connects, appVars,
                   ctx, pub>>

(* mqtt_connect waits for its callback.                                    *)
Connected ==
    /\ Runs("wait_connected") /\ mqtt_connected
    /\ main' = "up"
    /\ UNCHANGED <<moduleVars, moduleMutex, msgQueue, client, ackVars,
                   serverVars, connects, appVars, ctx, pub>>

MqttDisconnect ==
    /\ Runs("up")
    /\ Requests("main") /\ main' = "disconnect_lock"
    /\ UNCHANGED <<moduleVars, msgQueue, client, ackVars, serverVars, connects,
                   appVars, ctx, pub>>

(* Whatever MQTT_IF_Disconnect has returned, mqtt_disconnect ends, and     *)
(* mqtt_client_disconnect goes on with MQTT_IF_Deinit.                     *)
Disconnected ==
    /\ Releases
    /\ \/ mqtt_connected' = FALSE /\ main' = "offline"
       \/ UNCHANGED mqtt_connected /\ main' = "deinit"

DisconnectLocked ==
    /\ Runs("disconnect_lock") /\ Holds("main")
    /\ moduleState = "CONNECTED" => ClientFree
    /\ clientDisconnectFlag' = (clientDisconnectFlag
                                  \/ moduleState = "CONNECTED")
    /\ IF moduleState = "CONNECTED" /\ MayAwait
          THEN /\ awaitedAck' = "DISCONN_CB" /\ main' = "send_disconn"
               /\ UNCHANGED <<moduleMutex, mqtt_connected>>
          ELSE Disconnected /\ UNCHANGED awaitedAck
    /\ UNCHANGED <<moduleState, head, msgQueue, client, ackSyncObj, connAck,
                   serverVars, connects, appVars, ctx, pub>>

SendDisconn ==
    /\ Runs("send_disconn")
    /\ session' = "closed" /\ subscribed' = {}
    /\ wire' = IF session = "closed" THEN wire ELSE Append(wire, "DISCONN")
    /\ main' = "await_disconn"
    /\ UNCHANGED <<moduleVars, moduleMutex, msgQueue, client, ackVars,
                   publishes, connects, appVars, ctx, pub>>

SendDisconnFails ==
    /\ Runs("send_disconn") /\ session = "closed"
    /\ Disconnected
    /\ UNCHANGED <<moduleState, head, clientDisconnectFlag, msgQueue, client,
                   ackVars, serverVars, connects, appVars, ctx, pub>>

DisconnTaken ==
    /\ Runs("await_disconn") /\ AckArrived
    /\ moduleState' = "INITIALIZED"
    /\ Disconnected
    /\ UNCHANGED <<head, clientDisconnectFlag, msgQueue, client, awaitedAck,
                   connAck, serverVars, connects, appVars, ctx, pub>>

MqttDeinit ==
    /\ Runs("deinit")
    /\ Requests("main") /\ main' = "deinit_lock"
    /\ UNCHANGED <<moduleVars, msgQueue, client, ackVars, serverVars, connects,
                   appVars, ctx, pub>>

(* MQTT_IF_Deinit: the request to app, the list, the state.                *)
DeinitQuiet == UNCHANGED msgQueue
DeinitTells == Room /\ msgQueue' = Append(msgQueue, "DESTROY")

DeinitLocked ==
    /\ Runs("deinit_lock") /\ Holds("main")
    /\ IF moduleState = "INITIALIZED"
          THEN DeinitTells /\ head' = << >> /\ moduleState' = "IDLE"
          ELSE UNCHANGED <<msgQueue, head, moduleState>>
    /\ Releases
    /\ main' = "init"
    /\ UNCHANGED <<clientDisconnectFlag, mqtt_connected, client, ackVars,
                   serverVars, connects, appVars, ctx, pub>>

(* ask_for_id publishes from main: MQTT_IF_Publish looks at the state under *)
(* the mutex and uses the client after it.                                 *)
BootPublish ==
    /\ Runs("up")
    /\ Requests("main") /\ main' = "publish_lock"
    /\ UNCHANGED <<moduleVars, msgQueue, client, ackVars, serverVars, connects,
                   appVars, ctx, pub>>

BootChecks ==
    /\ Runs("publish_lock") /\ Holds("main")
    /\ Releases
    /\ main' = IF moduleState = "CONNECTED" THEN "publish" ELSE "up"
    /\ UNCHANGED <<moduleVars, msgQueue, client, ackVars, serverVars, connects,
                   appVars, ctx, pub>>

(* Without a client the device stops here: see PublishesAlive.             *)
BootSends ==
    /\ Runs("publish") /\ client
    /\ awaitedAck' = IF MayAwait THEN None ELSE awaitedAck
    /\ main' = "up"
    /\ UNCHANGED <<moduleVars, moduleMutex, msgQueue, client, ackSyncObj,
                   connAck, serverVars, connects, appVars, ctx, pub>>

Main == \/ MqttInit \/ MqttSubscribe \/ MqttConnect \/ ConnectCreate
        \/ ConnectFails \/ ConnectOver \/ SendConnect \/ SendConnectFails
        \/ ConnackTaken \/ Connected \/ MqttDisconnect \/ DisconnectLocked
        \/ SendDisconn \/ SendDisconnFails \/ DisconnTaken \/ MqttDeinit
        \/ DeinitLocked \/ BootPublish \/ BootChecks \/ BootSends
-----------------------------------------------------------------------------
(* pub: MQTT_IF_Publish, then MqttClient_send, with nothing in between.    *)
PubUnlocked ==
    /\ pub = "idle"
    /\ IF moduleState = "CONNECTED" /\ MayAwait
          THEN awaitedAck' = None /\ pub' = "sending"
          ELSE UNCHANGED <<awaitedAck, pub>>
    /\ UNCHANGED <<moduleVars, moduleMutex, msgQueue, client, ackSyncObj,
                   connAck, serverVars, connects, main, appVars, ctx>>

PubRequest ==
    /\ pub = "idle" /\ moduleState # "IDLE"
    /\ Requests("pub") /\ pub' = "lock"
    /\ UNCHANGED <<moduleVars, msgQueue, client, ackVars, serverVars, connects,
                   main, appVars, ctx>>

PubChecks ==
    /\ pub = "lock" /\ Holds("pub")
    /\ Releases
    /\ IF moduleState = "CONNECTED" /\ MayAwait
          THEN awaitedAck' = None /\ pub' = "sending"
          ELSE UNCHANGED awaitedAck /\ pub' = "idle"
    /\ UNCHANGED <<moduleVars, msgQueue, client, ackSyncObj, connAck,
                   serverVars, connects, main, appVars, ctx>>

PubSent ==
    /\ pub = "sending"
    /\ pub' = "idle"
    /\ UNCHANGED <<moduleVars, moduleMutex, msgQueue, client, ackVars,
                   serverVars, connects, main, appVars, ctx>>

PubGoesOn == PubChecks \/ PubSent
-----------------------------------------------------------------------------
Server == ServerAnswers \/ ServerPublishes \/ ServerCloses

Next == Server \/ Ctx \/ App \/ Main \/ PubRequest \/ PubGoesOn

Spec == Init /\ [][Next]_vars

(* Each thread runs when it can and none of a higher priority does; a      *)
(* connection that has been asked for is answered or closed.               *)
FairSpec ==
    /\ Spec
    /\ WF_vars(Ctx) /\ WF_vars(App) /\ WF_vars(PubGoesOn)
    /\ WF_vars(ConnectCreate \/ ConnectFails \/ ConnectOver \/ SendConnect
               \/ SendConnectFails \/ ConnackTaken \/ DisconnectLocked
               \/ SendDisconn \/ SendDisconnFails \/ DisconnTaken
               \/ DeinitLocked \/ BootChecks \/ BootSends)
    /\ WF_vars(session \in {"opening", "refused"}
               /\ (ServerAnswers \/ ServerCloses))
-----------------------------------------------------------------------------
(* The values of the variables; no thread locks moduleMutex, which is not   *)
(* recursive, a second time (mqtt_user.c 458-473).                         *)
TypeOK ==
    /\ moduleState \in {"IDLE", "INITIALIZED", "CONNECTED"}
    /\ moduleMutex \in Seq({"main", "app", "ctx", "pub"})
    /\ IsInjective(moduleMutex)   \* no thread locks it twice
    /\ Len(msgQueue) <= QueueLen
    /\ Range(msgQueue) \subseteq {"CONNACK", "RECV", "SERVER_DISCONNECT",
                                  "DESTROY"}
    /\ Range(head) \subseteq Range(Topics)
    /\ clientDisconnectFlag \in BOOLEAN /\ mqtt_connected \in BOOLEAN
    /\ client \in BOOLEAN
    /\ awaitedAck \in {None, "CONNACK", "SUBACK", "DISCONN_CB", "DISCONNECT"}
    /\ ackSyncObj \in 0 .. 2
    /\ connAck \in {None, "CONNACK", "REFUSED"}
    /\ session \in {"closed", "opening", "open", "refused"}
    /\ subscribed \subseteq Range(Topics)
    /\ connects \in 0 .. MaxConnects /\ publishes \in 0 .. MaxPublishes
    /\ curr \in 0 .. Len(Topics) + 1 /\ prev \in 0 .. Len(Topics)

(* A thread that waits for an acknowledgement will be woken by it: the     *)
(* client awaits just that one, or the wait is over.  A call of another    *)
(* thread must not overwrite awaitedAck (mqttclient.c 223-236, 1051).      *)
WaiterIsAwaited ==
    \A wait \in {<<main, "await_connack", "CONNACK">>,
                 <<main, "await_disconn", "DISCONN_CB">>,
                 <<app, "await_suback", "SUBACK">>} :
        wait[1] = wait[2] => awaitedAck = wait[3] \/ ackSyncObj > 0

(* No thread is inside a call of the client when the context thread has    *)
(* deleted it with its locks and semaphores (mqtt_user.c 417; mqttclient.c *)
(* 525-530, 840-856).                                                      *)
AliveWhenUsed ==
    \/ main \in {"send_connect", "await_connack", "send_disconn",
                 "await_disconn"}
    \/ app \in {"subscribe", "send_sub", "await_suback"} /\ curr <= Len(head)
    \/ pub = "sending"
    => client

(* "The mutex is to protect data in the mMQTTContext structure from being  *)
(* manipulated or accessed at the wrong time" (mqtt_user.c 458): a thread  *)
(* that has passed the check of MQTT_IF_Publish has a client to send with, *)
(* main included (mqtt_user.c 830-843, 1344).                              *)
PublishesAlive == main = "publish" \/ pub = "sending" => client

(* Only messages fill the queue: while fewer of them than it has places    *)
(* wait to be read, ctx finds room for every event, whatever else ends and *)
(* begins, and MQTT_IF_Deinit finds room even then (mqtt_user.c 228, 475,  *)
(* 528).                                                                   *)
QueueHasRoom ==
    /\ Unread < QueueLen => ~CtxWaits
    /\ main = "deinit_lock" /\ Holds("main") => Room

(* A SUBACK is copied to an array on the stack of the caller that waits:   *)
(* it must come while that call lasts (mqttclient.c 275-278, 591).         *)
SubackInTime == [][NotifySuback => app = "await_suback"]_vars

(* A client is created only when the thread of the last one has ended: a   *)
(* late one would delete the new client (mqtt_user.c 596, 415).  Not so    *)
(* after a refused connection, whose thread MQTT_IF_Connect overlooks when *)
(* mqtt_connect is called again (575, 648, 1008-1020).                     *)
OneContextThread ==
    [][connAck # "REFUSED" /\ main = "connect_lock"
          => main' # "two_clients"]_vars

(* "So that user can call init if they wish to use it again" (mqtt_user.c  *)
(* 544): no context thread is left to overwrite the idle state, and init   *)
(* finds no thread, event or topic of the life before.  Not so after a     *)
(* refused connection, whose thread MQTT_IF_Deinit overlooks (424, 513).   *)
StartsAfresh ==
    [][connAck # "REFUSED" =>
          /\ DeinitLocked /\ moduleState' = "IDLE" => ctx = "none"
          /\ MqttInit /\ moduleState = "IDLE" =>
                /\ app = "not_created" /\ ctx = "none"
                /\ msgQueue = << >> /\ head = << >>]_vars

(* When nothing is under way, the module's state, the application's flag   *)
(* and the thread agree with the connection, and the server has the topics *)
(* of the list (mqtt_user.c 394, 424, 642, 1026-1040).                     *)
Settled ==
    /\ wire = << >> /\ msgQueue = << >> /\ moduleMutex = << >>
    /\ app = "receive" /\ ctx \in {"run", "none"} /\ session # "refused"
    /\ ctx = "run" => MayAwait

StateFollowsSession ==
    Settled =>
        /\ (moduleState = "CONNECTED") = (session = "open")
        /\ mqtt_connected = (session = "open")
        /\ (ctx = "run") = (session = "open")
        /\ session = "open" => subscribed = Range(head)

(* Where main is inside no call that waits.                                *)
MainOut == {"init", "subscribe", "offline", "up", "wait_connected", "publish",
            "deinit", "two_clients"}

(* Every call ends that waits for a lock or for an answer: the mutex held  *)
(* across a wait and the one semaphore for all answers do not lock up the  *)
(* four threads (mqtt_user.c 361, 673; mqttclient.c 208).  Not so if a     *)
(* burst of messages fills the queue meanwhile: see SubscribeReturns.      *)
CallsReturn ==
    /\ app \notin {"receive", "not_created"} ~> app = "receive" \/ CtxWaits
    /\ main \notin MainOut ~> main \in MainOut \/ CtxWaits
    /\ pub # "idle" ~> pub = "idle" \/ CtxWaits

(* A subscription that waits for its SUBACK when the connection is lost    *)
(* returns "Success(transaction Message ID) or Failure(< 0)" (mqttclient.c *)
(* 556).  Not so if the queue is full: the context thread has woken it and *)
(* waits in mq_send with MQTTClient_mutex, which it needs to go on, and it *)
(* is app, who empties the queue (mqttclient.c 208, 339-357; mqtt_user.c   *)
(* 228, 361).                                                              *)
SubscribeReturns ==
    app = "await_suback" /\ awaitedAck = "SUBACK" /\ wire = <<"DISCONN">>
        ~> app # "await_suback"
=============================================================================
