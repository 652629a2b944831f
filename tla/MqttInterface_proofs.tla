------------------------ MODULE MqttInterface_proofs ------------------------
(***************************************************************************)
(* Proofs about the MQTT interface, for every list of topics, every queue  *)
(* of two events or more and every number of connections and messages.     *)
(*                                                                         *)
(* The argument: a client lives as long as its context thread, which ends  *)
(* in the queue of the mutex.  Whoever uses the client holds the mutex, is *)
(* ahead of that thread in the queue, or is the publication it waits for.  *)
(* A connection is asked for only when the thread, the events and the      *)
(* flags of the one before have gone, with one exception: a connection the *)
(* server has refused, which is followed under its own name, "REFUSED".    *)
(***************************************************************************)
EXTENDS MqttInterface, SequenceTheorems, FiniteSetTheorems, TLAPS

Threads == {"main", "app", "ctx", "pub"}
Events  == {"CONNACK", "RECV", "SERVER_DISCONNECT", "DESTROY"}
Answers == {"CONNACK", "REFUSED"}
Packets == Answers \cup {"SUBACK", "PUBLISH", "DISCONN"}

(* Where each thread is inside a call under the mutex, and holds it.       *)
MainHolds == {"send_connect", "await_connack", "send_disconn", "await_disconn"}
MainIn    == MainHolds \cup {"connect_lock", "disconnect_lock", "deinit_lock",
                             "publish_lock"}
AppHolds  == {"subscribe", "send_sub", "await_suback"}
AppIn     == AppHolds \cup {"lock"}

Inside(t) ==
    \/ t = "main" /\ main \in MainIn
    \/ t = "app" /\ app \in AppIn
    \/ t = "ctx" /\ ctx = "lock"
    \/ t = "pub" /\ pub = "lock"

Queued(t) == t \in Range(moduleMutex)

(* a gets the mutex before b.                                              *)
Ahead(a, b) ==
    \E i, j \in DOMAIN moduleMutex :
        i < j /\ moduleMutex[i] = a /\ moduleMutex[j] = b

OnTheWay(p) == p \in Range(wire)

(* The thread of a client that has been asked to connect.                  *)
Live == ctx \in {"run", "disconnCB", "lock"}

Refused == connAck = "REFUSED"

(* Nothing of the life before is left for app to do.                       *)
Clean == app \in {"receive", "not_created"} /\ msgQueue = << >>

(* The answer of the server is awaited or on its way, or app has not yet   *)
(* done what follows from it.                                              *)
Opening    == session = "opening" \/ OnTheWay("CONNACK") \/ OnTheWay("REFUSED")
Connecting == Opening \/ InQueue("CONNACK") \/ event = "CONNACK"

(* The notice that the connection has ended has not reached app.           *)
DiscPending == InQueue("SERVER_DISCONNECT") \/ event = "SERVER_DISCONNECT"
-----------------------------------------------------------------------------
(* The variables whose values nothing below speaks of.                     *)
ValueInv ==
    /\ moduleState \in {"IDLE", "INITIALIZED", "CONNECTED"}
    /\ Len(msgQueue) <= QueueLen
    /\ clientDisconnectFlag \in BOOLEAN /\ mqtt_connected \in BOOLEAN
    /\ awaitedAck \in {None, "CONNACK", "SUBACK", "DISCONN_CB", "DISCONNECT"}
    /\ ackSyncObj \in Nat /\ ackSyncObj <= 2
    /\ connAck \in {None, "CONNACK", "REFUSED"}
    /\ session \in {"closed", "opening", "open", "refused"}
    /\ subscribed \subseteq Range(Topics)
    /\ connects \in 0 .. MaxConnects /\ publishes \in 0 .. MaxPublishes

(* Where each thread is, and the event app handles there.                  *)
PointInv ==
    /\ main \in MainIn \cup MainOut
    /\ app \in AppIn \cup {"receive", "not_created"}
    /\ ctx \in {"none", "wait_rxtx", "run", "disconnCB", "lock"}
    /\ pub \in {"idle", "lock", "sending"}
    /\ app \in {"receive", "not_created"} => event = None
    /\ app = "lock" => event \in {"CONNACK", "RECV", "SERVER_DISCONNECT"}
    /\ app \in AppHolds => event = "CONNACK"
    /\ msgQueue \in Seq(Events)

(* A thread is in the queue of the mutex exactly while it is inside, and   *)
(* at its head where it holds the mutex.                                   *)
MutexInv ==
    /\ moduleMutex \in Seq(Threads) /\ IsInjective(moduleMutex)
    /\ \A t \in Threads : Queued(t) <=> Inside(t)
    /\ main \in MainHolds \cup {"connect_lock"} => Holds("main")
    /\ app \in AppHolds => Holds("app")

(* The list of topics, and the place in it while app subscribes.           *)
ListInv ==
    /\ head \in Seq(Range(Topics)) /\ Len(head) <= Len(Topics)
    /\ main = "init" => head = << >>
    /\ main = "subscribe" => Len(head) < Len(Topics)
    /\ curr \in Nat /\ prev \in Nat
    /\ app \notin AppHolds => curr = 0 /\ prev = 0
    /\ app \in AppHolds => prev < curr /\ prev <= Len(head)
                            /\ curr <= Len(head) + 1
    /\ app \in {"send_sub", "await_suback"} => curr <= Len(head)

(* Who needs the client, and when it is there.                             *)
ClientInv ==
    /\ client \in BOOLEAN /\ (ctx # "none" => client)
    /\ moduleState = "CONNECTED" => Live
    /\ moduleState = "CONNECTED" /\ Refused => ~MayAwait
    /\ ctx = "wait_rxtx" <=> main = "send_connect"
    /\ ctx = "none" => awaitedAck = None /\ ackSyncObj = 0 /\ connAck = None
    /\ main \in MainHolds => ctx # "none"
    /\ main \in {"send_connect", "await_connack"} => moduleState = "INITIALIZED"
    /\ event = "CONNACK" => ctx # "none" /\ (ctx = "lock" => Ahead("app", "ctx"))
    /\ pub = "sending" => /\ ctx # "none" /\ main # "send_connect"
                          /\ ~Refused /\ ~Opening

(* The order of the packets on their way to the device.                    *)
WireForm ==
    /\ wire \in Seq(Packets)
    /\ \A i \in DOMAIN wire : wire[i] = "DISCONN" => i = Len(wire)
    /\ \A i \in DOMAIN wire : wire[i] \in Answers => i = 1
    /\ \A i, j \in DOMAIN wire : wire[i] = "SUBACK" /\ wire[j] = "SUBACK" => i = j

(* What may be on its way, and who expects it.                             *)
WireInv ==
    /\ session # "closed" \/ wire # << >> => ctx = "run" /\ MayAwait
    /\ ctx = "run" /\ MayAwait /\ session = "closed" => OnTheWay("DISCONN")
    /\ ctx \in {"disconnCB", "lock"} => ~MayAwait
    /\ OnTheWay("DISCONN") => session = "closed"
    /\ session = "opening" => wire = << >>
    /\ Opening => /\ main = "await_connack" /\ Clean
                  /\ awaitedAck = "CONNACK" /\ ackSyncObj = 0
    /\ OnTheWay("SUBACK") => /\ app = "await_suback"
                             /\ awaitedAck = "SUBACK" /\ ackSyncObj = 0

(* The one semaphore of all acknowledgements.                              *)
AckInv ==
    /\ main = "send_connect" =>
            awaitedAck = "CONNACK" /\ ackSyncObj = 0 /\ connAck = None
    /\ MayAwait /\ ackSyncObj > 0 =>
            ackSyncObj = 1 /\ (main = "await_connack" \/ app = "await_suback")
    /\ main = "await_connack" => awaitedAck = "CONNACK" \/ ackSyncObj > 0
    /\ main \in {"send_disconn", "await_disconn"} =>
            awaitedAck = "DISCONN_CB" \/ ackSyncObj > 0
    /\ app \in {"send_sub", "await_suback"} =>
            awaitedAck = "SUBACK" \/ ackSyncObj > 0

(* A connection is opened by main, with nothing left of the one before.    *)
ConnectInv ==
    /\ Connecting => main \in {"await_connack", "wait_connected"}
                     /\ ~mqtt_connected
    /\ main \in {"connect_lock", "send_connect", "await_connack"} =>
            ~mqtt_connected
    /\ InQueue("CONNACK") =>
            \/ app = "not_created"
            \/ app = "receive" /\ ctx = "run" /\ MayAwait
               /\ msgQueue = <<"CONNACK">>
    /\ main = "connect_lock" => IF ctx = "none" THEN Clean ELSE Refused
    /\ main = "send_connect" => Clean
    /\ main = "wait_connected" /\ Live /\ ~Refused /\ moduleState # "CONNECTED"
            => ~Connecting /\ ~mqtt_connected

(* The application's flags, and the end of a connection.                   *)
EndInv ==
    /\ DiscPending => ctx \in {"none", "lock"}
    /\ event = "SERVER_DISCONNECT" /\ ctx = "lock" => Ahead("ctx", "app")
    /\ clientDisconnectFlag =>
            main \in {"send_disconn", "await_disconn", "offline", "deinit",
                      "deinit_lock", "init", "subscribe"}
    /\ main \in {"send_disconn", "await_disconn"} => clientDisconnectFlag
    /\ Live => \/ mqtt_connected
               \/ main \in {"connect_lock", "await_connack", "wait_connected",
                            "offline", "two_clients"}
    /\ main = "offline" /\ Live /\ ~Refused =>
            mqtt_connected \/ clientDisconnectFlag
    /\ main \in {"up", "publish_lock", "publish", "disconnect_lock"}
            /\ Live /\ ~Refused => moduleState = "CONNECTED"

(* The end of the module's life and the start of the next.                 *)
LifeInv ==
    /\ main = "deinit" /\ Live /\ (~Refused \/ moduleState = "CONNECTED") =>
            session = "closed"
    /\ main = "deinit_lock" /\ Live /\ (~Refused \/ moduleState = "CONNECTED")
            => ctx = "lock" /\ Ahead("ctx", "main")
    /\ main \in {"init", "subscribe"} /\ Live =>
            Refused /\ moduleState # "CONNECTED"
    /\ moduleState = "IDLE" =>
            /\ main \in {"init", "subscribe", "offline", "connect_lock",
                         "wait_connected"}
            /\ app = "not_created" \/ InQueue("DESTROY")
            /\ app = "not_created" /\ ctx = "none" => msgQueue = << >>
    /\ InQueue("DESTROY") => main = "init" /\ app # "not_created"
    /\ app = "not_created" => main \in {"init", "subscribe", "offline",
            "connect_lock", "send_connect", "await_connack", "wait_connected"}
    /\ app = "not_created" /\ (Live \/ msgQueue # << >>) =>
            mqtt_connected \/ main \in {"await_connack", "wait_connected"}
    /\ app = "not_created" /\ main = "wait_connected" => ~mqtt_connected

(* The inductive invariant.                                                *)
IInv ==
    /\ ValueInv /\ PointInv /\ MutexInv /\ ListInv /\ ClientInv
    /\ WireForm /\ WireInv /\ AckInv /\ ConnectInv /\ EndInv /\ LifeInv

(* The session with the server, the module and the application agree.      *)
SessionInv ==
    /\ session \in {"opening", "open"} => ~Refused
    /\ OnTheWay("REFUSED") => session # "open"
    /\ main = "await_disconn" => session = "closed"
    /\ session = "open" => main = "await_connack" \/ moduleState = "CONNECTED"
    /\ session = "open" => mqtt_connected \/ Connecting

(* The topics app has renewed on the connection that is open.              *)
Renewed ==
    IF app \in AppHolds
       THEN {head[i] : i \in {j \in DOMAIN head :
                  j < curr \/ (j = curr /\ app = "await_suback")}}
       ELSE IF Connecting THEN {} ELSE Range(head)

SubscribedInv == subscribed = IF session = "open" THEN Renewed ELSE {}

(* The application's flag is up as long as a connection or a notice of its *)
(* end is there to take it down, whatever the life of app.                 *)
NoticeInv ==
    /\ mqtt_connected => \/ ctx \in {"run", "disconnCB"} \/ DiscPending
                         \/ app = "not_created"
    /\ event = "CONNACK" /\ ctx = "lock" => InQueue("SERVER_DISCONNECT")
    /\ ctx = "run" /\ ~MayAwait =>
            main = "wait_connected" /\ ~mqtt_connected /\ ~Connecting
    /\ app = "not_created" /\ mqtt_connected =>
            /\ main \in {"init", "subscribe", "offline"}
            /\ ctx # "none" => Refused
            /\ moduleState = "IDLE" => ctx # "none"
    /\ moduleState = "IDLE" /\ ctx = "none" =>
            \A i \in DOMAIN msgQueue :
                msgQueue[i] = "DESTROY" => i = Len(msgQueue)

Received  == Count(msgQueue, "RECV")
Published == Count(wire, "PUBLISH")

(* What fills the queue: messages up to the burst, and of the other events *)
(* one each, which are not all there at the same time.                     *)
RoomInv ==
    /\ Received + Published <= MaxUnread
    /\ \A e \in Events \ {"RECV"} : Count(msgQueue, e) <= 1
    /\ Refused \/ app = "not_created" => Received = 0 /\ Published = 0
    /\ Published > 0 => ~Opening /\ ~InQueue("CONNACK")
    /\ main = "deinit_lock" => Room
    /\ ctx = "lock" /\ app = "lock" /\ Ahead("ctx", "app") /\ ~Refused => Room
-----------------------------------------------------------------------------
(* What the queues hold after an element is added and after one is taken.  *)
LEMMA Appended ==
    ASSUME NEW S, NEW s \in Seq(S), NEW x \in S
    PROVE  /\ Append(s, x) \in Seq(S)
           /\ Append(s, x) # << >>
           /\ Len(Append(s, x)) = Len(s) + 1
           /\ \A y : y \in Range(Append(s, x)) <=> y \in Range(s) \/ y = x
<1> DEFINE r == Append(s, x)
<1>1. /\ r \in Seq(S) /\ Len(r) = Len(s) + 1 /\ r # << >>
      /\ Len(r) \in DOMAIN r /\ r[Len(r)] = x
      /\ \A i \in DOMAIN s : i \in DOMAIN r /\ r[i] = s[i]
      /\ \A i \in DOMAIN r : i = Len(r) \/ i \in DOMAIN s
  OBVIOUS
<1> HIDE DEF r
<1>2. \A y : y \in Range(r) <=> y \in Range(s) \/ y = x
  BY <1>1 DEF Range
<1> QED BY <1>1, <1>2 DEF r

LEMMA Taken ==
    ASSUME NEW S, NEW s \in Seq(S), s # << >>
    PROVE  /\ Tail(s) \in Seq(S)
           /\ Head(s) \in S /\ Head(s) \in Range(s)
           /\ Len(Tail(s)) = Len(s) - 1
           /\ \A y : y \in Range(s) <=> y \in Range(Tail(s)) \/ y = Head(s)
<1>1. /\ Tail(s) \in Seq(S) /\ Len(Tail(s)) = Len(s) - 1
      /\ Head(s) = s[1] /\ s[1] \in S /\ 1 \in DOMAIN s
  OBVIOUS
<1>2. ASSUME NEW y, y \in Range(s)
      PROVE  y \in Range(Tail(s)) \/ y = Head(s)
  <2>1. PICK i \in DOMAIN s : y = s[i]
    BY <1>2 DEF Range
  <2>2. CASE i > 1
    <3>1. i - 1 \in DOMAIN Tail(s) /\ Tail(s)[i - 1] = y
      BY <2>1, <2>2, <1>1
    <3> QED BY <3>1 DEF Range
  <2> QED BY <2>1, <2>2, <1>1
<1>3. ASSUME NEW y, y \in Range(Tail(s)) PROVE y \in Range(s)
  <2>1. PICK i \in DOMAIN Tail(s) : y = Tail(s)[i]
    BY <1>3 DEF Range
  <2>2. i + 1 \in DOMAIN s /\ s[i + 1] = y
    BY <2>1, <1>1
  <2> QED BY <2>2 DEF Range
<1> QED BY <1>1, <1>2, <1>3 DEF Range

(* A thread that requests the mutex is behind all that are there.          *)
LEMMA RequestsMutex ==
    ASSUME MutexInv, NEW t \in Threads, ~Inside(t), Requests(t)
    PROVE  /\ moduleMutex' \in Seq(Threads) /\ IsInjective(moduleMutex')
           /\ moduleMutex' # << >>
           /\ \A u \in Threads : Queued(u)' <=> Queued(u) \/ u = t
           /\ \A u \in Threads : Holds(u) => Holds(u)'
           /\ moduleMutex = << >> => Holds(t)'
           /\ \A a, b \in Threads : Ahead(a, b) => Ahead(a, b)'
           /\ \A a \in Threads : Queued(a) => Ahead(a, t)'
<1> DEFINE q == moduleMutex
<1>1. q \in Seq(Threads) /\ IsInjective(q) /\ t \notin Range(q)
  BY DEF MutexInv, Queued
<1>2. q' = Append(q, t)
  BY DEF Requests
<1>3. /\ q' \in Seq(Threads) /\ q' # << >> /\ Len(q') = Len(q) + 1
      /\ \A y : y \in Range(q') <=> y \in Range(q) \/ y = t
  BY <1>1, <1>2, Appended
<1>4. /\ \A i \in DOMAIN q : i \in DOMAIN q' /\ q'[i] = q[i] /\ i < Len(q')
      /\ Len(q') \in DOMAIN q' /\ q'[Len(q')] = t
      /\ \A i \in DOMAIN q' : i \in DOMAIN q \/ i = Len(q')
  BY <1>1, <1>2
<1> HIDE DEF q
<1>5. \A i \in DOMAIN q : q[i] # t
  BY <1>1 DEF Range
<1>6. IsInjective(q')
  BY <1>1, <1>4, <1>5 DEF IsInjective
<1>7. ASSUME NEW u \in Threads, Holds(u) PROVE Holds(u)'
  <2>1. q # << >> /\ Head(q) = u
    BY <1>7 DEF Holds, q
  <2>2. 1 \in DOMAIN q /\ Head(q) = q[1] /\ Head(q') = q'[1]
    BY <1>1, <1>3, <2>1
  <2>3. Head(q') = u
    BY <2>1, <2>2, <1>4
  <2> QED BY <2>3, <1>3 DEF Holds, q
<1>8. ASSUME moduleMutex = << >> PROVE Holds(t)'
  <2>1. Head(q') = t
    BY <1>8, <1>2 DEF q
  <2> QED BY <2>1, <1>3 DEF Holds, q
<1>9. ASSUME NEW a \in Threads, NEW b \in Threads, Ahead(a, b)
      PROVE  Ahead(a, b)'
  BY <1>9, <1>4 DEF Ahead, q
<1>10. ASSUME NEW a \in Threads, Queued(a) PROVE Ahead(a, t)'
  BY <1>10, <1>4 DEF Ahead, Queued, Range, q
<1>11. ASSUME NEW u \in Threads PROVE Queued(u)' <=> Queued(u) \/ u = t
  BY <1>3 DEF Queued, q
<1> QED BY <1>3, <1>6, <1>7, <1>8, <1>9, <1>10, <1>11 DEF q

(* The thread at the head leaves: the order of the others stays.           *)
LEMMA ReleasesMutex ==
    ASSUME MutexInv, NEW t \in Threads, Holds(t), Releases
    PROVE  /\ moduleMutex' \in Seq(Threads) /\ IsInjective(moduleMutex')
           /\ \A u \in Threads : Queued(u)' <=> Queued(u) /\ u # t
           /\ \A a, b \in Threads : Ahead(a, b) /\ a # t => Ahead(a, b)'
<1> DEFINE q == moduleMutex
<1>1. q \in Seq(Threads) /\ IsInjective(q) /\ q # << >> /\ Head(q) = t
  BY DEF MutexInv, Holds
<1>2. q' = Tail(q)
  BY DEF Releases
<1>3. /\ q' \in Seq(Threads) /\ Len(q') = Len(q) - 1 /\ 1 \in DOMAIN q
      /\ q[1] = t /\ \A y : y \in Range(q) <=> y \in Range(q') \/ y = t
  BY <1>1, <1>2, Taken
<1>4. /\ \A i \in DOMAIN q' : i + 1 \in DOMAIN q /\ q'[i] = q[i + 1] /\ i # 0
                              /\ i \in Nat
      /\ \A i \in DOMAIN q : i \in Nat /\ (i # 1 => i > 1 /\ i - 1 \in DOMAIN q'
                                                 /\ q'[i - 1] = q[i])
  BY <1>1, <1>2, <1>3
<1> HIDE DEF q
<1>5. IsInjective(q')
  <2> SUFFICES ASSUME NEW i \in DOMAIN q', NEW j \in DOMAIN q', q'[i] = q'[j]
               PROVE  i = j
    BY DEF IsInjective
  <2>1. q[i + 1] = q[j + 1] /\ i + 1 \in DOMAIN q /\ j + 1 \in DOMAIN q
        /\ i \in Nat /\ j \in Nat
    BY <1>4
  <2>2. i + 1 = j + 1
    BY <2>1, <1>1 DEF IsInjective
  <2> QED BY <2>1, <2>2
<1>6. t \notin Range(q')
  <2> SUFFICES ASSUME NEW i \in DOMAIN q', q'[i] = t PROVE FALSE
    BY DEF Range
  <2>1. i + 1 \in DOMAIN q /\ q[i + 1] = q[1] /\ i # 0 /\ i \in Nat
    BY <1>3, <1>4
  <2>2. i + 1 = 1
    BY <2>1, <1>1, <1>3 DEF IsInjective
  <2> QED BY <2>1, <2>2
<1>7. ASSUME NEW u \in Threads PROVE Queued(u)' <=> Queued(u) /\ u # t
  BY <1>3, <1>6 DEF Queued, q
<1>8. ASSUME NEW a \in Threads, NEW b \in Threads, Ahead(a, b), a # t
      PROVE  Ahead(a, b)'
  <2>1. PICK i, j \in DOMAIN q : i < j /\ q[i] = a /\ q[j] = b
    BY <1>8 DEF Ahead, q
  <2>2. i # 1 /\ i \in Nat /\ j \in Nat
    BY <2>1, <1>8, <1>3, <1>4
  <2>3. j # 1 /\ i > 1
    BY <2>1, <2>2, <1>4
  <2>4. /\ i - 1 \in DOMAIN q' /\ j - 1 \in DOMAIN q' /\ i - 1 < j - 1
        /\ q'[i - 1] = a /\ q'[j - 1] = b
    BY <2>1, <2>2, <2>3, <1>4
  <2> QED BY <2>4 DEF Ahead, q
<1> QED BY <1>3, <1>5, <1>7, <1>8 DEF q

(* Only one thread holds the mutex, and nobody is ahead of it.             *)
LEMMA HoldsMutex ==
    ASSUME MutexInv
    PROVE  /\ \A t \in Threads : Holds(t) => Queued(t)
           /\ \A t, u \in Threads : Holds(t) /\ Holds(u) => t = u
           /\ \A a, b \in Threads : Holds(b) => ~Ahead(a, b)
           /\ \A a, b \in Threads : Ahead(a, b) => Queued(a) /\ Queued(b)
           /\ moduleMutex # << >> => \E t \in Threads : Holds(t)
           /\ \A t \in Threads : Holds(t) => moduleMutex # << >>
<1>1. moduleMutex \in Seq(Threads) /\ IsInjective(moduleMutex)
  BY DEF MutexInv
<1>2. moduleMutex # << >> => 1 \in DOMAIN moduleMutex
        /\ Head(moduleMutex) = moduleMutex[1] /\ moduleMutex[1] \in Threads
  BY <1>1
<1>3. ASSUME NEW a \in Threads, NEW b \in Threads, Holds(b), Ahead(a, b)
      PROVE  FALSE
  <2>1. PICK i, j \in DOMAIN moduleMutex :
            i < j /\ moduleMutex[i] = a /\ moduleMutex[j] = b
    BY <1>3 DEF Ahead
  <2>2. moduleMutex[1] = b /\ 1 \in DOMAIN moduleMutex
    BY <1>2, <1>3 DEF Holds
  <2>3. j = 1
    BY <2>1, <2>2, <1>1 DEF IsInjective
  <2> QED BY <2>1, <2>3, <1>1
<1> QED BY <1>2, <1>3 DEF Holds, Queued, Ahead, Range
-----------------------------------------------------------------------------
(* The same facts for the events and the packets, by their names.          *)
LEMMA EventSent ==
    ASSUME PointInv, NEW e \in Events, msgQueue' = Append(msgQueue, e)
    PROVE  /\ msgQueue' \in Seq(Events) /\ msgQueue' # << >>
           /\ Len(msgQueue') = Len(msgQueue) + 1
           /\ \A x : InQueue(x)' <=> InQueue(x) \/ x = e
           /\ msgQueue = << >> => msgQueue' = <<e>>
<1>1. msgQueue \in Seq(Events)
  BY DEF PointInv
<1>2. ASSUME msgQueue = << >> PROVE msgQueue' = <<e>>
  <2>1. /\ msgQueue' \in Seq(Events) /\ <<e>> \in Seq(Events)
        /\ Len(msgQueue') = 1 /\ Len(<<e>>) = 1
        /\ \A i \in 1 .. 1 : msgQueue'[i] = <<e>>[i]
    BY <1>1, <1>2
  <2> QED BY <2>1, SeqEqual
<1> QED BY <1>1, <1>2, Appended DEF InQueue

LEMMA EventTaken ==
    ASSUME PointInv, msgQueue # << >>, msgQueue' = Tail(msgQueue)
    PROVE  /\ msgQueue' \in Seq(Events) /\ Len(msgQueue') = Len(msgQueue) - 1
           /\ Len(msgQueue) \in Nat
           /\ Head(msgQueue) \in Events
           /\ \A x : InQueue(x) <=> InQueue(x)' \/ x = Head(msgQueue)
           /\ \A x : msgQueue = <<x>> => msgQueue' = << >>
<1>1. msgQueue \in Seq(Events)
  BY DEF PointInv
<1> QED BY <1>1, Taken DEF InQueue

LEMMA QueueFacts ==
    /\ msgQueue = << >> => \A x : ~InQueue(x)
    /\ msgQueue' = << >> => \A x : ~InQueue(x)'
    /\ \A e : msgQueue = <<e>> => \A x : InQueue(x) <=> x = e
BY DEF InQueue, Range

LEMMA WireEmpty ==
    /\ wire = << >> => \A x : ~OnTheWay(x)
    /\ wire' = << >> => \A x : ~OnTheWay(x)'
BY DEF OnTheWay, Range

LEMMA Same ==
    /\ moduleMutex' = moduleMutex =>
            /\ \A t : (Holds(t)' <=> Holds(t)) /\ (Queued(t)' <=> Queued(t))
            /\ \A a, b : Ahead(a, b)' <=> Ahead(a, b)
    /\ msgQueue' = msgQueue => \A x : InQueue(x)' <=> InQueue(x)
    /\ wire' = wire => (WireForm' <=> WireForm)
                       /\ \A x : OnTheWay(x)' <=> OnTheWay(x)
<1>1. ASSUME moduleMutex' = moduleMutex
      PROVE  /\ \A t : (Holds(t)' <=> Holds(t)) /\ (Queued(t)' <=> Queued(t))
             /\ \A a, b : Ahead(a, b)' <=> Ahead(a, b)
  BY <1>1 DEF Holds, Queued, Ahead
<1>2. ASSUME msgQueue' = msgQueue PROVE \A x : InQueue(x)' <=> InQueue(x)
  BY <1>2 DEF InQueue
<1>3. ASSUME wire' = wire
      PROVE  (WireForm' <=> WireForm) /\ \A x : OnTheWay(x)' <=> OnTheWay(x)
  BY <1>3 DEF WireForm, OnTheWay
<1> QED BY <1>1, <1>2, <1>3

LEMMA PacketTaken ==
    ASSUME WireForm, NEW p, Packet(p)
    PROVE  /\ WireForm' /\ OnTheWay(p)
           /\ \A x : OnTheWay(x) <=> OnTheWay(x)' \/ x = p
           /\ ~OnTheWay("CONNACK")' /\ ~OnTheWay("REFUSED")'
           /\ p = "SUBACK" => ~OnTheWay("SUBACK")'
           /\ p = "DISCONN" => wire' = << >>
           /\ Head(wire) = p /\ wire # << >>
<1> DEFINE w == wire
<1>1. w \in Seq(Packets) /\ w # << >> /\ Head(w) = p /\ w' = Tail(w)
  BY DEF Packet, WireForm
<1>2. /\ w' \in Seq(Packets) /\ Len(w') = Len(w) - 1 /\ w[1] = p
      /\ 1 \in DOMAIN w /\ p \in Range(w)
      /\ \A y : y \in Range(w) <=> y \in Range(w') \/ y = p
  BY <1>1, Taken
<1>3. \A i \in DOMAIN w' : i + 1 \in DOMAIN w /\ w'[i] = w[i + 1] /\ i \in Nat
                           /\ i # 0
  BY <1>1, <1>2
<1>4. /\ \A i \in DOMAIN w : w[i] = "DISCONN" => i = Len(w)
      /\ \A i \in DOMAIN w : w[i] \in Answers => i = 1
      /\ \A i, j \in DOMAIN w : w[i] = "SUBACK" /\ w[j] = "SUBACK" => i = j
  BY DEF WireForm
<1>5. Len(w) \in Nat /\ Len(w') \in Nat
  BY <1>1, <1>2
<1> HIDE DEF w
<1>6. \A i \in DOMAIN w' : w'[i] \notin Answers
  BY <1>3, <1>4
<1>7. \A i \in DOMAIN w' : w'[i] = "DISCONN" => i = Len(w')
  <2> SUFFICES ASSUME NEW i \in DOMAIN w', w'[i] = "DISCONN"
               PROVE  i = Len(w')
    OBVIOUS
  <2>1. i + 1 = Len(w) /\ i \in Nat
    BY <1>3, <1>4
  <2> QED BY <2>1, <1>2, <1>5
<1>8. \A i, j \in DOMAIN w' : w'[i] = "SUBACK" /\ w'[j] = "SUBACK" => i = j
  <2> SUFFICES ASSUME NEW i \in DOMAIN w', NEW j \in DOMAIN w',
                      w'[i] = "SUBACK", w'[j] = "SUBACK"
               PROVE  i = j
    OBVIOUS
  <2>1. i + 1 = j + 1 /\ i \in Nat /\ j \in Nat
    BY <1>3, <1>4
  <2> QED BY <2>1
<1>9. WireForm'
  BY <1>2, <1>6, <1>7, <1>8 DEF WireForm, w
<1>10. p = "SUBACK" => \A i \in DOMAIN w' : w'[i] # "SUBACK"
  <2> SUFFICES ASSUME p = "SUBACK", NEW i \in DOMAIN w', w'[i] = "SUBACK"
               PROVE  FALSE
    OBVIOUS
  <2>1. i + 1 = 1 /\ i \in Nat /\ i # 0
    BY <1>2, <1>3, <1>4
  <2> QED BY <2>1
<1>11. p = "DISCONN" => w' = << >>
  <2> SUFFICES ASSUME p = "DISCONN" PROVE w' = << >>
    OBVIOUS
  <2>1. Len(w') = 0
    BY <1>2, <1>4
  <2> QED BY <2>1, <1>2
<1> QED BY <1>1, <1>2, <1>6, <1>9, <1>10, <1>11
        DEF OnTheWay, Range, Answers, w

LEMMA PacketSent ==
    ASSUME WireForm, NEW p \in Packets, wire' = Append(wire, p),
           ~OnTheWay("DISCONN"), p \in Answers => wire = << >>,
           p = "SUBACK" => ~OnTheWay("SUBACK")
    PROVE  /\ WireForm' /\ wire' # << >>
           /\ \A x : OnTheWay(x)' <=> OnTheWay(x) \/ x = p
<1> DEFINE w == wire
<1>1. w \in Seq(Packets) /\ w' = Append(w, p)
  BY DEF WireForm
<1>2. /\ w' \in Seq(Packets) /\ w' # << >> /\ Len(w') = Len(w) + 1
      /\ \A y : y \in Range(w') <=> y \in Range(w) \/ y = p
  BY <1>1, Appended
<1>3. /\ \A i \in DOMAIN w' : i = Len(w') \/ (i \in DOMAIN w /\ w'[i] = w[i])
      /\ w'[Len(w')] = p /\ Len(w') \in DOMAIN w'
      /\ w = << >> => Len(w') = 1
  BY <1>1
<1>4. /\ \A i \in DOMAIN w : w[i] # "DISCONN"
      /\ \A i \in DOMAIN w : w[i] \in Answers => i = 1
      /\ \A i, j \in DOMAIN w : w[i] = "SUBACK" /\ w[j] = "SUBACK" => i = j
      /\ p = "SUBACK" => \A i \in DOMAIN w : w[i] # "SUBACK"
  BY DEF WireForm, OnTheWay, Range
<1> HIDE DEF w
<1>5. \A i \in DOMAIN w' : w'[i] = "DISCONN" => i = Len(w')
  BY <1>3, <1>4
<1>6. \A i \in DOMAIN w' : w'[i] \in Answers => i = 1
  BY <1>3, <1>4 DEF w
<1>7. \A i, j \in DOMAIN w' : w'[i] = "SUBACK" /\ w'[j] = "SUBACK" => i = j
  BY <1>3, <1>4
<1>8. WireForm'
  BY <1>2, <1>5, <1>6, <1>7 DEF WireForm, w
<1> QED BY <1>2, <1>8 DEF OnTheWay, w
-----------------------------------------------------------------------------
(* The invariant contains the types.                                       *)
LEMMA IInvTypeOK == IInv => TypeOK
<1> SUFFICES ASSUME IInv PROVE TypeOK
  OBVIOUS
<1>1. Range(msgQueue) \subseteq Events
  BY DEF IInv, PointInv, Range
<1>2. Range(head) \subseteq Range(Topics)
  <2>1. head \in Seq(Range(Topics))
    BY DEF IInv, ListInv
  <2> QED BY <2>1 DEF Range
<1>3. Len(Topics) \in Nat /\ Len(head) \in Nat
  BY MqttAssumption DEF IInv, ListInv
<1>4. curr \in 0 .. Len(Topics) + 1 /\ prev \in 0 .. Len(Topics)
  BY <1>3 DEF IInv, ListInv
<1>5. ackSyncObj \in 0 .. 2
  BY DEF IInv, ValueInv
<1> QED BY <1>1, <1>2, <1>4, <1>5
        DEF IInv, TypeOK, ValueInv, MutexInv, ClientInv, Threads, Events
-----------------------------------------------------------------------------
(* ctx handles a packet: the mutex is not concerned, app does not move.    *)
LEMMA NotifyConnackIInv == IInv /\ NotifyConnack => IInv'
<1> SUFFICES ASSUME IInv, NotifyConnack PROVE IInv'
  OBVIOUS
<1> USE DEF IInv, Answers, Live, Refused, Clean, Opening, Connecting,
            DiscPending, MayAwait
<1>1. PICK p \in Answers : Packet(p)
  BY DEF NotifyConnack
<1>2. /\ WireForm' /\ OnTheWay(p) /\ Head(wire) = p
      /\ \A x : OnTheWay(x) <=> OnTheWay(x)' \/ x = p
      /\ ~OnTheWay("CONNACK")' /\ ~OnTheWay("REFUSED")'
  BY <1>1, PacketTaken
<1>3. ctx = "run" /\ session # "opening" /\ wire' = Tail(wire) /\ wire # << >>
  BY <1>1 DEF Packet, WireInv
<1>4. /\ main = "await_connack" /\ Clean /\ awaitedAck = "CONNACK"
      /\ ackSyncObj = 0 /\ ~mqtt_connected /\ event = None
      /\ moduleState = "INITIALIZED"
  BY <1>2 DEF WireInv, ConnectInv, PointInv, ClientInv
<1>5. /\ connAck' \in Answers /\ awaitedAck' = None /\ ackSyncObj' = 1
      /\ msgQueue' = Append(msgQueue, "CONNACK") /\ Room
      /\ UNCHANGED <<moduleVars, moduleMutex, client, session, subscribed,
                     publishes, connects, main, appVars, ctx, pub>>
  BY <1>2, <1>4 DEF NotifyConnack
<1>6. /\ msgQueue' \in Seq(Events) /\ msgQueue' = <<"CONNACK">>
      /\ \A x : InQueue(x)' <=> x = "CONNACK"
  BY <1>4, <1>5, EventSent, QueueFacts DEF Events
<1>7. UNCHANGED <<moduleState, head, clientDisconnectFlag, mqtt_connected,
                  moduleMutex, client, session, subscribed, publishes, connects,
                  main, app, event, curr, prev, ctx, pub>>
  BY <1>5 DEF moduleVars, appVars
<1> HIDE DEF IInv
<1>8. PointInv'
  BY <1>6, <1>7 DEF IInv, PointInv
<1>9. MutexInv'
  BY <1>7 DEF IInv, MutexInv, Queued, Inside, Holds
<1>10. ListInv'
  BY <1>7 DEF IInv, ListInv
<1>11. \A a, b : Ahead(a, b)' <=> Ahead(a, b)
  BY <1>7 DEF Ahead
<1>12. ClientInv'
  BY <1>4, <1>5, <1>7, <1>2, <1>3 DEF IInv, ClientInv, None
<1>13. WireInv'
  BY <1>1, <1>2, <1>3, <1>4, <1>5, <1>7 DEF IInv, WireInv, None
<1>14. AckInv'
  BY <1>4, <1>5, <1>7 DEF IInv, AckInv, None
<1>15. ConnectInv'
  BY <1>2, <1>3, <1>4, <1>5, <1>6, <1>7 DEF IInv, ConnectInv, None
<1>16. EndInv'
  BY <1>3, <1>4, <1>6, <1>7, <1>11 DEF IInv, EndInv, None
<1>17. LifeInv'
  BY <1>3, <1>4, <1>6, <1>7, <1>11 DEF IInv, LifeInv, None
<1>18. Len(msgQueue') <= QueueLen
  BY <1>4, <1>5, EventSent, MqttAssumption DEF IInv, Room, Events
<1>19. ValueInv'
  BY <1>5, <1>7, <1>18 DEF IInv, ValueInv, None
<1> QED BY <1>2, <1>8, <1>9, <1>10, <1>12, <1>13, <1>14, <1>15, <1>16, <1>17,
           <1>19 DEF IInv

LEMMA NotifySubackIInv == IInv /\ NotifySuback => IInv'
<1> SUFFICES ASSUME IInv, NotifySuback PROVE IInv'
  OBVIOUS
<1>1. Packet("SUBACK")
  BY DEF NotifySuback
<1>2. /\ WireForm' /\ OnTheWay("SUBACK") /\ ~OnTheWay("SUBACK")'
      /\ \A x : OnTheWay(x) <=> OnTheWay(x)' \/ x = "SUBACK"
  BY <1>1, PacketTaken DEF IInv
<1>3. /\ UNCHANGED <<moduleState, head, clientDisconnectFlag, mqtt_connected,
                     moduleMutex, msgQueue, client, connAck, session,
                     subscribed, publishes, connects, main, app, event, curr,
                     prev, ctx, pub>>
      /\ ctx = "run" /\ wire # << >> /\ ~Opening /\ ~Opening'
  BY <1>1, <1>2 DEF NotifySuback, moduleVars, appVars, IInv, WireInv, Packet,
                    Opening, Clean
<1>4. /\ app = "await_suback" /\ awaitedAck = "SUBACK" /\ ackSyncObj = 0
      /\ awaitedAck' = None /\ ackSyncObj' = 1
  BY <1>2, <1>3 DEF NotifySuback, IInv, WireInv
<1>5. main \notin MainHolds
  BY <1>4, HoldsMutex DEF IInv, MutexInv, AppHolds, Threads
<1> USE Same DEF Live, Refused, Clean, Connecting, DiscPending, MayAwait, None
<1>6. ValueInv' /\ PointInv' /\ MutexInv' /\ ListInv'
  BY <1>3, <1>4 DEF IInv, ValueInv, PointInv, MutexInv, ListInv, Inside
<1>7. ClientInv' /\ AckInv' /\ WireInv'
  BY <1>2, <1>3, <1>4, <1>5
  DEF IInv, ClientInv, AckInv, WireInv, MainHolds
<1>8. ConnectInv' /\ EndInv' /\ LifeInv'
  BY <1>3, <1>4, <1>5 DEF IInv, ConnectInv, EndInv, LifeInv
<1> QED BY <1>2, <1>6, <1>7, <1>8 DEF IInv

LEMMA PublishRxIInv == IInv /\ PublishRx => IInv'
<1> SUFFICES ASSUME IInv, PublishRx PROVE IInv'
  OBVIOUS
<1>1. Packet("PUBLISH") /\ Room
  BY DEF PublishRx
<1>2. /\ WireForm' /\ OnTheWay("PUBLISH")
      /\ \A x : OnTheWay(x) <=> OnTheWay(x)' \/ x = "PUBLISH"
      /\ ~OnTheWay("CONNACK")' /\ ~OnTheWay("REFUSED")'
  BY <1>1, PacketTaken DEF IInv
<1>3. /\ UNCHANGED <<moduleState, head, clientDisconnectFlag, mqtt_connected,
                     moduleMutex, client, connAck, session, awaitedAck,
                     ackSyncObj, subscribed, publishes, connects, main, app,
                     event, curr, prev, ctx, pub>>
      /\ ctx = "run" /\ wire # << >> /\ MayAwait
      /\ ~(InQueue("CONNACK") /\ app = "receive")
  BY <1>1, <1>2 DEF PublishRx, moduleVars, appVars, ackVars, IInv, WireInv,
                    Packet
<1>4. /\ msgQueue' \in Seq(Events) /\ Len(msgQueue') <= QueueLen
      /\ \A x : InQueue(x)' <=> InQueue(x) \/ x = "RECV"
  <2>1. msgQueue' = Append(msgQueue, "RECV")
    BY <1>3 DEF PublishRx
  <2> QED BY <2>1, <1>1, EventSent, MqttAssumption
          DEF IInv, PointInv, Events, Room
<1>5. ~Opening /\ ~Opening'
  BY <1>2, <1>3 DEF IInv, WireInv, Opening
<1> USE Same DEF Live, Refused, Clean, Connecting, DiscPending, MayAwait, None
<1>6. ValueInv' /\ PointInv' /\ MutexInv' /\ ListInv'
  BY <1>3, <1>4 DEF IInv, ValueInv, PointInv, MutexInv, ListInv, Inside
<1>7. ClientInv' /\ AckInv' /\ WireInv'
  BY <1>2, <1>3, <1>5 DEF IInv, ClientInv, AckInv, WireInv
<1>8. ConnectInv' /\ EndInv' /\ LifeInv'
  BY <1>3, <1>4, <1>5 DEF IInv, ConnectInv, EndInv, LifeInv
<1> QED BY <1>2, <1>6, <1>7, <1>8 DEF IInv

(* The connection has ended: from here on nothing is awaited.              *)
LEMMA DisconnIInv == IInv /\ Disconn => IInv'
<1> SUFFICES ASSUME IInv, Disconn PROVE IInv'
  OBVIOUS
<1>1. Packet("DISCONN")
  BY DEF Disconn
<1>2. /\ WireForm' /\ OnTheWay("DISCONN") /\ wire' = << >>
      /\ \A x : ~OnTheWay(x)'
  BY <1>1, PacketTaken, WireEmpty DEF IInv
<1>3. /\ UNCHANGED <<moduleState, head, clientDisconnectFlag, mqtt_connected,
                     moduleMutex, msgQueue, client, connAck, session,
                     subscribed, publishes, connects, main, app, event, curr,
                     prev, pub>>
      /\ ctx = "run" /\ ctx' = "disconnCB" /\ session = "closed" /\ MayAwait
      /\ awaitedAck' = "DISCONNECT" /\ ackSyncObj' = ackSyncObj + 1
      /\ ~(InQueue("CONNACK") /\ app = "receive")
  BY <1>1, <1>2 DEF Disconn, Wakes, moduleVars, appVars, IInv, WireInv, Packet
<1>4. ~Opening' /\ ackSyncObj <= 1 /\ ackSyncObj \in Nat
  BY <1>2, <1>3 DEF Opening, IInv, ValueInv, AckInv
<1> USE Same DEF Live, Refused, Clean, Connecting, DiscPending, MayAwait, None
<1>6. ValueInv' /\ PointInv' /\ MutexInv' /\ ListInv'
  BY <1>3, <1>4 DEF IInv, ValueInv, PointInv, MutexInv, ListInv, Inside
<1>7. ClientInv' /\ AckInv' /\ WireInv'
  BY <1>2, <1>3, <1>4 DEF IInv, ClientInv, AckInv, WireInv
<1>8. ConnectInv' /\ EndInv' /\ LifeInv'
  BY <1>3, <1>4 DEF IInv, ConnectInv, EndInv, LifeInv
<1> QED BY <1>2, <1>6, <1>7, <1>8 DEF IInv

LEMMA DisconnNotifyIInv == IInv /\ DisconnNotify => IInv'
<1> SUFFICES ASSUME IInv, DisconnNotify PROVE IInv'
  OBVIOUS
<1>1. /\ UNCHANGED <<moduleState, head, clientDisconnectFlag, mqtt_connected,
                     client, connAck, awaitedAck, ackSyncObj, session, wire,
                     subscribed, publishes, connects, main, app, event, curr,
                     prev, pub>>
      /\ ctx = "disconnCB" /\ ctx' = "lock" /\ Requests("ctx") /\ ~MayAwait
      /\ Room /\ msgQueue' = Append(msgQueue, "SERVER_DISCONNECT")
  BY DEF DisconnNotify, moduleVars, ackVars, serverVars, appVars, IInv, WireInv
<1>2. /\ msgQueue' \in Seq(Events) /\ Len(msgQueue') <= QueueLen
      /\ msgQueue' # << >>
      /\ \A x : InQueue(x)' <=> InQueue(x) \/ x = "SERVER_DISCONNECT"
  BY <1>1, EventSent, MqttAssumption DEF IInv, PointInv, Events, Room
<1>3. /\ moduleMutex' \in Seq(Threads) /\ IsInjective(moduleMutex')
      /\ \A u \in Threads : Queued(u)' <=> Queued(u) \/ u = "ctx"
      /\ \A u \in Threads : Holds(u) => Holds(u)'
      /\ \A a, b \in Threads : Ahead(a, b) => Ahead(a, b)'
      /\ \A a \in Threads : Queued(a) => Ahead(a, "ctx")'
  <2>1. ~Inside("ctx")
    BY <1>1 DEF Inside
  <2> QED BY <1>1, <2>1, RequestsMutex DEF IInv, Threads
<1>4. /\ "app" \in Threads /\ "ctx" \in Threads /\ "main" \in Threads
      /\ event = "CONNACK" => Queued("app")
      /\ event # "SERVER_DISCONNECT" /\ ~InQueue("SERVER_DISCONNECT")
  BY <1>1 DEF IInv, MutexInv, EndInv, DiscPending, PointInv, Inside, Threads,
              AppIn, None
<1>5. /\ wire = << >> /\ session = "closed" /\ ~Opening
      /\ main # "deinit_lock" \/ (Refused /\ moduleState # "CONNECTED")
  BY <1>1, WireEmpty DEF IInv, WireInv, Opening, LifeInv, Live
<1> USE Same DEF Live, Refused, Clean, Opening, Connecting, DiscPending,
                 MayAwait, None
<1>6. ValueInv' /\ PointInv' /\ MutexInv' /\ ListInv'
  BY <1>1, <1>2, <1>3
  DEF IInv, ValueInv, PointInv, MutexInv, ListInv, Inside, Threads
<1>7. ClientInv' /\ AckInv' /\ WireInv'
  BY <1>1, <1>3, <1>4, <1>5 DEF IInv, ClientInv, AckInv, WireInv
<1>8. ConnectInv' /\ EndInv' /\ LifeInv'
  BY <1>1, <1>2, <1>3, <1>4, <1>5 DEF IInv, ConnectInv, EndInv, LifeInv
<1> QED BY <1>1, <1>6, <1>7, <1>8 DEF IInv

LEMMA RunFailsIInv == IInv /\ RunFails => IInv'
<1> SUFFICES ASSUME IInv, RunFails PROVE IInv'
  OBVIOUS
<1>1. /\ UNCHANGED <<moduleState, head, clientDisconnectFlag, mqtt_connected,
                     client, connAck, awaitedAck, ackSyncObj, session, wire,
                     subscribed, publishes, connects, main, app, event, curr,
                     prev, pub, msgQueue>>
      /\ ctx = "run" /\ ctx' = "lock" /\ Requests("ctx") /\ ~MayAwait
  BY DEF RunFails, moduleVars, ackVars, serverVars, appVars
<1>2. /\ moduleMutex' \in Seq(Threads) /\ IsInjective(moduleMutex')
      /\ \A u \in Threads : Queued(u)' <=> Queued(u) \/ u = "ctx"
      /\ \A u \in Threads : Holds(u) => Holds(u)'
      /\ \A a, b \in Threads : Ahead(a, b) => Ahead(a, b)'
      /\ \A a \in Threads : Queued(a) => Ahead(a, "ctx")'
  <2>1. ~Inside("ctx")
    BY <1>1 DEF Inside
  <2> QED BY <1>1, <2>1, RequestsMutex DEF IInv, Threads
<1>3. /\ "app" \in Threads /\ "ctx" \in Threads /\ "main" \in Threads
      /\ event = "CONNACK" => Queued("app")
      /\ event # "SERVER_DISCONNECT" /\ ~InQueue("SERVER_DISCONNECT")
  BY <1>1 DEF IInv, MutexInv, EndInv, DiscPending, PointInv, Inside, Threads,
              AppIn, None
<1>4. /\ wire = << >> /\ session = "closed" /\ ~Opening
      /\ main # "deinit_lock" \/ (Refused /\ moduleState # "CONNECTED")
  BY <1>1, WireEmpty DEF IInv, WireInv, Opening, LifeInv, Live
<1> USE Same DEF Live, Refused, Clean, Opening, Connecting, DiscPending,
                 MayAwait, None
<1>6. ValueInv' /\ PointInv' /\ MutexInv' /\ ListInv'
  BY <1>1, <1>2
  DEF IInv, ValueInv, PointInv, MutexInv, ListInv, Inside, Threads
<1>7. ClientInv' /\ AckInv' /\ WireInv'
  BY <1>1, <1>2, <1>3, <1>4 DEF IInv, ClientInv, AckInv, WireInv
<1>8. ConnectInv' /\ EndInv' /\ LifeInv'
  BY <1>1, <1>2, <1>3, <1>4 DEF IInv, ConnectInv, EndInv, LifeInv
<1> QED BY <1>1, <1>6, <1>7, <1>8 DEF IInv

(* The end of the context thread: it holds the mutex, so nobody else does. *)
LEMMA ContextEndIInv == IInv /\ ContextEnd => IInv'
<1> SUFFICES ASSUME IInv, ContextEnd PROVE IInv'
  OBVIOUS
<1>1. /\ UNCHANGED <<head, clientDisconnectFlag, mqtt_connected, session, wire,
                     subscribed, publishes, connects, main, app, event, curr,
                     prev, pub, msgQueue>>
      /\ ctx = "lock" /\ ctx' = "none" /\ Holds("ctx") /\ Releases
      /\ ~client' /\ client' = FALSE
      /\ awaitedAck' = None /\ connAck' = None /\ ackSyncObj' = 0
      /\ moduleState' = "INITIALIZED" /\ pub # "sending"
  BY DEF ContextEnd, DeletesLocked, StateAfterRun, serverVars, appVars
<1>2. /\ moduleMutex' \in Seq(Threads) /\ IsInjective(moduleMutex')
      /\ \A u \in Threads : Queued(u)' <=> Queued(u) /\ u # "ctx"
      /\ \A a, b \in Threads : Ahead(a, b) /\ a # "ctx" => Ahead(a, b)'
  BY <1>1, ReleasesMutex DEF IInv, Threads
<1>3. /\ main \notin MainHolds \cup {"connect_lock"} /\ app \notin AppHolds
      /\ event # "CONNACK"
  BY <1>1, HoldsMutex DEF IInv, MutexInv, ClientInv, Threads
<1>4. /\ wire = << >> /\ session = "closed" /\ ~Opening
      /\ \A x : ~OnTheWay(x)
  BY <1>1, WireEmpty DEF IInv, WireInv, Opening
<1> USE Same DEF Live, Refused, Clean, Opening, Connecting, DiscPending,
                 MayAwait, None
<1>6. ValueInv' /\ PointInv' /\ MutexInv' /\ ListInv'
  BY <1>1, <1>2, <1>3
  DEF IInv, ValueInv, PointInv, MutexInv, ListInv, Inside, Threads
<1>7. ClientInv'
  BY <1>1, <1>3, <1>4 DEF IInv, ClientInv, MainHolds
<1>8. AckInv'
  BY <1>1, <1>3, <1>4 DEF IInv, AckInv, MainHolds, AppHolds
<1>9. WireInv'
  BY <1>1, <1>4 DEF IInv, WireInv
<1>10. ConnectInv' /\ EndInv' /\ LifeInv'
  BY <1>1, <1>2, <1>3, <1>4 DEF IInv, ConnectInv, EndInv, LifeInv, MainHolds
<1> QED BY <1>1, <1>6, <1>7, <1>8, <1>9, <1>10 DEF IInv
-----------------------------------------------------------------------------
(* app takes an event: it goes behind the threads that are there.          *)
LEMMA AppReceiveIInv == IInv /\ AppReceive => IInv'
<1> SUFFICES ASSUME IInv, AppReceive PROVE IInv'
  OBVIOUS
<1>1. /\ UNCHANGED <<moduleState, head, clientDisconnectFlag, mqtt_connected,
                     client, connAck, awaitedAck, ackSyncObj, session, wire,
                     subscribed, publishes, connects, main, curr, prev, ctx,
                     pub>>
      /\ app = "receive" /\ app' = "lock" /\ Requests("app")
      /\ msgQueue # << >> /\ msgQueue' = Tail(msgQueue)
      /\ event' = Head(msgQueue) /\ event' # "DESTROY"
  BY DEF AppReceive, moduleVars, ackVars, serverVars
<1>2. /\ msgQueue' \in Seq(Events) /\ Len(msgQueue') <= QueueLen
      /\ event' \in Events
      /\ \A x : InQueue(x) <=> InQueue(x)' \/ x = event'
      /\ \A x : msgQueue = <<x>> => msgQueue' = << >> /\ \A y : ~InQueue(y)'
  BY <1>1, EventTaken, QueueFacts, MqttAssumption DEF IInv, PointInv, ValueInv
<1>3. /\ moduleMutex' \in Seq(Threads) /\ IsInjective(moduleMutex')
      /\ \A u \in Threads : Queued(u)' <=> Queued(u) \/ u = "app"
      /\ \A u \in Threads : Holds(u) => Holds(u)'
      /\ \A a, b \in Threads : Ahead(a, b) => Ahead(a, b)'
      /\ \A a \in Threads : Queued(a) => Ahead(a, "app")'
  <2>1. ~Inside("app")
    BY <1>1 DEF Inside, AppIn, AppHolds
  <2> QED BY <1>1, <2>1, RequestsMutex DEF IInv, Threads
<1>4. /\ "app" \in Threads /\ "ctx" \in Threads /\ "main" \in Threads
      /\ ctx = "lock" => Queued("ctx")
      /\ event = None
  BY <1>1 DEF IInv, MutexInv, PointInv, Inside, Threads
<1>5. /\ ~Opening
      /\ event' = "CONNACK" => ctx = "run" /\ msgQueue' = << >>
                               /\ \A y : ~InQueue(y)'
  BY <1>1, <1>2 DEF IInv, WireInv, Clean, ConnectInv
<1> USE Same DEF Live, Refused, Clean, Opening, Connecting, DiscPending,
                 MayAwait, None
<1>6. ValueInv' /\ PointInv' /\ MutexInv' /\ ListInv'
  BY <1>1, <1>2, <1>3
  DEF IInv, ValueInv, PointInv, MutexInv, ListInv, Inside, Threads, AppIn,
      AppHolds, Events
<1>7. ClientInv' /\ AckInv' /\ WireInv'
  BY <1>1, <1>3, <1>4, <1>5 DEF IInv, ClientInv, AckInv, WireInv
<1>8. ConnectInv' /\ EndInv' /\ LifeInv'
  BY <1>1, <1>2, <1>3, <1>4, <1>5 DEF IInv, ConnectInv, EndInv, LifeInv
<1> QED BY <1>1, <1>6, <1>7, <1>8 DEF IInv

LEMMA AppDestroyIInv == IInv /\ AppDestroy => IInv'
<1> SUFFICES ASSUME IInv, AppDestroy PROVE IInv'
  OBVIOUS
<1>1. /\ UNCHANGED <<moduleState, head, clientDisconnectFlag, mqtt_connected,
                     client, connAck, awaitedAck, ackSyncObj, session, wire,
                     subscribed, publishes, connects, main, event, curr, prev,
                     ctx, pub, moduleMutex>>
      /\ app = "receive" /\ app' = "not_created"
      /\ msgQueue # << >> /\ msgQueue' = << >> /\ Head(msgQueue) = "DESTROY"
  BY DEF AppDestroy, moduleVars, ackVars, serverVars
<1>2. /\ msgQueue' \in Seq(Events) /\ Len(msgQueue') <= QueueLen
      /\ \A x : ~InQueue(x)' 
  BY <1>1, QueueFacts, MqttAssumption
<1>3. main = "init" /\ event = None
  <2>1. InQueue("DESTROY")
    BY <1>1, Taken DEF IInv, PointInv, InQueue
  <2> QED BY <2>1, <1>1 DEF IInv, LifeInv, PointInv
<1> USE Same DEF Live, Refused, Clean, Opening, Connecting, DiscPending,
                 MayAwait, None
<1>6. ValueInv' /\ PointInv' /\ MutexInv' /\ ListInv'
  BY <1>1, <1>2, <1>3
  DEF IInv, ValueInv, PointInv, MutexInv, ListInv, Inside, Threads, AppIn,
      AppHolds
<1>7. ClientInv' /\ AckInv' /\ WireInv'
  BY <1>1, <1>3 DEF IInv, ClientInv, AckInv, WireInv
<1>8. ConnectInv' /\ EndInv' /\ LifeInv'
  BY <1>1, <1>2, <1>3 DEF IInv, ConnectInv, EndInv, LifeInv
<1> QED BY <1>1, <1>6, <1>7, <1>8 DEF IInv

(* What leaving the mutex keeps, for the events that only call back.       *)
LEMMA AppMessageIInv == IInv /\ AppMessage => IInv'
<1> SUFFICES ASSUME IInv, AppMessage PROVE IInv'
  OBVIOUS
<1>1. /\ UNCHANGED <<moduleState, head, clientDisconnectFlag, mqtt_connected,
                     client, connAck, awaitedAck, ackSyncObj, session, wire,
                     subscribed, publishes, connects, main, curr, prev, ctx,
                     pub, msgQueue>>
      /\ app = "lock" /\ app' = "receive" /\ Holds("app") /\ Releases
      /\ event = "RECV" /\ event' = None
  BY DEF AppMessage, AppLocked, AppLeaves, moduleVars, ackVars, serverVars
<1>2. /\ moduleMutex' \in Seq(Threads) /\ IsInjective(moduleMutex')
      /\ \A u \in Threads : Queued(u)' <=> Queued(u) /\ u # "app"
      /\ \A a, b \in Threads : Ahead(a, b) /\ a # "app" => Ahead(a, b)'
  BY <1>1, ReleasesMutex DEF IInv, Threads
<1>3. /\ main \notin MainHolds \cup {"connect_lock"} /\ ~Opening
      /\ ~InQueue("CONNACK")
  BY <1>1, HoldsMutex
  DEF IInv, MutexInv, Threads, WireInv, MainHolds, Clean, ConnectInv, LifeInv
<1> USE Same DEF Live, Refused, Clean, Opening, Connecting, DiscPending,
                 MayAwait, None
<1>6. ValueInv' /\ PointInv' /\ MutexInv' /\ ListInv'
  BY <1>1, <1>2, <1>3
  DEF IInv, ValueInv, PointInv, MutexInv, ListInv, Inside, Threads, AppIn,
      AppHolds, MainHolds
<1>7. ClientInv' /\ AckInv' /\ WireInv'
  BY <1>1, <1>3 DEF IInv, ClientInv, AckInv, WireInv
<1>8. ConnectInv' /\ EndInv' /\ LifeInv'
  BY <1>1, <1>2, <1>3 DEF IInv, ConnectInv, EndInv, LifeInv, MainHolds, Threads
<1> QED BY <1>1, <1>6, <1>7, <1>8 DEF IInv

LEMMA AppDisconnectIInv == IInv /\ AppDisconnect => IInv'
<1> SUFFICES ASSUME IInv, AppDisconnect PROVE IInv'
  OBVIOUS
<1>1. /\ UNCHANGED <<moduleState, head, client, connAck, awaitedAck, ackSyncObj,
                     session, wire, subscribed, publishes, connects, main, curr,
                     prev, ctx, pub, msgQueue>>
      /\ app = "lock" /\ app' = "receive" /\ Holds("app") /\ Releases
      /\ event = "SERVER_DISCONNECT" /\ event' = None
      /\ ~clientDisconnectFlag' /\ clientDisconnectFlag' = FALSE
      /\ ~mqtt_connected' /\ mqtt_connected' = FALSE
  BY DEF AppDisconnect, AppLocked, ackVars, serverVars
<1>2. /\ moduleMutex' \in Seq(Threads) /\ IsInjective(moduleMutex')
      /\ \A u \in Threads : Queued(u)' <=> Queued(u) /\ u # "app"
      /\ \A a, b \in Threads : Ahead(a, b) /\ a # "app" => Ahead(a, b)'
  BY <1>1, ReleasesMutex DEF IInv, Threads
<1>3. /\ main \notin MainHolds \cup {"connect_lock"} /\ ~Opening
      /\ ~InQueue("CONNACK")
      /\ ctx = "none"
  BY <1>1, HoldsMutex
  DEF IInv, MutexInv, Threads, WireInv, MainHolds, Clean, ConnectInv, LifeInv,
      EndInv, DiscPending
<1> USE Same DEF Live, Refused, Clean, Opening, Connecting, DiscPending,
                 MayAwait, None
<1>5. ValueInv'
  BY <1>1 DEF IInv, ValueInv
<1>6. PointInv' /\ MutexInv' /\ ListInv'
  BY <1>1, <1>2, <1>3
  DEF IInv, ValueInv, PointInv, MutexInv, ListInv, Inside, Threads, AppIn,
      AppHolds, MainHolds
<1>7. ClientInv' /\ AckInv' /\ WireInv'
  BY <1>1, <1>3 DEF IInv, ClientInv, AckInv, WireInv, MainHolds
<1>8. ConnectInv' /\ EndInv' /\ LifeInv'
  BY <1>1, <1>2, <1>3 DEF IInv, ConnectInv, EndInv, LifeInv, MainHolds, Threads
<1> QED BY <1>1, <1>5, <1>6, <1>7, <1>8 DEF IInv

LEMMA AppConnackIInv == IInv /\ AppConnack => IInv'
<1> SUFFICES ASSUME IInv, AppConnack PROVE IInv'
  OBVIOUS
<1>1. /\ UNCHANGED <<moduleState, head, clientDisconnectFlag, mqtt_connected,
                     client, connAck, awaitedAck, ackSyncObj, session, wire,
                     subscribed, publishes, connects, main, event, ctx, pub,
                     msgQueue, moduleMutex>>
      /\ app = "lock" /\ app' = "subscribe" /\ Holds("app")
      /\ event = "CONNACK" /\ curr' = 1 /\ prev' = 0
  BY DEF AppConnack, AppLocked, moduleVars, ackVars, serverVars
<1>2. /\ main \notin MainHolds \cup {"connect_lock"} /\ ~Opening
      /\ Len(head) \in Nat
  BY <1>1, HoldsMutex
  DEF IInv, MutexInv, Threads, WireInv, MainHolds, Clean, ListInv
<1> USE Same DEF Live, Refused, Clean, Opening, Connecting, DiscPending,
                 MayAwait, None
<1>6. ValueInv' /\ PointInv' /\ MutexInv' /\ ListInv'
  BY <1>1, <1>2
  DEF IInv, ValueInv, PointInv, MutexInv, ListInv, Inside, Threads, AppIn,
      AppHolds, MainHolds
<1>7. ClientInv' /\ AckInv' /\ WireInv'
  BY <1>1, <1>2 DEF IInv, ClientInv, AckInv, WireInv, MainHolds
<1>8. ConnectInv' /\ EndInv' /\ LifeInv'
  BY <1>1, <1>2 DEF IInv, ConnectInv, EndInv, LifeInv, MainHolds, Threads
<1> QED BY <1>1, <1>6, <1>7, <1>8 DEF IInv

(* A failed subscription shortens the list and keeps the place inside it.  *)
LEMMA SubscribeFailsList ==
    ASSUME ListInv, app \in AppHolds, curr <= Len(head), SubscribeFails,
           main' = main
    PROVE  ListInv' /\ app' = "subscribe"
<1> DEFINE T == Range(Topics)
           front == SubSeq(head, 1, prev)
<1>1. /\ head \in Seq(T) /\ curr \in Nat /\ prev \in Nat /\ curr >= 1
      /\ prev < curr /\ Len(head) \in Nat
  BY DEF ListInv
<1>2. AfterCurr \in Seq(T) /\ Len(AfterCurr) = Len(head) - curr
  <2>1. \A i \in curr + 1 .. Len(head) : head[i] \in T
    BY <1>1
  <2>2. curr + 1 \in Int /\ Len(head) \in Int
    BY <1>1
  <2>3. /\ SubSeq(head, curr + 1, Len(head)) \in Seq(T)
        /\ Len(SubSeq(head, curr + 1, Len(head))) =
              IF curr + 1 <= Len(head) THEN Len(head) - (curr + 1) + 1 ELSE 0
    BY <2>1, <2>2, SubSeqProperties
  <2> QED BY <2>3, <1>1 DEF AfterCurr
<1>3. front \in Seq(T) /\ Len(front) = prev
  <2>1. \A i \in 1 .. prev : head[i] \in T
    BY <1>1
  <2>2. 1 \in Int /\ prev \in Int
    BY <1>1
  <2>3. /\ front \in Seq(T)
        /\ Len(front) = IF 1 <= prev THEN prev - 1 + 1 ELSE 0
    BY <2>1, <2>2, SubSeqProperties
  <2> QED BY <2>3, <1>1
<1> HIDE DEF T, front
<1>4. /\ head' \in Seq(T) /\ Len(head') \in Nat
      /\ Len(head') = IF curr = 1 THEN Len(head) - 1
                                  ELSE prev + (Len(head) - curr)
  <2>1. CASE curr = 1
    BY <2>1, <1>1, <1>2 DEF SubscribeFails
  <2>2. CASE curr # 1
    <3>1. head' = front \o AfterCurr
      BY <2>2 DEF SubscribeFails, front
    <3>2. /\ front \o AfterCurr \in Seq(T)
          /\ Len(front \o AfterCurr) = Len(front) + Len(AfterCurr)
      BY <1>2, <1>3, ConcatProperties
    <3>3. head' \in Seq(T) /\ Len(head') = prev + (Len(head) - curr)
      BY <3>1, <3>2, <1>2, <1>3
    <3> QED BY <3>3, <2>2, <1>1
  <2> QED BY <2>1, <2>2
<1>5. /\ curr' = IF curr = 1 THEN 1
                 ELSE IF curr < Len(head) THEN prev + 2 ELSE prev + 1
      /\ prev' = prev /\ app' = "subscribe"
  BY DEF SubscribeFails
<1>6. main # "init" /\ (main = "subscribe" => Len(head) < Len(Topics))
      /\ Len(head) <= Len(Topics)
  BY <1>1 DEF ListInv
<1>7. Len(Topics) \in Nat
  BY MqttAssumption
<1>8. /\ Len(head') <= Len(head) /\ prev' < curr' /\ prev' <= Len(head')
      /\ curr' <= Len(head') + 1 /\ curr' \in Nat /\ prev' \in Nat
  BY <1>1, <1>4, <1>5
<1>9. Len(head') <= Len(Topics) /\ (main' = "subscribe" => Len(head') < Len(Topics))
  BY <1>1, <1>4, <1>6, <1>7, <1>8
<1> QED BY <1>4, <1>5, <1>6, <1>8, <1>9 DEF ListInv, AppHolds, T

(* While app subscribes it holds the mutex: only the connection may end.   *)
LEMMA SubscribingFacts ==
    ASSUME IInv, app \in AppHolds
    PROVE  /\ Holds("app") /\ event = "CONNACK"
           /\ main \notin MainHolds \cup {"connect_lock"} /\ ~Opening
           /\ ctx # "none" /\ ~InQueue("CONNACK")
           /\ main = "wait_connected" /\ ~mqtt_connected
           /\ (MayAwait /\ app # "await_suback") => ackSyncObj = 0
<1>1. Holds("app") /\ event = "CONNACK"
  BY DEF IInv, MutexInv, PointInv
<1>2. main \notin MainHolds \cup {"connect_lock"}
  BY <1>1, HoldsMutex DEF IInv, MutexInv, Threads
<1>3. main \in {"await_connack", "wait_connected"} /\ ~mqtt_connected
  BY <1>1 DEF IInv, ConnectInv, Connecting
<1>4. ~Opening /\ ~InQueue("CONNACK")
  BY <1>2, <1>3 DEF IInv, WireInv, ConnectInv, MainHolds, AppHolds
<1> QED BY <1>1, <1>2, <1>3, <1>4
        DEF IInv, ClientInv, AckInv, ValueInv, MainHolds

LEMMA AppSubscribeIInv == IInv /\ AppSubscribe => IInv'
<1> SUFFICES ASSUME IInv, AppSubscribe PROVE IInv'
  OBVIOUS
<1>1. /\ UNCHANGED <<moduleState, clientDisconnectFlag, mqtt_connected, client,
                     connAck, ackSyncObj, session, wire, subscribed, publishes,
                     connects, main, event, ctx, pub, msgQueue, moduleMutex>>
      /\ app = "subscribe" /\ curr <= Len(head)
  BY DEF AppSubscribe, serverVars
<1>2. /\ Holds("app") /\ event = "CONNACK" /\ ~Opening /\ ctx # "none"
      /\ main = "wait_connected" /\ ~InQueue("CONNACK") /\ ~mqtt_connected
      /\ MayAwait => ackSyncObj = 0
  BY <1>1, SubscribingFacts DEF AppHolds
<1>3. \/ /\ MayAwait /\ awaitedAck' = "SUBACK" /\ app' = "send_sub"
         /\ UNCHANGED <<head, curr, prev>>
      \/ ~MayAwait /\ SubscribeFails /\ UNCHANGED awaitedAck
  BY DEF AppSubscribe
<1>4. ListInv'
  <2>1. CASE SubscribeFails
    BY <2>1, <1>1, SubscribeFailsList DEF IInv, AppHolds
  <2>2. CASE ~SubscribeFails
    BY <2>2, <1>1, <1>3 DEF IInv, ListInv, AppHolds
  <2> QED BY <2>1, <2>2
<1>5. \/ MayAwait /\ awaitedAck' = "SUBACK" /\ app' = "send_sub"
      \/ ~MayAwait /\ app' = "subscribe" /\ UNCHANGED awaitedAck
  BY <1>3 DEF SubscribeFails
<1> USE Same DEF Live, Refused, Clean, Opening, Connecting, DiscPending,
                 MayAwait, None
<1>6. ValueInv' /\ PointInv' /\ MutexInv'
  BY <1>1, <1>2, <1>5
  DEF IInv, ValueInv, PointInv, MutexInv, Inside, Threads, AppIn, AppHolds
<1>7. ClientInv' /\ AckInv' /\ WireInv'
  BY <1>1, <1>2, <1>5 DEF IInv, ClientInv, AckInv, WireInv
<1>8. ConnectInv' /\ EndInv' /\ LifeInv'
  BY <1>1, <1>2, <1>5 DEF IInv, ConnectInv, EndInv, LifeInv
<1> QED BY <1>1, <1>4, <1>6, <1>7, <1>8 DEF IInv

LEMMA AppSubSentIInv == IInv /\ AppSubSent => IInv'
<1> SUFFICES ASSUME IInv, AppSubSent PROVE IInv'
  OBVIOUS
<1>1. /\ UNCHANGED <<moduleState, clientDisconnectFlag, mqtt_connected, client,
                     head, connAck, awaitedAck, ackSyncObj, session, publishes,
                     connects, main, event, curr, prev, ctx, pub, msgQueue,
                     moduleMutex>>
      /\ app = "send_sub" /\ app' = "await_suback"
  BY DEF AppSubSent, moduleVars, ackVars
<1>2. /\ Holds("app") /\ event = "CONNACK" /\ ~Opening /\ ctx # "none"
      /\ main = "wait_connected" /\ ~InQueue("CONNACK") /\ ~mqtt_connected
      /\ MayAwait => ackSyncObj = 0
  BY <1>1, SubscribingFacts DEF AppHolds
<1>3. ~OnTheWay("SUBACK")
  BY <1>1 DEF IInv, WireInv
<1>4. subscribed' \subseteq Range(Topics)
  <2>1. /\ head \in Seq(Range(Topics)) /\ curr \in Nat /\ prev \in Nat
        /\ prev < curr /\ curr <= Len(head)
    BY <1>1 DEF IInv, ListInv, AppHolds
  <2>2. head[curr] \in Range(Topics)
    BY <2>1
  <2> QED BY <2>2 DEF AppSubSent, IInv, ValueInv
<1>5. \/ UNCHANGED wire
      \/ /\ session = "open" /\ ctx = "run" /\ MayAwait
         /\ WireForm' /\ wire' # << >>
         /\ \A x : OnTheWay(x)' <=> OnTheWay(x) \/ x = "SUBACK"
  <2>1. CASE session = "open"
    <3>1. ~OnTheWay("DISCONN") /\ ctx = "run" /\ MayAwait
      BY <2>1 DEF IInv, WireInv
    <3>2. wire' = Append(wire, "SUBACK")
      BY <2>1 DEF AppSubSent
    <3> QED BY <2>1, <3>1, <3>2, <1>3, PacketSent DEF IInv, Packets, Answers
  <2> QED BY <2>1 DEF AppSubSent
<1> USE Same DEF Live, Refused, Clean, Opening, Connecting, DiscPending,
                 MayAwait, None
<1>6. ValueInv' /\ PointInv' /\ MutexInv' /\ ListInv'
  BY <1>1, <1>2, <1>4
  DEF IInv, ValueInv, PointInv, MutexInv, ListInv, Inside, Threads, AppIn,
      AppHolds
<1>7. WireForm' /\ ClientInv' /\ AckInv'
  BY <1>1, <1>2, <1>5 DEF IInv, ClientInv, AckInv
<1>8. WireInv'
  BY <1>1, <1>2, <1>3, <1>5 DEF IInv, WireInv, AckInv
<1>9. ConnectInv' /\ EndInv' /\ LifeInv'
  BY <1>1, <1>2, <1>5 DEF IInv, ConnectInv, EndInv, LifeInv
<1> QED BY <1>6, <1>7, <1>8, <1>9 DEF IInv

LEMMA AppSubFailsIInv == IInv /\ AppSubFails => IInv'
<1> SUFFICES ASSUME IInv, AppSubFails PROVE IInv'
  OBVIOUS
<1>1. /\ UNCHANGED <<moduleState, clientDisconnectFlag, mqtt_connected, client,
                     connAck, ackSyncObj, session, wire, subscribed, publishes,
                     connects, main, event, ctx, pub, msgQueue, moduleMutex>>
      /\ app = "send_sub" /\ session = "closed"
      /\ awaitedAck' = IF awaitedAck = "SUBACK" THEN None ELSE awaitedAck
      /\ SubscribeFails
  BY DEF AppSubFails, serverVars
<1>2. /\ Holds("app") /\ event = "CONNACK" /\ ~Opening /\ ctx # "none"
      /\ main = "wait_connected" /\ ~InQueue("CONNACK") /\ ~mqtt_connected
      /\ MayAwait => ackSyncObj = 0
  BY <1>1, SubscribingFacts DEF AppHolds
<1>3. ListInv' /\ app' = "subscribe"
  <2>1. curr <= Len(head) /\ app \in AppHolds
    BY <1>1 DEF IInv, ListInv, AppHolds
  <2> QED BY <2>1, <1>1, SubscribeFailsList DEF IInv
<1> USE Same DEF Live, Refused, Clean, Opening, Connecting, DiscPending,
                 MayAwait, None
<1>6. ValueInv' /\ PointInv' /\ MutexInv'
  BY <1>1, <1>2, <1>3
  DEF IInv, ValueInv, PointInv, MutexInv, Inside, Threads, AppIn, AppHolds
<1>7. ClientInv' /\ AckInv' /\ WireInv'
  BY <1>1, <1>2, <1>3 DEF IInv, ClientInv, AckInv, WireInv
<1>8. ConnectInv' /\ EndInv' /\ LifeInv'
  BY <1>1, <1>2, <1>3 DEF IInv, ConnectInv, EndInv, LifeInv
<1> QED BY <1>1, <1>3, <1>6, <1>7, <1>8 DEF IInv

LEMMA AppSubackedIInv == IInv /\ AppSubacked => IInv'
<1> SUFFICES ASSUME IInv, AppSubacked PROVE IInv'
  OBVIOUS
<1>1. /\ UNCHANGED <<moduleState, clientDisconnectFlag, mqtt_connected, client,
                     connAck, awaitedAck, session, wire, subscribed, publishes,
                     connects, main, event, ctx, pub, msgQueue, moduleMutex>>
      /\ app = "await_suback"
      /\ ackSyncObj > 0 /\ ackSyncObj' = ackSyncObj - 1
  BY DEF AppSubacked, SubackWait, AckArrived, serverVars
<1>2. /\ Holds("app") /\ event = "CONNACK" /\ ~Opening /\ ctx # "none"
      /\ main = "wait_connected" /\ ~InQueue("CONNACK") /\ ~mqtt_connected
  BY <1>1, SubscribingFacts DEF AppHolds
<1>3. curr <= Len(head) /\ app \in AppHolds
  BY <1>1 DEF IInv, ListInv, AppHolds
<1>4. ListInv' /\ app' = "subscribe"
  <2>1. CASE MayAwait
    <3>1. /\ prev' = curr /\ curr' = curr + 1 /\ app' = "subscribe"
          /\ head' = head
      BY <2>1 DEF AppSubacked
    <3> QED BY <3>1, <1>1, <1>3 DEF IInv, ListInv, AppHolds
  <2>2. CASE ~MayAwait
    <3>1. SubscribeFails
      BY <2>2 DEF AppSubacked
    <3> QED BY <3>1, <1>1, <1>3, SubscribeFailsList DEF IInv
  <2> QED BY <2>1, <2>2
<1>5. /\ ackSyncObj \in Nat /\ ackSyncObj <= 2
      /\ MayAwait => ackSyncObj' = 0
      /\ ~OnTheWay("SUBACK")
  BY <1>1 DEF IInv, ValueInv, AckInv, WireInv
<1> USE Same DEF Live, Refused, Clean, Opening, Connecting, DiscPending,
                 MayAwait, None
<1>6. ValueInv' /\ PointInv' /\ MutexInv'
  BY <1>1, <1>2, <1>4, <1>5
  DEF IInv, ValueInv, PointInv, MutexInv, Inside, Threads, AppIn, AppHolds
<1>7. ClientInv' /\ AckInv' /\ WireInv'
  BY <1>1, <1>2, <1>4, <1>5 DEF IInv, ClientInv, AckInv, WireInv
<1>8. ConnectInv' /\ EndInv' /\ LifeInv'
  BY <1>1, <1>2, <1>4 DEF IInv, ConnectInv, EndInv, LifeInv
<1> QED BY <1>1, <1>4, <1>6, <1>7, <1>8 DEF IInv

LEMMA AppSubscribedIInv == IInv /\ AppSubscribed => IInv'
<1> SUFFICES ASSUME IInv, AppSubscribed PROVE IInv'
  OBVIOUS
<1>1. /\ UNCHANGED <<moduleState, head, clientDisconnectFlag, client, connAck,
                     awaitedAck, ackSyncObj, session, wire, subscribed,
                     publishes, connects, main, ctx, pub, msgQueue>>
      /\ app = "subscribe" /\ app' = "receive" /\ Releases
      /\ event' = None /\ mqtt_connected' = TRUE /\ curr' = 0 /\ prev' = 0
  BY DEF AppSubscribed, AppLeaves, ackVars, serverVars
<1>2. /\ Holds("app") /\ event = "CONNACK" /\ ~Opening /\ ctx # "none"
      /\ main = "wait_connected" /\ ~InQueue("CONNACK")
  BY <1>1, SubscribingFacts DEF AppHolds
<1>3. /\ moduleMutex' \in Seq(Threads) /\ IsInjective(moduleMutex')
      /\ \A u \in Threads : Queued(u)' <=> Queued(u) /\ u # "app"
      /\ \A a, b \in Threads : Ahead(a, b) /\ a # "app" => Ahead(a, b)'
  BY <1>1, <1>2, ReleasesMutex DEF IInv, Threads
<1> USE Same DEF Live, Refused, Clean, Opening, Connecting, DiscPending,
                 MayAwait, None
<1>4. ValueInv'
  BY <1>1 DEF IInv, ValueInv
<1>5. Connecting' = FALSE /\ (main = "wait_connected" /\ Live /\ ~Refused
                                => moduleState = "CONNECTED")
  BY <1>1, <1>2 DEF IInv, ConnectInv
<1>6. PointInv' /\ MutexInv' /\ ListInv'
  BY <1>1, <1>2, <1>3
  DEF IInv, PointInv, MutexInv, ListInv, Inside, Threads, AppIn, AppHolds,
      MainHolds
<1>7. ClientInv' /\ AckInv' /\ WireInv'
  BY <1>1, <1>2 DEF IInv, ClientInv, AckInv, WireInv
<1>8. ConnectInv' /\ EndInv' /\ LifeInv'
  BY <1>1, <1>2, <1>5 DEF IInv, ConnectInv, EndInv, LifeInv
<1> QED BY <1>1, <1>4, <1>6, <1>7, <1>8 DEF IInv
-----------------------------------------------------------------------------
(* The server and the publisher.                                           *)
LEMMA ServerAnswersIInv == IInv /\ ServerAnswers => IInv'
<1> SUFFICES ASSUME IInv, ServerAnswers PROVE IInv'
  OBVIOUS
<1>1. /\ UNCHANGED <<moduleState, head, clientDisconnectFlag, mqtt_connected,
                     client, awaitedAck, ackSyncObj, connAck, subscribed,
                     publishes, connects, main, app, event, curr, prev, ctx,
                     pub, msgQueue, moduleMutex>>
      /\ session = "opening" /\ session' \in {"open", "refused"}
  BY DEF ServerAnswers, moduleVars, ackVars, appVars
<1>2. PICK p \in Answers : wire' = Append(wire, p)
  BY DEF ServerAnswers, Answers
<1>3. wire = << >> /\ ctx = "run" /\ MayAwait /\ \A x : ~OnTheWay(x)
  BY <1>1, WireEmpty DEF IInv, WireInv
<1>4. WireForm' /\ wire' # << >> /\ \A x : OnTheWay(x)' <=> x = p
  BY <1>2, <1>3, PacketSent DEF IInv, Packets, Answers
<1>5. Opening /\ Opening' /\ main = "await_connack" /\ ~mqtt_connected
      /\ pub # "sending"
  BY <1>1, <1>4 DEF Opening, Answers, IInv, ClientInv, WireInv, ConnectInv,
                    Connecting
<1> USE Same DEF Live, Refused, Clean, Connecting, DiscPending, MayAwait, None
<1>6. ValueInv' /\ PointInv' /\ MutexInv' /\ ListInv'
  BY <1>1 DEF IInv, ValueInv, PointInv, MutexInv, Inside, ListInv
<1>7. ClientInv' /\ AckInv'
  BY <1>1, <1>5 DEF IInv, ClientInv, AckInv
<1>8. WireInv'
  BY <1>1, <1>3, <1>4, <1>5 DEF IInv, WireInv, Answers
<1>9. ConnectInv' /\ EndInv' /\ LifeInv'
  BY <1>1, <1>5 DEF IInv, ConnectInv, EndInv, LifeInv
<1> QED BY <1>4, <1>6, <1>7, <1>8, <1>9 DEF IInv

LEMMA ServerPublishesIInv == IInv /\ ServerPublishes => IInv'
<1> SUFFICES ASSUME IInv, ServerPublishes PROVE IInv'
  OBVIOUS
<1>1. /\ UNCHANGED <<moduleState, head, clientDisconnectFlag, mqtt_connected,
                     client, awaitedAck, ackSyncObj, connAck, subscribed,
                     session, connects, main, app, event, curr, prev, ctx, pub,
                     msgQueue, moduleMutex>>
      /\ session = "open" /\ wire' = Append(wire, "PUBLISH")
      /\ publishes < MaxPublishes /\ publishes' = publishes + 1
  BY DEF ServerPublishes, moduleVars, ackVars, appVars
<1>2. ctx = "run" /\ MayAwait /\ ~OnTheWay("DISCONN")
  BY <1>1 DEF IInv, WireInv
<1>3. /\ WireForm' /\ wire' # << >>
      /\ \A x : OnTheWay(x)' <=> OnTheWay(x) \/ x = "PUBLISH"
  BY <1>1, <1>2, PacketSent DEF IInv, Packets, Answers
<1>4. Opening' <=> Opening
  BY <1>1, <1>3 DEF Opening
<1> USE Same DEF Live, Refused, Clean, Connecting, DiscPending, MayAwait, None
<1>5. publishes' \in 0 .. MaxPublishes
  BY <1>1, MqttAssumption DEF IInv, ValueInv
<1>6. ValueInv' /\ PointInv' /\ MutexInv' /\ ListInv'
  BY <1>1, <1>5 DEF IInv, ValueInv, PointInv, MutexInv, Inside, ListInv
<1>7. ClientInv' /\ AckInv' /\ WireInv'
  BY <1>1, <1>2, <1>3, <1>4 DEF IInv, ClientInv, AckInv, WireInv
<1>9. ConnectInv' /\ EndInv' /\ LifeInv'
  BY <1>1, <1>4 DEF IInv, ConnectInv, EndInv, LifeInv
<1> QED BY <1>3, <1>6, <1>7, <1>9 DEF IInv

LEMMA ServerClosesIInv == IInv /\ ServerCloses => IInv'
<1> SUFFICES ASSUME IInv, ServerCloses PROVE IInv'
  OBVIOUS
<1>1. /\ UNCHANGED <<moduleState, head, clientDisconnectFlag, mqtt_connected,
                     client, awaitedAck, ackSyncObj, connAck, publishes,
                     connects, main, app, event, curr, prev, ctx, pub, msgQueue,
                     moduleMutex>>
      /\ session # "closed" /\ session' = "closed" /\ subscribed' = {}
      /\ wire' = Append(wire, "DISCONN")
  BY DEF ServerCloses, moduleVars, ackVars, appVars
<1>2. ctx = "run" /\ MayAwait /\ ~OnTheWay("DISCONN")
  BY <1>1 DEF IInv, WireInv
<1>3. /\ WireForm' /\ wire' # << >>
      /\ \A x : OnTheWay(x)' <=> OnTheWay(x) \/ x = "DISCONN"
  BY <1>1, <1>2, PacketSent DEF IInv, Packets, Answers
<1>4. Opening' => Opening
  BY <1>1, <1>3 DEF Opening
<1> USE Same DEF Live, Refused, Clean, Connecting, DiscPending, MayAwait, None
<1>6. ValueInv' /\ PointInv' /\ MutexInv' /\ ListInv'
  BY <1>1 DEF IInv, ValueInv, PointInv, MutexInv, Inside, ListInv
<1>7. ClientInv' /\ AckInv' /\ WireInv'
  BY <1>1, <1>2, <1>3, <1>4 DEF IInv, ClientInv, AckInv, WireInv
<1>9. ConnectInv' /\ EndInv' /\ LifeInv'
  BY <1>1, <1>4 DEF IInv, ConnectInv, EndInv, LifeInv
<1> QED BY <1>3, <1>6, <1>7, <1>9 DEF IInv

LEMMA PubRequestIInv == IInv /\ PubRequest => IInv'
<1> SUFFICES ASSUME IInv, PubRequest PROVE IInv'
  OBVIOUS
<1>1. /\ UNCHANGED <<moduleState, head, clientDisconnectFlag, mqtt_connected,
                     client, awaitedAck, ackSyncObj, connAck, session, wire,
                     subscribed, publishes, connects, main, app, event, curr,
                     prev, ctx, msgQueue>>
      /\ pub = "idle" /\ pub' = "lock" /\ Requests("pub")
  BY DEF PubRequest, moduleVars, ackVars, serverVars, appVars
<1>2. /\ moduleMutex' \in Seq(Threads) /\ IsInjective(moduleMutex')
      /\ \A u \in Threads : Queued(u)' <=> Queued(u) \/ u = "pub"
      /\ \A u \in Threads : Holds(u) => Holds(u)'
      /\ \A a, b \in Threads : Ahead(a, b) => Ahead(a, b)'
  <2>1. ~Inside("pub")
    BY <1>1 DEF Inside
  <2> QED BY <1>1, <2>1, RequestsMutex DEF IInv, Threads
<1>3. "app" \in Threads /\ "ctx" \in Threads /\ "main" \in Threads
  BY DEF Threads
<1> USE Same DEF Live, Refused, Clean, Opening, Connecting, DiscPending,
                 MayAwait, None
<1>6. ValueInv' /\ PointInv' /\ MutexInv' /\ ListInv'
  BY <1>1, <1>2
  DEF IInv, ValueInv, PointInv, MutexInv, Inside, Threads, ListInv
<1>7. ClientInv' /\ AckInv' /\ WireInv'
  BY <1>1, <1>2, <1>3 DEF IInv, ClientInv, AckInv, WireInv
<1>9. ConnectInv' /\ EndInv' /\ LifeInv'
  BY <1>1, <1>2, <1>3 DEF IInv, ConnectInv, EndInv, LifeInv
<1> QED BY <1>1, <1>6, <1>7, <1>9 DEF IInv

(* The publication that may start: its client is connected and stays.      *)
LEMMA PubChecksIInv == IInv /\ PubChecks => IInv'
<1> SUFFICES ASSUME IInv, PubChecks PROVE IInv'
  OBVIOUS
<1>1. /\ UNCHANGED <<moduleState, head, clientDisconnectFlag, mqtt_connected,
                     client, ackSyncObj, connAck, session, wire, subscribed,
                     publishes, connects, main, app, event, curr, prev, ctx,
                     msgQueue>>
      /\ pub = "lock" /\ Holds("pub") /\ Releases
      /\ \/ /\ moduleState = "CONNECTED" /\ MayAwait
            /\ awaitedAck' = None /\ pub' = "sending"
         \/ UNCHANGED awaitedAck /\ pub' = "idle"
  BY DEF PubChecks, moduleVars, serverVars, appVars
<1>2. /\ moduleMutex' \in Seq(Threads) /\ IsInjective(moduleMutex')
      /\ \A u \in Threads : Queued(u)' <=> Queued(u) /\ u # "pub"
      /\ \A a, b \in Threads : Ahead(a, b) /\ a # "pub" => Ahead(a, b)'
      /\ "app" \in Threads /\ "ctx" \in Threads /\ "main" \in Threads
  BY <1>1, ReleasesMutex DEF IInv, Threads
<1>3. /\ main \notin MainHolds \cup {"connect_lock"} /\ app \notin AppHolds
      /\ ~Opening
  BY <1>1, HoldsMutex DEF IInv, MutexInv, Threads, WireInv, MainHolds
<1> USE Same DEF Live, Refused, Clean, Connecting, DiscPending, MayAwait, None
<1>4. ~Opening'
  BY <1>1, <1>3 DEF Opening
<1>6. ValueInv' /\ PointInv' /\ MutexInv' /\ ListInv'
  BY <1>1, <1>2, <1>3
  DEF IInv, ValueInv, PointInv, MutexInv, Inside, Threads, ListInv
<1>7. ClientInv' /\ AckInv' /\ WireInv'
  BY <1>1, <1>2, <1>3, <1>4
  DEF IInv, ClientInv, AckInv, WireInv, MainHolds, AppHolds
<1>9. ConnectInv' /\ EndInv' /\ LifeInv'
  BY <1>1, <1>2, <1>3, <1>4
  DEF IInv, ConnectInv, EndInv, LifeInv, MainHolds, AppHolds
<1> QED BY <1>1, <1>6, <1>7, <1>9 DEF IInv

LEMMA PubSentIInv == IInv /\ PubSent => IInv'
<1> SUFFICES ASSUME IInv, PubSent PROVE IInv'
  OBVIOUS
<1>1. /\ UNCHANGED <<moduleState, head, clientDisconnectFlag, mqtt_connected,
                     client, awaitedAck, ackSyncObj, connAck, session, wire,
                     subscribed, publishes, connects, main, app, event, curr,
                     prev, ctx, msgQueue, moduleMutex>>
      /\ pub = "sending" /\ pub' = "idle"
  BY DEF PubSent, moduleVars, ackVars, serverVars, appVars
<1> USE Same DEF Live, Refused, Clean, Opening, Connecting, DiscPending,
                 MayAwait, None
<1>6. ValueInv' /\ PointInv' /\ MutexInv' /\ ListInv'
  BY <1>1 DEF IInv, ValueInv, PointInv, MutexInv, Inside, Threads, ListInv
<1>7. ClientInv' /\ AckInv' /\ WireInv'
  BY <1>1 DEF IInv, ClientInv, AckInv, WireInv
<1>9. ConnectInv' /\ EndInv' /\ LifeInv'
  BY <1>1 DEF IInv, ConnectInv, EndInv, LifeInv
<1> QED BY <1>1, <1>6, <1>7, <1>9 DEF IInv
-----------------------------------------------------------------------------
(* main runs: app and ctx wait for something, ctx maybe for room.          *)
LEMMA MainRuns ==
    ASSUME IInv, NEW at, Runs(at)
    PROVE  /\ main = at
           /\ ~(pub = "lock" /\ Holds("pub"))
           /\ \/ app = "not_created"
              \/ app = "receive" /\ msgQueue = << >>
              \/ app = "lock" /\ ~Holds("app")
              \/ app = "await_suback" /\ ackSyncObj = 0
           /\ \/ ctx \in {"none", "wait_rxtx"}
              \/ ctx = "run" /\ wire = << >> /\ MayAwait
              \/ ctx \in {"run", "disconnCB"} /\ msgQueue # << >>
                    /\ (ctx = "run" => wire # << >>)
              \/ ctx = "lock" /\ ~(Holds("ctx") /\ pub # "sending")
<1>1. ~Room => msgQueue # << >>
  BY MqttAssumption DEF Room
<1> QED BY <1>1 DEF Runs, MainLast, AppBlocked, CtxBlocked, CtxWaits, OnWire,
                    PubReady

(* main runs outside of its calls: nobody holds the mutex, or the context  *)
(* thread does, which the publication under way keeps from its end.        *)
LEMMA NobodyHolds ==
    ASSUME IInv, NEW at, Runs(at), at \in MainOut \ {"wait_connected"}
    PROVE  /\ app \in {"receive", "not_created", "lock"}
           /\ moduleMutex # << >> =>
                Holds("ctx") /\ ctx = "lock" /\ pub = "sending"
           /\ moduleMutex = << >> => app # "lock" /\ ctx # "lock"
<1>1. /\ main = at /\ main \notin MainIn
      /\ main \notin {"await_connack", "wait_connected"}
  BY MainRuns DEF MainOut, MainIn, MainHolds
<1>2. event # "CONNACK" /\ app \notin AppHolds
  BY <1>1 DEF IInv, ConnectInv, Connecting, PointInv
<1>3. app \in {"receive", "not_created", "lock"}
  BY <1>2 DEF IInv, PointInv, AppIn
<1>4. ASSUME moduleMutex # << >>
      PROVE  Holds("ctx") /\ ctx = "lock" /\ pub = "sending"
  <2>1. PICK t \in Threads : Holds(t) /\ Inside(t)
    BY <1>4, HoldsMutex DEF IInv, MutexInv
  <2>2. t = "ctx"
    BY <2>1, <1>1, <1>2, MainRuns
    DEF Threads, Inside, AppIn, AppHolds, IInv, PointInv
  <2>3. ctx = "lock"
    BY <2>1, <2>2 DEF Inside
  <2> QED BY <2>1, <2>2, <2>3, MainRuns
<1>5. ASSUME moduleMutex = << >> PROVE app # "lock" /\ ctx # "lock"
  <2>1. ~Queued("app") /\ ~Queued("ctx")
    BY <1>5 DEF Queued, Range
  <2> QED BY <2>1 DEF IInv, MutexInv, Inside, Threads, AppIn
<1> QED BY <1>3, <1>4, <1>5

(* MQTT_IF_Init: no thread, event or topic is left of the life before,     *)
(* unless a refused connection has kept the module from ending.            *)
LEMMA InitFacts ==
    ASSUME IInv, Runs("init"), moduleState = "IDLE"
    PROVE  /\ app = "not_created" /\ head = << >>
           /\ ctx = "none" => msgQueue = << >>
           /\ ctx # "none" => Refused /\ ctx \in {"run", "disconnCB"}
           /\ pub # "sending"
<1>1. main = "init" /\ head = << >>
  BY MainRuns DEF IInv, ListInv
<1>2. ctx # "wait_rxtx"
  BY <1>1 DEF IInv, ClientInv
<1>3. ctx # "none" => Live /\ Refused
  BY <1>1, <1>2 DEF IInv, PointInv, LifeInv, Live
<1>4. pub # "sending"
  BY <1>3 DEF IInv, ClientInv
<1>5. moduleMutex = << >> /\ app \in {"receive", "not_created"} /\ ctx # "lock"
  BY <1>1, <1>4, NobodyHolds DEF MainOut
<1>6. app = "not_created"
  <2> SUFFICES ASSUME app # "not_created" PROVE FALSE
    OBVIOUS
  <2>1. InQueue("DESTROY") /\ msgQueue = << >>
    BY <1>5, MainRuns DEF IInv, LifeInv
  <2> QED BY <2>1, QueueFacts
<1>7. ctx = "none" => msgQueue = << >>
  BY <1>6 DEF IInv, LifeInv
<1> QED BY <1>1, <1>2, <1>3, <1>4, <1>5, <1>6, <1>7 DEF Live

LEMMA MqttInitIInv == IInv /\ MqttInit => IInv'
<1> SUFFICES ASSUME IInv, MqttInit PROVE IInv'
  OBVIOUS
<1>1. /\ UNCHANGED <<head, clientDisconnectFlag, mqtt_connected, moduleMutex,
                     msgQueue, client, awaitedAck, ackSyncObj, connAck,
                     session, wire, subscribed, publishes, connects, event,
                     curr, prev, ctx, pub>>
      /\ main = "init" /\ main' = "subscribe" /\ Runs("init")
      /\ \/ /\ moduleState = "IDLE"
            /\ moduleState' = "INITIALIZED" /\ app' = "receive"
         \/ UNCHANGED <<moduleState, app>>
  BY DEF MqttInit, ackVars, serverVars, Runs
<1>2. moduleState = "IDLE" => app = "not_created" /\ pub # "sending"
  BY <1>1, InitFacts
<1>3. ~InQueue("DESTROY")'
  <2>1. ctx = "lock" => pub # "sending"
    BY <1>1 DEF IInv, LifeInv, ClientInv, Live
  <2>2. app \in {"receive", "not_created"}
    BY <2>1, <1>1, NobodyHolds DEF MainOut
  <2>3. CASE app = "not_created"
    BY <2>3, <1>1, Same DEF IInv, LifeInv
  <2>4. CASE app = "receive"
    BY <2>4, <1>1, MainRuns, QueueFacts
  <2> QED BY <2>2, <2>3, <2>4
<1>4. ~Opening /\ event # "CONNACK" /\ ~InQueue("CONNACK")
  BY <1>1 DEF IInv, WireInv, ConnectInv, Connecting
<1> USE Same DEF Live, Refused, Clean, Opening, Connecting, DiscPending,
                 MayAwait, None
<1>6. ValueInv' /\ PointInv' /\ MutexInv' /\ ListInv'
  BY <1>1, <1>2, <1>4, MqttAssumption
  DEF IInv, ValueInv, PointInv, MutexInv, ListInv, Inside, Threads, AppIn,
      AppHolds, MainIn, MainHolds, MainOut
<1>7. ClientInv' /\ AckInv' /\ WireInv'
  BY <1>1, <1>2, <1>4 DEF IInv, ClientInv, AckInv, WireInv, MainHolds
<1>8. ConnectInv' /\ EndInv' /\ LifeInv'
  BY <1>1, <1>2, <1>3, <1>4 DEF IInv, ConnectInv, EndInv, LifeInv
<1> QED BY <1>1, <1>6, <1>7, <1>8 DEF IInv

(* The topic goes to the front of a list that is shorter than the topics,  *)
(* or is refused.                                                          *)
LEMMA MqttSubscribeIInv == IInv /\ MqttSubscribe => IInv'
<1> SUFFICES ASSUME IInv, MqttSubscribe PROVE IInv'
  OBVIOUS
<1>1. /\ UNCHANGED <<moduleState, clientDisconnectFlag, mqtt_connected,
                     moduleMutex, msgQueue, client, awaitedAck, ackSyncObj,
                     connAck, session, wire, subscribed, publishes, connects,
                     app, event, curr, prev, ctx, pub>>
      /\ main = "subscribe" /\ Runs("subscribe")
      /\ \/ head' = head /\ main' = "offline"
         \/ /\ head' = <<Topics[Len(head) + 1]>> \o head
            /\ main' = IF Len(head') = Len(Topics) THEN "offline" ELSE main
  BY DEF MqttSubscribe, Runs, ackVars, serverVars, appVars
<1>2. app \in {"receive", "not_created", "lock"}
  BY <1>1, NobodyHolds DEF MainOut
<1>3. /\ head' \in Seq(Range(Topics)) /\ Len(head') <= Len(Topics)
      /\ main' # "offline" => Len(head') < Len(Topics)
  <2>1. /\ head \in Seq(Range(Topics)) /\ Len(head) < Len(Topics)
        /\ Topics \in Seq(Range(Topics))
    BY <1>1, MqttAssumption DEF IInv, ListInv
  <2>2. Topics[Len(head) + 1] \in Range(Topics)
    BY <2>1
  <2>3. CASE head' = head /\ main' = "offline"
    BY <2>1, <2>3
  <2>4. CASE /\ head' = <<Topics[Len(head) + 1]>> \o head
             /\ main' = IF Len(head') = Len(Topics) THEN "offline" ELSE main
    <3>1. head' \in Seq(Range(Topics)) /\ Len(head') = Len(head) + 1
      BY <2>1, <2>2, <2>4
    <3> QED BY <2>1, <2>4, <3>1
  <2> QED BY <1>1, <2>3, <2>4
<1>4. ~Opening /\ event # "CONNACK" /\ ~InQueue("CONNACK")
      /\ (Live => Refused /\ moduleState # "CONNECTED")
  BY <1>1 DEF IInv, WireInv, ConnectInv, Connecting, LifeInv
<1> USE Same DEF Live, Refused, Clean, Opening, Connecting, DiscPending,
                 MayAwait, None
<1>5. main' \in {"subscribe", "offline"} /\ (main' = "subscribe" =>
         Len(head') < Len(Topics))
  BY <1>1, <1>3
<1>6. ValueInv' /\ PointInv' /\ MutexInv' /\ ListInv'
  BY <1>1, <1>2, <1>3, <1>5
  DEF IInv, ValueInv, PointInv, MutexInv, ListInv, Inside, Threads, AppIn,
      AppHolds, MainIn, MainHolds, MainOut
<1>7. ClientInv' /\ AckInv' /\ WireInv'
  BY <1>1, <1>4, <1>5 DEF IInv, ClientInv, AckInv, WireInv, MainHolds
<1>8. ConnectInv' /\ EndInv' /\ LifeInv'
  BY <1>1, <1>4, <1>5 DEF IInv, ConnectInv, EndInv, LifeInv
<1> QED BY <1>1, <1>6, <1>7, <1>8 DEF IInv

(* main connects: with the notice of the last end taken, its thread has    *)
(* gone, but for a connection that was refused.                            *)
LEMMA ConnectFacts ==
    ASSUME IInv, Runs("offline") \/ Runs("up"),
           ~mqtt_connected, ~clientDisconnectFlag
    PROVE  /\ ctx = "none" \/ Refused
           /\ ctx \in {"none", "run"}
           /\ moduleMutex = << >> /\ app \in {"receive", "not_created"}
           /\ ctx = "none" => Clean
<1>1. main \in {"offline", "up"} /\ ctx # "wait_rxtx"
  BY MainRuns DEF IInv, ClientInv
<1>2. ctx = "none" \/ (Live /\ Refused)
  BY <1>1 DEF IInv, PointInv, EndInv, Live
<1>3. ctx # "none" => pub # "sending"
  BY <1>2 DEF IInv, ClientInv
<1>4. moduleMutex = << >> /\ app \in {"receive", "not_created"}
  BY <1>3, NobodyHolds DEF MainOut
<1>5. ctx # "lock"
  BY <1>3, <1>4, NobodyHolds DEF MainOut
<1>6. msgQueue = << >>
  <2>1. CASE app = "receive"
    BY <2>1, MainRuns
  <2>2. CASE app = "not_created"
    BY <2>2, <1>1 DEF IInv, LifeInv
  <2> QED BY <1>4, <2>1, <2>2
<1>7. ctx # "disconnCB"
  BY <1>6, MainRuns
<1> QED BY <1>1, <1>2, <1>4, <1>5, <1>6, <1>7 DEF Live, Clean

LEMMA MqttConnectIInv == IInv /\ MqttConnect => IInv'
<1> SUFFICES ASSUME IInv, MqttConnect PROVE IInv'
  OBVIOUS
<1>1. /\ UNCHANGED <<moduleState, head, clientDisconnectFlag, mqtt_connected,
                     msgQueue, client, awaitedAck, ackSyncObj, connAck,
                     session, wire, subscribed, publishes, app, event, curr,
                     prev, ctx, pub>>
      /\ main \in {"offline", "up"} /\ (Runs("offline") \/ Runs("up"))
      /\ ~mqtt_connected /\ ~clientDisconnectFlag
      /\ connects < MaxConnects /\ connects' = connects + 1
      /\ Requests("main") /\ main' = "connect_lock"
  BY DEF MqttConnect, Runs, moduleVars, ackVars, serverVars, appVars
<1>2. /\ ctx = "none" \/ Refused
      /\ ctx \in {"none", "run"}
      /\ moduleMutex = << >> /\ app \in {"receive", "not_created"}
      /\ ctx = "none" => Clean
  BY <1>1, ConnectFacts
<1>3. /\ moduleMutex' \in Seq(Threads) /\ IsInjective(moduleMutex')
      /\ \A u \in Threads : Queued(u)' <=> Queued(u) \/ u = "main"
      /\ Holds("main")'
  <2>1. ~Inside("main")
    BY <1>1 DEF Inside, MainIn, MainHolds
  <2> QED BY <1>1, <1>2, <2>1, RequestsMutex DEF IInv, Threads
<1>4. ~Opening /\ event # "CONNACK" /\ ~InQueue("CONNACK")
  BY <1>1 DEF IInv, WireInv, ConnectInv, Connecting
<1>5. connects' \in 0 .. MaxConnects
  BY <1>1, MqttAssumption DEF IInv, ValueInv
<1> USE Same DEF Live, Refused, Clean, Opening, Connecting, DiscPending,
                 MayAwait, None
<1>6. ValueInv' /\ PointInv' /\ MutexInv' /\ ListInv'
  BY <1>1, <1>2, <1>3, <1>5
  DEF IInv, ValueInv, PointInv, MutexInv, ListInv, Inside, Threads, AppIn,
      AppHolds, MainIn, MainHolds, MainOut
<1>7. ClientInv' /\ AckInv' /\ WireInv'
  BY <1>1, <1>2, <1>4 DEF IInv, ClientInv, AckInv, WireInv, MainHolds
<1>8. ConnectInv' /\ EndInv' /\ LifeInv'
  BY <1>1, <1>2, <1>4 DEF IInv, ConnectInv, EndInv, LifeInv
<1> QED BY <1>1, <1>6, <1>7, <1>8 DEF IInv

(* The new client: app has nothing left to do for the one before.          *)
LEMMA ConnectCreateIInv == IInv /\ ConnectCreate => IInv'
<1> SUFFICES ASSUME IInv, ConnectCreate PROVE IInv'
  OBVIOUS
<1>1. /\ UNCHANGED <<moduleState, head, clientDisconnectFlag, mqtt_connected,
                     msgQueue, session, wire, subscribed, publishes, connects,
                     app, event, curr, prev, pub>>
      /\ main = "connect_lock" /\ Holds("main") /\ Runs("connect_lock")
  BY DEF ConnectCreate, Runs, moduleVars, serverVars, appVars
<1>2. /\ ~mqtt_connected /\ ~clientDisconnectFlag /\ app \notin AppHolds
      /\ ~Opening /\ event # "CONNACK" /\ ~InQueue("CONNACK")
      /\ IF ctx = "none" THEN Clean ELSE Refused
  BY <1>1, HoldsMutex
  DEF IInv, ConnectInv, EndInv, WireInv, MutexInv, Threads, Connecting
<1>3. CASE moduleState = "INITIALIZED"
  <2>1. /\ ctx = "none" /\ client' = TRUE /\ awaitedAck' = "CONNACK"
        /\ ackSyncObj' = 0 /\ connAck' = None /\ ctx' = "wait_rxtx"
        /\ main' = "send_connect" /\ UNCHANGED moduleMutex
    BY <1>1, <1>3 DEF ConnectCreate
  <2>2. pub # "sending" /\ Clean /\ session = "closed" /\ wire = << >>
    BY <1>2, <2>1 DEF IInv, ClientInv, WireInv
  <2> USE Same DEF Live, Refused, Clean, Opening, Connecting, DiscPending,
                   MayAwait, None
  <2>3. ValueInv' /\ PointInv' /\ MutexInv' /\ ListInv'
    BY <1>1, <1>2, <2>1
    DEF IInv, ValueInv, PointInv, MutexInv, ListInv, Inside, Threads, AppIn,
        AppHolds, MainIn, MainHolds, MainOut
  <2>4. ClientInv' /\ AckInv' /\ WireInv'
    BY <1>1, <1>2, <1>3, <2>1, <2>2, WireEmpty
    DEF IInv, ClientInv, AckInv, WireInv, AppHolds
  <2>5. ConnectInv' /\ EndInv' /\ LifeInv'
    BY <1>1, <1>2, <1>3, <2>1, <2>2, QueueFacts
    DEF IInv, PointInv, ConnectInv, EndInv, LifeInv
  <2> QED BY <1>1, <2>3, <2>4, <2>5 DEF IInv
<1>4. CASE moduleState # "INITIALIZED"
  <2>1. /\ UNCHANGED <<client, awaitedAck, ackSyncObj, connAck, ctx>>
        /\ Releases /\ main' = "wait_connected"
    BY <1>4 DEF ConnectCreate, ackVars
  <2>2. /\ moduleMutex' \in Seq(Threads) /\ IsInjective(moduleMutex')
        /\ \A u \in Threads : Queued(u)' <=> Queued(u) /\ u # "main"
        /\ \A a, b \in Threads : Ahead(a, b) /\ a # "main" => Ahead(a, b)'
        /\ "app" \in Threads /\ "ctx" \in Threads /\ "main" \in Threads
    BY <1>1, <2>1, ReleasesMutex DEF IInv, Threads
  <2> USE Same DEF Live, Refused, Clean, Opening, Connecting, DiscPending,
                   MayAwait, None
  <2>4. ValueInv' /\ PointInv' /\ MutexInv' /\ ListInv'
    BY <1>1, <1>2, <2>1, <2>2
    DEF IInv, ValueInv, PointInv, MutexInv, ListInv, Inside, Threads, AppIn,
        AppHolds, MainIn, MainHolds, MainOut
  <2>5. ClientInv' /\ AckInv' /\ WireInv'
    BY <1>1, <1>2, <2>1, <2>2 DEF IInv, ClientInv, AckInv, WireInv, MainHolds
  <2>6. ConnectInv' /\ EndInv' /\ LifeInv'
    BY <1>1, <1>2, <2>1, <2>2 DEF IInv, ConnectInv, EndInv, LifeInv
  <2> QED BY <1>1, <2>4, <2>5, <2>6 DEF IInv
<1> QED BY <1>3, <1>4

(* No client, or one without a thread: main waits, and nothing ends that.  *)
LEMMA ConnectFailsIInv == IInv /\ ConnectFails => IInv'
<1> SUFFICES ASSUME IInv, ConnectFails PROVE IInv'
  OBVIOUS
<1>1. /\ UNCHANGED <<moduleState, head, clientDisconnectFlag, mqtt_connected,
                     msgQueue, awaitedAck, ackSyncObj, connAck, session, wire,
                     subscribed, publishes, connects, app, event, curr, prev,
                     ctx, pub>>
      /\ main = "connect_lock" /\ Holds("main") /\ ctx = "none"
      /\ moduleState = "INITIALIZED" /\ Releases /\ main' = "wait_connected"
      /\ client' \in BOOLEAN
  BY DEF ConnectFails, Runs, moduleVars, ackVars, serverVars, appVars
<1>2. /\ ~mqtt_connected /\ ~clientDisconnectFlag /\ app \notin AppHolds
      /\ ~Opening /\ event # "CONNACK" /\ ~InQueue("CONNACK")
  BY <1>1, HoldsMutex
  DEF IInv, ConnectInv, EndInv, WireInv, MutexInv, Threads, Connecting
<1>3. /\ moduleMutex' \in Seq(Threads) /\ IsInjective(moduleMutex')
      /\ \A u \in Threads : Queued(u)' <=> Queued(u) /\ u # "main"
      /\ \A a, b \in Threads : Ahead(a, b) /\ a # "main" => Ahead(a, b)'
      /\ "app" \in Threads /\ "ctx" \in Threads /\ "main" \in Threads
  BY <1>1, ReleasesMutex DEF IInv, Threads
<1> USE Same DEF Live, Refused, Clean, Opening, Connecting, DiscPending,
                 MayAwait, None
<1>4. ValueInv' /\ PointInv' /\ MutexInv' /\ ListInv'
  BY <1>1, <1>2, <1>3
  DEF IInv, ValueInv, PointInv, MutexInv, ListInv, Inside, Threads, AppIn,
      AppHolds, MainIn, MainHolds, MainOut
<1>5. ClientInv' /\ AckInv' /\ WireInv'
  BY <1>1, <1>2, <1>3 DEF IInv, ClientInv, AckInv, WireInv, MainHolds
<1>6. ConnectInv' /\ EndInv' /\ LifeInv'
  BY <1>1, <1>2, <1>3 DEF IInv, ConnectInv, EndInv, LifeInv
<1> QED BY <1>1, <1>4, <1>5, <1>6 DEF IInv

LEMMA ConnectOverIInv == IInv /\ ConnectOver => IInv'
<1> SUFFICES ASSUME IInv, ConnectOver PROVE IInv'
  OBVIOUS
<1>1. /\ UNCHANGED <<moduleState, head, clientDisconnectFlag, mqtt_connected,
                     msgQueue, client, awaitedAck, ackSyncObj, connAck,
                     session, wire, subscribed, publishes, connects, app,
                     event, curr, prev, ctx, pub>>
      /\ main = "connect_lock" /\ Holds("main") /\ ctx # "none"
      /\ moduleState = "INITIALIZED" /\ Releases /\ main' = "two_clients"
  BY DEF ConnectOver, Runs, moduleVars, ackVars, serverVars, appVars
<1>2. /\ ~mqtt_connected /\ ~clientDisconnectFlag /\ app \notin AppHolds
      /\ ~Opening /\ event # "CONNACK" /\ ~InQueue("CONNACK") /\ Refused
      /\ pub # "sending"
  BY <1>1, HoldsMutex
  DEF IInv, ConnectInv, EndInv, WireInv, MutexInv, Threads, Connecting,
      ClientInv
<1>3. /\ moduleMutex' \in Seq(Threads) /\ IsInjective(moduleMutex')
      /\ \A u \in Threads : Queued(u)' <=> Queued(u) /\ u # "main"
      /\ \A a, b \in Threads : Ahead(a, b) /\ a # "main" => Ahead(a, b)'
      /\ "app" \in Threads /\ "ctx" \in Threads /\ "main" \in Threads
  BY <1>1, ReleasesMutex DEF IInv, Threads
<1>4. Live /\ app # "not_created"
  BY <1>1, <1>2 DEF IInv, ClientInv, PointInv, LifeInv, Live
<1> USE Same DEF Live, Refused, Clean, Opening, Connecting, DiscPending,
                 MayAwait, None
<1>5. ValueInv' /\ PointInv' /\ MutexInv' /\ ListInv'
  BY <1>1, <1>2, <1>3
  DEF IInv, ValueInv, PointInv, MutexInv, ListInv, Inside, Threads, AppIn,
      AppHolds, MainIn, MainHolds, MainOut
<1>6. ClientInv' /\ AckInv' /\ WireInv'
  BY <1>1, <1>2, <1>3 DEF IInv, ClientInv, AckInv, WireInv, MainHolds
<1>7. ConnectInv' /\ EndInv' /\ LifeInv'
  BY <1>1, <1>2, <1>3, <1>4 DEF IInv, ConnectInv, EndInv, LifeInv
<1> QED BY <1>1, <1>5, <1>6, <1>7 DEF IInv

(* The request is sent: the answer of the server is awaited from here on.  *)
LEMMA SendConnectIInv == IInv /\ SendConnect => IInv'
<1> SUFFICES ASSUME IInv, SendConnect PROVE IInv'
  OBVIOUS
<1>1. /\ UNCHANGED <<moduleState, head, clientDisconnectFlag, mqtt_connected,
                     msgQueue, client, awaitedAck, ackSyncObj, connAck, wire,
                     subscribed, publishes, connects, app, event, curr, prev,
                     pub, moduleMutex>>
      /\ main = "send_connect" /\ main' = "await_connack"
      /\ session' = "opening" /\ ctx' = "run"
  BY DEF SendConnect, Runs, moduleVars, ackVars, appVars
<1>2. /\ ctx = "wait_rxtx" /\ pub # "sending" /\ Clean /\ ~mqtt_connected
      /\ awaitedAck = "CONNACK" /\ ackSyncObj = 0 /\ ~Refused
      /\ moduleState = "INITIALIZED" /\ Holds("main")
  BY <1>1
  DEF IInv, ClientInv, ConnectInv, AckInv, MutexInv, MainHolds, Refused, None
<1>3. wire = << >> /\ event = None /\ app \notin AppHolds
  BY <1>2 DEF IInv, WireInv, PointInv, Clean, AppHolds
<1> USE Same DEF Live, Refused, Clean, Opening, Connecting, DiscPending,
                 MayAwait, None
<1>4. ValueInv' /\ PointInv' /\ MutexInv' /\ ListInv'
  BY <1>1, <1>2, <1>3
  DEF IInv, ValueInv, PointInv, MutexInv, ListInv, Inside, Threads, AppIn,
      AppHolds, MainIn, MainHolds, MainOut
<1>5. ClientInv' /\ AckInv' /\ WireInv'
  BY <1>1, <1>2, <1>3, WireEmpty
  DEF IInv, ClientInv, AckInv, WireInv, MainHolds, AppHolds
<1>6. ConnectInv' /\ EndInv' /\ LifeInv'
  BY <1>1, <1>2, <1>3, QueueFacts DEF IInv, ConnectInv, EndInv, LifeInv
<1> QED BY <1>1, <1>4, <1>5, <1>6 DEF IInv

LEMMA SendConnectFailsIInv == IInv /\ SendConnectFails => IInv'
<1> SUFFICES ASSUME IInv, SendConnectFails PROVE IInv'
  OBVIOUS
<1>1. /\ UNCHANGED <<moduleState, head, clientDisconnectFlag, mqtt_connected,
                     msgQueue, client, ackSyncObj, connAck, session, wire,
                     subscribed, publishes, connects, app, event, curr, prev,
                     pub>>
      /\ main = "send_connect" /\ main' = "wait_connected"
      /\ awaitedAck' = "DISCONNECT" /\ ctx' = "run" /\ Releases
  BY DEF SendConnectFails, Runs, moduleVars, serverVars, appVars
<1>2. /\ ctx = "wait_rxtx" /\ pub # "sending" /\ Clean /\ ~mqtt_connected
      /\ awaitedAck = "CONNACK" /\ ackSyncObj = 0 /\ ~Refused
      /\ moduleState = "INITIALIZED" /\ Holds("main")
  BY <1>1
  DEF IInv, ClientInv, ConnectInv, AckInv, MutexInv, MainHolds, Refused, None
<1>3. /\ wire = << >> /\ session = "closed" /\ event = None
      /\ app \notin AppHolds
  BY <1>2 DEF IInv, WireInv, PointInv, Clean, AppHolds
<1>4. /\ moduleMutex' \in Seq(Threads) /\ IsInjective(moduleMutex')
      /\ \A u \in Threads : Queued(u)' <=> Queued(u) /\ u # "main"
  BY <1>1, <1>2, ReleasesMutex DEF IInv, Threads
<1> USE Same DEF Live, Refused, Clean, Opening, Connecting, DiscPending,
                 MayAwait, None
<1>5. ValueInv' /\ PointInv' /\ MutexInv' /\ ListInv'
  BY <1>1, <1>2, <1>3, <1>4
  DEF IInv, ValueInv, PointInv, MutexInv, ListInv, Inside, Threads, AppIn,
      AppHolds, MainIn, MainHolds, MainOut
<1>6. ClientInv' /\ AckInv' /\ WireInv'
  BY <1>1, <1>2, <1>3, WireEmpty
  DEF IInv, ClientInv, AckInv, WireInv, MainHolds, AppHolds
<1>7. ConnectInv' /\ EndInv' /\ LifeInv'
  BY <1>1, <1>2, <1>3, WireEmpty, QueueFacts
  DEF IInv, ConnectInv, EndInv, LifeInv
<1> QED BY <1>1, <1>5, <1>6, <1>7 DEF IInv

(* The wait is over: by the answer, or because the connection has ended.   *)
LEMMA ConnackTakenIInv == IInv /\ ConnackTaken => IInv'
<1> SUFFICES ASSUME IInv, ConnackTaken PROVE IInv'
  OBVIOUS
<1>1. /\ UNCHANGED <<head, clientDisconnectFlag, mqtt_connected, msgQueue,
                     client, awaitedAck, connAck, session, wire, subscribed,
                     publishes, connects, app, event, curr, prev, ctx, pub>>
      /\ main = "await_connack" /\ main' = "wait_connected"
      /\ Runs("await_connack") /\ Releases
      /\ ackSyncObj > 0 /\ ackSyncObj' = ackSyncObj - 1
      /\ moduleState' = IF MayAwait /\ Refused THEN moduleState ELSE "CONNECTED"
  BY DEF ConnackTaken, Runs, serverVars, appVars, AckArrived, StateAfterConnect,
         Refused
<1>2. /\ ~mqtt_connected /\ moduleState = "INITIALIZED" /\ Holds("main")
      /\ app \notin AppHolds /\ ~Opening /\ ctx # "none" /\ ctx # "wait_rxtx"
      /\ ~clientDisconnectFlag
  <2>1. Holds("main")
    BY <1>1 DEF IInv, MutexInv, MainHolds
  <2> QED BY <1>1, <2>1, HoldsMutex
          DEF IInv, ClientInv, ConnectInv, MutexInv, MainHolds, WireInv, EndInv,
              Threads
<1>3. /\ moduleMutex' \in Seq(Threads) /\ IsInjective(moduleMutex')
      /\ \A u \in Threads : Queued(u)' <=> Queued(u) /\ u # "main"
      /\ \A a, b \in Threads : Ahead(a, b) /\ a # "main" => Ahead(a, b)'
      /\ "app" \in Threads /\ "ctx" \in Threads /\ "main" \in Threads
  BY <1>1, <1>2, ReleasesMutex DEF IInv, Threads
<1>4. ackSyncObj' \in Nat /\ ackSyncObj' <= 2 /\ (MayAwait => ackSyncObj' = 0)
  BY <1>1 DEF IInv, ValueInv, AckInv
<1> USE Same DEF Live, Refused, Clean, Opening, Connecting, DiscPending,
                 MayAwait, None
<1>5. ctx \in {"run", "disconnCB", "lock"}
  BY <1>2 DEF IInv, PointInv
<1>6. ValueInv' /\ PointInv' /\ MutexInv' /\ ListInv'
  BY <1>1, <1>2, <1>3, <1>4
  DEF IInv, ValueInv, PointInv, MutexInv, ListInv, Inside, Threads, AppIn,
      AppHolds, MainIn, MainHolds, MainOut
<1>7. ClientInv' /\ AckInv' /\ WireInv'
  BY <1>1, <1>2, <1>3, <1>4, <1>5
  DEF IInv, ClientInv, AckInv, WireInv, MainHolds, AppHolds
<1>8. ConnectInv' /\ EndInv' /\ LifeInv'
  BY <1>1, <1>2, <1>3, <1>5 DEF IInv, ConnectInv, EndInv, LifeInv
<1> QED BY <1>1, <1>6, <1>7, <1>8 DEF IInv

LEMMA ConnectedIInv == IInv /\ Connected => IInv'
<1> SUFFICES ASSUME IInv, Connected PROVE IInv'
  OBVIOUS
<1>1. /\ UNCHANGED <<moduleState, head, clientDisconnectFlag, mqtt_connected,
                     msgQueue, client, awaitedAck, ackSyncObj, connAck,
                     session, wire, subscribed, publishes, connects, app,
                     event, curr, prev, ctx, pub, moduleMutex>>
      /\ main = "wait_connected" /\ mqtt_connected /\ main' = "up"
  BY DEF Connected, Runs, moduleVars, ackVars, serverVars, appVars
<1>2. ~Opening /\ ~Connecting /\ app # "not_created" /\ ~clientDisconnectFlag
  BY <1>1 DEF IInv, WireInv, ConnectInv, LifeInv, EndInv
<1>3. ctx # "wait_rxtx" /\ (Live /\ ~Refused => moduleState = "CONNECTED")
  BY <1>1 DEF IInv, ClientInv, ConnectInv
<1> USE Same DEF Live, Refused, Clean, Opening, Connecting, DiscPending,
                 MayAwait, None
<1>4. ValueInv' /\ PointInv' /\ MutexInv' /\ ListInv'
  BY <1>1
  DEF IInv, ValueInv, PointInv, MutexInv, ListInv, Inside, Threads, MainIn,
      MainHolds, MainOut
<1>5. ClientInv' /\ AckInv' /\ WireInv'
  BY <1>1, <1>2, <1>3 DEF IInv, ClientInv, AckInv, WireInv, MainHolds
<1>6. ConnectInv' /\ EndInv' /\ LifeInv'
  BY <1>1, <1>2, <1>3 DEF IInv, ConnectInv, EndInv, LifeInv
<1> QED BY <1>1, <1>4, <1>5, <1>6 DEF IInv

(* main enters a call from up: behind the threads that are there.          *)
LEMMA UpEnters ==
    ASSUME IInv, NEW at \in {"disconnect_lock", "publish_lock"}, Runs("up"),
           Requests("main"), main' = at,
           UNCHANGED <<moduleVars, msgQueue, client, ackVars, serverVars,
                       connects, appVars, ctx, pub>>
    PROVE  IInv'
<1>1. /\ UNCHANGED <<moduleState, head, clientDisconnectFlag, mqtt_connected,
                     msgQueue, client, awaitedAck, ackSyncObj, connAck,
                     session, wire, subscribed, publishes, connects, app,
                     event, curr, prev, ctx, pub>>
      /\ main = "up"
  BY DEF Runs, moduleVars, ackVars, serverVars, appVars
<1>2. /\ ~Opening /\ ~Connecting /\ app # "not_created"
      /\ ~clientDisconnectFlag /\ ctx # "wait_rxtx"
  BY <1>1 DEF IInv, WireInv, ConnectInv, LifeInv, EndInv, ClientInv
<1>3. /\ moduleMutex' \in Seq(Threads) /\ IsInjective(moduleMutex')
      /\ \A u \in Threads : Queued(u)' <=> Queued(u) \/ u = "main"
      /\ \A u \in Threads : Holds(u) => Holds(u)'
      /\ \A a, b \in Threads : Ahead(a, b) => Ahead(a, b)'
      /\ "app" \in Threads /\ "ctx" \in Threads /\ "main" \in Threads
  <2>1. ~Inside("main")
    BY <1>1 DEF Inside, MainIn, MainHolds
  <2> QED BY <2>1, RequestsMutex DEF IInv, Threads
<1> USE Same DEF Live, Refused, Clean, Opening, Connecting, DiscPending,
                 MayAwait, None
<1>4. ValueInv' /\ PointInv' /\ MutexInv' /\ ListInv'
  BY <1>1, <1>3
  DEF IInv, ValueInv, PointInv, MutexInv, ListInv, Inside, Threads, MainIn,
      MainHolds, MainOut
<1>5. ClientInv' /\ AckInv' /\ WireInv'
  BY <1>1, <1>2, <1>3 DEF IInv, ClientInv, AckInv, WireInv, MainHolds
<1>6. ConnectInv' /\ EndInv' /\ LifeInv'
  BY <1>1, <1>2, <1>3 DEF IInv, ConnectInv, EndInv, LifeInv
<1> QED BY <1>4, <1>5, <1>6, <1>1 DEF IInv

LEMMA MqttDisconnectIInv == IInv /\ MqttDisconnect => IInv'
BY UpEnters DEF MqttDisconnect

LEMMA BootPublishIInv == IInv /\ BootPublish => IInv'
BY UpEnters DEF BootPublish

(* mqtt_disconnect ends: main leaves the mutex.  The thread of the client  *)
(* is about to end, unless the connection was refused.                     *)
LEMMA DisconnectedIInv ==
    ASSUME IInv, Disconnected, Holds("main"),
           main \in {"disconnect_lock", "send_disconn", "await_disconn"},
           moduleState' \in {moduleState, "INITIALIZED"},
           clientDisconnectFlag' \in BOOLEAN,
           ackSyncObj' \in Nat, ackSyncObj' <= ackSyncObj,
           Live /\ ~Refused => clientDisconnectFlag',
           Live /\ (~Refused \/ moduleState' = "CONNECTED")
                => session = "closed",
           UNCHANGED <<head, msgQueue, client, awaitedAck, connAck, session,
                       wire, subscribed, publishes, connects, app, event, curr,
                       prev, ctx, pub>>
    PROVE  IInv'
<1>1. /\ Releases
      /\ \/ mqtt_connected' = FALSE /\ main' = "offline"
         \/ UNCHANGED mqtt_connected /\ main' = "deinit"
  BY DEF Disconnected
<1>2. /\ moduleMutex' \in Seq(Threads) /\ IsInjective(moduleMutex')
      /\ \A u \in Threads : Queued(u)' <=> Queued(u) /\ u # "main"
      /\ \A a, b \in Threads : Ahead(a, b) /\ a # "main" => Ahead(a, b)'
      /\ "app" \in Threads /\ "ctx" \in Threads /\ "main" \in Threads
  BY <1>1, ReleasesMutex DEF IInv, Threads
<1>3. /\ ~Opening /\ ~Connecting /\ ctx # "wait_rxtx" /\ app # "not_created"
      /\ ~InQueue("DESTROY") /\ (Live => mqtt_connected)
      /\ moduleState # "IDLE"
  BY DEF IInv, WireInv, ConnectInv, ClientInv, LifeInv, EndInv
<1>4. app \notin AppHolds
  BY HoldsMutex DEF IInv, MutexInv, Threads
<1>5. mqtt_connected' \in BOOLEAN /\ moduleState' # "IDLE"
  BY <1>1, <1>3 DEF IInv, ValueInv
<1> USE Same DEF Live, Refused, Clean, Opening, Connecting, DiscPending,
                 MayAwait, None
<1>6. ValueInv'
  BY <1>5 DEF IInv, ValueInv
<1>7. PointInv' /\ MutexInv' /\ ListInv'
  BY <1>1, <1>2, <1>4
  DEF IInv, PointInv, MutexInv, ListInv, Inside, Threads, AppIn, AppHolds,
      MainIn, MainHolds, MainOut
<1>8. ClientInv' /\ AckInv' /\ WireInv'
  BY <1>1, <1>2, <1>3, <1>4
  DEF IInv, ClientInv, AckInv, WireInv, ValueInv, MainHolds, AppHolds
<1>9. ConnectInv' /\ EndInv' /\ LifeInv'
  BY <1>1, <1>2, <1>3, <1>5 DEF IInv, ConnectInv, EndInv, LifeInv
<1> QED BY <1>6, <1>7, <1>8, <1>9 DEF IInv

(* main runs inside mqtt_disconnect: ctx waits for a packet, for room or   *)
(* for main.                                                               *)
LEMMA DisconnectFacts ==
    ASSUME IInv, NEW at \in {"disconnect_lock", "send_disconn",
                             "await_disconn"}, Runs(at), Holds("main")
    PROVE  /\ app \in {"receive", "lock"}
           /\ ctx \in {"none", "run", "disconnCB", "lock"}
           /\ session # "closed" => ctx = "run" /\ MayAwait
           /\ MayAwait => ackSyncObj = 0
           /\ Live => mqtt_connected
<1>1. main = at /\ app \notin AppHolds
  BY MainRuns, HoldsMutex DEF IInv, MutexInv, Threads
<1>2. app \in {"receive", "lock"} /\ ctx \in {"none", "run", "disconnCB", "lock"}
  BY <1>1, MainRuns DEF IInv, LifeInv, ClientInv, AppHolds
<1>3. session # "closed" => ctx = "run" /\ MayAwait
  BY DEF IInv, WireInv
<1>4. MayAwait => ackSyncObj = 0
  BY <1>1, <1>2 DEF IInv, AckInv, ValueInv
<1> QED BY <1>1, <1>2, <1>3, <1>4 DEF IInv, EndInv

LEMMA DisconnectLockedIInv == IInv /\ DisconnectLocked => IInv'
<1> SUFFICES ASSUME IInv, DisconnectLocked PROVE IInv'
  OBVIOUS
<1>1. /\ UNCHANGED <<moduleState, head, msgQueue, client, ackSyncObj, connAck,
                     session, wire, subscribed, publishes, connects, app,
                     event, curr, prev, ctx, pub>>
      /\ main = "disconnect_lock" /\ Holds("main") /\ Runs("disconnect_lock")
      /\ clientDisconnectFlag' = (clientDisconnectFlag
                                    \/ moduleState = "CONNECTED")
      /\ ~clientDisconnectFlag
  BY DEF DisconnectLocked, Runs, serverVars, appVars, IInv, EndInv
<1>2. /\ app \in {"receive", "lock"}
      /\ ctx \in {"none", "run", "disconnCB", "lock"}
      /\ session # "closed" => ctx = "run" /\ MayAwait
      /\ MayAwait => ackSyncObj = 0
      /\ Live => mqtt_connected
  BY <1>1, DisconnectFacts
<1>3. Live /\ ~Refused => moduleState = "CONNECTED"
  BY <1>1 DEF IInv, EndInv
<1>4. clientDisconnectFlag' \in BOOLEAN
      /\ (clientDisconnectFlag' <=> moduleState = "CONNECTED")
  BY <1>1 DEF IInv, ValueInv
<1>5. CASE ~(moduleState = "CONNECTED" /\ MayAwait)
  <2>1. Disconnected /\ UNCHANGED awaitedAck
    BY <1>5 DEF DisconnectLocked
  <2>2. Live /\ (~Refused \/ moduleState' = "CONNECTED") => session = "closed"
    BY <1>1, <1>2, <1>3, <1>5 DEF Live
  <2>3. ackSyncObj' \in Nat /\ ackSyncObj' <= ackSyncObj
    BY <1>1 DEF IInv, ValueInv
  <2> QED BY <1>1, <1>3, <1>4, <2>1, <2>2, <2>3, DisconnectedIInv
<1>6. CASE moduleState = "CONNECTED" /\ MayAwait
  <2>1. /\ UNCHANGED <<moduleMutex, mqtt_connected>>
        /\ awaitedAck' = "DISCONN_CB" /\ main' = "send_disconn"
    BY <1>6 DEF DisconnectLocked
  <2>2. /\ ~Refused /\ Live /\ ctx # "none" /\ ackSyncObj = 0
        /\ ~Opening /\ ~Connecting /\ ~OnTheWay("SUBACK")
    BY <1>1, <1>2, <1>6 DEF IInv, ClientInv, Live, WireInv, ConnectInv
  <2> USE Same DEF Live, Refused, Clean, Opening, Connecting, DiscPending,
                   MayAwait, None
  <2>3. ValueInv'
    BY <1>1, <1>4, <2>1 DEF IInv, ValueInv
  <2>4. PointInv' /\ MutexInv' /\ ListInv'
    BY <1>1, <1>2, <2>1
    DEF IInv, PointInv, MutexInv, ListInv, Inside, Threads, AppHolds, MainIn,
        MainHolds, MainOut
  <2>5. ClientInv' /\ AckInv' /\ WireInv'
    BY <1>1, <1>2, <1>6, <2>1, <2>2
    DEF IInv, ClientInv, AckInv, WireInv, MainHolds
  <2>6. ConnectInv' /\ EndInv' /\ LifeInv'
    BY <1>1, <1>2, <1>4, <1>6, <2>1, <2>2
    DEF IInv, ConnectInv, EndInv, LifeInv
  <2> QED BY <1>1, <2>3, <2>4, <2>5, <2>6 DEF IInv
<1> QED BY <1>5, <1>6

LEMMA SendDisconnIInv == IInv /\ SendDisconn => IInv'
<1> SUFFICES ASSUME IInv, SendDisconn PROVE IInv'
  OBVIOUS
<1>1. /\ UNCHANGED <<moduleState, head, clientDisconnectFlag, mqtt_connected,
                     moduleMutex, msgQueue, client, awaitedAck, ackSyncObj,
                     connAck, publishes, connects, app, event, curr, prev,
                     ctx, pub>>
      /\ main = "send_disconn" /\ main' = "await_disconn"
      /\ session' = "closed" /\ subscribed' = {} /\ Runs("send_disconn")
  BY DEF SendDisconn, Runs, moduleVars, ackVars, appVars
<1>2. Holds("main") /\ ~Opening /\ clientDisconnectFlag
  BY <1>1 DEF IInv, MutexInv, MainHolds, WireInv, EndInv
<1>3. /\ app \in {"receive", "lock"}
      /\ ctx \in {"none", "run", "disconnCB", "lock"}
      /\ Live => mqtt_connected
  BY <1>1, <1>2, DisconnectFacts
<1>4. /\ WireForm'
      /\ \A x : OnTheWay(x)' =>
                    OnTheWay(x) \/ (x = "DISCONN" /\ session # "closed")
      /\ wire' # << >> => ctx = "run" /\ MayAwait
      /\ ctx = "run" /\ MayAwait => OnTheWay("DISCONN")'
  <2>1. CASE session = "closed"
    <3>1. wire' = wire
      BY <2>1 DEF SendDisconn
    <3> QED BY <2>1, <3>1, Same DEF IInv, WireInv
  <2>2. CASE session # "closed"
    <3>1. wire' = Append(wire, "DISCONN")
      BY <2>2 DEF SendDisconn
    <3>2. ctx = "run" /\ MayAwait /\ ~OnTheWay("DISCONN")
      BY <2>2 DEF IInv, WireInv
    <3> QED BY <2>2, <3>1, <3>2, PacketSent DEF IInv, Packets, Answers
  <2> QED BY <2>1, <2>2
<1> USE Same DEF Live, Refused, Clean, Opening, Connecting, DiscPending,
                 MayAwait, None
<1>5. ~Opening'
  BY <1>1, <1>2, <1>4
<1>6. ValueInv' /\ PointInv' /\ MutexInv' /\ ListInv'
  BY <1>1, <1>3
  DEF IInv, ValueInv, PointInv, MutexInv, ListInv, Inside, Threads, AppHolds,
      MainIn, MainHolds, MainOut
<1>7. ClientInv' /\ AckInv' /\ WireInv'
  BY <1>1, <1>2, <1>3, <1>4, <1>5
  DEF IInv, ClientInv, AckInv, WireInv, MainHolds
<1>8. ConnectInv' /\ EndInv' /\ LifeInv'
  BY <1>1, <1>2, <1>3, <1>5 DEF IInv, ConnectInv, EndInv, LifeInv
<1> QED BY <1>1, <1>4, <1>6, <1>7, <1>8 DEF IInv

LEMMA SendDisconnFailsIInv == IInv /\ SendDisconnFails => IInv'
<1> SUFFICES ASSUME IInv, SendDisconnFails PROVE IInv'
  OBVIOUS
<1>1. /\ UNCHANGED <<moduleState, head, clientDisconnectFlag, msgQueue, client,
                     awaitedAck, ackSyncObj, connAck, session, wire,
                     subscribed, publishes, connects, app, event, curr, prev,
                     ctx, pub>>
      /\ main = "send_disconn" /\ Runs("send_disconn") /\ session = "closed"
      /\ Disconnected
  BY DEF SendDisconnFails, Runs, ackVars, serverVars, appVars
<1>2. Holds("main") /\ clientDisconnectFlag' = clientDisconnectFlag
      /\ clientDisconnectFlag' \in BOOLEAN /\ clientDisconnectFlag'
      /\ ackSyncObj' \in Nat /\ ackSyncObj' <= ackSyncObj
  BY <1>1 DEF IInv, MutexInv, MainHolds, EndInv, ValueInv
<1> QED BY <1>1, <1>2, DisconnectedIInv

LEMMA DisconnTakenIInv == IInv /\ DisconnTaken => IInv'
<1> SUFFICES ASSUME IInv, DisconnTaken PROVE IInv'
  OBVIOUS
<1>1. /\ UNCHANGED <<head, clientDisconnectFlag, msgQueue, client, awaitedAck,
                     connAck, session, wire, subscribed, publishes, connects,
                     app, event, curr, prev, ctx, pub>>
      /\ main = "await_disconn" /\ Runs("await_disconn") /\ Disconnected
      /\ ackSyncObj > 0 /\ ackSyncObj' = ackSyncObj - 1
      /\ moduleState' = "INITIALIZED"
  BY DEF DisconnTaken, Runs, AckArrived, serverVars, appVars
<1>2. Holds("main") /\ clientDisconnectFlag' = clientDisconnectFlag
      /\ clientDisconnectFlag' \in BOOLEAN /\ clientDisconnectFlag'
      /\ ackSyncObj' \in Nat /\ ackSyncObj' <= ackSyncObj
  BY <1>1 DEF IInv, MutexInv, MainHolds, EndInv, ValueInv
<1>3. session = "closed"
  BY <1>1, <1>2, DisconnectFacts
<1> QED BY <1>1, <1>2, <1>3, DisconnectedIInv

(* main requests the mutex behind the thread that is about to end.         *)
LEMMA MqttDeinitIInv == IInv /\ MqttDeinit => IInv'
<1> SUFFICES ASSUME IInv, MqttDeinit PROVE IInv'
  OBVIOUS
<1>1. /\ UNCHANGED <<moduleState, head, clientDisconnectFlag, mqtt_connected,
                     msgQueue, client, awaitedAck, ackSyncObj, connAck,
                     session, wire, subscribed, publishes, connects, app,
                     event, curr, prev, ctx, pub>>
      /\ main = "deinit" /\ main' = "deinit_lock" /\ Requests("main")
      /\ Runs("deinit")
  BY DEF MqttDeinit, Runs, moduleVars, ackVars, serverVars, appVars
<1>2. ~Opening /\ ~Connecting /\ ctx # "wait_rxtx"
  BY <1>1 DEF IInv, WireInv, ConnectInv, ClientInv
<1>3. /\ moduleMutex' \in Seq(Threads) /\ IsInjective(moduleMutex')
      /\ \A u \in Threads : Queued(u)' <=> Queued(u) \/ u = "main"
      /\ \A u \in Threads : Holds(u) => Holds(u)'
      /\ \A a, b \in Threads : Ahead(a, b) => Ahead(a, b)'
      /\ \A a \in Threads : Queued(a) => Ahead(a, "main")'
      /\ "app" \in Threads /\ "ctx" \in Threads /\ "main" \in Threads
  <2>1. ~Inside("main")
    BY <1>1 DEF Inside, MainIn, MainHolds
  <2> QED BY <1>1, <2>1, RequestsMutex DEF IInv, Threads
<1>4. Live /\ (~Refused \/ moduleState = "CONNECTED")
        => ctx = "lock" /\ Ahead("ctx", "main")'
  <2>1. ctx = "lock" => Ahead("ctx", "main")'
    BY <1>3 DEF IInv, MutexInv, Inside
  <2>2. CASE moduleMutex # << >>
    BY <1>1, <2>1, <2>2, NobodyHolds DEF MainOut
  <2>3. CASE moduleMutex = << >>
    <3>1. app = "receive" /\ msgQueue = << >>
      BY <1>1, <2>3, NobodyHolds, MainRuns DEF MainOut, IInv, LifeInv
    <3>2. CASE session = "closed"
      BY <1>1, <1>2, <2>1, <3>1, <3>2, MainRuns, WireEmpty
      DEF IInv, WireInv, Live
    <3> QED BY <1>1, <3>2 DEF IInv, LifeInv
  <2> QED BY <2>2, <2>3
<1> USE Same DEF Live, Refused, Clean, Opening, Connecting, DiscPending,
                 MayAwait, None
<1>5. ValueInv' /\ PointInv' /\ MutexInv' /\ ListInv'
  BY <1>1, <1>3
  DEF IInv, ValueInv, PointInv, MutexInv, ListInv, Inside, Threads, MainIn,
      MainHolds, MainOut
<1>6. ClientInv' /\ AckInv' /\ WireInv'
  BY <1>1, <1>2, <1>3 DEF IInv, ClientInv, AckInv, WireInv, MainHolds
<1>7. ConnectInv' /\ EndInv' /\ LifeInv'
  BY <1>1, <1>2, <1>3, <1>4 DEF IInv, ConnectInv, EndInv, LifeInv
<1> QED BY <1>1, <1>5, <1>6, <1>7 DEF IInv

(* Nobody is ahead of main: the client's thread has ended, unless the      *)
(* connection was refused.                                                 *)
LEMMA DeinitFacts ==
    ASSUME IInv, main = "deinit_lock", Holds("main")
    PROVE  /\ Live => Refused
           /\ moduleState = "INITIALIZED"
           /\ app \in {"receive", "lock"}
<1>1. Live => Refused /\ moduleState # "CONNECTED"
  BY HoldsMutex DEF IInv, LifeInv, Threads
<1>2. moduleState = "INITIALIZED"
  BY <1>1 DEF IInv, ValueInv, ClientInv, LifeInv
<1>3. app \in {"receive", "lock"}
  BY HoldsMutex DEF IInv, PointInv, MutexInv, LifeInv, AppIn, Threads
<1> QED BY <1>1, <1>2, <1>3

LEMMA DeinitLockedIInv == IInv /\ DeinitLocked => IInv'
<1> SUFFICES ASSUME IInv, DeinitLocked PROVE IInv'
  OBVIOUS
<1>1. /\ UNCHANGED <<clientDisconnectFlag, mqtt_connected, client, awaitedAck,
                     ackSyncObj, connAck, session, wire, subscribed, publishes,
                     connects, app, event, curr, prev, ctx, pub>>
      /\ main = "deinit_lock" /\ Holds("main") /\ Releases /\ main' = "init"
  BY DEF DeinitLocked, Runs, ackVars, serverVars, appVars
<1>2. /\ Live => Refused
      /\ moduleState = "INITIALIZED"
      /\ app \in {"receive", "lock"}
  BY <1>1, DeinitFacts
<1>3. /\ Room /\ msgQueue' = Append(msgQueue, "DESTROY")
      /\ head' = << >> /\ moduleState' = "IDLE"
  BY <1>2 DEF DeinitLocked, DeinitTells
<1>4. /\ moduleMutex' \in Seq(Threads) /\ IsInjective(moduleMutex')
      /\ \A u \in Threads : Queued(u)' <=> Queued(u) /\ u # "main"
      /\ \A a, b \in Threads : Ahead(a, b) /\ a # "main" => Ahead(a, b)'
      /\ "app" \in Threads /\ "ctx" \in Threads /\ "main" \in Threads
  BY <1>1, ReleasesMutex DEF IInv, Threads
<1>5. /\ msgQueue' \in Seq(Events)
      /\ \A x : InQueue(x)' <=> InQueue(x) \/ x = "DESTROY"
      /\ Len(msgQueue') <= QueueLen
  <2>1. Len(msgQueue) \in Nat /\ Len(msgQueue) < QueueLen
    BY <1>3 DEF IInv, PointInv, Room
  <2> QED BY <1>3, <2>1, EventSent, MqttAssumption DEF IInv, Events
<1>6. /\ ~Opening /\ ~Connecting /\ ctx # "wait_rxtx"
  BY <1>1 DEF IInv, WireInv, ConnectInv, ClientInv
<1> USE Same DEF Live, Refused, Clean, Opening, Connecting, DiscPending,
                 MayAwait, None
<1>7. head' \in Seq(Range(Topics)) /\ Len(head') <= Len(Topics)
  BY <1>3, MqttAssumption
<1>8. ValueInv' /\ PointInv' /\ MutexInv' /\ ListInv'
  BY <1>1, <1>2, <1>3, <1>4, <1>5, <1>7
  DEF IInv, ValueInv, PointInv, MutexInv, ListInv, Inside, Threads, AppHolds,
      MainIn, MainHolds, MainOut
<1>9. ClientInv' /\ AckInv' /\ WireInv'
  BY <1>1, <1>2, <1>3, <1>4, <1>6
  DEF IInv, ClientInv, AckInv, WireInv, MainHolds
<1>10. ConnectInv' /\ EndInv' /\ LifeInv'
  BY <1>1, <1>2, <1>3, <1>4, <1>5, <1>6
  DEF IInv, ConnectInv, EndInv, LifeInv
<1> QED BY <1>1, <1>8, <1>9, <1>10 DEF IInv

LEMMA BootChecksIInv == IInv /\ BootChecks => IInv'
<1> SUFFICES ASSUME IInv, BootChecks PROVE IInv'
  OBVIOUS
<1>1. /\ UNCHANGED <<moduleState, head, clientDisconnectFlag, mqtt_connected,
                     msgQueue, client, awaitedAck, ackSyncObj, connAck,
                     session, wire, subscribed, publishes, connects, app,
                     event, curr, prev, ctx, pub>>
      /\ main = "publish_lock" /\ Holds("main") /\ Releases
      /\ main' \in {"publish", "up"}
  BY DEF BootChecks, Runs, moduleVars, ackVars, serverVars, appVars
<1>2. /\ ~Opening /\ ~Connecting /\ ctx # "wait_rxtx" /\ app # "not_created"
      /\ ~clientDisconnectFlag /\ app \notin AppHolds
  BY <1>1, HoldsMutex
  DEF IInv, WireInv, ConnectInv, ClientInv, EndInv, LifeInv, MutexInv, Threads
<1>3. /\ moduleMutex' \in Seq(Threads) /\ IsInjective(moduleMutex')
      /\ \A u \in Threads : Queued(u)' <=> Queued(u) /\ u # "main"
      /\ \A a, b \in Threads : Ahead(a, b) /\ a # "main" => Ahead(a, b)'
      /\ "app" \in Threads /\ "ctx" \in Threads /\ "main" \in Threads
  BY <1>1, ReleasesMutex DEF IInv, Threads
<1> USE Same DEF Live, Refused, Clean, Opening, Connecting, DiscPending,
                 MayAwait, None
<1>4. ValueInv' /\ PointInv' /\ MutexInv' /\ ListInv'
  BY <1>1, <1>2, <1>3
  DEF IInv, ValueInv, PointInv, MutexInv, ListInv, Inside, Threads, AppIn,
      AppHolds, MainIn, MainHolds, MainOut
<1>5. ClientInv' /\ AckInv' /\ WireInv'
  BY <1>1, <1>2, <1>3 DEF IInv, ClientInv, AckInv, WireInv, MainHolds
<1>6. ConnectInv' /\ EndInv' /\ LifeInv'
  BY <1>1, <1>2, <1>3 DEF IInv, ConnectInv, EndInv, LifeInv
<1> QED BY <1>1, <1>4, <1>5, <1>6 DEF IInv

LEMMA BootSendsIInv == IInv /\ BootSends => IInv'
<1> SUFFICES ASSUME IInv, BootSends PROVE IInv'
  OBVIOUS
<1>1. /\ UNCHANGED <<moduleState, head, clientDisconnectFlag, mqtt_connected,
                     moduleMutex, msgQueue, client, ackSyncObj, connAck,
                     session, wire, subscribed, publishes, connects, app,
                     event, curr, prev, ctx, pub>>
      /\ main = "publish" /\ main' = "up"
      /\ awaitedAck' = IF MayAwait THEN None ELSE awaitedAck
  BY DEF BootSends, Runs, moduleVars, serverVars, appVars
<1>2. /\ ~Opening /\ ~Connecting /\ ctx # "wait_rxtx" /\ app # "not_created"
      /\ ~clientDisconnectFlag /\ app \notin AppHolds
  BY <1>1
  DEF IInv, WireInv, ConnectInv, ClientInv, EndInv, LifeInv, PointInv,
      Connecting
<1> USE Same DEF Live, Refused, Clean, Opening, Connecting, DiscPending,
                 MayAwait, None
<1>3. ~OnTheWay("SUBACK")
  BY <1>2 DEF IInv, WireInv, AppHolds
<1>4. ValueInv' /\ PointInv' /\ MutexInv' /\ ListInv'
  BY <1>1
  DEF IInv, ValueInv, PointInv, MutexInv, ListInv, Inside, Threads, MainIn,
      MainHolds, MainOut
<1>5. ClientInv' /\ AckInv' /\ WireInv'
  BY <1>1, <1>2, <1>3
  DEF IInv, ClientInv, AckInv, WireInv, MainHolds, AppHolds
<1>6. ConnectInv' /\ EndInv' /\ LifeInv'
  BY <1>1, <1>2 DEF IInv, ConnectInv, EndInv, LifeInv
<1> QED BY <1>1, <1>4, <1>5, <1>6 DEF IInv
-----------------------------------------------------------------------------
(* The module before mqtt_init.                                            *)
LEMMA InitIInv == Init => IInv
<1> SUFFICES ASSUME Init PROVE IInv
  OBVIOUS
<1>1. /\ \A t : ~Queued(t) /\ \A a : ~Ahead(a, t)
      /\ \A x : ~InQueue(x) /\ ~OnTheWay(x)
      /\ moduleMutex \in Seq(Threads) /\ IsInjective(moduleMutex)
      /\ msgQueue \in Seq(Events) /\ wire \in Seq(Packets) /\ DOMAIN wire = {}
      /\ head \in Seq(Range(Topics)) /\ Len(head) = 0 /\ Len(msgQueue) = 0
      /\ Len(Topics) \in Nat
  BY MqttAssumption
  DEF Init, Queued, Ahead, InQueue, OnTheWay, Range, IsInjective
<1>2. ValueInv
  <2>1. 0 \in 0 .. MaxConnects /\ 0 \in 0 .. MaxPublishes /\ 0 <= QueueLen
    BY MqttAssumption
  <2>2. connects \in 0 .. MaxConnects /\ publishes \in 0 .. MaxPublishes
        /\ Len(msgQueue) <= QueueLen
    BY <1>1, <2>1 DEF Init
  <2>3. clientDisconnectFlag \in BOOLEAN /\ mqtt_connected \in BOOLEAN
    BY Zenon DEF Init
  <2> QED BY <2>2, <2>3 DEF Init, ValueInv, None
<1>3. PointInv
  BY <1>1 DEF Init, PointInv, MainOut, AppHolds, AppIn
<1>4. MutexInv
  BY <1>1
  DEF Init, MutexInv, Threads, Inside, AppIn, AppHolds, MainIn, MainHolds
<1>5. ListInv
  BY <1>1 DEF Init, ListInv, AppHolds
<1>6. ClientInv
  BY <1>1 DEF Init, ClientInv, MainHolds, None
<1>7. WireForm
  BY <1>1 DEF Init, WireForm
<1>8. WireInv /\ AckInv
  BY <1>1 DEF Init, WireInv, AckInv, MayAwait, Opening, None
<1>9. ConnectInv /\ EndInv /\ LifeInv
  BY <1>1
  DEF Init, ConnectInv, EndInv, LifeInv, Connecting, Opening, DiscPending, Live,
      None
<1> QED BY <1>2, <1>3, <1>4, <1>5, <1>6, <1>7, <1>8, <1>9 DEF IInv

LEMMA StutterIInv == IInv /\ UNCHANGED vars => IInv'
<1> SUFFICES ASSUME IInv, UNCHANGED vars PROVE IInv'
  OBVIOUS
<1>1. UNCHANGED <<moduleState, head, clientDisconnectFlag, mqtt_connected,
                  moduleMutex, msgQueue, client, awaitedAck, ackSyncObj,
                  connAck, session, wire, subscribed, publishes, connects, main,
                  app, event, curr, prev, ctx, pub>>
  BY DEF vars, moduleVars, ackVars, serverVars, appVars
<1> USE Same DEF Live, Refused, Clean, Opening, Connecting, DiscPending,
                 MayAwait
<1>2. ValueInv' /\ PointInv' /\ MutexInv' /\ ListInv'
  BY <1>1 DEF IInv, ValueInv, PointInv, MutexInv, ListInv, Inside
<1>3. ClientInv' /\ AckInv' /\ WireInv'
  BY <1>1 DEF IInv, ClientInv, AckInv, WireInv
<1>4. ConnectInv' /\ EndInv' /\ LifeInv'
  BY <1>1 DEF IInv, ConnectInv, EndInv, LifeInv
<1> QED BY <1>1, <1>2, <1>3, <1>4 DEF IInv

LEMMA NextIInv == IInv /\ [Next]_vars => IInv'
<1> SUFFICES ASSUME IInv, [Next]_vars PROVE IInv'
  OBVIOUS
<1>1. CASE Server
  BY <1>1, ServerAnswersIInv, ServerPublishesIInv, ServerClosesIInv DEF Server
<1>2. CASE Ctx
  BY <1>2, NotifyConnackIInv, NotifySubackIInv, PublishRxIInv, DisconnIInv,
     DisconnNotifyIInv, RunFailsIInv, ContextEndIInv
  DEF Ctx
<1>3. CASE App
  BY <1>3, AppReceiveIInv, AppDestroyIInv, AppMessageIInv, AppDisconnectIInv,
     AppConnackIInv, AppSubscribeIInv, AppSubSentIInv, AppSubFailsIInv,
     AppSubackedIInv, AppSubscribedIInv
  DEF App
<1>4. CASE Main
  BY <1>4, MqttInitIInv, MqttSubscribeIInv, MqttConnectIInv, ConnectCreateIInv,
     ConnectFailsIInv, ConnectOverIInv, SendConnectIInv, SendConnectFailsIInv,
     ConnackTakenIInv, ConnectedIInv, MqttDisconnectIInv, DisconnectLockedIInv,
     SendDisconnIInv, SendDisconnFailsIInv, DisconnTakenIInv, MqttDeinitIInv,
     DeinitLockedIInv, BootPublishIInv, BootChecksIInv, BootSendsIInv
  DEF Main
<1>5. CASE PubRequest \/ PubGoesOn
  BY <1>5, PubRequestIInv, PubChecksIInv, PubSentIInv DEF PubGoesOn
<1>6. CASE UNCHANGED vars
  BY <1>6, StutterIInv
<1> QED BY <1>1, <1>2, <1>3, <1>4, <1>5, <1>6 DEF Next

(* The inductive invariant holds in every state of the four threads.       *)
THEOREM Invariance == Spec => []IInv
<1>1. Init => IInv
  BY InitIInv
<1>2. IInv /\ [Next]_vars => IInv'
  BY NextIInv
<1> QED BY <1>1, <1>2, PTL DEF Spec
-----------------------------------------------------------------------------
(* Every variable keeps its type; no thread locks the mutex a second time  *)
(* (mqtt_user.c 458-473).                                                  *)
THEOREM TypeCorrect == Spec => []TypeOK
BY Invariance, IInvTypeOK, PTL

(* A thread that waits for an acknowledgement waits for the one the client *)
(* awaits, or has been woken: no call of another thread overwrites         *)
(* awaitedAck meanwhile (mqttclient.c 223-236, 1051).                      *)
THEOREM WaiterIsAwaitedHolds == Spec => []WaiterIsAwaited
<1>1. IInv => WaiterIsAwaited
  BY DEF IInv, AckInv, WaiterIsAwaited
<1> QED BY <1>1, Invariance, PTL

(* The context thread does not delete the client while a thread is inside  *)
(* one of its calls, for every order in which the four threads get the     *)
(* mutex (mqtt_user.c 417; mqttclient.c 525-530, 840-856).                 *)
THEOREM AliveWhenUsedHolds == Spec => []AliveWhenUsed
<1>1. IInv => AliveWhenUsed
  BY DEF IInv, PointInv, ClientInv, AliveWhenUsed, MainHolds, AppHolds
<1> QED BY <1>1, Invariance, PTL

(* A SUBACK finds the call that waits for it, and so the array on its      *)
(* stack (mqttclient.c 275-278, 591): none is late, whatever is lost.      *)
THEOREM SubackInTimeHolds == Spec => SubackInTime
<1>1. IInv /\ NotifySuback => app = "await_suback"
  BY PacketTaken DEF NotifySuback, IInv, WireInv
<1>2. IInv /\ [Next]_vars => [NotifySuback => app = "await_suback"]_vars
  BY <1>1
<1> QED BY <1>2, Invariance, PTL DEF Spec, SubackInTime

(* mqtt_connect, called when the last connection has ended, finds its      *)
(* thread gone, unless the server had refused it (mqtt_user.c 596, 415).   *)
THEOREM OneContextThreadHolds == Spec => OneContextThread
<1>1. Next /\ main = "connect_lock" /\ main' = "two_clients" => ConnectOver
  <2> SUFFICES ASSUME Next, main = "connect_lock", main' = "two_clients"
               PROVE  ConnectOver
    OBVIOUS
  <2>1. ~Server
    BY DEF Server, ServerAnswers, ServerPublishes, ServerCloses
  <2>2. ~Ctx
    BY DEF Ctx, NotifyConnack, NotifySuback, PublishRx, Disconn, DisconnNotify,
           RunFails, ContextEnd
  <2>3. ~App
    BY DEF App, AppReceive, AppDestroy, AppMessage, AppDisconnect, AppConnack,
           AppSubscribe, AppSubSent, AppSubFails, AppSubacked, AppSubscribed
  <2>4. ~PubRequest /\ ~PubGoesOn
    BY DEF PubRequest, PubGoesOn, PubChecks, PubSent
  <2>5. CASE Main
    BY <2>5
    DEF Main, Runs, MqttInit, MqttSubscribe, MqttConnect, ConnectCreate,
        ConnectFails, SendConnect, SendConnectFails, ConnackTaken, Connected,
        MqttDisconnect, DisconnectLocked, SendDisconn, SendDisconnFails,
        DisconnTaken, MqttDeinit, DeinitLocked, BootPublish, BootChecks,
        BootSends
  <2> QED BY <2>1, <2>2, <2>3, <2>4, <2>5 DEF Next
<1>2. IInv /\ ConnectOver => Refused
  BY DEF ConnectOver, Runs, IInv, ConnectInv
<1>3. IInv /\ [Next]_vars =>
        [connAck # "REFUSED" /\ main = "connect_lock"
            => main' # "two_clients"]_vars
  BY <1>1, <1>2 DEF Refused
<1> QED BY <1>3, Invariance, PTL DEF Spec, OneContextThread

(* MQTT_IF_Deinit leaves no context thread that would overwrite the idle   *)
(* state, and MQTT_IF_Init finds no thread, event or topic of the life     *)
(* before, unless the server had refused the connection (mqtt_user.c 424,  *)
(* 513-544).                                                               *)
THEOREM StartsAfreshHolds == Spec => StartsAfresh
<1> DEFINE Afresh == connAck # "REFUSED" =>
          /\ DeinitLocked /\ moduleState' = "IDLE" => ctx = "none"
          /\ MqttInit /\ moduleState = "IDLE" =>
                /\ app = "not_created" /\ ctx = "none"
                /\ msgQueue = << >> /\ head = << >>
<1>1. IInv /\ ~Refused /\ DeinitLocked => ctx = "none"
  <2> SUFFICES ASSUME IInv, ~Refused, DeinitLocked PROVE ctx = "none"
    OBVIOUS
  <2>1. main = "deinit_lock" /\ Holds("main")
    BY DEF DeinitLocked, Runs
  <2>2. ~Live
    BY <2>1, DeinitFacts
  <2> QED BY <2>1, <2>2 DEF IInv, PointInv, ClientInv, Live
<1>2. IInv /\ ~Refused /\ MqttInit /\ moduleState = "IDLE" =>
        /\ app = "not_created" /\ ctx = "none"
        /\ msgQueue = << >> /\ head = << >>
  BY InitFacts DEF MqttInit
<1>3. IInv /\ [Next]_vars => [Afresh]_vars
  BY <1>1, <1>2 DEF Refused
<1> QED BY <1>3, Invariance, PTL DEF Spec, StartsAfresh
-----------------------------------------------------------------------------
(* The second layer: what the device and the server know of each other.    *)
(* Each part is kept by every step, given IInv before and after it.        *)
LEMMA SessionFacts ==
    ASSUME IInv, SessionInv
    PROVE  /\ session # "closed" => ctx = "run" /\ MayAwait
           /\ session = "opening" => wire = << >>
           /\ session # "closed" => ~DiscPending
           /\ session \in {"opening", "open"} /\ main # "await_connack" =>
                /\ moduleState = "CONNECTED" /\ session = "open"
                /\ main \notin {"send_connect", "await_disconn", "init",
                                "subscribe", "deinit", "deinit_lock"}
BY DEF IInv, SessionInv, WireInv, DiscPending, EndInv, LifeInv, Live, ClientInv,
       Opening

LEMMA SessionServer == IInv /\ SessionInv /\ Server => SessionInv'
<1> SUFFICES ASSUME IInv, SessionInv, Server PROVE SessionInv'
  OBVIOUS
<1> USE SessionFacts, Same DEF Refused, Opening, Connecting
<1>1. CASE ServerAnswers
  <2>1. /\ UNCHANGED <<moduleState, mqtt_connected, connAck, main, event,
                       msgQueue>>
        /\ session = "opening" /\ wire = << >> /\ main = "await_connack"
    BY <1>1, SessionFacts DEF ServerAnswers, moduleVars, ackVars, appVars, IInv,
                WireInv
  <2>2. \A x : ~OnTheWay(x)
    BY <2>1, WireEmpty
  <2>3. PICK p \in Answers : /\ wire' = Append(wire, p)
                             /\ session' = IF p = "CONNACK" THEN "open"
                                                            ELSE "refused"
    BY <1>1 DEF ServerAnswers, Answers
  <2>4. \A x : OnTheWay(x)' <=> x = p
    BY <2>1, <2>2, <2>3, PacketSent DEF IInv, Packets, Answers
  <2> QED BY <2>1, <2>3, <2>4 DEF SessionInv, Answers
<1>2. CASE ServerPublishes
  <2>1. /\ UNCHANGED <<moduleState, mqtt_connected, connAck, main, event,
                       msgQueue, session>>
        /\ wire' = Append(wire, "PUBLISH") /\ session = "open"
    BY <1>2 DEF ServerPublishes, moduleVars, ackVars, appVars
  <2>2. ~OnTheWay("DISCONN")
    BY <2>1 DEF IInv, WireInv
  <2>3. \A x : OnTheWay(x)' <=> OnTheWay(x) \/ x = "PUBLISH"
    BY <2>1, <2>2, PacketSent DEF IInv, Packets, Answers
  <2> QED BY <2>1, <2>3 DEF SessionInv
<1>3. CASE ServerCloses
  BY <1>3 DEF ServerCloses, SessionInv
<1> QED BY <1>1, <1>2, <1>3 DEF Server

LEMMA SessionCtx == IInv /\ SessionInv /\ Ctx => SessionInv'
<1> SUFFICES ASSUME IInv, SessionInv, Ctx PROVE SessionInv'
  OBVIOUS
<1> USE SessionFacts, Same DEF Refused, Opening, Connecting
<1>1. CASE NotifyConnack
  <2>1. PICK p \in Answers : Packet(p)
    BY <1>1 DEF NotifyConnack, Answers
  <2>2. /\ UNCHANGED <<moduleState, mqtt_connected, main, event, session>>
        /\ connAck' = Head(wire) /\ msgQueue' = Append(msgQueue, "CONNACK")
    BY <1>1 DEF NotifyConnack, moduleVars, appVars
  <2>3. /\ OnTheWay(p) /\ Head(wire) = p /\ wire # << >>
        /\ ~OnTheWay("REFUSED")'
    BY <2>1, PacketTaken DEF IInv
  <2>4. InQueue("CONNACK")'
    BY <2>2, EventSent DEF IInv, Events
  <2> QED BY <2>2, <2>3, <2>4 DEF SessionInv, Answers
<1>2. CASE NotifySuback \/ PublishRx \/ Disconn
  <2>1. PICK p \in {"SUBACK", "PUBLISH", "DISCONN"} : Packet(p)
    BY <1>2 DEF NotifySuback, PublishRx, Disconn
  <2>2. /\ UNCHANGED <<moduleState, mqtt_connected, main, event, session,
                       connAck>>
        /\ msgQueue' = msgQueue \/ msgQueue' = Append(msgQueue, "RECV")
    BY <1>2 DEF NotifySuback, PublishRx, Disconn, moduleVars, appVars,
                ackVars
  <2>3. \A x : OnTheWay(x) <=> OnTheWay(x)' \/ x = p
    BY <2>1, PacketTaken DEF IInv
  <2>4. InQueue("CONNACK") => InQueue("CONNACK")'
    BY <2>2, EventSent DEF IInv, Events
  <2> QED BY <2>2, <2>3, <2>4 DEF SessionInv
<1>3. CASE DisconnNotify \/ RunFails \/ ContextEnd
  <2>1. session = "closed"
    BY <1>3, WireEmpty DEF DisconnNotify, RunFails, ContextEnd, IInv, WireInv
  <2>2. UNCHANGED <<session, main, wire>>
    BY <1>3 DEF DisconnNotify, RunFails, ContextEnd, serverVars
  <2> QED BY <2>1, <2>2 DEF SessionInv
<1> QED BY <1>1, <1>2, <1>3 DEF Ctx

LEMMA SessionApp == IInv /\ SessionInv /\ App => SessionInv'
<1> SUFFICES ASSUME IInv, SessionInv, App PROVE SessionInv'
  OBVIOUS
<1> USE SessionFacts, Same DEF Refused, Opening, Connecting
<1>1. UNCHANGED <<moduleState, main, session, connAck>>
  BY DEF App, AppReceive, AppDestroy, AppMessage, AppDisconnect, AppConnack,
         AppSubscribe, AppSubSent, AppSubFails, AppSubacked, AppSubscribed,
         moduleVars, ackVars, serverVars
<1>2. CASE AppReceive
  <2>1. /\ UNCHANGED <<wire, mqtt_connected>> /\ app = "receive"
        /\ event' = Head(msgQueue) /\ msgQueue' = Tail(msgQueue)
        /\ msgQueue # << >>
    BY <1>2 DEF AppReceive, moduleVars, serverVars
  <2>2. event = None /\ \A x : InQueue(x) <=> InQueue(x)' \/ x = Head(msgQueue)
    BY <2>1, EventTaken DEF IInv, PointInv
  <2> QED BY <1>1, <2>1, <2>2 DEF SessionInv, None
<1>3. CASE AppDestroy
  <2>1. UNCHANGED <<wire, mqtt_connected, event>> /\ InQueue("DESTROY")
    BY <1>3, Taken DEF AppDestroy, moduleVars, serverVars, InQueue, IInv,
                       PointInv
  <2>2. ~Connecting
    BY <2>1 DEF IInv, LifeInv, ConnectInv
  <2> QED BY <1>1, <2>1, <2>2 DEF SessionInv
<1>4. CASE AppMessage \/ AppDisconnect
  <2>1. /\ UNCHANGED <<wire, msgQueue>> /\ event # "CONNACK"
        /\ mqtt_connected' = mqtt_connected \/ event = "SERVER_DISCONNECT"
    BY <1>4 DEF AppMessage, AppDisconnect, AppLocked, moduleVars, serverVars
  <2> QED BY <1>1, <2>1 DEF SessionInv, DiscPending
<1>5. CASE AppSubscribed
  <2>1. UNCHANGED <<wire, msgQueue>> /\ mqtt_connected' = TRUE
    BY <1>5 DEF AppSubscribed, serverVars
  <2> QED BY <1>1, <2>1 DEF SessionInv
<1>6. CASE AppSubSent
  <2>1. /\ UNCHANGED <<msgQueue, event, mqtt_connected>>
        /\ IF session = "open" THEN wire' = Append(wire, "SUBACK")
                               ELSE wire' = wire
        /\ app = "send_sub"
    BY <1>6 DEF AppSubSent, moduleVars
  <2>2. ~OnTheWay("SUBACK") /\ (session = "open" => ~OnTheWay("DISCONN"))
    BY <2>1 DEF IInv, WireInv
  <2>3. \A x : x # "SUBACK" => (OnTheWay(x)' <=> OnTheWay(x))
    BY <2>1, <2>2, PacketSent DEF IInv, Packets, Answers
  <2> QED BY <1>1, <2>1, <2>3 DEF SessionInv
<1>7. CASE AppConnack \/ AppSubscribe \/ AppSubFails \/ AppSubacked
  <2>1. UNCHANGED <<wire, msgQueue, event, mqtt_connected>>
    BY <1>7 DEF AppConnack, AppSubscribe, AppSubFails, AppSubacked, serverVars,
                moduleVars
  <2> QED BY <1>1, <2>1 DEF SessionInv
<1> QED BY <1>2, <1>3, <1>4, <1>5, <1>6, <1>7 DEF App

LEMMA SessionMain == IInv /\ SessionInv /\ Main => SessionInv'
<1> SUFFICES ASSUME IInv, SessionInv, Main PROVE SessionInv'
  OBVIOUS
<1> USE SessionFacts, Same DEF Refused, Opening, Connecting
<1>1. UNCHANGED event /\ \A x : InQueue(x) => InQueue(x)'
  <2>1. UNCHANGED event
             /\ (UNCHANGED msgQueue \/ msgQueue' = Append(msgQueue, "DESTROY"))
    BY DEF Main, MqttInit, MqttSubscribe, MqttConnect, ConnectCreate,
           ConnectFails, ConnectOver, SendConnect, SendConnectFails,
           ConnackTaken, Connected, MqttDisconnect, DisconnectLocked,
           SendDisconn, SendDisconnFails, DisconnTaken, MqttDeinit,
           DeinitLocked, DeinitTells, BootPublish, BootChecks, BootSends,
           appVars
  <2> QED BY <2>1, EventSent DEF IInv, Events
<1>2. CASE MqttInit \/ MqttSubscribe
  BY <1>1, <1>2 DEF MqttInit, MqttSubscribe, Runs, SessionInv, serverVars, ackVars
<1>3. CASE MqttConnect \/ Connected \/ MqttDisconnect \/ MqttDeinit
           \/ BootPublish \/ BootChecks \/ BootSends
  BY <1>1, <1>3
  DEF MqttConnect, Connected, MqttDisconnect, MqttDeinit, BootPublish,
      BootChecks, BootSends, Runs, SessionInv, serverVars, ackVars, moduleVars
<1>4. CASE ConnectCreate \/ ConnectFails \/ ConnectOver
  BY <1>1, <1>4
  DEF ConnectCreate, ConnectFails, ConnectOver, Runs, SessionInv, serverVars, ackVars,
      moduleVars, None
<1>5. CASE SendConnect \/ SendConnectFails
  BY <1>1, <1>5
  DEF SendConnect, SendConnectFails, Runs, SessionInv, serverVars, ackVars,
      moduleVars, IInv, AckInv, None
<1>6. CASE ConnackTaken
  BY <1>1, <1>6
  DEF ConnackTaken, StateAfterConnect, Runs, SessionInv, serverVars
<1>7. CASE DisconnectLocked
  BY <1>1, <1>7
  DEF DisconnectLocked, Disconnected, Runs, SessionInv, serverVars
<1>8. CASE SendDisconn \/ SendDisconnFails \/ DisconnTaken
  BY <1>1, <1>8
  DEF SendDisconn, SendDisconnFails, DisconnTaken, Disconnected, Runs,
      SessionInv, serverVars, ackVars
<1>9. CASE DeinitLocked
  BY <1>1, <1>9 DEF DeinitLocked, Runs, SessionInv, serverVars, ackVars
<1> QED BY <1>2, <1>3, <1>4, <1>5, <1>6, <1>7, <1>8, <1>9 DEF Main

LEMMA SessionNext == IInv /\ SessionInv /\ [Next]_vars => SessionInv'
<1> SUFFICES ASSUME IInv, SessionInv, [Next]_vars PROVE SessionInv'
  OBVIOUS
<1>1. CASE PubRequest \/ PubGoesOn \/ UNCHANGED vars
  <2>1. UNCHANGED <<connAck, session, wire, main, moduleState, mqtt_connected,
                    msgQueue, event>>
    BY <1>1 DEF PubRequest, PubGoesOn, PubChecks, PubSent, vars, moduleVars,
                ackVars, serverVars, appVars
  <2> QED BY <2>1, Same DEF SessionInv, Refused, Opening, Connecting
<1> QED BY <1>1, SessionServer, SessionCtx, SessionApp, SessionMain DEF Next

(* While app renews the topics, on a connection that is open, nothing of   *)
(* the list fails: the server has the topics before its place.             *)
LEMMA SubscribedServer ==
    IInv /\ SessionInv /\ SubscribedInv /\ Server => SubscribedInv'
<1> SUFFICES ASSUME IInv, SessionInv, SubscribedInv, Server
             PROVE  SubscribedInv'
  OBVIOUS
<1>1. CASE ServerAnswers
  <2>1. /\ UNCHANGED <<app, event, head, curr, subscribed, msgQueue>>
        /\ session = "opening"
    BY <1>1 DEF ServerAnswers, moduleVars, appVars
  <2>2. PICK p \in Answers : /\ wire' = Append(wire, p)
                             /\ session' = IF p = "CONNACK" THEN "open"
                                                            ELSE "refused"
    BY <1>1 DEF ServerAnswers, Answers
  <2>3. wire = << >> /\ app \notin AppHolds /\ ~OnTheWay("DISCONN")
    BY <2>1, WireEmpty DEF IInv, WireInv, Opening, Clean, AppHolds
  <2>4. p = "CONNACK" => OnTheWay("CONNACK")'
    BY <2>2, <2>3, PacketSent DEF IInv, Packets, Answers
  <2> QED BY <2>1, <2>2, <2>3, <2>4
          DEF SubscribedInv, Renewed, Connecting, Opening, Answers
<1>2. CASE ServerPublishes
  <2>1. /\ UNCHANGED <<app, event, head, curr, subscribed, msgQueue, session>>
        /\ wire' = Append(wire, "PUBLISH") /\ session = "open"
    BY <1>2 DEF ServerPublishes, moduleVars, appVars
  <2>2. ~OnTheWay("DISCONN")
    BY <2>1 DEF IInv, WireInv
  <2>3. \A x : OnTheWay(x)' <=> OnTheWay(x) \/ x = "PUBLISH"
    BY <2>1, <2>2, PacketSent DEF IInv, Packets, Answers
  <2>4. Connecting' <=> Connecting
    BY <2>1, <2>3, Same DEF Connecting, Opening
  <2> QED BY <2>1, <2>4 DEF SubscribedInv, Renewed
<1>3. CASE ServerCloses
  BY <1>3 DEF ServerCloses, SubscribedInv
<1> QED BY <1>1, <1>2, <1>3 DEF Server

LEMMA SubscribedCtx ==
    IInv /\ SessionInv /\ SubscribedInv /\ Ctx => SubscribedInv'
<1> SUFFICES ASSUME IInv, SessionInv, SubscribedInv, Ctx
             PROVE  SubscribedInv'
  OBVIOUS
<1>1. UNCHANGED <<app, event, head, curr, subscribed, session>>
  BY DEF Ctx, NotifyConnack, NotifySuback, PublishRx, Disconn, DisconnNotify,
         RunFails, ContextEnd, moduleVars, appVars, serverVars
<1>2. CASE NotifyConnack
  <2>1. InQueue("CONNACK")'
    BY <1>2, EventSent DEF NotifyConnack, IInv, Events
  <2>2. PICK p \in Answers : Packet(p)
    BY <1>2 DEF NotifyConnack, Answers
  <2>3. OnTheWay(p)
    BY <2>2, PacketTaken DEF IInv
  <2>4. Connecting /\ Connecting'
    BY <2>1, <2>3 DEF Connecting, Opening, Answers
  <2> QED BY <1>1, <2>4 DEF SubscribedInv, Renewed
<1>3. CASE NotifySuback \/ PublishRx \/ Disconn
  <2>1. PICK p \in {"SUBACK", "PUBLISH", "DISCONN"} : Packet(p)
    BY <1>3 DEF NotifySuback, PublishRx, Disconn
  <2>2. msgQueue' = msgQueue \/ msgQueue' = Append(msgQueue, "RECV")
    BY <1>3 DEF NotifySuback, PublishRx, Disconn
  <2>3. \A x : OnTheWay(x) <=> OnTheWay(x)' \/ x = p
    BY <2>1, PacketTaken DEF IInv
  <2>4. InQueue("CONNACK")' <=> InQueue("CONNACK")
    BY <2>2, EventSent, Same DEF IInv, Events
  <2>5. Connecting' <=> Connecting
    BY <1>1, <2>3, <2>4 DEF Connecting, Opening
  <2> QED BY <1>1, <2>5 DEF SubscribedInv, Renewed
<1>4. CASE DisconnNotify \/ RunFails \/ ContextEnd
  <2>1. session = "closed"
    BY <1>4, WireEmpty DEF DisconnNotify, RunFails, ContextEnd, IInv, WireInv
  <2> QED BY <1>1, <2>1 DEF SubscribedInv
<1> QED BY <1>2, <1>3, <1>4 DEF Ctx

LEMMA SubscribedApp ==
    IInv /\ SessionInv /\ SubscribedInv /\ App => SubscribedInv'
<1> SUFFICES ASSUME IInv, SessionInv, SubscribedInv, App
             PROVE  SubscribedInv'
  OBVIOUS
<1>1. UNCHANGED session
  BY DEF App, AppReceive, AppDestroy, AppMessage, AppDisconnect, AppConnack,
         AppSubscribe, AppSubSent, AppSubFails, AppSubacked, AppSubscribed,
         serverVars
<1>2. session # "open" => UNCHANGED subscribed
  BY DEF App, AppReceive, AppDestroy, AppMessage, AppDisconnect, AppConnack,
         AppSubscribe, AppSubSent, AppSubFails, AppSubacked, AppSubscribed,
         serverVars
<1>3. CASE session # "open"
  BY <1>1, <1>2, <1>3 DEF SubscribedInv
<1>4. CASE session = "open"
  <2> USE <1>4
  <2>1. MayAwait /\ ctx = "run" /\ ~DiscPending /\ subscribed = Renewed
        /\ session' = "open"
    BY <1>1, SessionFacts DEF SubscribedInv
  <2>2. CASE AppReceive
    <3>1. /\ UNCHANGED <<wire, head, subscribed>> /\ app = "receive"
          /\ app' = "lock" /\ msgQueue # << >>
          /\ event' = Head(msgQueue) /\ msgQueue' = Tail(msgQueue)
      BY <2>2 DEF AppReceive, moduleVars, serverVars
    <3>2. event = None /\ \A x : InQueue(x) <=> InQueue(x)' \/ x = Head(msgQueue)
      BY <3>1, EventTaken DEF IInv, PointInv
    <3>3. Connecting' <=> Connecting
      BY <1>1, <3>1, <3>2, Same DEF Connecting, Opening, None
    <3> QED BY <2>1, <3>1, <3>3 DEF SubscribedInv, Renewed, AppHolds
  <2>3. CASE AppDestroy
    <3>1. /\ UNCHANGED <<wire, event, head, subscribed>> /\ app = "receive"
          /\ app' = "not_created" /\ msgQueue' = << >> /\ InQueue("DESTROY")
      BY <2>3, Taken DEF AppDestroy, moduleVars, serverVars, InQueue, IInv,
                         PointInv
    <3>2. ~Connecting /\ ~Connecting'
      BY <1>1, <3>1, Same, QueueFacts
      DEF IInv, LifeInv, ConnectInv, Connecting, Opening
    <3> QED BY <2>1, <3>1, <3>2 DEF SubscribedInv, Renewed, AppHolds
  <2>4. CASE AppMessage \/ AppDisconnect
    <3>1. /\ UNCHANGED <<wire, msgQueue, head, subscribed>> /\ app = "lock"
          /\ app' = "receive" /\ event # "CONNACK" /\ event' = None
      BY <2>4 DEF AppMessage, AppDisconnect, AppLocked, AppLeaves, moduleVars,
                  serverVars
    <3>2. Connecting' <=> Connecting
      BY <1>1, <3>1, Same DEF Connecting, Opening, None
    <3> QED BY <2>1, <3>1, <3>2 DEF SubscribedInv, Renewed, AppHolds
  <2>5. CASE AppConnack
    <3>1. /\ UNCHANGED <<head, subscribed>> /\ app = "lock"
          /\ app' = "subscribe" /\ event = "CONNACK" /\ curr' = 1
      BY <2>5 DEF AppConnack, AppLocked, moduleVars, serverVars
    <3>2. subscribed = {} /\ \A j \in DOMAIN head : ~(j < 1)
      BY <2>1, <3>1 DEF Renewed, AppHolds, Connecting, IInv, ListInv
    <3> QED BY <2>1, <3>1, <3>2 DEF SubscribedInv, Renewed, AppHolds
  <2>6. CASE AppSubscribe
    <3>1. /\ UNCHANGED <<head, curr, subscribed>> /\ app = "subscribe"
          /\ app' = "send_sub"
      BY <2>1, <2>6 DEF AppSubscribe, serverVars
    <3> QED BY <2>1, <3>1 DEF SubscribedInv, Renewed, AppHolds
  <2>7. CASE AppSubSent
    <3>1. /\ UNCHANGED <<head, curr>> /\ app = "send_sub"
          /\ app' = "await_suback"
          /\ subscribed' = subscribed \cup {head[curr]}
      BY <2>7 DEF AppSubSent, moduleVars
    <3>2. curr \in DOMAIN head /\ \A j \in DOMAIN head : j # j + 1
      BY <3>1 DEF IInv, ListInv, AppHolds
    <3> QED BY <2>1, <3>1, <3>2 DEF SubscribedInv, Renewed, AppHolds
  <2>8. CASE AppSubFails
    BY <2>8 DEF AppSubFails
  <2>9. CASE AppSubacked
    <3>1. /\ UNCHANGED <<head, subscribed>> /\ app = "await_suback"
          /\ app' = "subscribe" /\ curr' = curr + 1
      BY <2>1, <2>9 DEF AppSubacked, serverVars
    <3>2. \A j \in DOMAIN head : j < curr' <=> j < curr \/ j = curr
      BY <3>1 DEF IInv, ListInv
    <3> QED BY <2>1, <3>1, <3>2 DEF SubscribedInv, Renewed, AppHolds
  <2>10. CASE AppSubscribed
    <3>1. /\ UNCHANGED <<head, wire, msgQueue, subscribed>>
          /\ app = "subscribe" /\ app' = "receive" /\ event' = None
          /\ curr > Len(head)
      BY <2>10 DEF AppSubscribed, AppLeaves, serverVars
    <3>2. ~Opening /\ ~InQueue("CONNACK")
      BY <3>1, SubscribingFacts DEF AppHolds
    <3>3. ~Connecting'
      BY <1>1, <3>1, <3>2, Same DEF Connecting, Opening, None
    <3>4. \A j \in DOMAIN head : j < curr
      BY <3>1 DEF IInv, ListInv
    <3>5. subscribed = Range(head)
      BY <2>1, <3>1, <3>4 DEF Renewed, AppHolds, Range
    <3> QED BY <2>1, <3>1, <3>3, <3>5 DEF SubscribedInv, Renewed, AppHolds
  <2> QED BY <2>2, <2>3, <2>4, <2>5, <2>6, <2>7, <2>8, <2>9, <2>10 DEF App
<1> QED BY <1>3, <1>4

LEMMA SubscribedMain ==
    IInv /\ SessionInv /\ SubscribedInv /\ Main => SubscribedInv'
<1> SUFFICES ASSUME IInv, SessionInv, SubscribedInv, Main
             PROVE  SubscribedInv'
  OBVIOUS
<1>1. CASE MqttInit \/ MqttSubscribe \/ DeinitLocked \/ SendConnect
           \/ SendConnectFails
  <2>1. session \notin {"opening", "open"}
    BY <1>1, SessionFacts DEF MqttInit, MqttSubscribe, DeinitLocked,
       SendConnect, SendConnectFails, Runs
  <2> QED BY <1>1, <2>1 DEF MqttInit, MqttSubscribe, DeinitLocked, SendConnect,
       SendConnectFails, serverVars, SubscribedInv
<1>2. CASE SendDisconn
  BY <1>2 DEF SendDisconn, SubscribedInv
<1>3. CASE \/ MqttConnect \/ ConnectCreate \/ ConnectFails \/ ConnectOver
           \/ ConnackTaken \/ Connected \/ MqttDisconnect
           \/ DisconnectLocked \/ SendDisconnFails \/ DisconnTaken
           \/ MqttDeinit \/ BootPublish \/ BootChecks \/ BootSends
  <2>1. UNCHANGED <<app, event, head, curr, subscribed, session, wire,
                    msgQueue>>
    BY <1>3 DEF MqttConnect, ConnectCreate, ConnectFails, ConnectOver,
       ConnackTaken, Connected, MqttDisconnect, DisconnectLocked,
       SendDisconnFails, DisconnTaken, MqttDeinit, BootPublish, BootChecks,
       BootSends, moduleVars, appVars, serverVars
  <2> QED BY <2>1, Same DEF SubscribedInv, Renewed, Connecting, Opening
<1> QED BY <1>1, <1>2, <1>3 DEF Main

LEMMA SubscribedNext ==
    IInv /\ SessionInv /\ SubscribedInv /\ [Next]_vars => SubscribedInv'
<1> SUFFICES ASSUME IInv, SessionInv, SubscribedInv, [Next]_vars
             PROVE  SubscribedInv'
  OBVIOUS
<1>1. CASE PubRequest \/ PubGoesOn \/ UNCHANGED vars
  <2>1. UNCHANGED <<app, event, head, curr, subscribed, session, wire,
                    msgQueue>>
    BY <1>1 DEF PubRequest, PubGoesOn, PubChecks, PubSent, vars, moduleVars,
                serverVars, appVars
  <2> QED BY <2>1, Same DEF SubscribedInv, Renewed, Connecting, Opening
<1> QED BY <1>1, SubscribedServer, SubscribedCtx, SubscribedApp, SubscribedMain
        DEF Next

(* The notice of the end of a connection reaches app before the life of    *)
(* app ends, but for a connection that was refused.                        *)
LEMMA NoticeServer == IInv /\ NoticeInv /\ Server => NoticeInv'
<1> SUFFICES ASSUME IInv, NoticeInv, Server PROVE NoticeInv'
  OBVIOUS
<1>1. UNCHANGED <<moduleState, mqtt_connected, awaitedAck, connAck, main, app,
                  event, ctx, msgQueue>>
  BY DEF Server, ServerAnswers, ServerPublishes, ServerCloses, moduleVars,
         ackVars, appVars
<1>2. MayAwait /\ session # "closed"
  BY DEF Server, ServerAnswers, ServerPublishes, ServerCloses, IInv, WireInv
<1> QED BY <1>1, <1>2, Same DEF NoticeInv, MayAwait, DiscPending, Refused

LEMMA NoticeCtx == IInv /\ NoticeInv /\ Ctx => NoticeInv'
<1> SUFFICES ASSUME IInv, NoticeInv, Ctx PROVE NoticeInv'
  OBVIOUS
<1> USE Same DEF MayAwait, DiscPending, Refused, None
<1>1. CASE NotifyConnack \/ NotifySuback \/ PublishRx
  <2>1. PICK p \in Answers \cup {"SUBACK", "PUBLISH"} : Packet(p)
    BY <1>1 DEF NotifyConnack, NotifySuback, PublishRx, Answers
  <2>2. /\ ctx = "run" /\ MayAwait /\ OnTheWay(p)
        /\ p \in Answers => ~mqtt_connected
    <3>1. ctx = "run" /\ wire # << >> /\ OnTheWay(p)
      BY <2>1, PacketTaken DEF Packet, IInv
    <3> QED BY <3>1 DEF IInv, WireInv, ConnectInv, Connecting, Opening, Answers
  <2>3. /\ UNCHANGED <<moduleState, mqtt_connected, main, app, event, ctx>>
        /\ awaitedAck' \in {None, awaitedAck}
        /\ UNCHANGED connAck \/ NotifyConnack
        /\ \/ UNCHANGED msgQueue
           \/ \E e \in {"CONNACK", "RECV"} : msgQueue' = Append(msgQueue, e)
    BY <1>1 DEF NotifyConnack, NotifySuback, PublishRx, moduleVars, appVars,
                ackVars
  <2>4. \A x : InQueue(x) => InQueue(x)'
    BY <2>3, EventSent DEF IInv, Events
  <2>5. NotifyConnack => ~mqtt_connected
    <3> SUFFICES ASSUME NotifyConnack PROVE ~mqtt_connected
      OBVIOUS
    <3>1. PICK r \in Answers : Packet(r)
      BY DEF NotifyConnack, Answers
    <3>2. OnTheWay(r)
      BY <3>1, PacketTaken DEF IInv
    <3> QED BY <3>2 DEF IInv, ConnectInv, Connecting, Opening, Answers
  <2> QED BY <2>2, <2>3, <2>4, <2>5 DEF NoticeInv
<1>2. CASE Disconn
  <2>1. /\ UNCHANGED <<moduleState, mqtt_connected, main, app, event, connAck,
                       msgQueue>>
        /\ ctx = "run" /\ ctx' = "disconnCB"
    BY <1>2 DEF Disconn, Packet, moduleVars, appVars
  <2> QED BY <2>1 DEF NoticeInv
<1>3. CASE DisconnNotify
  <2>1. /\ UNCHANGED <<moduleState, mqtt_connected, main, app, event, connAck>>
        /\ ctx = "disconnCB" /\ ctx' = "lock"
        /\ msgQueue' = Append(msgQueue, "SERVER_DISCONNECT")
    BY <1>3 DEF DisconnNotify, moduleVars, appVars, ackVars
  <2>2. InQueue("SERVER_DISCONNECT")'
    BY <2>1, EventSent DEF IInv, Events
  <2> QED BY <2>1, <2>2 DEF NoticeInv
<1>4. CASE RunFails
  <2>1. /\ UNCHANGED <<moduleState, mqtt_connected, main, app, event, connAck,
                       msgQueue>>
        /\ ctx = "run" /\ ~MayAwait /\ ctx' = "lock"
    BY <1>4 DEF RunFails, moduleVars, appVars, ackVars
  <2> QED BY <2>1 DEF NoticeInv, Connecting
<1>5. CASE ContextEnd
  <2>1. /\ UNCHANGED <<mqtt_connected, main, app, event, msgQueue>>
        /\ ctx = "lock" /\ ctx' = "none" /\ moduleState' = "INITIALIZED"
    BY <1>5 DEF ContextEnd, StateAfterRun, appVars
  <2> QED BY <2>1 DEF NoticeInv
<1> QED BY <1>1, <1>2, <1>3, <1>4, <1>5 DEF Ctx

LEMMA NoticeApp == IInv /\ NoticeInv /\ App => NoticeInv'
<1> SUFFICES ASSUME IInv, NoticeInv, App PROVE NoticeInv'
  OBVIOUS
<1> USE Same DEF MayAwait, DiscPending, Refused, None
<1>1. UNCHANGED <<moduleState, main, ctx, connAck, session>>
  BY DEF App, AppReceive, AppDestroy, AppMessage, AppDisconnect, AppConnack,
         AppSubscribe, AppSubSent, AppSubFails, AppSubacked, AppSubscribed,
         moduleVars, ackVars, serverVars
<1>2. CASE AppReceive
  <2>1. /\ UNCHANGED <<wire, awaitedAck, mqtt_connected>> /\ app = "receive"
        /\ app' = "lock" /\ event' = Head(msgQueue)
        /\ msgQueue' = Tail(msgQueue) /\ msgQueue # << >>
    BY <1>2 DEF AppReceive, moduleVars, ackVars, serverVars
  <2>2. event = None /\ \A x : InQueue(x) <=> InQueue(x)' \/ x = Head(msgQueue)
    BY <2>1, EventTaken DEF IInv, PointInv
  <2>3. (DiscPending' <=> DiscPending) /\ (Connecting' <=> Connecting)
    BY <1>1, <2>1, <2>2 DEF Connecting, Opening
  <2>4. event' = "CONNACK" => ctx = "run"
    BY <2>1, <2>2 DEF IInv, ConnectInv
  <2>5. moduleState = "IDLE" /\ ctx = "none" =>
            \A i \in DOMAIN msgQueue' :
                msgQueue'[i] = "DESTROY" => i = Len(msgQueue')
    <3> SUFFICES ASSUME moduleState = "IDLE", ctx = "none",
                        NEW i \in DOMAIN msgQueue', msgQueue'[i] = "DESTROY"
                 PROVE  i = Len(msgQueue')
      OBVIOUS
    <3>1. msgQueue \in Seq(Events)
      BY DEF IInv, PointInv
    <3>2. /\ i \in Nat /\ i + 1 \in DOMAIN msgQueue
          /\ msgQueue[i + 1] = "DESTROY" /\ Len(msgQueue') = Len(msgQueue) - 1
          /\ Len(msgQueue) \in Nat
      BY <2>1, <3>1
    <3>3. i + 1 = Len(msgQueue)
      BY <3>2 DEF NoticeInv
    <3> QED BY <3>2, <3>3
  <2> QED BY <1>1, <2>1, <2>3, <2>4, <2>5 DEF NoticeInv
<1>3. CASE AppDestroy
  <2>1. /\ UNCHANGED <<wire, event, awaitedAck, mqtt_connected>>
        /\ app = "receive" /\ app' = "not_created" /\ msgQueue' = << >>
        /\ msgQueue # << >> /\ Head(msgQueue) = "DESTROY"
    BY <1>3 DEF AppDestroy, moduleVars, ackVars, serverVars
  <2>2. msgQueue \in Seq(Events) /\ InQueue("DESTROY") /\ event = None
    BY <2>1, Taken DEF InQueue, IInv, PointInv
  <2>3. main = "init" /\ (ctx # "none" => Refused)
    BY <2>2 DEF IInv, LifeInv, PointInv, ClientInv, Live
  <2>4. moduleState = "IDLE" /\ ctx = "none" => ~mqtt_connected
    <3> SUFFICES ASSUME moduleState = "IDLE", ctx = "none"
                 PROVE  ~mqtt_connected
      OBVIOUS
    <3>1. 1 \in DOMAIN msgQueue /\ msgQueue[1] = "DESTROY"
          /\ DOMAIN msgQueue = 1 .. Len(msgQueue)
      BY <2>1, <2>2
    <3>2. Len(msgQueue) = 1
      BY <3>1 DEF NoticeInv
    <3>3. ~InQueue("SERVER_DISCONNECT")
      BY <3>1, <3>2 DEF InQueue, Range
    <3> QED BY <2>1, <2>2, <3>3 DEF NoticeInv
  <2>5. DOMAIN msgQueue' = {}
    BY <2>1
  <2> QED BY <1>1, <2>1, <2>2, <2>3, <2>4, <2>5 DEF NoticeInv
<1>4. CASE AppMessage \/ AppDisconnect
  <2>1. /\ UNCHANGED <<wire, msgQueue, awaitedAck>> /\ app = "lock"
        /\ app' = "receive" /\ event' = None
        /\ \/ event = "RECV" /\ UNCHANGED mqtt_connected
           \/ event = "SERVER_DISCONNECT" /\ mqtt_connected' = FALSE
    BY <1>4 DEF AppMessage, AppDisconnect, AppLocked, AppLeaves, moduleVars,
                ackVars, serverVars
  <2>2. Connecting' <=> Connecting
    BY <1>1, <2>1 DEF Connecting, Opening
  <2> QED BY <1>1, <2>1, <2>2 DEF NoticeInv
<1>5. CASE AppConnack \/ AppSubscribe \/ AppSubSent \/ AppSubFails
           \/ AppSubacked
  <2>1. /\ UNCHANGED <<mqtt_connected, event, msgQueue>>
        /\ app # "not_created" /\ app' # "not_created"
        /\ awaitedAck' = awaitedAck \/ awaitedAck' \in {None, "SUBACK"}
        /\ ~MayAwait => awaitedAck' = awaitedAck
    BY <1>5 DEF AppConnack, AppLocked, AppSubscribe, AppSubSent, AppSubFails,
                AppSubacked, SubscribeFails, moduleVars, ackVars
  <2>2. event = "CONNACK"
    BY <1>5 DEF AppConnack, AppLocked, AppSubscribe, AppSubSent, AppSubFails,
                AppSubacked, IInv, PointInv, AppHolds
  <2> QED BY <1>1, <2>1, <2>2 DEF NoticeInv, Connecting
<1>6. CASE AppSubscribed
  <2>1. /\ UNCHANGED <<awaitedAck, msgQueue>> /\ mqtt_connected' = TRUE
        /\ app = "subscribe" /\ app' = "receive" /\ event' = None
    BY <1>6 DEF AppSubscribed, AppLeaves, ackVars, serverVars
  <2>2. event = "CONNACK" /\ ctx \in {"run", "disconnCB", "lock"}
    BY <2>1, SubscribingFacts DEF AppHolds, IInv, PointInv, ClientInv
  <2> QED BY <1>1, <2>1, <2>2 DEF NoticeInv, Connecting
<1> QED BY <1>2, <1>3, <1>4, <1>5, <1>6 DEF App

LEMMA NoticeMain == IInv /\ NoticeInv /\ Main => NoticeInv'
<1> SUFFICES ASSUME IInv, NoticeInv, Main PROVE NoticeInv'
  OBVIOUS
<1> USE Same DEF MayAwait, DiscPending, Refused, None
<1>1. CASE MqttInit
  <2>1. /\ UNCHANGED <<mqtt_connected, awaitedAck, connAck, event, ctx,
                       msgQueue>>
        /\ main = "init" /\ main' = "subscribe" /\ Runs("init")
        /\ \/ moduleState = "IDLE" /\ moduleState' = "INITIALIZED"
              /\ app' = "receive"
           \/ UNCHANGED <<moduleState, app>>
    BY <1>1 DEF MqttInit, ackVars, Runs
  <2>2. moduleState = "IDLE" =>
            app = "not_created" /\ ctx \in {"none", "run", "disconnCB"}
    BY <2>1, InitFacts
  <2> QED BY <2>1, <2>2 DEF NoticeInv
<1>2. CASE MqttSubscribe
  <2>1. /\ UNCHANGED <<mqtt_connected, awaitedAck, connAck, event, ctx, app,
                       msgQueue, moduleState>>
        /\ main = "subscribe" /\ main' \in {"subscribe", "offline"}
    BY <1>2 DEF MqttSubscribe, ackVars, appVars, Runs
  <2> QED BY <2>1 DEF NoticeInv
<1>3. CASE MqttConnect \/ ConnectOver
  <2>1. /\ UNCHANGED <<mqtt_connected, awaitedAck, connAck, event, ctx, app,
                       msgQueue, moduleState>>
        /\ main # "wait_connected" /\ ~mqtt_connected
    BY <1>3 DEF MqttConnect, ConnectOver, ackVars, appVars, moduleVars, Runs,
                IInv, ConnectInv
  <2> QED BY <2>1 DEF NoticeInv
<1>4. CASE ConnectCreate
  <2>1. /\ UNCHANGED <<mqtt_connected, event, app, msgQueue, moduleState>>
        /\ main = "connect_lock" /\ ~mqtt_connected
        /\ \/ ctx' = "wait_rxtx" /\ moduleState # "IDLE"
           \/ UNCHANGED <<ctx, awaitedAck>>
    BY <1>4 DEF ConnectCreate, ackVars, appVars, moduleVars, Runs, IInv,
                ConnectInv, LifeInv
  <2> QED BY <2>1 DEF NoticeInv
<1>5. CASE SendConnect \/ SendConnectFails
  <2>1. /\ UNCHANGED <<mqtt_connected, event, app, msgQueue, moduleState, wire>>
        /\ main = "send_connect" /\ ctx' = "run"
        /\ \/ UNCHANGED awaitedAck
           \/ main' = "wait_connected" /\ session' = session
    BY <1>5 DEF SendConnect, SendConnectFails, ackVars, appVars, moduleVars,
                serverVars, Runs
  <2>2. /\ ~mqtt_connected /\ ~Connecting /\ awaitedAck = "CONNACK"
    BY <2>1 DEF IInv, ConnectInv, AckInv
  <2> QED BY <2>1, <2>2 DEF NoticeInv, Connecting, Opening
<1>6. CASE ConnackTaken \/ Connected
  <2>1. /\ UNCHANGED <<mqtt_connected, event, app, msgQueue, connAck, ctx,
                       awaitedAck>>
        /\ \/ main = "await_connack" /\ moduleState' \in {moduleState, "CONNECTED"}
           \/ main = "wait_connected" /\ UNCHANGED moduleState /\ mqtt_connected
    BY <1>6 DEF ConnackTaken, StateAfterConnect, Connected, ackVars, appVars,
                moduleVars, Runs
  <2>2. (app = "not_created" => ~mqtt_connected) /\ moduleState # "IDLE"
    BY <2>1 DEF IInv, ConnectInv, LifeInv
  <2> QED BY <2>1, <2>2 DEF NoticeInv
<1>7. CASE \/ MqttDisconnect \/ DisconnectLocked \/ SendDisconn
           \/ SendDisconnFails \/ DisconnTaken \/ MqttDeinit \/ BootPublish
           \/ BootChecks \/ BootSends
  <2>1. /\ UNCHANGED <<event, app, msgQueue, connAck, ctx>>
        /\ moduleState' \in {moduleState, "INITIALIZED"}
        /\ mqtt_connected' \in {mqtt_connected, FALSE}
        /\ awaitedAck' \in {awaitedAck, None, "DISCONN_CB"}
        /\ main \in {"up", "disconnect_lock", "send_disconn", "await_disconn",
                     "deinit", "publish_lock", "publish"}
        /\ ~MayAwait => awaitedAck' = awaitedAck
    BY <1>7 DEF MqttDisconnect, DisconnectLocked, SendDisconn, Disconnected,
       SendDisconnFails, DisconnTaken, MqttDeinit, BootPublish, BootChecks,
       BootSends, ackVars, appVars, moduleVars, Runs
  <2>2. app # "not_created" /\ moduleState # "IDLE"
    BY <2>1 DEF IInv, LifeInv
  <2>3. ~MayAwait' => ~MayAwait
    BY <2>1 DEF MayAwait, None
  <2>4. mqtt_connected' => mqtt_connected
    BY <2>1
  <2>5. ~(ctx' = "run" /\ ~MayAwait')
    BY <2>1, <2>3 DEF NoticeInv
  <2>6. app' # "not_created" /\ moduleState' # "IDLE"
    BY <2>1, <2>2
  <2>7. DiscPending' = DiscPending /\ InQueue("SERVER_DISCONNECT")' = InQueue("SERVER_DISCONNECT")
    BY <2>1 DEF InQueue
  <2> QED BY <2>1, <2>4, <2>5, <2>6, <2>7 DEF NoticeInv
<1>8. CASE DeinitLocked
  <2>1. /\ UNCHANGED <<mqtt_connected, event, app, connAck, ctx, awaitedAck>>
        /\ main = "deinit_lock" /\ Holds("main")
        /\ moduleState = "INITIALIZED" => msgQueue' = Append(msgQueue, "DESTROY")
    BY <1>8 DEF DeinitLocked, DeinitTells, ackVars, appVars, moduleVars, Runs
  <2>2. msgQueue' = Append(msgQueue, "DESTROY")
    BY <2>1, DeinitFacts
  <2>3. app # "not_created" /\ ~InQueue("DESTROY") /\ msgQueue \in Seq(Events)
    BY <2>1 DEF IInv, LifeInv, PointInv
  <2>4. \A i \in DOMAIN msgQueue' :
            msgQueue'[i] = "DESTROY" => i = Len(msgQueue')
    <3>1. \A i \in DOMAIN msgQueue : msgQueue[i] # "DESTROY"
      BY <2>3 DEF InQueue, Range
    <3>2. \A i \in DOMAIN msgQueue' : \/ i = Len(msgQueue')
                                      \/ /\ i \in DOMAIN msgQueue
                                         /\ msgQueue'[i] = msgQueue[i]
      BY <2>2, <2>3
    <3> QED BY <3>1, <3>2
  <2>5. \A x : InQueue(x) => InQueue(x)'
    BY <2>2, EventSent DEF IInv, Events
  <2> QED BY <2>1, <2>3, <2>4, <2>5 DEF NoticeInv
<1>9. CASE ConnectFails
  <2>1. /\ UNCHANGED <<mqtt_connected, awaitedAck, connAck, event, ctx, app,
                       msgQueue, moduleState>>
        /\ ctx = "none" /\ moduleState = "INITIALIZED" /\ ~mqtt_connected
    BY <1>9 DEF ConnectFails, ackVars, appVars, moduleVars, Runs, IInv,
                ConnectInv
  <2> QED BY <2>1 DEF NoticeInv
<1> QED BY <1>1, <1>2, <1>3, <1>4, <1>5, <1>6, <1>7, <1>8, <1>9 DEF Main

LEMMA NoticeNext == IInv /\ NoticeInv /\ [Next]_vars => NoticeInv'
<1> SUFFICES ASSUME IInv, NoticeInv, [Next]_vars PROVE NoticeInv'
  OBVIOUS
<1>1. CASE PubRequest \/ PubGoesOn \/ UNCHANGED vars
  <2>1. /\ UNCHANGED <<connAck, session, wire, main, moduleState,
                       mqtt_connected, msgQueue, event, app, ctx>>
        /\ awaitedAck' \in {awaitedAck, None}
        /\ ~MayAwait => awaitedAck' = awaitedAck
    BY <1>1 DEF PubRequest, PubGoesOn, PubChecks, PubSent, vars, moduleVars,
                ackVars, serverVars, appVars
  <2> QED BY <2>1, Same DEF NoticeInv, MayAwait, DiscPending, Refused, None,
                            Connecting, Opening
<1> QED BY <1>1, NoticeServer, NoticeCtx, NoticeApp, NoticeMain DEF Next
-----------------------------------------------------------------------------
(* How often an element is in a queue: after one is added, after one is    *)
(* taken, and when it is not there.                                        *)
LEMMA CountAppended ==
    ASSUME NEW S, NEW s \in Seq(S), NEW x \in S, NEW e
    PROVE  /\ Count(s, e) \in Nat
           /\ Count(Append(s, x), e) = Count(s, e) + (IF x = e THEN 1 ELSE 0)
<1> DEFINE r == Append(s, x)
           n == Len(s) + 1
           A == {i \in DOMAIN s : s[i] = e}
           B == {i \in DOMAIN r : r[i] = e}
<1>1. /\ r[n] = x /\ n \notin DOMAIN s /\ DOMAIN r = DOMAIN s \cup {n}
      /\ \A i \in DOMAIN s : r[i] = s[i]
      /\ DOMAIN s = 1 .. Len(s) /\ Len(s) \in Nat
  OBVIOUS
<1> HIDE DEF r, n
<1>2. IsFiniteSet(DOMAIN s)
  BY <1>1, FS_Interval
<1>3. IsFiniteSet(A) /\ Cardinality(A) \in Nat /\ n \notin A
  BY <1>1, <1>2, FS_Subset, FS_CardinalityType
<1>6. Count(s, e) = Cardinality(A) /\ Count(Append(s, x), e) = Cardinality(B)
  BY DEF Count, r
<1>4. CASE x = e
  <2>1. B = A \cup {n}
    BY <1>1, <1>4
  <2>2. Cardinality(B) = Cardinality(A) + 1
    BY <2>1, <1>3, FS_AddElement
  <2> QED BY <2>2, <1>3, <1>4, <1>6
<1>5. CASE x # e
  <2>1. B = A
    BY <1>1, <1>5
  <2>2. Cardinality(B) = Cardinality(A)
    BY <2>1
  <2> QED BY <2>2, <1>3, <1>5, <1>6
<1> QED BY <1>4, <1>5

LEMMA CountTaken ==
    ASSUME NEW S, NEW s \in Seq(S), s # << >>, NEW e
    PROVE  Count(s, e) = Count(Tail(s), e) + (IF Head(s) = e THEN 1 ELSE 0)
<1> DEFINE t == Tail(s)
           A == {i \in DOMAIN s : s[i] = e}
           B == {i \in DOMAIN t : t[i] = e}
           f == [i \in B |-> i + 1]
<1>1. /\ DOMAIN s = 1 .. Len(s) /\ Len(s) \in Nat /\ Len(s) >= 1
      /\ DOMAIN t = 1 .. (Len(s) - 1) /\ Head(s) = s[1]
      /\ \A i \in DOMAIN t : t[i] = s[i + 1]
  OBVIOUS
<1> HIDE DEF t
<1>2. IsFiniteSet(DOMAIN s) /\ IsFiniteSet(DOMAIN t)
  BY <1>1, FS_Interval
<1>3. IsFiniteSet(A) /\ IsFiniteSet(B) /\ Cardinality(A) \in Nat
      /\ Cardinality(B) \in Nat
  BY <1>2, FS_Subset, FS_CardinalityType
<1>4. ExistsBijection(B, A \ {1})
  <2>1. \A i \in B : i + 1 \in A \ {1} /\ i \in Nat
    BY <1>1
  <2>2. \A i \in A \ {1} : i \in Nat /\ i - 1 \in B /\ (i - 1) + 1 = i
    BY <1>1
  <2>3. f \in [B -> A \ {1}]
    BY <2>1
  <2>4. \A i, j \in B : f[i] = f[j] => i = j
    BY <2>1
  <2>5. \A i \in A \ {1} : \E j \in B : f[j] = i
    BY <2>2
  <2>6. f \in Bijection(B, A \ {1})
    BY <2>3, <2>4, <2>5 DEF Bijection, Injection, IsInjective, Surjection
  <2> QED BY <2>6 DEF ExistsBijection
<1>5. Cardinality(A \ {1}) = Cardinality(B)
  BY <1>3, <1>4, FS_Bijection
<1>6. Cardinality(A \ {1}) = IF 1 \in A THEN Cardinality(A) - 1
                                         ELSE Cardinality(A)
  BY <1>3, FS_RemoveElement
<1>7. 1 \in A <=> Head(s) = e
  BY <1>1
<1>8. Count(s, e) = Cardinality(A) /\ Count(Tail(s), e) = Cardinality(B)
  BY DEF Count, t
<1> HIDE DEF A, B
<1> QED BY <1>3, <1>5, <1>6, <1>7, <1>8

LEMMA CountZero ==
    ASSUME NEW S, NEW s \in Seq(S), NEW e
    PROVE  Count(s, e) = 0 <=> e \notin Range(s)
<1> DEFINE A == {i \in DOMAIN s : s[i] = e}
<1>1. IsFiniteSet(DOMAIN s)
  <2>1. DOMAIN s = 1 .. Len(s) /\ Len(s) \in Int
    OBVIOUS
  <2> QED BY <2>1, FS_Interval
<1>2. IsFiniteSet(A)
  BY <1>1, FS_Subset
<1>3. Cardinality(A) = 0 <=> A = {}
  BY <1>2, FS_EmptySet
<1> QED BY <1>3 DEF Count, Range

LEMMA DisjointUnion ==
    ASSUME NEW S, NEW T, IsFiniteSet(S), IsFiniteSet(T), S \cap T = {}
    PROVE  /\ IsFiniteSet(S \cup T)
           /\ Cardinality(S \cup T) = Cardinality(S) + Cardinality(T)
           /\ Cardinality(S) \in Nat /\ Cardinality(T) \in Nat
<1>1. Cardinality(S \cap T) = 0
  BY FS_EmptySet
<1>2. Cardinality(S) \in Nat /\ Cardinality(T) \in Nat
  BY FS_CardinalityType
<1>3. /\ IsFiniteSet(S \cup T)
      /\ Cardinality(S \cup T)
            = Cardinality(S) + Cardinality(T) - Cardinality(S \cap T)
  BY FS_Union
<1> QED BY <1>1, <1>2, <1>3

(* The length of the queue, by the kinds of its events.                    *)
LEMMA LenIsCounts ==
    ASSUME msgQueue \in Seq(Events)
    PROVE  Len(msgQueue) = Count(msgQueue, "CONNACK") + Count(msgQueue, "RECV")
                + Count(msgQueue, "SERVER_DISCONNECT")
                + Count(msgQueue, "DESTROY")
<1> DEFINE q == msgQueue
           K(e) == {i \in DOMAIN q : q[i] = e}
           A == K("CONNACK")
           B == K("RECV")
           C == K("SERVER_DISCONNECT")
           D == K("DESTROY")
<1>1. DOMAIN q = 1 .. Len(q) /\ Len(q) \in Nat /\ \A i \in DOMAIN q : q[i] \in Events
  OBVIOUS
<1>2. IsFiniteSet(DOMAIN q) /\ Cardinality(DOMAIN q) = Len(q)
  BY <1>1, FS_Interval
<1> HIDE DEF q
<1>3. /\ IsFiniteSet(A) /\ IsFiniteSet(B) /\ IsFiniteSet(C) /\ IsFiniteSet(D)
      /\ Cardinality(A) \in Nat /\ Cardinality(B) \in Nat
      /\ Cardinality(C) \in Nat /\ Cardinality(D) \in Nat
  BY <1>2, FS_Subset, FS_CardinalityType
<1>4. /\ A \cap B = {} /\ (A \cup B) \cap C = {}
      /\ ((A \cup B) \cup C) \cap D = {}
  OBVIOUS
<1>5. DOMAIN q = ((A \cup B) \cup C) \cup D
  BY <1>1 DEF Events
<1> HIDE DEF A, B, C, D
<1>6. IsFiniteSet(A \cup B)
      /\ Cardinality(A \cup B) = Cardinality(A) + Cardinality(B)
  BY <1>3, <1>4, DisjointUnion
<1>7. IsFiniteSet((A \cup B) \cup C)
      /\ Cardinality((A \cup B) \cup C) = Cardinality(A \cup B) + Cardinality(C)
  BY <1>3, <1>4, <1>6, DisjointUnion
<1>8. Cardinality(((A \cup B) \cup C) \cup D)
        = Cardinality((A \cup B) \cup C) + Cardinality(D)
  BY <1>3, <1>4, <1>7, DisjointUnion
<1>9. Len(q) = Cardinality(A) + Cardinality(B) + Cardinality(C) + Cardinality(D)
  BY <1>2, <1>3, <1>5, <1>6, <1>7, <1>8
<1> QED BY <1>9 DEF Count, A, B, C, D, q

(* The counts of an invariant state, and how a step changes them.          *)
LEMMA QueueCounts ==
    ASSUME IInv
    PROVE  /\ \A e \in Events : /\ Count(msgQueue, e) \in Nat
                                /\ Count(msgQueue, e) = 0 <=> ~InQueue(e)
           /\ Published \in Nat /\ (Published = 0 <=> ~OnTheWay("PUBLISH"))
           /\ Received \in Nat /\ Len(msgQueue) \in Nat
           /\ Len(msgQueue) = Count(msgQueue, "CONNACK") + Received
                    + Count(msgQueue, "SERVER_DISCONNECT")
                    + Count(msgQueue, "DESTROY")
           /\ QueueLen \in Nat /\ QueueLen >= 2 /\ MaxUnread \in Nat
<1>1. msgQueue \in Seq(Events) /\ wire \in Seq(Packets)
  BY DEF IInv, PointInv, WireForm
<1>2. \A e \in Events : /\ Count(msgQueue, e) \in Nat
                        /\ Count(msgQueue, e) = 0 <=> ~InQueue(e)
  BY <1>1, CountAppended, CountZero DEF InQueue
<1>3. Published \in Nat /\ (Published = 0 <=> ~OnTheWay("PUBLISH"))
  <2>1. "PUBLISH" \in Packets
    BY DEF Packets
  <2> QED BY <1>1, <2>1, CountAppended, CountZero DEF Published, OnTheWay
<1>4. QueueLen \in Nat /\ QueueLen >= 2 /\ MaxUnread \in Nat
  BY MqttAssumption
<1>5. Received \in Nat
  BY <1>2 DEF Received, Events
<1>6. Len(msgQueue) \in Nat
  BY <1>1
<1> QED BY <1>1, <1>2, <1>3, <1>4, <1>5, <1>6, LenIsCounts DEF Received

LEMMA EventCounts ==
    ASSUME IInv, NEW x \in Events, msgQueue' = Append(msgQueue, x)
    PROVE  \A e : Count(msgQueue, e)'
                    = Count(msgQueue, e) + (IF x = e THEN 1 ELSE 0)
<1>1. msgQueue \in Seq(Events)
  BY DEF IInv, PointInv
<1>2. \A e : Count(Append(msgQueue, x), e)
                = Count(msgQueue, e) + (IF x = e THEN 1 ELSE 0)
  BY <1>1, CountAppended
<1> QED BY <1>2 DEF Count

LEMMA PacketCounts ==
    ASSUME IInv, NEW p \in Packets
    PROVE  /\ wire' = Append(wire, p) =>
                Published' = Published + (IF p = "PUBLISH" THEN 1 ELSE 0)
           /\ Packet(p) =>
                /\ Published = Published' + (IF p = "PUBLISH" THEN 1 ELSE 0)
                /\ Published' \in Nat
           /\ wire' = wire => Published' = Published
<1>1. wire \in Seq(Packets)
  BY DEF IInv, WireForm
<1>2. ASSUME wire' = Append(wire, p)
      PROVE  Published' = Published + (IF p = "PUBLISH" THEN 1 ELSE 0)
  BY <1>1, <1>2, CountAppended DEF Published
<1>3. ASSUME Packet(p)
      PROVE  Published = Published' + (IF p = "PUBLISH" THEN 1 ELSE 0)
  BY <1>1, <1>3, CountTaken DEF Published, Packet
<1>5. ASSUME Packet(p) PROVE Published' \in Nat
  <2>1. wire' \in Seq(Packets)
    BY <1>1, <1>5, Taken DEF Packet
  <2> QED BY <2>1, CountAppended DEF Published
<1>4. ASSUME wire' = wire PROVE Published' = Published
  BY <1>4 DEF Published
<1> QED BY <1>2, <1>3, <1>4, <1>5

(* The last to request the mutex is ahead of nobody, and nobody overtakes. *)
LEMMA LastIsBehind ==
    ASSUME MutexInv, NEW t \in Threads, ~Inside(t), Requests(t)
    PROVE  \A u : ~Ahead(t, u)'
<1>1. /\ moduleMutex' \in Seq(Threads) /\ IsInjective(moduleMutex')
      /\ moduleMutex \in Seq(Threads)
  BY RequestsMutex DEF MutexInv
<1>2. /\ Len(moduleMutex') \in DOMAIN moduleMutex'
      /\ moduleMutex'[Len(moduleMutex')] = t
      /\ \A j \in DOMAIN moduleMutex' : j <= Len(moduleMutex')
  BY <1>1 DEF Requests
<1>3. \A i \in DOMAIN moduleMutex' :
            moduleMutex'[i] = t => i = Len(moduleMutex')
  BY <1>1, <1>2 DEF IsInjective
<1>4. \A i, j \in DOMAIN moduleMutex' :
            i = Len(moduleMutex') => ~(i < j)
  BY <1>1, <1>2
<1> QED BY <1>3, <1>4 DEF Ahead

LEMMA AheadBefore ==
    ASSUME MutexInv, NEW a, NEW b \in Threads,
           \/ moduleMutex' = moduleMutex
           \/ \E t \in Threads \ {b} : Requests(t)
           \/ Releases /\ moduleMutex # << >>
    PROVE  Ahead(a, b)' => Ahead(a, b)
<1> SUFFICES ASSUME Ahead(a, b)' PROVE Ahead(a, b)
  OBVIOUS
<1>1. moduleMutex \in Seq(Threads)
  BY DEF MutexInv
<1>2. PICK i, j \in DOMAIN moduleMutex' :
            i < j /\ moduleMutex'[i] = a /\ moduleMutex'[j] = b
  BY DEF Ahead
<1>3. CASE moduleMutex' = moduleMutex
  BY <1>2, <1>3 DEF Ahead
<1>4. CASE \E t \in Threads \ {b} : Requests(t)
  <2>1. PICK t \in Threads : t # b /\ moduleMutex' = Append(moduleMutex, t)
    BY <1>4 DEF Requests
  <2>2. /\ DOMAIN moduleMutex' = 1 .. Len(moduleMutex) + 1
        /\ DOMAIN moduleMutex = 1 .. Len(moduleMutex)
        /\ Len(moduleMutex) \in Nat
        /\ moduleMutex'[Len(moduleMutex) + 1] = t
        /\ \A k \in DOMAIN moduleMutex : moduleMutex'[k] = moduleMutex[k]
    BY <1>1, <2>1
  <2> DEFINE n == Len(moduleMutex)
  <2>3. j # n + 1
    BY <1>2, <2>1, <2>2
  <2>4. i \in 1 .. n + 1 /\ j \in 1 .. n + 1 /\ n \in Nat /\ i < j
    BY <1>2, <2>2
  <2> HIDE DEF n
  <2>5. i \in 1 .. n /\ j \in 1 .. n
    BY <2>3, <2>4
  <2>6. i \in DOMAIN moduleMutex /\ j \in DOMAIN moduleMutex
    BY <2>2, <2>5 DEF n
  <2> QED BY <1>2, <2>2, <2>6 DEF Ahead
<1>5. CASE Releases /\ moduleMutex # << >>
  <2>1. moduleMutex' = Tail(moduleMutex)
    BY <1>5 DEF Releases
  <2>2. /\ i + 1 \in DOMAIN moduleMutex /\ moduleMutex[i + 1] = a
        /\ j + 1 \in DOMAIN moduleMutex /\ moduleMutex[j + 1] = b
        /\ i + 1 < j + 1
    BY <1>1, <1>2, <1>5, <2>1
  <2> QED BY <2>2 DEF Ahead
<1> QED BY <1>3, <1>4, <1>5

(* What a step may do without taking room from the queue.                  *)
LEMMA RoomKept ==
    ASSUME IInv, RoomInv, msgQueue' = msgQueue, Published' = Published,
           Refused' => Refused,
           app' = "not_created" => app = "not_created",
           Opening' => Opening \/ Published = 0,
           main' = "deinit_lock" => main = "deinit_lock" \/ Room,
           ctx' = "lock" /\ app' = "lock" /\ Ahead("ctx", "app")' /\ ~Refused'
             => ctx = "lock" /\ app = "lock" /\ Ahead("ctx", "app") /\ ~Refused
    PROVE  RoomInv'
<1>1. /\ \A e : Count(msgQueue, e)' = Count(msgQueue, e)
      /\ Received' = Received /\ (Room' <=> Room)
      /\ InQueue("CONNACK")' <=> InQueue("CONNACK")
  BY DEF Count, Received, Room, InQueue
<1>2. Published \in Nat
  BY QueueCounts
<1>3. (Received + Published <= MaxUnread)'
  BY <1>1 DEF RoomInv
<1>4. (\A e \in Events \ {"RECV"} : Count(msgQueue, e) <= 1)'
  BY <1>1 DEF RoomInv
<1>5. (Refused \/ app = "not_created" => Received = 0 /\ Published = 0)'
  BY <1>1 DEF RoomInv
<1>6. (Published > 0 => ~Opening /\ ~InQueue("CONNACK"))'
  BY <1>1, <1>2 DEF RoomInv
<1>7. (main = "deinit_lock" => Room)'
  BY <1>1 DEF RoomInv
<1>8. (ctx = "lock" /\ app = "lock" /\ Ahead("ctx", "app") /\ ~Refused
            => Room)'
  BY <1>1 DEF RoomInv
<1> QED BY <1>3, <1>4, <1>5, <1>6, <1>7, <1>8 DEF RoomInv

LEMMA RoomServer ==
    IInv /\ SessionInv /\ SubscribedInv /\ NoticeInv /\ RoomInv /\ Server
        => RoomInv'
<1> SUFFICES ASSUME IInv, SessionInv, SubscribedInv, NoticeInv, RoomInv, Server
             PROVE  RoomInv'
  OBVIOUS
<1>1. UNCHANGED <<msgQueue, app, main, ctx, event, connAck, moduleMutex>>
  BY DEF Server, ServerAnswers, ServerPublishes, ServerCloses, ackVars, appVars
<1>2. /\ Refused' <=> Refused
      /\ Ahead("ctx", "app")' <=> Ahead("ctx", "app")
  BY <1>1, Same DEF Refused
<1>3. Published \in Nat /\ Received \in Nat /\ MaxUnread \in Nat
  BY QueueCounts
<1>4. CASE ServerAnswers
  <2>1. PICK p \in Answers : wire' = Append(wire, p)
    BY <1>4 DEF ServerAnswers, Answers
  <2>2. Opening
    BY <1>4 DEF ServerAnswers, Opening
  <2>3. Published = 0
    BY <2>2, <1>3 DEF RoomInv
  <2>4. Published' = Published
    BY <1>3, <2>1, PacketCounts DEF Packets, Answers
  <2> QED BY <1>1, <1>2, <2>3, <2>4, RoomKept
<1>5. CASE ServerCloses
  <2>1. wire' = Append(wire, "DISCONN") /\ session' = "closed"
        /\ session # "closed"
    BY <1>5 DEF ServerCloses
  <2>2. Published' = Published
    BY <1>3, <2>1, PacketCounts DEF Packets
  <2>3. ~OnTheWay("DISCONN")
    BY <2>1 DEF IInv, WireInv
  <2>4. Opening' => Opening
    BY <2>1, <2>3, PacketSent DEF IInv, Packets, Answers, Opening
  <2> QED BY <1>1, <1>2, <2>2, <2>4, RoomKept
<1>6. CASE ServerPublishes
  <2>1. /\ wire' = Append(wire, "PUBLISH") /\ session = "open"
        /\ session' = session /\ subscribed # {} /\ Unread < MaxUnread
    BY <1>6 DEF ServerPublishes
  <2>2. Published' = Published + 1
    BY <1>3, <2>1, PacketCounts DEF Packets
  <2>3. app \in AppHolds \/ ~Connecting
    BY <2>1 DEF SubscribedInv, Renewed
  <2>4. app \in AppHolds => ~Opening /\ ~InQueue("CONNACK")
    BY DEF IInv, WireInv, ConnectInv, Clean, AppHolds
  <2>5. ~Opening /\ ~InQueue("CONNACK")
    BY <2>3, <2>4 DEF Connecting
  <2>6. ~OnTheWay("DISCONN")
    BY <2>1 DEF IInv, WireInv
  <2>7. ~Opening' /\ ~InQueue("CONNACK")'
    BY <1>1, <2>1, <2>5, <2>6, PacketSent, Same
       DEF IInv, Packets, Answers, Opening
  <2>8. ~Refused /\ ctx = "run"
    BY <2>1 DEF SessionInv, IInv, WireInv
  <2>9. app # "not_created"
    <3>1. app = "not_created" => ~mqtt_connected
      BY <2>8 DEF NoticeInv
    <3>2. app = "not_created" => Connecting
      BY <3>1, <2>1 DEF SessionInv
    <3> QED BY <3>2, <2>3 DEF AppHolds
  <2>10. Received + Published < MaxUnread
    BY <2>1 DEF Unread, Received, Published
  <2>11. /\ \A e : Count(msgQueue, e)' = Count(msgQueue, e)
         /\ Received' = Received /\ (Room' <=> Room)
    BY <1>1 DEF Count, Received, Room
  <2>12. (Received + Published <= MaxUnread)'
    BY <1>3, <2>2, <2>10, <2>11
  <2> QED BY <1>1, <1>2, <2>7, <2>8, <2>9, <2>11, <2>12 DEF RoomInv
<1> QED BY <1>4, <1>5, <1>6 DEF Server

LEMMA RoomCtx == IInv /\ RoomInv /\ Ctx => RoomInv'
<1> SUFFICES ASSUME IInv, RoomInv, Ctx PROVE RoomInv'
  OBVIOUS
<1> DEFINE N(e) == Count(msgQueue, e)
<1>1. UNCHANGED <<session, main, app>>
  BY DEF Ctx, NotifyConnack, NotifySuback, PublishRx, Disconn, DisconnNotify,
         RunFails, ContextEnd, serverVars, appVars
<1>2. /\ Published \in Nat /\ Received \in Nat /\ MaxUnread \in Nat
      /\ \A e \in Events : N(e) \in Nat /\ (N(e) = 0 <=> ~InQueue(e))
  BY QueueCounts
<1>3. CASE NotifyConnack
  <2>1. PICK p \in Answers : Packet(p)
    BY <1>3 DEF NotifyConnack, Answers
  <2>2. Opening
    BY <2>1, PacketTaken DEF IInv, Opening, Answers
  <2>3. Published = 0 /\ \A x : ~InQueue(x)
    BY <1>2, <2>2, QueueFacts DEF RoomInv, IInv, WireInv, Clean
  <2>4. Published' = 0
    BY <1>2, <2>1, <2>3, PacketCounts DEF Packets, Answers
  <2>5. \A e \in Events : N(e)' = IF e = "CONNACK" THEN 1 ELSE 0
    BY <1>2, <1>3, <2>3, EventCounts DEF NotifyConnack, Events
  <2>6. Received' = 0 /\ \A e \in Events \ {"RECV"} : N(e)' <= 1
    BY <2>5 DEF Received, Events
  <2>7. main = "await_connack" /\ ctx = "run" /\ ctx' = ctx
    BY <2>1, <2>2, <1>3 DEF NotifyConnack, IInv, WireInv, Packet
  <2> QED BY <1>1, <1>2, <2>4, <2>6, <2>7 DEF RoomInv
<1>4. CASE NotifySuback \/ Disconn
  <2>1. PICK p \in {"SUBACK", "DISCONN"} : Packet(p)
    BY <1>4 DEF NotifySuback, Disconn
  <2>2. Published' = Published
    BY <1>2, <2>1, PacketCounts DEF Packets, Answers
  <2>3. Opening' => Opening
    BY <1>1, <2>1, PacketTaken DEF IInv, Opening
  <2>4. UNCHANGED <<msgQueue, connAck>> /\ ctx' # "lock"
    BY <1>4, <2>1 DEF NotifySuback, Disconn, Packet
  <2> QED BY <1>1, <2>2, <2>3, <2>4, RoomKept DEF Refused
<1>5. CASE PublishRx
  <2>1. Packet("PUBLISH")
    BY <1>5 DEF PublishRx
  <2>2. Published = Published' + 1 /\ Published' \in Nat
    BY <2>1, PacketCounts DEF Packets
  <2>3. Published > 0 /\ Published' \in Nat
    <3>1. OnTheWay("PUBLISH")
      BY <2>1, PacketTaken DEF IInv
    <3>2. Published # 0 /\ Published \in Nat
      BY <3>1, QueueCounts
    <3> QED BY <2>2, <3>2 DEF Published, Count
  <2>4. ~Refused /\ app # "not_created" /\ ~Opening /\ ~InQueue("CONNACK")
    BY <1>2, <2>3 DEF RoomInv
  <2>5. ctx = "run" /\ UNCHANGED <<ctx, connAck>>
    BY <1>5, <2>1 DEF PublishRx, Packet, ackVars
  <2>6. main # "deinit_lock"
    BY <2>4, <2>5 DEF IInv, LifeInv, Live
  <2>7. \/ \A e : N(e)' = N(e)
        \/ \A e : N(e)' = N(e) + (IF e = "RECV" THEN 1 ELSE 0)
    <3>1. CASE msgQueue' = msgQueue
      BY <3>1 DEF Count
    <3>2. CASE msgQueue' = Append(msgQueue, "RECV")
      BY <3>2, EventCounts DEF Events
    <3> QED BY <1>5, <3>1, <3>2 DEF PublishRx
  <2>8. (Received + Published <= MaxUnread)'
    BY <1>2, <2>2, <2>3, <2>7 DEF RoomInv, Received
  <2>9. (\A e \in Events \ {"RECV"} : N(e) <= 1)'
    BY <1>2, <2>7 DEF RoomInv
  <2>10. ~Opening' /\ ~InQueue("CONNACK")'
    <3>1. ~Opening'
      BY <1>1, <2>1, <2>4, PacketTaken DEF IInv, Opening
    <3>2. ~InQueue("CONNACK")'
      BY <1>5, <2>4, EventSent, Same DEF PublishRx, IInv, Events
    <3> QED BY <3>1, <3>2
  <2> QED BY <1>1, <2>4, <2>5, <2>6, <2>8, <2>9, <2>10 DEF RoomInv, Refused
<1>6. CASE DisconnNotify
  <2>1. /\ ctx = "disconnCB" /\ Requests("ctx") /\ UNCHANGED <<connAck, wire>>
        /\ msgQueue' = Append(msgQueue, "SERVER_DISCONNECT")
    BY <1>6 DEF DisconnNotify, ackVars, serverVars
  <2>2. ~Ahead("ctx", "app")'
    BY <2>1, LastIsBehind DEF IInv, Inside, Threads
  <2>3. ~InQueue("SERVER_DISCONNECT")
    BY <2>1 DEF IInv, EndInv, DiscPending
  <2>4. \A e : N(e)' = N(e) + (IF e = "SERVER_DISCONNECT" THEN 1 ELSE 0)
    BY <2>1, EventCounts DEF Events
  <2>5. Published' = Published /\ Received' = Received
    BY <1>2, <2>1, <2>4 DEF Published, Received
  <2>6. (\A e \in Events \ {"RECV"} : N(e) <= 1)'
    BY <1>2, <2>3, <2>4 DEF RoomInv, Events
  <2>7. /\ Opening' <=> Opening
        /\ InQueue("CONNACK")' <=> InQueue("CONNACK")
    BY <1>1, <2>1, EventSent, Same DEF IInv, Events, Opening
  <2>8. main = "deinit_lock" => Room'
    <3> SUFFICES ASSUME main = "deinit_lock" PROVE Room'
      OBVIOUS
    <3>1. Refused /\ app # "not_created" /\ ~InQueue("DESTROY")
      BY <2>1 DEF IInv, LifeInv, Live
    <3>2. ~InQueue("CONNACK")
      BY <2>1, <3>1 DEF IInv, ConnectInv
    <3>3. Received = 0
      BY <3>1 DEF RoomInv
    <3>4. Len(msgQueue) = 0
      BY <1>2, <2>3, <3>1, <3>2, <3>3, QueueCounts DEF Events
    <3>5. Len(msgQueue') = Len(msgQueue) + 1 /\ QueueLen >= 2
      BY <2>1, EventSent, QueueCounts DEF IInv, Events
    <3> QED BY <3>4, <3>5, MqttAssumption DEF Room
  <2> QED BY <1>1, <2>1, <2>2, <2>5, <2>6, <2>7, <2>8 DEF RoomInv, Refused
<1>7. CASE RunFails
  <2>1. ctx = "run" /\ Requests("ctx") /\ UNCHANGED <<connAck, wire, msgQueue>>
    BY <1>7 DEF RunFails, ackVars, serverVars
  <2>2. ~Ahead("ctx", "app")'
    BY <2>1, LastIsBehind DEF IInv, Inside, Threads
  <2>3. Opening' <=> Opening
    BY <1>1, <2>1, Same DEF Opening
  <2> QED BY <1>1, <2>1, <2>2, <2>3, RoomKept DEF Refused, Published
<1>8. CASE ContextEnd
  <2>1. connAck' = None /\ ctx' = "none" /\ UNCHANGED <<wire, msgQueue>>
    BY <1>8 DEF ContextEnd, serverVars
  <2>2. Opening' <=> Opening
    BY <1>1, <2>1, Same DEF Opening
  <2> QED BY <1>1, <2>1, <2>2, RoomKept DEF Refused, Published, None
<1> QED BY <1>3, <1>4, <1>5, <1>6, <1>7, <1>8 DEF Ctx

LEMMA RoomApp == IInv /\ RoomInv /\ App => RoomInv'
<1> SUFFICES ASSUME IInv, RoomInv, App PROVE RoomInv'
  OBVIOUS
<1> DEFINE N(e) == Count(msgQueue, e)
<1>1. UNCHANGED <<session, main, ctx, connAck>>
  BY DEF App, AppReceive, AppDestroy, AppMessage, AppDisconnect, AppConnack,
         AppSubscribe, AppSubSent, AppSubFails, AppSubacked, AppSubscribed,
         serverVars, ackVars
<1>2. /\ Published \in Nat /\ Received \in Nat /\ MaxUnread \in Nat
      /\ QueueLen \in Nat /\ QueueLen >= 2 /\ Len(msgQueue) \in Nat
      /\ \A e \in Events : N(e) \in Nat /\ (N(e) = 0 <=> ~InQueue(e))
  BY QueueCounts
<1>3. CASE AppReceive
  <2>1. /\ msgQueue # << >> /\ msgQueue' = Tail(msgQueue) /\ wire' = wire
        /\ app' = "lock" /\ app = "receive"
    BY <1>3 DEF AppReceive, serverVars
  <2>2. \A e \in Events : N(e)' \in Nat /\ N(e)' <= N(e)
    <3>1. msgQueue \in Seq(Events) /\ msgQueue' \in Seq(Events)
      BY <2>1, EventTaken DEF IInv, PointInv
    <3>2. \A e \in Events : N(e)' \in Nat
      BY <3>1, CountAppended
    <3>3. \A e \in Events :
                N(e) = Count(Tail(msgQueue), e)
                            + (IF Head(msgQueue) = e THEN 1 ELSE 0)
      BY <2>1, <3>1, CountTaken
    <3> QED BY <2>1, <3>2, <3>3
  <2>3. Published' = Published /\ Received' \in Nat /\ Received' <= Received
    BY <2>1, <2>2 DEF Published, Received, Events
  <2>4. \A e \in Events \ {"RECV"} : N(e)' <= 1
    <3> SUFFICES ASSUME NEW e \in Events \ {"RECV"} PROVE N(e)' <= 1
      OBVIOUS
    <3>1. N(e) <= 1
      BY DEF RoomInv
    <3> QED BY <3>1, <2>2, <1>2
  <2>5. (Opening' <=> Opening) /\ (InQueue("CONNACK")' => InQueue("CONNACK"))
    BY <1>1, <2>1, EventTaken, Same DEF Opening, IInv
  <2>6. Room'
    <3>1. Len(msgQueue') = Len(msgQueue) - 1 /\ Len(msgQueue) <= QueueLen
      BY <2>1, EventTaken DEF IInv, ValueInv
    <3> QED BY <3>1, <1>2 DEF Room
  <2>7. (Received + Published <= MaxUnread)'
    <3>1. Received \in Nat /\ Published \in Nat /\ MaxUnread \in Nat
      BY QueueCounts
    <3>2. Received + Published <= MaxUnread
      BY DEF RoomInv
    <3>3. \A r, s, p, m \in Nat : r + p <= m /\ s <= r => s + p <= m
      OBVIOUS
    <3> QED BY <2>3, <3>1, <3>2, <3>3
  <2>8. (Refused \/ app = "not_created" => Received = 0 /\ Published = 0)'
    BY <1>1, <1>2, <2>1, <2>3 DEF RoomInv, Refused
  <2>9. (Published > 0 => ~Opening /\ ~InQueue("CONNACK"))'
    BY <2>3, <2>5 DEF RoomInv
  <2> QED BY <2>4, <2>6, <2>7, <2>8, <2>9 DEF RoomInv
<1>4. CASE AppDestroy
  <2>1. /\ msgQueue # << >> /\ msgQueue' = << >> /\ UNCHANGED wire
        /\ app' = "not_created" /\ Head(msgQueue) = "DESTROY"
    BY <1>4 DEF AppDestroy, serverVars
  <2>2. InQueue("DESTROY")
    BY <2>1, Taken DEF InQueue, IInv, PointInv
  <2>3. main = "init"
    BY <2>2 DEF IInv, LifeInv
  <2>4. Published = 0
    <3>1. CASE Live
      BY <2>3, <3>1 DEF IInv, LifeInv, RoomInv
    <3>2. CASE ~Live
      <4>1. wire = << >>
        BY <3>2 DEF Live, IInv, WireInv
      <4> QED BY <4>1, WireEmpty, QueueCounts
    <3> QED BY <3>1, <3>2
  <2>5. Published' = 0
    BY <2>1, <2>4 DEF Published
  <2>6. \A e \in Events : N(e)' = 0
    <3>1. msgQueue' \in Seq(Events) /\ \A e : e \notin Range(msgQueue')
      BY <2>1 DEF Range
    <3>2. \A e : Count(msgQueue', e) = 0
      BY <3>1, CountZero
    <3> QED BY <3>2 DEF Count
  <2>7. Received' = 0 /\ \A e \in Events \ {"RECV"} : N(e)' <= 1
    BY <2>6 DEF Received, Events
  <2> QED BY <1>1, <1>2, <2>1, <2>3, <2>5, <2>7 DEF RoomInv
<1>5. CASE AppSubSent
  <2>1. /\ UNCHANGED msgQueue /\ app = "send_sub" /\ app' = "await_suback"
        /\ \/ wire' = wire
           \/ wire' = Append(wire, "SUBACK") /\ session = "open"
    BY <1>5 DEF AppSubSent
  <2>2. Published' = Published
    BY <1>2, <2>1, PacketCounts DEF Packets, Answers
  <2>3. ~OnTheWay("SUBACK") /\ (session = "open" => ~OnTheWay("DISCONN"))
    BY <2>1 DEF IInv, WireInv
  <2>4. Opening' => Opening
    <3>1. CASE wire' = wire
      BY <1>1, <3>1, Same DEF Opening
    <3>2. CASE wire' = Append(wire, "SUBACK") /\ session = "open"
      BY <1>1, <2>3, <3>2, PacketSent DEF Opening, IInv, Packets, Answers
    <3> QED BY <2>1, <3>1, <3>2
  <2> QED BY <1>1, <2>1, <2>2, <2>4, RoomKept DEF Refused
<1>6. CASE \/ AppMessage \/ AppDisconnect \/ AppConnack \/ AppSubscribe
           \/ AppSubFails \/ AppSubacked \/ AppSubscribed
  <2>1. UNCHANGED <<msgQueue, wire>> /\ app' \notin {"lock", "not_created"}
    BY <1>6 DEF AppMessage, AppDisconnect, AppConnack, AppSubscribe,
         AppSubFails, AppSubacked, AppSubscribed, SubscribeFails, AppLeaves,
         serverVars
  <2>2. Opening' <=> Opening
    BY <1>1, <2>1, Same DEF Opening
  <2> QED BY <1>1, <2>1, <2>2, RoomKept DEF Refused, Published
<1> QED BY <1>3, <1>4, <1>5, <1>6 DEF App

(* MQTT_IF_Deinit finds room for its request to app: either app has        *)
(* emptied the queue, or the context thread, which has left its notice in  *)
(* it, gets the mutex before app.                                          *)
LEMMA DeinitRoom == IInv /\ RoomInv /\ MqttDeinit => Room
<1> SUFFICES ASSUME IInv, RoomInv, MqttDeinit PROVE Room
  OBVIOUS
<1>1. main = "deinit" /\ Runs("deinit")
  BY DEF MqttDeinit, Runs
<1>2. /\ app \in {"receive", "not_created", "lock"}
      /\ moduleMutex # << >> => Holds("ctx") /\ ctx = "lock"
      /\ moduleMutex = << >> => app # "lock"
  BY <1>1, NobodyHolds DEF MainOut
<1>3. app # "not_created" /\ ~InQueue("DESTROY")
  BY <1>1 DEF IInv, LifeInv
<1>4. CASE app = "receive"
  <2>1. msgQueue = << >>
    BY <1>1, <1>4, MainRuns
  <2>2. Len(msgQueue) = 0
    BY <2>1
  <2> QED BY <2>2, QueueCounts DEF Room
<1>5. CASE app = "lock"
  <2>1. Holds("ctx") /\ ctx = "lock" /\ Queued("app")
    BY <1>2, <1>5 DEF IInv, MutexInv, Inside, AppIn, Threads
  <2>2. Ahead("ctx", "app")
    <3>1. /\ moduleMutex \in Seq(Threads) /\ moduleMutex # << >>
          /\ Head(moduleMutex) = "ctx"
      BY <2>1 DEF Holds, IInv, MutexInv
    <3>2. 1 \in DOMAIN moduleMutex /\ moduleMutex[1] = "ctx"
      BY <3>1
    <3>3. PICK j \in DOMAIN moduleMutex : moduleMutex[j] = "app"
      BY <2>1 DEF Queued, Range
    <3>4. 1 < j
      BY <3>1, <3>2, <3>3
    <3> QED BY <3>2, <3>3, <3>4 DEF Ahead
  <2>3. CASE ~Refused
    BY <1>5, <2>1, <2>2, <2>3 DEF RoomInv
  <2>4. CASE Refused
    <3>1. ~InQueue("CONNACK") /\ Received = 0
      BY <1>3, <1>5, <2>4 DEF IInv, ConnectInv, RoomInv
    <3>2. Count(msgQueue, "CONNACK") = 0 /\ Count(msgQueue, "DESTROY") = 0
          /\ Count(msgQueue, "SERVER_DISCONNECT") <= 1
      BY <1>3, <3>1, QueueCounts DEF RoomInv, Events
    <3>3. Count(msgQueue, "SERVER_DISCONNECT") \in Nat
      BY QueueCounts DEF Events
    <3> QED BY <3>1, <3>2, <3>3, QueueCounts DEF Room
  <2> QED BY <2>3, <2>4
<1> QED BY <1>2, <1>3, <1>4, <1>5

LEMMA RoomMain == IInv /\ RoomInv /\ Main => RoomInv'
<1> SUFFICES ASSUME IInv, RoomInv, Main PROVE RoomInv'
  OBVIOUS
<1> DEFINE N(e) == Count(msgQueue, e)
<1>1. /\ Published \in Nat /\ Received \in Nat
      /\ \A e \in Events : N(e) \in Nat /\ (N(e) = 0 <=> ~InQueue(e))
  BY QueueCounts
<1>2. CASE \/ MqttInit \/ MqttSubscribe \/ Connected \/ BootSends
           \/ MqttConnect \/ MqttDisconnect \/ BootPublish \/ MqttDeinit
  <2>1. /\ UNCHANGED <<msgQueue, wire, session, ctx, connAck>>
        /\ app' \in {app, "receive"}
        /\ main' = "deinit_lock" => MqttDeinit
        /\ moduleMutex' = moduleMutex \/ Requests("main")
    BY <1>2 DEF MqttInit, MqttSubscribe, Connected, BootSends, MqttConnect,
         MqttDisconnect, BootPublish, MqttDeinit, Runs, serverVars, ackVars,
         appVars
  <2>2. Ahead("ctx", "app")' => Ahead("ctx", "app")
    BY <2>1, AheadBefore DEF IInv, Threads
  <2>3. Opening' <=> Opening
    BY <2>1, Same DEF Opening
  <2>4. main' = "deinit_lock" => Room
    BY <2>1, DeinitRoom
  <2> QED BY <2>1, <2>2, <2>3, <2>4, RoomKept DEF Refused, Published
<1>3. CASE \/ ConnectFails \/ ConnectOver \/ ConnackTaken
           \/ DisconnectLocked \/ SendDisconnFails
           \/ DisconnTaken \/ BootChecks
  <2>1. /\ UNCHANGED <<msgQueue, wire, session, ctx, connAck, app>>
        /\ main' # "deinit_lock"
        /\ moduleMutex' = moduleMutex \/ Releases
        /\ Holds("main") \/ main \in MainHolds
    BY <1>3 DEF ConnectFails, ConnectOver, ConnackTaken, DisconnectLocked,
         Disconnected, SendDisconnFails, DisconnTaken, BootChecks, Runs, MainHolds,
         serverVars, ackVars, appVars
  <2>2. moduleMutex # << >>
    BY <2>1 DEF IInv, MutexInv, Holds
  <2>3. Ahead("ctx", "app")' => Ahead("ctx", "app")
    BY <2>1, <2>2, AheadBefore DEF IInv, Threads
  <2>4. Opening' <=> Opening
    BY <2>1, Same DEF Opening
  <2> QED BY <2>1, <2>3, <2>4, RoomKept DEF Refused, Published
<1>4. CASE ConnectCreate
  <2>1. /\ UNCHANGED <<msgQueue, wire, session, app>>
        /\ main' # "deinit_lock"
        /\ \/ connAck' = None /\ ctx' # "lock"
           \/ UNCHANGED <<connAck, ctx>> /\ Releases
        /\ moduleMutex # << >>
    BY <1>4 DEF ConnectCreate, Holds, serverVars, ackVars, appVars
  <2>2. Ahead("ctx", "app")' /\ ctx' = "lock" => Ahead("ctx", "app")
    BY <2>1, AheadBefore DEF IInv, Threads
  <2>3. Opening' <=> Opening
    BY <2>1, Same DEF Opening
  <2> QED BY <2>1, <2>2, <2>3, RoomKept DEF Refused, Published, None
<1>5. CASE SendConnect \/ SendConnectFails
  <2>1. /\ UNCHANGED <<msgQueue, wire, connAck, app>>
        /\ main = "send_connect" /\ main' # "deinit_lock" /\ ctx' = "run"
    BY <1>5 DEF SendConnect, SendConnectFails, Runs, serverVars, ackVars, appVars
  <2>2. wire = << >>
    BY <2>1 DEF IInv, ClientInv, WireInv
  <2>3. Published = 0
    BY <2>2, WireEmpty, QueueCounts
  <2> QED BY <2>1, <2>3, RoomKept DEF Refused, Published
<1>6. CASE SendDisconn
  <2>1. /\ UNCHANGED <<msgQueue, connAck, app, ctx, moduleMutex>>
        /\ main' # "deinit_lock" /\ session' = "closed"
        /\ IF session = "closed" THEN wire' = wire
                                 ELSE wire' = Append(wire, "DISCONN")
    BY <1>6 DEF SendDisconn, ackVars, appVars
  <2>2. Published' = Published
    <3>1. Published \in Nat /\ "DISCONN" \in Packets
      BY QueueCounts DEF Packets
    <3>2. CASE wire' = wire
      BY <3>2 DEF Published
    <3>3. CASE wire' = Append(wire, "DISCONN")
      BY <3>1, <3>3, PacketCounts
    <3> QED BY <2>1, <3>2, <3>3
  <2>3. session # "closed" => ~OnTheWay("DISCONN")
    BY DEF IInv, WireInv
  <2>4. Opening' => Opening
    <3>1. CASE session = "closed"
      BY <2>1, <3>1, Same DEF Opening
    <3>2. CASE session # "closed"
      BY <2>1, <2>3, <3>2, PacketSent DEF IInv, Packets, Answers, Opening
    <3> QED BY <3>1, <3>2
  <2> QED BY <2>1, <2>2, <2>4, RoomKept, Same DEF Refused
<1>7. CASE DeinitLocked
  <2>1. /\ main = "deinit_lock" /\ Holds("main") /\ main' = "init" /\ Releases
        /\ UNCHANGED <<wire, session, connAck, app, ctx>>
        /\ moduleState = "INITIALIZED" => msgQueue' = Append(msgQueue, "DESTROY")
    BY <1>7 DEF DeinitLocked, DeinitTells, Runs, serverVars, ackVars, appVars
  <2>2. msgQueue' = Append(msgQueue, "DESTROY") /\ (ctx = "lock" => Refused)
    BY <2>1, DeinitFacts DEF Live
  <2>3. ~InQueue("DESTROY")
    BY <2>1 DEF IInv, LifeInv
  <2>4. \A e : N(e)' = N(e) + (IF e = "DESTROY" THEN 1 ELSE 0)
    BY <2>2, EventCounts DEF Events
  <2>5. Published' = Published /\ Received' = Received
    BY <1>1, <2>1, <2>4 DEF Published, Received
  <2>6. (\A e \in Events \ {"RECV"} : N(e) <= 1)'
    BY <1>1, <2>3, <2>4 DEF RoomInv, Events
  <2>7. /\ Opening' <=> Opening
        /\ InQueue("CONNACK")' <=> InQueue("CONNACK")
    BY <2>1, <2>2, EventSent, Same DEF IInv, Events, Opening
  <2> QED BY <2>1, <2>2, <2>5, <2>6, <2>7 DEF RoomInv, Refused
<1> QED BY <1>2, <1>3, <1>4, <1>5, <1>6, <1>7 DEF Main

LEMMA RoomNext ==
    IInv /\ SessionInv /\ SubscribedInv /\ NoticeInv /\ RoomInv /\ [Next]_vars
        => RoomInv'
<1> SUFFICES ASSUME IInv, SessionInv, SubscribedInv, NoticeInv, RoomInv,
                    [Next]_vars
             PROVE  RoomInv'
  OBVIOUS
<1>1. CASE PubRequest \/ PubGoesOn \/ UNCHANGED vars
  <2>1. /\ UNCHANGED <<msgQueue, wire, session, ctx, connAck, app, main>>
        /\ \/ moduleMutex' = moduleMutex
           \/ Requests("pub")
           \/ Releases /\ moduleMutex # << >>
    BY <1>1 DEF PubRequest, PubGoesOn, PubChecks, PubSent, Holds, vars,
         moduleVars, ackVars, serverVars, appVars
  <2>2. Ahead("ctx", "app")' => Ahead("ctx", "app")
    BY <2>1, AheadBefore DEF IInv, Threads
  <2>3. Opening' <=> Opening
    BY <2>1, Same DEF Opening
  <2> QED BY <2>1, <2>2, <2>3, RoomKept DEF Refused, Published
<1> QED BY <1>1, RoomServer, RoomCtx, RoomApp, RoomMain DEF Next
-----------------------------------------------------------------------------
Settlement == SessionInv /\ SubscribedInv /\ NoticeInv /\ RoomInv

LEMMA InitSettlement == Init => Settlement
<1> SUFFICES ASSUME Init PROVE Settlement
  OBVIOUS
<1>1. /\ \A x : ~InQueue(x) /\ ~OnTheWay(x)
      /\ msgQueue = << >> /\ wire = << >>
  BY QueueFacts, WireEmpty DEF Init
<1>2. /\ session = "closed" /\ mqtt_connected = FALSE /\ connAck = None
      /\ ctx = "none" /\ main = "init" /\ app = "not_created" /\ event = None
      /\ subscribed = {}
  BY DEF Init
<1>3. IInv
  BY InitIInv
<1>4. Received = 0 /\ Published = 0
      /\ \A e \in Events : Count(msgQueue, e) = 0
  BY <1>1, <1>3, QueueCounts DEF Received, Events
<1>5. SessionInv /\ SubscribedInv
  BY <1>1, <1>2 DEF SessionInv, SubscribedInv
<1>6. NoticeInv
  BY <1>1, <1>2 DEF NoticeInv, DiscPending
<1>7. RoomInv
  BY <1>2, <1>4, MqttAssumption DEF RoomInv
<1> QED BY <1>5, <1>6, <1>7 DEF Settlement

(* The connection, the subscriptions, the notices and the queue, in every  *)
(* state of the four threads.                                              *)
THEOREM SettlementHolds == Spec => [](IInv /\ Settlement)
<1>1. Init => IInv /\ Settlement
  BY InitIInv, InitSettlement
<1>2. IInv /\ Settlement /\ [Next]_vars => (IInv /\ Settlement)'
  BY NextIInv, SessionNext, SubscribedNext, NoticeNext, RoomNext DEF Settlement
<1> QED BY <1>1, <1>2, PTL DEF Spec

(* Only messages fill the queue, for every length of it and every burst:   *)
(* with fewer of them unread than it has places, mq_send does not wait for *)
(* app, which may wait for the mutex of the sender, and MQTT_IF_Deinit     *)
(* finds room whatever was sent (mqtt_user.c 228, 475, 528).               *)
THEOREM QueueHasRoomHolds == Spec => []QueueHasRoom
<1>1. ASSUME IInv, RoomInv PROVE QueueHasRoom
  <2> DEFINE N(e) == Count(msgQueue, e)
  <2>1. /\ \A e \in Events : N(e) \in Nat /\ (N(e) = 0 <=> ~InQueue(e))
        /\ Received \in Nat /\ Published \in Nat /\ QueueLen \in Nat
        /\ QueueLen >= 2 /\ Unread = Received + Published
        /\ Len(msgQueue) = N("CONNACK") + Received + N("SERVER_DISCONNECT")
                                + N("DESTROY")
    BY <1>1, QueueCounts DEF Unread, Received, Published
  <2>2. N("CONNACK") \in Nat /\ N("SERVER_DISCONNECT") \in Nat
        /\ N("DESTROY") \in Nat /\ N("DESTROY") <= 1
    BY <1>1, <2>1 DEF RoomInv, Events
  <2>3. InQueue("DESTROY") /\ Live => Received = 0 /\ Published = 0
    BY <1>1 DEF IInv, LifeInv, RoomInv
  <2>4. ASSUME OnWire({"CONNACK", "REFUSED"}) PROVE Room
    <3>1. Opening
      BY <1>1, <2>4, Taken DEF OnWire, Opening, OnTheWay, IInv, WireForm
    <3>2. Len(msgQueue) = 0
      BY <1>1, <3>1 DEF IInv, WireInv, Clean
    <3> QED BY <2>1, <3>2 DEF Room
  <2>5. ASSUME OnWire({"PUBLISH"}), Unread < QueueLen PROVE Room
    <3>1. ctx = "run" /\ OnTheWay("PUBLISH")
      BY <1>1, <2>5, Taken DEF OnWire, OnTheWay, IInv, WireForm
    <3>2. Published > 0
      BY <1>1, <3>1, <2>1, QueueCounts
    <3>3. ~InQueue("CONNACK") /\ ~InQueue("SERVER_DISCONNECT")
      BY <1>1, <3>1, <3>2 DEF RoomInv, IInv, EndInv, DiscPending
    <3>4. ~InQueue("DESTROY")
      BY <3>1, <3>2, <2>3 DEF Live
    <3>5. N("CONNACK") = 0 /\ N("SERVER_DISCONNECT") = 0 /\ N("DESTROY") = 0
      BY <2>1, <3>3, <3>4 DEF Events
    <3> HIDE DEF N
    <3> QED BY <2>1, <2>5, <3>2, <3>5 DEF Room
  <2>6. ASSUME ctx = "disconnCB", Unread < QueueLen PROVE Room
    <3>1. ~InQueue("SERVER_DISCONNECT") /\ Live
      BY <1>1, <2>6 DEF IInv, EndInv, DiscPending, Live
    <3>2. N("SERVER_DISCONNECT") = 0
      BY <2>1, <3>1 DEF Events
    <3>3. CASE InQueue("CONNACK")
      <4>1. app = "not_created"
        BY <1>1, <2>6, <3>3 DEF IInv, ConnectInv
      <4>2. Received = 0 /\ ~InQueue("DESTROY")
        BY <1>1, <4>1 DEF IInv, LifeInv, RoomInv
      <4>3. N("DESTROY") = 0 /\ N("CONNACK") <= 1
        BY <1>1, <2>1, <4>2 DEF RoomInv, Events
      <4> HIDE DEF N
      <4> QED BY <2>1, <2>2, <3>2, <4>2, <4>3 DEF Room
    <3>4. CASE ~InQueue("CONNACK")
      <4>1. N("CONNACK") = 0
        BY <2>1, <3>4 DEF Events
      <4>2. N("DESTROY") = 0 \/ Received = 0
        BY <2>1, <2>3, <3>1 DEF Events
      <4> HIDE DEF N
      <4> QED BY <2>1, <2>2, <2>6, <3>2, <4>1, <4>2 DEF Room
    <3> QED BY <3>3, <3>4
  <2>7. Unread < QueueLen => ~CtxWaits
    BY <2>4, <2>5, <2>6 DEF CtxWaits, OnWire
  <2>8. main = "deinit_lock" => Room
    BY <1>1 DEF RoomInv
  <2> QED BY <2>7, <2>8 DEF QueueHasRoom
<1> QED BY <1>1, SettlementHolds, PTL DEF Settlement

(* With nothing under way the state of the module, the flag of the         *)
(* application and the context thread say what the connection is, and the  *)
(* server has the topics of the list (mqtt_user.c 394, 424, 642, 1026).    *)
THEOREM StateFollowsSessionHolds == Spec => []StateFollowsSession
<1>1. ASSUME IInv, Settlement PROVE StateFollowsSession
  <2> SUFFICES ASSUME Settled
               PROVE  /\ (moduleState = "CONNECTED") = (session = "open")
                      /\ mqtt_connected = (session = "open")
                      /\ (ctx = "run") = (session = "open")
                      /\ session = "open" => subscribed = Range(head)
    BY DEF StateFollowsSession
  <2>1. /\ \A x : ~InQueue(x) /\ ~OnTheWay(x)
        /\ event = None /\ app = "receive"
    BY <1>1, QueueFacts, WireEmpty DEF Settled, IInv, PointInv
  <2>2. main # "await_connack"
    BY <1>1 DEF Settled, IInv, MutexInv, MainHolds, Holds
  <2>3. ~Connecting /\ ~DiscPending
    BY <1>1, <2>1, <2>2 DEF Connecting, Opening, DiscPending, None, IInv, WireInv
  <2>4. session \in {"closed", "open"} /\ mqtt_connected \in BOOLEAN
    BY <1>1, <2>3 DEF Settled, Connecting, Opening, IInv, ValueInv
  <2>5. CASE session = "closed"
    <3>1. ctx = "none"
      BY <1>1, <2>1, <2>5 DEF Settled, IInv, WireInv
    <3>2. moduleState # "CONNECTED"
      BY <1>1, <3>1 DEF IInv, ClientInv, Live
    <3>3. ~mqtt_connected
      BY <1>1, <2>1, <2>3, <3>1 DEF Settlement, NoticeInv
    <3> QED BY <2>4, <2>5, <3>1, <3>2, <3>3
  <2>6. CASE session = "open"
    <3>1. ctx = "run"
      BY <1>1, <2>6 DEF IInv, WireInv
    <3>2. moduleState = "CONNECTED" /\ mqtt_connected
      BY <1>1, <2>2, <2>3, <2>6 DEF Settlement, SessionInv
    <3>3. subscribed = Range(head)
      BY <1>1, <2>1, <2>3, <2>6 DEF Settlement, SubscribedInv, Renewed, AppHolds
    <3> QED BY <2>4, <2>6, <3>1, <3>2, <3>3
  <2> QED BY <2>4, <2>5, <2>6
<1> QED BY <1>1, SettlementHolds, PTL
=============================================================================
