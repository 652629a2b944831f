----------------------------- MODULE TopicList -----------------------------
(***************************************************************************)
(* The list of topics of the MQTT interface (mqtt_user.c): nodes on the    *)
(* heap, linked from mMQTTContext.head, each with a filter and a callback. *)
(* The calls of main add, remove and free nodes; MQTTAppThread walks the   *)
(* list for each message and renews every subscription after a connection. *)
(*                                                                         *)
(* A call holds moduleMutex from end to end, so it is one step.  The       *)
(* renewal waits for a SUBACK per node, and the session may be lost        *)
(* meanwhile, so each node of it is a step.  Threads, locks and queues are *)
(* those of MqttInterface: main runs when app has nothing to do, and the   *)
(* client is deleted when app has done with it.                            *)
(*                                                                         *)
(* A filter or the name of a topic is the sequence of its levels.          *)
(***************************************************************************)
EXTENDS Naturals, Sequences, FiniteSets

CONSTANTS
    Nodes,      \* the blocks of the heap
    NULL,       \* no node
    Levels,     \* what stands between two separators, "+" and "#" included
    Filters,    \* what the device subscribes to
    Names       \* what the messages are about

(* MQTT has "#" as the last level of a filter only.                        *)
ASSUME TopicListAssumption ==
    /\ IsFiniteSet(Nodes) /\ NULL \notin Nodes
    /\ Filters \cup Names \subseteq Seq(Levels) \ {<< >>}
    /\ \A f \in Filters : \A i \in 1 .. Len(f) : f[i] = "#" => i = Len(f)

VARIABLES
    moduleState,
    head, next, topic,  \* the list: the first node, fields of each node
    allocated,          \* the nodes malloc has given and free has not got
    app, curr, prev,    \* where MQTTAppThread is in the list
    called,             \* the node whose callback app has just called
    session, subscribed \* external: the connection, the server's filters

list   == <<head, next, topic, allocated>>
renewal == <<app, curr, prev>>
server == <<session, subscribed>>
vars   == <<moduleState, list, renewal, called, server>>

Init ==
    /\ moduleState = "IDLE"
    /\ head = NULL /\ allocated = {}
    /\ next = [n \in Nodes |-> NULL]
    /\ topic = [n \in Nodes |-> << >>]
    /\ app = "idle" /\ curr = NULL /\ prev = NULL
    /\ called = NULL
    /\ session = "closed" /\ subscribed = {}
-----------------------------------------------------------------------------
(* The nodes in the order of the list.  NULL stays NULL.                   *)
Follow(n) == IF n \in Nodes THEN next[n] ELSE NULL

Walk ==
    LET at[k \in 0 .. Cardinality(Nodes)] ==
            IF k = 0 THEN head ELSE Follow(at[k - 1])
    IN  at

Linked == {Walk[k] : k \in DOMAIN Walk} \ {NULL}

Before(n) ==
    LET k == CHOOSE i \in DOMAIN Walk : Walk[i] = n
    IN  {Walk[i] : i \in 0 .. k} \ {n}

(* Whether the filter s matches the name p: the results the code may give. *)
(* The levels are compared with the separator or the end behind them.  If  *)
(* p ends at a level that s has as "+", the loop goes on at address 1.     *)
AtTheEndOfS(s, p) == TRUE
AtTheEnd(s, p)    == Len(s) = Len(p)

MQTTHelperTopicMatching(s, p) ==
    LET from[i \in 1 .. Len(s)] ==
            IF s[i] = "#" THEN {TRUE}
            ELSE IF i > Len(p) THEN BOOLEAN
            ELSE IF s[i] # "+" /\ (s[i] # p[i] \/ (i = Len(s)) # (i = Len(p)))
                 THEN {FALSE}
            ELSE IF i = Len(s) THEN {AtTheEnd(s, p)}
            ELSE from[i + 1]
    IN  from[1]

(* The first node that matches p, or NULL: the places a walk may end at.   *)
MayMatch(n, p) == TRUE \in MQTTHelperTopicMatching(topic[n], p)
MayMiss(n, p)  == FALSE \in MQTTHelperTopicMatching(topic[n], p)

FirstOnly(p) ==
    {n \in {head} \ {NULL} : MayMatch(n, p)} \cup {NULL}

FirstMatch(p) ==
    {n \in Linked : MayMatch(n, p) /\ \A b \in Before(n) : MayMiss(b, p)}
    \cup {n \in {NULL} : \A b \in Linked : MayMiss(b, p)}

(* Freeing nodes; what they hold is gone.                                  *)
Cleared(f, ns, nothing) == [n \in Nodes |-> IF n \in ns THEN nothing ELSE f[n]]

Free(ns) ==
    /\ allocated' = allocated \ ns
    /\ topic' = Cleared(topic, ns, << >>)

(* n leaves the list; p is the node the code takes to be before it.        *)
Unlink(n, p) ==
    LET unlinked == IF n = head THEN next ELSE [next EXCEPT ![p] = next[n]] IN
    /\ head' = IF n = head THEN next[n] ELSE head
    /\ next' = Cleared(unlinked, {n}, NULL)

(* A node that has been freed is still at the head: nothing that reads the *)
(* list has a meaning any more.  See MQTT_IF_Subscribe.                    *)
Readable == head = NULL \/ head \in allocated
-----------------------------------------------------------------------------
(* The life of the module and of the session.                              *)
MQTT_IF_Init ==
    /\ moduleState = "IDLE"
    /\ moduleState' = "INITIALIZED"
    /\ called' = NULL
    /\ UNCHANGED <<list, renewal, server>>

(* The server opens a session without subscriptions; CONNACK goes to app.  *)
MQTT_IF_Connect ==
    /\ moduleState = "INITIALIZED" /\ app = "idle"
    /\ moduleState' = "CONNECTED"
    /\ session' = "open" /\ app' = "connack"
    /\ called' = NULL
    /\ UNCHANGED <<list, curr, prev, subscribed>>

(* It fails, and changes nothing, when the session has been lost.          *)
MQTT_IF_Disconnect ==
    /\ moduleState = "CONNECTED" /\ app = "idle" /\ session = "open"
    /\ moduleState' = "INITIALIZED"
    /\ session' = "closed" /\ subscribed' = {}
    /\ called' = NULL
    /\ UNCHANGED <<list, renewal>>

SessionLost ==
    /\ session = "open"
    /\ session' = "closed" /\ subscribed' = {}
    /\ called' = NULL
    /\ UNCHANGED <<moduleState, list, renewal>>

ContextEnd ==
    /\ moduleState = "CONNECTED" /\ session = "closed" /\ app = "idle"
    /\ moduleState' = "INITIALIZED"
    /\ called' = NULL
    /\ UNCHANGED <<list, renewal, server>>

DeinitFreesFirst == Free({head})
DeinitFrees      == Free(Linked)

MQTT_IF_Deinit ==
    /\ moduleState = "INITIALIZED" /\ app = "idle" /\ Readable
    /\ DeinitFrees
    /\ head' = NULL /\ next' = Cleared(next, Linked, NULL)
    /\ moduleState' = "IDLE"
    /\ called' = NULL
    /\ UNCHANGED <<renewal, server>>
-----------------------------------------------------------------------------
NoCopy(n, f)    == topic' = topic
CopyTopic(n, f) == topic' = [topic EXCEPT ![n] = f]

(* MQTT_IF_Subscribe.  On a session that has been lost the node is freed   *)
(* and stays at the head (736); without memory for the topic the node is   *)
(* lost (719).                                                             *)
MQTT_IF_Subscribe(f) ==
    /\ moduleState # "IDLE" /\ app = "idle" /\ Readable
    /\ \E n \in Nodes \ allocated :
          /\ next' = [next EXCEPT ![n] = head]
          /\ CopyTopic(n, f)
          /\ head' = n
          /\ IF moduleState = "CONNECTED" /\ session = "closed"
                THEN UNCHANGED <<allocated, subscribed>>
                ELSE /\ allocated' = allocated \cup {n}
                     /\ subscribed' = IF session = "open"
                                         THEN subscribed \cup {f}
                                         ELSE subscribed
    /\ called' = NULL
    /\ UNCHANGED <<moduleState, renewal, session>>

SubscribeWithoutMemory ==
    /\ moduleState # "IDLE" /\ app = "idle" /\ Readable
    /\ \E n \in Nodes \ allocated : allocated' = allocated \cup {n}
    /\ called' = NULL
    /\ UNCHANGED <<moduleState, head, next, topic, renewal, server>>

(* The first node whose filter matches goes, as if f were a name.          *)
Pred(n) == CHOOSE p \in Linked : next[p] = n

MQTT_IF_Unsubscribe(f) ==
    /\ moduleState = "CONNECTED" /\ app = "idle" /\ Readable
    /\ session = "open"
    /\ subscribed' = subscribed \ {f}
    /\ \E n \in FirstMatch(f) :
          IF n = NULL THEN UNCHANGED list
                      ELSE Unlink(n, Pred(n)) /\ Free({n})
    /\ called' = NULL
    /\ UNCHANGED <<moduleState, renewal, session>>
-----------------------------------------------------------------------------
(* MQTTAppThread: a message, and the renewal after a CONNACK.              *)
AppMessage(name) ==
    /\ moduleState # "IDLE" /\ app = "idle" /\ Readable
    /\ called' \in FirstMatch(name)
    /\ UNCHANGED <<moduleState, list, renewal, server>>

AppConnack ==
    /\ app = "connack" /\ Readable
    /\ app' = "renew" /\ curr' = head
    /\ called' = NULL
    /\ UNCHANGED <<moduleState, list, prev, server>>

AppSubscribed ==
    /\ app = "renew" /\ curr # NULL /\ session = "open"
    /\ subscribed' = subscribed \cup {topic[curr]}
    /\ prev' = curr /\ curr' = next[curr]
    /\ called' = NULL
    /\ UNCHANGED <<moduleState, list, app, session>>

(* The node goes, and the one after it is skipped unless it is at the head. *)
AfterFailureKept == curr' = next[curr] /\ prev' = curr
AfterFailure ==
    /\ curr' = IF curr = head THEN next[curr] ELSE Follow(next[curr])
    /\ prev' = prev

AppSubscribeFails ==
    /\ app = "renew" /\ curr # NULL /\ session = "closed"
    /\ Unlink(curr, prev) /\ Free({curr})
    /\ AfterFailure
    /\ called' = NULL
    /\ UNCHANGED <<moduleState, app, server>>

AppRenewed ==
    /\ app = "renew" /\ curr = NULL
    /\ app' = "idle" /\ prev' = NULL
    /\ called' = NULL
    /\ UNCHANGED <<moduleState, list, curr, server>>
-----------------------------------------------------------------------------
Next ==
    \/ MQTT_IF_Init \/ MQTT_IF_Connect \/ MQTT_IF_Disconnect \/ MQTT_IF_Deinit
    \/ SessionLost \/ ContextEnd \/ SubscribeWithoutMemory
    \/ \E f \in Filters : MQTT_IF_Subscribe(f) \/ MQTT_IF_Unsubscribe(f)
    \/ \E m \in Names : AppMessage(m)
    \/ AppConnack \/ AppSubscribed \/ AppSubscribeFails \/ AppRenewed

Spec == Init /\ [][Next]_vars
-----------------------------------------------------------------------------
(* The values of the variables; every node of the list has its filter, a   *)
(* copy of the caller's (mqtt_user.c 718-726).                             *)
TypeOK ==
    /\ moduleState \in {"IDLE", "INITIALIZED", "CONNECTED"}
    /\ {head, curr, prev, called} \subseteq Nodes \cup {NULL}
    /\ next \in [Nodes -> Nodes \cup {NULL}]
    /\ topic \in [Nodes -> Filters \cup {<< >>}]
    /\ \A n \in Linked : topic[n] \in Filters
    /\ allocated \subseteq Nodes
    /\ app \in {"idle", "connack", "renew"}
    /\ session \in {"closed", "open"} /\ subscribed \subseteq Filters

(* The nodes form a list that ends, all of it memory in use; the renewal   *)
(* is at a node of the list, and has kept one before it, which is not the  *)
(* uninitialised pointer it starts with (mqtt_user.c 352-386, 772-801).    *)
(* Not so once a subscription has failed (736): see Readable.              *)
ListSound ==
    Readable =>
        /\ Walk[Cardinality(Nodes)] = NULL
        /\ Linked \subseteq allocated
        /\ app = "renew" /\ curr # NULL =>
              /\ curr \in Linked
              /\ curr = head \/ prev \in Before(curr)

(* A node that leaves the list is freed, except the one the renewal has    *)
(* skipped when the next subscription fails as well (mqtt_user.c 373-375). *)
NodesFreed ==
    [][\/ Linked \subseteq Linked' \cup (allocated \ allocated')
       \/ app = "renew" /\ next[prev] # curr]_vars

(* On a connection the server has the filters of the list after every call *)
(* and every renewal: a topic it has not taken is removed, "since we are   *)
(* no longer subscribed" (mqtt_user.c 361-362).  Only MQTT_IF_Unsubscribe  *)
(* of a filter that matches more of the list than its own node parts them  *)
(* (779).  And the list holds its topics over disconnections: they leave   *)
(* it by MQTT_IF_Unsubscribe, by MQTT_IF_Deinit, and by a renewal whose    *)
(* session is lost.  The last drops for good what it has not come to,      *)
(* where lines 686-688 say that topics are held for the next connection.   *)
TopicsListed == {topic[n] : n \in Linked}

InStep ==
    app = "idle" /\ session = "open" /\ Readable => subscribed = TopicsListed

Ambiguous(f) ==
    \/ \E n \in Linked : topic[n] # f /\ MayMatch(n, f)
    \/ \E n, m \in Linked : n # m /\ topic[n] = f /\ topic[m] = f

StaysInStep ==
    [][/\ InStep => \/ InStep'
                    \/ \E f \in Filters : MQTT_IF_Unsubscribe(f) /\ Ambiguous(f)
       /\ \/ TopicsListed \subseteq TopicsListed'
          \/ \E f \in Filters : MQTT_IF_Unsubscribe(f)
          \/ MQTT_IF_Deinit
          \/ app = "renew" /\ session = "closed"
      ]_vars

(* The rules of MQTT for wildcards: "+" stands for one level, "#" for any  *)
(* number of them, none included.                                          *)
Fits(f, m) ==
    LET n == IF f[Len(f)] = "#" THEN Len(f) - 1 ELSE Len(f) IN
    /\ IF n < Len(f) THEN n <= Len(m) ELSE n = Len(m)
    /\ \A i \in 1 .. n : f[i] \in {"+", m[i]}

(* A message goes to the callback of a filter it fits if there is one, and *)
(* to none otherwise (mqtt_user.c 235-257, 277-296), where no filter of the *)
(* list has more levels than the message.                                  *)
DeliversToSubscriber ==
    [][\A m \in Names :
          AppMessage(m) /\ (\A n \in Linked : Len(topic[n]) <= Len(m)) =>
             IF \E n \in Linked : Fits(topic[n], m)
                THEN called' # NULL /\ Fits(topic[called'], m)
                ELSE called' = NULL]_vars
=============================================================================
