---------------------------- MODULE WifiStation ----------------------------
(***************************************************************************)
(* The Wi-Fi station: the network processor (NWP), the event handlers that *)
(* keep g_ulStatus, and thread test_wifi, which polls it, tells send_data  *)
(* to stop or start and reconnects with wifi_connect.                      *)
(*                                                                         *)
(* The handlers run in the SimpleLink task, whose priority is higher: a    *)
(* handler is atomic for test_wifi and may run between any two of its      *)
(* steps, also between the read and the write of CLR_STATUS_BIT.  Events   *)
(* arrive in order, some time after what they report.                      *)
(*                                                                         *)
(* External: a connection request to the NWP stays pending until it        *)
(* succeeds; the NWP reconnects by itself only if the connection policy    *)
(* says so and a profile is stored; policy and profiles survive a reset.   *)
(***************************************************************************)
EXTENDS Naturals, Sequences

CONSTANT MaxLosses   \* bound of the model: how often the access point goes

ASSUME WifiAssumption == MaxLosses \in Nat

(* How boot finds the NWP: as delivered; as this program leaves it; or     *)
(* with the policy and a profile of some other program and connected.      *)
Former == {"delivered", "own", "connected"}

CONNECTION  == "STATUS_BIT_CONNECTION"
IP_ACQUIRED == "STATUS_BIT_IP_ACQUIRED"
StatusBits  == {CONNECTION, IP_ACQUIRED}

VARIABLES
    link,       \* NWP: "down", "up" (associated) or "ip"
    request,    \* NWP: sl_WlanConnect is pending
    auto,       \* NWP: the connection policy reconnects
    profile,    \* NWP: a profile is stored
    events,     \* events raised and not handled yet
    losses,     \* losses of the link so far
    g_ulStatus, \* the bits that are set
    pc,         \* where the connecting thread is
    booting,    \* it is mainThread, test_wifi does not run yet
    tmp,        \* the copy of g_ulStatus in a read-modify-write
    wifi_status, send_data_status

nwpVars == <<link, request, auto, profile, losses>>
vars == <<nwpVars, events, g_ulStatus, pc, booting, tmp, wifi_status,
          send_data_status>>

connected == TRUE
disconnected == FALSE
start == "start"
stop == "stop"

Events == {"CONNECT", "DISCONNECT", "IPV4_ACQUIRED"}
Raise(e) == events' = Append(events, e)

Init ==
    /\ \E found \in Former :
          /\ auto = (found # "own")
          /\ profile = (found # "delivered")
          /\ IF found = "connected"
                THEN link = "ip" /\ g_ulStatus = StatusBits
                ELSE link = "down" /\ g_ulStatus = {}
    /\ request = FALSE
    /\ events = << >> /\ losses = 0
    /\ pc = "profile_del" /\ booting = TRUE
    /\ tmp = {}
    /\ wifi_status = disconnected
    /\ send_data_status = stop
-----------------------------------------------------------------------------
(* The network processor.                                                  *)
NwpConnects ==
    /\ link = "down"
    /\ request \/ (auto /\ profile)
    /\ link' = "up" /\ request' = FALSE
    /\ Raise("CONNECT")
    /\ UNCHANGED <<auto, profile, losses, g_ulStatus, pc, booting, tmp,
                   wifi_status, send_data_status>>

NwpGetsIp ==
    /\ link = "up"
    /\ link' = "ip"
    /\ Raise("IPV4_ACQUIRED")
    /\ UNCHANGED <<request, auto, profile, losses, g_ulStatus, pc, booting,
                   tmp, wifi_status, send_data_status>>

(* Not in the instant between wifi_init and the deletion of the profiles.  *)
LinkLost ==
    /\ link # "down" /\ losses < MaxLosses
    /\ booting => pc # "profile_del"
    /\ link' = "down" /\ losses' = losses + 1
    /\ Raise("DISCONNECT")
    /\ UNCHANGED <<request, auto, profile, g_ulStatus, pc, booting, tmp,
                   wifi_status, send_data_status>>

(* SimpleLinkWlanEventHandler and SimpleLinkNetAppEventHandler.            *)
ConnectionCleared == g_ulStatus \ {CONNECTION}
BothCleared == g_ulStatus \ {CONNECTION, IP_ACQUIRED}

LeasedBit == "STATUS_BIT_IP_LEASED"
IpBit == IP_ACQUIRED

HandleEvent ==
    /\ events # << >>
    /\ events' = Tail(events)
    /\ g_ulStatus' = CASE Head(events) = "CONNECT" ->
                              g_ulStatus \cup {CONNECTION}
                       [] Head(events) = "DISCONNECT" -> BothCleared
                       [] Head(events) = "IPV4_ACQUIRED" ->
                              g_ulStatus \cup {IpBit}
    /\ UNCHANGED <<nwpVars, pc, booting, tmp, wifi_status, send_data_status>>
-----------------------------------------------------------------------------
(* A step of the connecting thread from one point to the next.             *)
Goto(from, to) ==
    /\ pc = from
    /\ pc' = to

IsConnected == CONNECTION \in g_ulStatus
IsIpAcquired == IP_ACQUIRED \in g_ulStatus

(* wifi_connect: forget the profiles, which also keeps the policy from     *)
(* reconnecting meanwhile.                                                 *)
ProfileDel ==
    /\ Goto("profile_del", "disconnect")
    /\ profile' = FALSE
    /\ UNCHANGED <<link, request, auto, losses, events, g_ulStatus, booting,
                   tmp, wifi_status, send_data_status>>

(* Network_IF_DisconnectFromAP.  sl_WlanDisconnect fails on a link that is *)
(* already down.                                                           *)
Disconnects == IsConnected /\ link # "down"

DisconnectFromAP ==
    /\ ~Disconnects
    /\ Goto("disconnect", "clr_connection")
    /\ UNCHANGED <<nwpVars, events, g_ulStatus, booting, tmp, wifi_status,
                   send_data_status>>

WlanDisconnect ==
    /\ Disconnects
    /\ Goto("disconnect", "wait_disconnected")
    /\ link' = "down"
    /\ Raise("DISCONNECT")
    /\ UNCHANGED <<request, auto, profile, losses, g_ulStatus, booting, tmp,
                   wifi_status, send_data_status>>

Disconnected ==
    /\ ~IsConnected
    /\ Goto("wait_disconnected", "clr_connection")
    /\ UNCHANGED <<nwpVars, events, g_ulStatus, booting, tmp, wifi_status,
                   send_data_status>>

(* CLR_STATUS_BIT: read, clear, write back.                                *)
ClrRead ==
    /\ \/ Goto("clr_connection", "clr_connection_write")
       \/ Goto("clr_ip_acquired", "clr_ip_acquired_write")
    /\ tmp' = g_ulStatus
    /\ UNCHANGED <<nwpVars, events, g_ulStatus, booting, wifi_status,
                   send_data_status>>

ClrWrite ==
    /\ \/ /\ Goto("clr_connection_write", "clr_ip_acquired")
          /\ g_ulStatus' = tmp \ {CONNECTION}
       \/ /\ Goto("clr_ip_acquired_write", "wlan_connect")
          /\ g_ulStatus' = tmp \ {IP_ACQUIRED}
    /\ tmp' = {}
    /\ UNCHANGED <<nwpVars, events, booting, wifi_status, send_data_status>>

(* sl_WlanConnect returns without waiting for the link; if it fails,       *)
(* Network_IF_ConnectAP returns and wifi_connect goes on all the same.     *)
WlanConnect ==
    /\ Goto("wlan_connect", "wait_connected")
    /\ request' = TRUE
    /\ UNCHANGED <<link, auto, profile, losses, events, g_ulStatus, booting,
                   tmp, wifi_status, send_data_status>>

WlanConnectFails ==
    /\ Goto("wlan_connect", "profile_add")
    /\ UNCHANGED <<nwpVars, events, g_ulStatus, booting, tmp, wifi_status,
                   send_data_status>>

(* The loop that waits for the link, once a second.                        *)
LinkIsUp == IsConnected /\ IsIpAcquired

Connected ==
    /\ LinkIsUp
    /\ Goto("wait_connected", "profile_add")
    /\ UNCHANGED <<nwpVars, events, g_ulStatus, booting, tmp, wifi_status,
                   send_data_status>>

(* sl_WlanProfileAdd and sl_WlanPolicySet, two commands that each wait for *)
(* the answer of the NWP, in one step: it is assumed that the NWP does not *)
(* connect with the new profile between them, as the policy it was         *)
(* delivered with would let it in the first boot.  After that boot the     *)
(* policy forbids it.                                                      *)
PolicyKept == TRUE
ConnectionPolicy == FALSE    \* SL_WLAN_CONNECTION_POLICY(0,0,0,0)

ProfileAdd ==
    /\ Goto("profile_add", IF booting THEN "usleep" ELSE "check")
    /\ profile' = TRUE
    /\ auto' = ConnectionPolicy
    /\ booting' = FALSE
    /\ UNCHANGED <<link, request, losses, events, g_ulStatus, tmp,
                   wifi_status, send_data_status>>
-----------------------------------------------------------------------------
(* test_wifi: test_wifi_connection reads the status after half a second of *)
(* sleep, and after each attempt to connect.                               *)
Poll ==
    /\ Goto("usleep", "notify")
    /\ wifi_status' = IsConnected
    /\ UNCHANGED <<nwpVars, events, g_ulStatus, booting, tmp,
                   send_data_status>>

(* What it tells send_data, and what it does next.                         *)
ToldOnlyStart == IF wifi_status = connected THEN start ELSE send_data_status
ToldOnlyStop == IF wifi_status = connected THEN send_data_status ELSE stop
Told == IF wifi_status = connected THEN start ELSE stop

Notify ==
    /\ Goto("notify", IF wifi_status = connected THEN "usleep"
                                                 ELSE "profile_del")
    /\ send_data_status' = Told
    /\ UNCHANGED <<nwpVars, events, g_ulStatus, booting, tmp, wifi_status>>

Check ==
    /\ Goto("check", IF IsConnected THEN "usleep" ELSE "profile_del")
    /\ wifi_status' = IsConnected
    /\ UNCHANGED <<nwpVars, events, g_ulStatus, booting, tmp,
                   send_data_status>>

Thread ==
    \/ ProfileDel \/ DisconnectFromAP \/ WlanDisconnect \/ Disconnected
    \/ ClrRead \/ ClrWrite \/ WlanConnect \/ WlanConnectFails \/ Connected
    \/ ProfileAdd \/ Poll \/ Notify \/ Check

Next == NwpConnects \/ NwpGetsIp \/ LinkLost \/ HandleEvent \/ Thread

Fairness ==
    /\ WF_vars(NwpConnects) /\ WF_vars(NwpGetsIp)
    /\ WF_vars(HandleEvent) /\ WF_vars(Thread) /\ SF_vars(WlanConnect)

Spec == Init /\ [][Next]_vars
FairSpec == Spec /\ Fairness
-----------------------------------------------------------------------------
Points ==
    {"profile_del", "disconnect", "wait_disconnected", "clr_connection",
     "clr_connection_write", "clr_ip_acquired", "clr_ip_acquired_write",
     "wlan_connect", "wait_connected", "profile_add", "check", "usleep",
     "notify"}

TypeOK ==
    /\ link \in {"down", "up", "ip"}
    /\ request \in BOOLEAN /\ auto \in BOOLEAN /\ profile \in BOOLEAN
    /\ events \in Seq(Events)
    /\ losses \in 0 .. MaxLosses
    /\ g_ulStatus \subseteq StatusBits
    /\ pc \in Points
    /\ booting \in BOOLEAN
    /\ tmp \subseteq StatusBits
    /\ wifi_status \in BOOLEAN
    /\ send_data_status \in {start, stop}

(* Safety: once every event is handled, the status is what the link is.    *)
(* Network_IF_ConnectAP clears the two bits by read-modify-write against   *)
(* handlers that set them (wifi_user.c:555-556, 94-160, 217-220); that     *)
(* nothing can connect meanwhile is what keeps an event from being lost.   *)
Clearing ==
    {"clr_connection", "clr_connection_write", "clr_ip_acquired",
     "clr_ip_acquired_write"}

StatusFollowsLink ==
    events = << >> /\ pc \notin Clearing =>
        g_ulStatus = CASE link = "down" -> {}
                       [] link = "up" -> {CONNECTION}
                       [] link = "ip" -> StatusBits

(* Action property: after boot, reconnecting never takes down a link that  *)
(* works (wifi_user.c:553, 706-730).                                       *)
KeepsLink ==
    [][~booting /\ link # "down" /\ link' = "down" =>
            losses' = losses + 1]_vars

(* Liveness: when the link is gone for good, sending is stopped for good   *)
(* (test_wifi_user.c:48-50).                                               *)
LostLinkStops ==
    <>[](link = "down") => <>[](send_data_status = stop)

(* Liveness: when the link is there for good, sending is allowed again,    *)
(* wherever the thread was when it came up (test_wifi_user.c:43-46).       *)
RecoveredLinkStarts ==
    <>[](link = "ip") => <>[](send_data_status = start)

(* What the comment of test_wifi says (test_wifi_user.c:18): "Check the    *)
(* connection to the wifi network cyclically."                             *)
ChecksCyclically == []<>(pc = "usleep")
=============================================================================
