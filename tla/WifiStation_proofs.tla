-------------------------- MODULE WifiStation_proofs --------------------------
(***************************************************************************)
(* Proofs about the Wi-Fi station, for any number of losses of the link.   *)
(*                                                                         *)
(* The argument: the link can come up only while the thread waits for it.  *)
(* Outside that wait at most one event is outstanding, the notice that the *)
(* link has gone, and it only clears what the thread clears itself; so the *)
(* read-modify-write of g_ulStatus loses nothing.                          *)
(***************************************************************************)
EXTENDS WifiStation, SequenceTheorems, TLAPS

C == "CONNECT"
D == "DISCONNECT"
I == "IPV4_ACQUIRED"

(* Nothing reconnects but a request; a foreign profile is deleted while    *)
(* its link is up, and the policy is off before the thread adds its own.   *)
PolicyInv ==
    /\ ~booting => ~auto
    /\ booting /\ pc # "profile_del" => ~profile
    /\ auto /\ profile => link = "ip" /\ pc = "profile_del"

(* The thread takes down or gives up a link only where it knows of it.     *)
PointInv ==
    /\ pc \in Clearing \cup {"wait_disconnected", "wlan_connect"} =>
          link = "down"
    /\ ~booting /\ pc \in {"profile_del", "disconnect"} => link = "down"
    /\ pc = "notify" /\ ~wifi_status => link = "down"
    /\ pc \in {"usleep", "notify", "check"} => ~booting

(* What the two steps of the clearing have done.                           *)
ClearedInv ==
    /\ pc \in {"clr_ip_acquired", "clr_ip_acquired_write"} =>
          CONNECTION \notin g_ulStatus
    /\ pc = "clr_ip_acquired_write" => CONNECTION \notin tmp
    /\ pc = "wlan_connect" => g_ulStatus = {}

(* Outside the wait the link does not come up.                             *)
Quiet ==
    /\ ~request
    /\ \/ link = "ip" /\ events = << >> /\ g_ulStatus = StatusBits
       \/ link = "down" /\ events = <<D>>
       \/ /\ link = "down" /\ events = << >>
          /\ g_ulStatus = {} \/ pc \in Clearing

(* In the wait it comes up once, and may go again; a notice of the last    *)
(* loss may be on its way when the wait begins.                            *)
Asked == request /\ link = "down" /\ events \in {<< >>, <<D>>} /\ g_ulStatus = {}

Up ==
    /\ ~request /\ link = "up"
    /\ \/ events \in {<<D, C>>, <<C>>} /\ g_ulStatus = {}
       \/ events = << >> /\ g_ulStatus = {CONNECTION}

WithIp ==
    /\ ~request /\ link = "ip"
    /\ \/ events \in {<<D, C, I>>, <<C, I>>} /\ g_ulStatus = {}
       \/ events = <<I>> /\ g_ulStatus = {CONNECTION}
       \/ events = << >> /\ g_ulStatus = StatusBits

Lost ==
    /\ ~request /\ link = "down"
    /\ \/ events \in {<<D, C, D>>, <<C, D>>, <<D, C, I, D>>, <<C, I, D>>, << >>}
          /\ g_ulStatus = {}
       \/ events \in {<<I, D>>, <<D>>} /\ g_ulStatus = {CONNECTION}
       \/ events = <<D>> /\ g_ulStatus = StatusBits

EventInv ==
    IF pc = "wait_connected" THEN Asked \/ Up \/ WithIp \/ Lost ELSE Quiet

(* The inductive invariant.                                                *)
IInv == TypeOK /\ PolicyInv /\ PointInv /\ ClearedInv /\ EventInv
------------------------------------------------------------------------------
(* What Append does to the short queues above, position by position.       *)
LEMMA AppendOne ==
    ASSUME NEW a, NEW b
    PROVE  Append(<<a>>, b) = <<a, b>>
<1> DEFINE S == {a, b}
<1>1. <<a>> \in Seq(S) /\ <<a, b>> \in Seq(S)
  OBVIOUS
<1>2. /\ Append(<<a>>, b) \in Seq(S)
      /\ Len(Append(<<a>>, b)) = 2 /\ Len(<<a, b>>) = 2
  BY <1>1
<1>3. \A i \in 1 .. 2 : Append(<<a>>, b)[i] = <<a, b>>[i]
  BY <1>1
<1> QED BY <1>1, <1>2, <1>3, SeqEqual

LEMMA AppendTwo ==
    ASSUME NEW a, NEW b, NEW c
    PROVE  Append(<<a, b>>, c) = <<a, b, c>>
<1> DEFINE S == {a, b, c}
<1>1. <<a, b>> \in Seq(S) /\ <<a, b, c>> \in Seq(S)
  OBVIOUS
<1>2. /\ Append(<<a, b>>, c) \in Seq(S)
      /\ Len(Append(<<a, b>>, c)) = 3 /\ Len(<<a, b, c>>) = 3
  BY <1>1
<1>3. \A i \in 1 .. 3 : Append(<<a, b>>, c)[i] = <<a, b, c>>[i]
  BY <1>1
<1> QED BY <1>1, <1>2, <1>3, SeqEqual

LEMMA AppendThree ==
    ASSUME NEW a, NEW b, NEW c, NEW d
    PROVE  Append(<<a, b, c>>, d) = <<a, b, c, d>>
<1> DEFINE S == {a, b, c, d}
<1>1. <<a, b, c>> \in Seq(S) /\ <<a, b, c, d>> \in Seq(S)
  OBVIOUS
<1>2. /\ Append(<<a, b, c>>, d) \in Seq(S)
      /\ Len(Append(<<a, b, c>>, d)) = 4 /\ Len(<<a, b, c, d>>) = 4
  BY <1>1
<1>3. \A i \in 1 .. 4 : Append(<<a, b, c>>, d)[i] = <<a, b, c, d>>[i]
  BY <1>1
<1> QED BY <1>1, <1>2, <1>3, SeqEqual

(* The queues a new event makes, and those that handling one leaves.       *)
LEMMA Raised ==
    /\ Append(<< >>, C) = <<C>> /\ Append(<<D>>, C) = <<D, C>>
    /\ Append(<<D, C>>, I) = <<D, C, I>> /\ Append(<<C>>, I) = <<C, I>>
    /\ Append(<< >>, I) = <<I>>
    /\ Append(<< >>, D) = <<D>> /\ Append(<<I>>, D) = <<I, D>>
    /\ Append(<<C>>, D) = <<C, D>> /\ Append(<<D, C>>, D) = <<D, C, D>>
    /\ Append(<<C, I>>, D) = <<C, I, D>>
    /\ Append(<<D, C, I>>, D) = <<D, C, I, D>>
<1>1. \A a : Append(<< >>, a) = <<a>>
  OBVIOUS
<1> QED BY <1>1, AppendOne, AppendTwo, AppendThree

LEMMA Handled ==
    /\ \A a \in {C, D, I} : Head(<<a>>) = a /\ Tail(<<a>>) = << >>
    /\ Head(<<D, C>>) = D /\ Tail(<<D, C>>) = <<C>>
    /\ Head(<<C, I>>) = C /\ Tail(<<C, I>>) = <<I>>
    /\ Head(<<C, D>>) = C /\ Tail(<<C, D>>) = <<D>>
    /\ Head(<<I, D>>) = I /\ Tail(<<I, D>>) = <<D>>
    /\ Head(<<D, C, I>>) = D /\ Tail(<<D, C, I>>) = <<C, I>>
    /\ Head(<<D, C, D>>) = D /\ Tail(<<D, C, D>>) = <<C, D>>
    /\ Head(<<C, I, D>>) = C /\ Tail(<<C, I, D>>) = <<I, D>>
    /\ Head(<<D, C, I, D>>) = D /\ Tail(<<D, C, I, D>>) = <<C, I, D>>
OBVIOUS
------------------------------------------------------------------------------
LEMMA InitIInv == Init => IInv
<1> SUFFICES ASSUME Init PROVE IInv
  OBVIOUS
<1>1. EventInv
  BY DEF Init, EventInv, Quiet
<1>2. TypeOK
  <2>1. events \in Seq(Events) /\ losses \in 0 .. MaxLosses
    BY WifiAssumption DEF Init
  <2>2. /\ link \in {"down", "up", "ip"} /\ g_ulStatus \subseteq StatusBits
        /\ request \in BOOLEAN /\ auto \in BOOLEAN /\ profile \in BOOLEAN
    BY DEF Init
  <2> QED BY <2>1, <2>2 DEF Init, TypeOK, Points, disconnected, start, stop
<1>3. PolicyInv /\ PointInv /\ ClearedInv
  BY DEF Init, PolicyInv, PointInv, ClearedInv, Clearing, Former
<1> QED BY <1>1, <1>2, <1>3 DEF IInv

(* Only a request brings the link up, so the thread is waiting for it.     *)
LEMMA NwpConnectsIInv == IInv /\ NwpConnects => IInv'
<1> SUFFICES ASSUME IInv, NwpConnects PROVE IInv'
  OBVIOUS
<1>1. pc = "wait_connected" /\ Asked
  BY DEF IInv, NwpConnects, PolicyInv, EventInv, Quiet, Asked, Up, WithIp, Lost
<1>2. /\ UNCHANGED <<auto, profile, losses, g_ulStatus, pc, booting, tmp,
                     wifi_status, send_data_status>>
      /\ link' = "up" /\ ~request' /\ request' \in BOOLEAN
      /\ events' = Append(events, C)
  BY DEF NwpConnects, Raise, C
<1>3. events' = <<D, C>> \/ events' = <<C>>
  BY <1>1, <1>2, Raised DEF Asked
<1>4. EventInv'
  BY <1>1, <1>2, <1>3 DEF EventInv, Asked, Up
<1>5. TypeOK'
  <2>1. events' \in Seq(Events)
    BY <1>2 DEF IInv, TypeOK, Events, C
  <2> QED BY <1>2, <2>1 DEF IInv, TypeOK
<1>6. PolicyInv' /\ PointInv' /\ ClearedInv'
  BY <1>1, <1>2
     DEF IInv, PolicyInv, PointInv, ClearedInv, Clearing, Asked
<1> QED BY <1>4, <1>5, <1>6 DEF IInv

LEMMA NwpGetsIpIInv == IInv /\ NwpGetsIp => IInv'
<1> SUFFICES ASSUME IInv, NwpGetsIp PROVE IInv'
  OBVIOUS
<1>1. pc = "wait_connected" /\ Up
  BY DEF IInv, NwpGetsIp, EventInv, Quiet, Asked, Up, WithIp, Lost
<1>2. /\ UNCHANGED <<request, auto, profile, losses, g_ulStatus, pc, booting,
                     tmp, wifi_status, send_data_status>>
      /\ link' = "ip" /\ events' = Append(events, I)
  BY DEF NwpGetsIp, Raise, I
<1>3. \/ (events' = <<D, C, I>> \/ events' = <<C, I>>) /\ g_ulStatus = {}
      \/ events' = <<I>> /\ g_ulStatus = {CONNECTION}
  BY <1>1, <1>2, Raised DEF Up
<1>4. EventInv'
  BY <1>1, <1>2, <1>3 DEF EventInv, Up, WithIp
<1>5. TypeOK'
  <2>1. events' \in Seq(Events)
    BY <1>2 DEF IInv, TypeOK, Events, I
  <2> QED BY <1>2, <2>1 DEF IInv, TypeOK
<1>6. PolicyInv' /\ PointInv' /\ ClearedInv'
  BY <1>1, <1>2
     DEF IInv, PolicyInv, PointInv, ClearedInv, Clearing, Up
<1> QED BY <1>4, <1>5, <1>6 DEF IInv

(* A loss in the wait is one more event; outside it, the only one.         *)
LEMMA LinkLostIInv == IInv /\ LinkLost => IInv'
<1> SUFFICES ASSUME IInv, LinkLost PROVE IInv'
  OBVIOUS
<1>1. /\ UNCHANGED <<request, auto, profile, g_ulStatus, pc, booting, tmp,
                     wifi_status, send_data_status>>
      /\ link # "down" /\ link' = "down" /\ events' = Append(events, D)
      /\ losses < MaxLosses /\ losses' = losses + 1
      /\ booting => pc # "profile_del"
  BY DEF LinkLost, Raise, D
<1>2. TypeOK'
  <2>1. events' \in Seq(Events)
    BY <1>1 DEF IInv, TypeOK, Events, D
  <2>2. losses' \in 0 .. MaxLosses
    BY <1>1, WifiAssumption DEF IInv, TypeOK
  <2> QED BY <1>1, <2>1, <2>2 DEF IInv, TypeOK
<1>3. PolicyInv' /\ PointInv' /\ ClearedInv'
  BY <1>1 DEF IInv, PolicyInv, PointInv, ClearedInv
<1>4. CASE pc # "wait_connected"
  <2>1. Quiet
    BY <1>4 DEF IInv, EventInv
  <2>2. events' = <<D>> /\ ~request
    BY <1>1, <2>1, Raised DEF Quiet
  <2>3. EventInv'
    BY <1>1, <1>4, <2>2 DEF EventInv, Quiet
  <2> QED BY <1>2, <1>3, <2>3 DEF IInv
<1>5. CASE pc = "wait_connected" /\ Up
  <2>1. \/ /\ events' = <<D, C, D>> \/ events' = <<C, D>>
           /\ g_ulStatus = {}
        \/ events' = <<D>> /\ g_ulStatus = {CONNECTION}
    BY <1>1, <1>5, Raised DEF Up
  <2>2. EventInv'
    BY <1>1, <1>5, <2>1 DEF EventInv, Up, Lost
  <2> QED BY <1>2, <1>3, <2>2 DEF IInv
<1>6. CASE pc = "wait_connected" /\ WithIp
  <2>1. \/ /\ events' = <<D, C, I, D>> \/ events' = <<C, I, D>>
           /\ g_ulStatus = {}
        \/ events' = <<I, D>> /\ g_ulStatus = {CONNECTION}
        \/ events' = <<D>> /\ g_ulStatus = StatusBits
    BY <1>1, <1>6, Raised DEF WithIp
  <2>2. EventInv'
    BY <1>1, <1>6, <2>1 DEF EventInv, WithIp, Lost
  <2> QED BY <1>2, <1>3, <2>2 DEF IInv
<1> QED BY <1>1, <1>4, <1>5, <1>6 DEF IInv, EventInv, Asked, Lost

(* An event is handled while the thread waits: the bits follow in order.   *)
LEMMA HandledInWait ==
    ASSUME TypeOK, EventInv, pc = "wait_connected", HandleEvent
    PROVE  EventInv'
<1>1. /\ UNCHANGED <<link, request, pc>> /\ events # << >>
      /\ events' = Tail(events)
  BY DEF HandleEvent, nwpVars
<1>2. /\ Head(events) = C => g_ulStatus' = g_ulStatus \cup {CONNECTION}
      /\ Head(events) = D => g_ulStatus' = {}
      /\ Head(events) = I => g_ulStatus' = g_ulStatus \cup {IP_ACQUIRED}
  BY DEF HandleEvent, TypeOK, StatusBits, BothCleared, IpBit, C, D, I
<1>3. {} \cup {CONNECTION} = {CONNECTION}
      /\ {CONNECTION} \cup {IP_ACQUIRED} = StatusBits
  BY DEF StatusBits
<1>4. CASE Asked
  <2>1. events = <<D>>
    BY <1>1, <1>4 DEF Asked
  <2>2. events' = << >> /\ g_ulStatus' = {}
    BY <1>1, <1>2, <2>1, Handled
  <2> QED BY <1>1, <1>4, <2>2 DEF EventInv, Asked
<1>5. CASE Up
  <2>1. (events = <<D, C>> \/ events = <<C>>) /\ g_ulStatus = {}
    BY <1>1, <1>5 DEF Up
  <2>2. \/ events' = <<C>> /\ g_ulStatus' = {}
        \/ events' = << >> /\ g_ulStatus' = {CONNECTION}
    BY <1>1, <1>2, <1>3, <2>1, Handled
  <2> QED BY <1>1, <1>5, <2>2 DEF EventInv, Up
<1>6. CASE WithIp
  <2>1. \/ events = <<D, C, I>> /\ g_ulStatus = {}
        \/ events = <<C, I>> /\ g_ulStatus = {}
        \/ events = <<I>> /\ g_ulStatus = {CONNECTION}
    BY <1>1, <1>6 DEF WithIp
  <2>2. \/ events' = <<C, I>> /\ g_ulStatus' = {}
        \/ events' = <<I>> /\ g_ulStatus' = {CONNECTION}
        \/ events' = << >> /\ g_ulStatus' = StatusBits
    BY <1>1, <1>2, <1>3, <2>1, Handled
  <2> QED BY <1>1, <1>6, <2>2 DEF EventInv, WithIp
<1>7. CASE Lost
  <2>1. \/ /\ g_ulStatus = {}
           /\ \/ events = <<D, C, D>> \/ events = <<C, D>>
              \/ events = <<D, C, I, D>> \/ events = <<C, I, D>>
        \/ events = <<I, D>> /\ g_ulStatus = {CONNECTION}
        \/ events = <<D>>
    BY <1>1, <1>7 DEF Lost
  <2>2. \/ events' = <<C, D>> /\ g_ulStatus' = {}
        \/ events' = <<C, I, D>> /\ g_ulStatus' = {}
        \/ events' = <<D>> /\ g_ulStatus' = {CONNECTION}
        \/ events' = <<I, D>> /\ g_ulStatus' = {CONNECTION}
        \/ events' = <<D>> /\ g_ulStatus' = StatusBits
        \/ events' = << >> /\ g_ulStatus' = {}
    BY <1>1, <1>2, <1>3, <2>1, Handled
  <2> QED BY <1>1, <1>7, <2>2 DEF EventInv, Lost
<1> QED BY <1>4, <1>5, <1>6, <1>7 DEF EventInv

(* Outside the wait, the one event clears the bits.                        *)
LEMMA HandleEventIInv == IInv /\ HandleEvent => IInv'
<1> SUFFICES ASSUME IInv, HandleEvent PROVE IInv'
  OBVIOUS
<1>1. /\ UNCHANGED <<nwpVars, pc, booting, tmp, wifi_status, send_data_status>>
      /\ events # << >> /\ events' = Tail(events)
  BY DEF HandleEvent
<1>2. TypeOK'
  <2>1. events' \in Seq(Events)
    BY <1>1 DEF IInv, TypeOK
  <2>2. g_ulStatus' \subseteq StatusBits
    <3>1. Head(events) \in Events
      BY <1>1 DEF IInv, TypeOK
    <3>2. CONNECTION \in StatusBits /\ IP_ACQUIRED \in StatusBits
      BY DEF StatusBits
    <3> QED BY <3>1, <3>2 DEF HandleEvent, IInv, TypeOK, Events, BothCleared,
                              IpBit
  <2> QED BY <1>1, <2>1, <2>2 DEF IInv, TypeOK, nwpVars
<1>3. PolicyInv' /\ PointInv'
  BY <1>1 DEF IInv, PolicyInv, PointInv, nwpVars
<1>4. EventInv' /\ ClearedInv'
  <2>1. CASE pc = "wait_connected"
    BY <1>1, <2>1, HandledInWait DEF IInv, ClearedInv
  <2>2. CASE pc # "wait_connected"
    <3>1. Quiet
      BY <2>2 DEF IInv, EventInv
    <3>2. events = <<D>> /\ link = "down" /\ ~request
      BY <1>1, <3>1 DEF Quiet
    <3>3. events' = << >> /\ Head(events) = "DISCONNECT"
      BY <1>1, <3>2, Handled DEF D
    <3>4. g_ulStatus' = {}
      BY <3>3 DEF HandleEvent, IInv, TypeOK, StatusBits, BothCleared
    <3> QED BY <1>1, <2>2, <3>2, <3>3, <3>4
            DEF IInv, EventInv, Quiet, ClearedInv, nwpVars
  <2> QED BY <2>1, <2>2
<1> QED BY <1>2, <1>3, <1>4 DEF IInv
------------------------------------------------------------------------------
(* In all its steps but the wait, the thread finds the link gone or whole. *)
LEMMA QuietLink ==
    ASSUME IInv, pc # "wait_connected"
    PROVE  /\ Quiet
           /\ link = "down" \/ (link = "ip" /\ IsConnected)
           /\ pc \notin Clearing /\ ~IsConnected => link = "down"
BY DEF IInv, EventInv, Quiet, IsConnected, StatusBits

LEMMA ProfileDelIInv == IInv /\ ProfileDel => IInv'
<1> SUFFICES ASSUME IInv, ProfileDel PROVE IInv'
  OBVIOUS
<1>1. Quiet
  BY QuietLink DEF ProfileDel, Goto
<1>2. TypeOK'
  BY DEF IInv, TypeOK, ProfileDel, Goto, Points
<1>3. PolicyInv' /\ PointInv' /\ ClearedInv'
  BY DEF IInv, ProfileDel, Goto, PolicyInv, PointInv, ClearedInv, Clearing
<1>4. EventInv'
  BY <1>1 DEF ProfileDel, Goto, EventInv, Quiet, Clearing
<1> QED BY <1>2, <1>3, <1>4 DEF IInv

(* A working link is taken down only by an IsConnected that is true.       *)
LEMMA DisconnectFromAPIInv == IInv /\ DisconnectFromAP => IInv'
<1> SUFFICES ASSUME IInv, DisconnectFromAP PROVE IInv'
  OBVIOUS
<1>1. Quiet /\ link = "down"
  BY QuietLink DEF DisconnectFromAP, Goto, Disconnects
<1>2. TypeOK'
  BY DEF IInv, TypeOK, DisconnectFromAP, Goto, Points, nwpVars
<1>3. PolicyInv' /\ PointInv' /\ ClearedInv'
  BY <1>1 DEF IInv, DisconnectFromAP, Goto, PolicyInv, PointInv, ClearedInv,
              Clearing, nwpVars
<1>4. EventInv'
  BY <1>1 DEF DisconnectFromAP, Goto, EventInv, Quiet, Clearing, nwpVars
<1> QED BY <1>2, <1>3, <1>4 DEF IInv

LEMMA WlanDisconnectIInv == IInv /\ WlanDisconnect => IInv'
<1> SUFFICES ASSUME IInv, WlanDisconnect PROVE IInv'
  OBVIOUS
<1>1. /\ pc = "disconnect" /\ pc' = "wait_disconnected" /\ link # "down"
      /\ link' = "down" /\ events' = Append(events, D)
      /\ UNCHANGED <<request, auto, profile, losses, g_ulStatus, booting, tmp,
                     wifi_status, send_data_status>>
  BY DEF WlanDisconnect, Goto, Disconnects, Raise, D
<1>2. events = << >> /\ ~request
  BY <1>1, QuietLink DEF Quiet
<1>3. TypeOK'
  <2>1. events' \in Seq(Events)
    BY <1>1 DEF IInv, TypeOK, Events, D
  <2> QED BY <1>1, <2>1 DEF IInv, TypeOK, Points
<1>4. PolicyInv' /\ PointInv' /\ ClearedInv'
  BY <1>1 DEF IInv, PolicyInv, PointInv, ClearedInv, Clearing
<1>5. EventInv'
  BY <1>1, <1>2, Raised DEF EventInv, Quiet
<1> QED BY <1>3, <1>4, <1>5 DEF IInv

LEMMA DisconnectedIInv == IInv /\ Disconnected => IInv'
<1> SUFFICES ASSUME IInv, Disconnected PROVE IInv'
  OBVIOUS
<1>1. Quiet /\ link = "down"
  BY QuietLink DEF Disconnected, Goto, Clearing
<1>2. TypeOK'
  BY DEF IInv, TypeOK, Disconnected, Goto, Points, nwpVars
<1>3. PolicyInv' /\ PointInv' /\ ClearedInv'
  BY <1>1 DEF IInv, Disconnected, Goto, PolicyInv, PointInv, ClearedInv,
              Clearing, nwpVars
<1>4. EventInv'
  BY <1>1 DEF Disconnected, Goto, EventInv, Quiet, Clearing, nwpVars
<1> QED BY <1>2, <1>3, <1>4 DEF IInv
------------------------------------------------------------------------------
(* The copies are made and written back while the link is down; an event   *)
(* in between finds or leaves the bits clear.                              *)
LEMMA ClrReadIInv == IInv /\ ClrRead => IInv'
<1> SUFFICES ASSUME IInv, ClrRead PROVE IInv'
  OBVIOUS
<1>1. Quiet
  BY QuietLink DEF ClrRead, Goto
<1>2. TypeOK'
  BY DEF IInv, TypeOK, ClrRead, Goto, Points, nwpVars
<1>3. PolicyInv' /\ PointInv' /\ ClearedInv'
  BY DEF IInv, ClrRead, Goto, PolicyInv, PointInv, ClearedInv, Clearing, nwpVars
<1>4. EventInv'
  BY <1>1 DEF ClrRead, Goto, EventInv, Quiet, Clearing, nwpVars
<1> QED BY <1>2, <1>3, <1>4 DEF IInv

LEMMA ClrWriteIInv == IInv /\ ClrWrite => IInv'
<1> SUFFICES ASSUME IInv, ClrWrite PROVE IInv'
  OBVIOUS
<1>1. /\ Quiet /\ link = "down"
      /\ UNCHANGED <<nwpVars, events, booting, wifi_status, send_data_status>>
  BY QuietLink DEF ClrWrite, Goto, IInv, PointInv, Clearing
<1>2. tmp \subseteq {CONNECTION, IP_ACQUIRED} /\ tmp' = {}
  BY DEF IInv, TypeOK, StatusBits, ClrWrite
<1>3. \/ /\ pc = "clr_connection_write" /\ pc' = "clr_ip_acquired"
         /\ g_ulStatus' = tmp \ {CONNECTION}
      \/ /\ pc = "clr_ip_acquired_write" /\ pc' = "wlan_connect"
         /\ g_ulStatus' = {}
  BY <1>2 DEF ClrWrite, Goto, IInv, ClearedInv
<1>4. TypeOK'
  BY <1>1, <1>2, <1>3 DEF IInv, TypeOK, Points, nwpVars, StatusBits
<1>5. PolicyInv' /\ PointInv' /\ ClearedInv'
  BY <1>1, <1>3 DEF IInv, PolicyInv, PointInv, ClearedInv, Clearing, nwpVars
<1>6. EventInv'
  BY <1>1, <1>3 DEF EventInv, Quiet, Clearing, nwpVars
<1> QED BY <1>4, <1>5, <1>6 DEF IInv
------------------------------------------------------------------------------
(* The wait begins with the bits clear, whatever notice is on its way.     *)
LEMMA WlanConnectIInv == IInv /\ WlanConnect => IInv'
<1> SUFFICES ASSUME IInv, WlanConnect PROVE IInv'
  OBVIOUS
<1>1. Quiet /\ link = "down" /\ g_ulStatus = {}
  BY QuietLink DEF WlanConnect, Goto, IInv, PointInv, ClearedInv
<1>2. TypeOK'
  BY DEF IInv, TypeOK, WlanConnect, Goto, Points
<1>3. PolicyInv' /\ PointInv' /\ ClearedInv'
  BY DEF IInv, WlanConnect, Goto, PolicyInv, PointInv, ClearedInv, Clearing
<1>4. EventInv'
  BY <1>1 DEF WlanConnect, Goto, EventInv, Quiet, Asked
<1> QED BY <1>2, <1>3, <1>4 DEF IInv

LEMMA WlanConnectFailsIInv == IInv /\ WlanConnectFails => IInv'
<1> SUFFICES ASSUME IInv, WlanConnectFails PROVE IInv'
  OBVIOUS
<1>1. Quiet /\ g_ulStatus = {}
  BY QuietLink DEF WlanConnectFails, Goto, IInv, ClearedInv
<1>2. TypeOK'
  BY DEF IInv, TypeOK, WlanConnectFails, Goto, Points, nwpVars
<1>3. PolicyInv' /\ PointInv' /\ ClearedInv'
  BY DEF IInv, WlanConnectFails, Goto, PolicyInv, PointInv, ClearedInv,
         Clearing, nwpVars
<1>4. EventInv'
  BY <1>1 DEF WlanConnectFails, Goto, EventInv, Quiet, nwpVars
<1> QED BY <1>2, <1>3, <1>4 DEF IInv

(* It ends with both bits set, when both events have been handled.         *)
LEMMA ConnectedIInv == IInv /\ Connected => IInv'
<1> SUFFICES ASSUME IInv, Connected PROVE IInv'
  OBVIOUS
<1>1. /\ pc = "wait_connected" /\ pc' = "profile_add"
      /\ g_ulStatus # {} /\ g_ulStatus # {CONNECTION}
  BY DEF Connected, Goto, LinkIsUp, IsConnected, IsIpAcquired, CONNECTION,
         IP_ACQUIRED
<1>2. TypeOK'
  BY DEF IInv, TypeOK, Connected, Goto, Points, nwpVars
<1>3. PolicyInv' /\ PointInv' /\ ClearedInv'
  BY DEF IInv, Connected, Goto, PolicyInv, PointInv, ClearedInv, Clearing,
         nwpVars
<1>4. EventInv'
  BY <1>1 DEF IInv, Connected, EventInv, Asked, Up, WithIp, Lost, Quiet, nwpVars
<1> QED BY <1>2, <1>3, <1>4 DEF IInv

LEMMA ProfileAddIInv == IInv /\ ProfileAdd => IInv'
<1> SUFFICES ASSUME IInv, ProfileAdd PROVE IInv'
  OBVIOUS
<1>1. Quiet
  BY QuietLink DEF ProfileAdd, Goto
<1>2. TypeOK'
  BY DEF IInv, TypeOK, ProfileAdd, Goto, Points, ConnectionPolicy
<1>3. PolicyInv' /\ PointInv' /\ ClearedInv'
  BY DEF IInv, ProfileAdd, Goto, PolicyInv, PointInv, ClearedInv, Clearing,
         ConnectionPolicy
<1>4. EventInv'
  BY <1>1 DEF ProfileAdd, Goto, EventInv, Quiet, Clearing
<1> QED BY <1>2, <1>3, <1>4 DEF IInv
------------------------------------------------------------------------------
(* test_wifi goes to reconnect only when the status is clear, and then the *)
(* link is down.                                                           *)
LEMMA PollIInv == IInv /\ (Poll \/ Check) => IInv'
<1> SUFFICES ASSUME IInv, Poll \/ Check PROVE IInv'
  OBVIOUS
<1>1. Quiet /\ (~IsConnected => link = "down")
  BY QuietLink DEF Poll, Check, Goto, Clearing
<1>2. TypeOK'
  <2>1. wifi_status' \in BOOLEAN
    <3>1. wifi_status' = IsConnected
      BY Zenon DEF Poll, Check
    <3>2. IsConnected \in BOOLEAN
      BY DEF IsConnected
    <3> QED BY <3>1, <3>2
  <2>2. pc' \in Points
    BY DEF Poll, Check, Goto, Points
  <2> QED BY <2>1, <2>2 DEF IInv, TypeOK, Poll, Check, nwpVars
<1>3. PolicyInv' /\ PointInv' /\ ClearedInv'
  BY <1>1 DEF IInv, Poll, Check, Goto, PolicyInv, PointInv, ClearedInv,
              Clearing, nwpVars
<1>4. EventInv'
  BY <1>1 DEF Poll, Check, Goto, EventInv, Quiet, Clearing, nwpVars
<1> QED BY <1>2, <1>3, <1>4 DEF IInv

LEMMA NotifyIInv == IInv /\ Notify => IInv'
<1> SUFFICES ASSUME IInv, Notify PROVE IInv'
  OBVIOUS
<1>1. Quiet /\ (wifi_status # connected => link = "down")
  BY QuietLink DEF Notify, Goto, IInv, TypeOK, PointInv, connected
<1>2. TypeOK'
  BY DEF IInv, TypeOK, Notify, Goto, Points, nwpVars, Told, start, stop
<1>3. PolicyInv' /\ PointInv' /\ ClearedInv'
  BY <1>1 DEF IInv, Notify, Goto, PolicyInv, PointInv, ClearedInv,
              Clearing, nwpVars
<1>4. EventInv'
  BY <1>1 DEF Notify, Goto, EventInv, Quiet, Clearing, nwpVars
<1> QED BY <1>2, <1>3, <1>4 DEF IInv

LEMMA NextIInv == IInv /\ [Next]_vars => IInv'
<1> SUFFICES ASSUME IInv, UNCHANGED vars PROVE IInv'
  BY NwpConnectsIInv, NwpGetsIpIInv, LinkLostIInv, HandleEventIInv,
     ProfileDelIInv, DisconnectFromAPIInv, WlanDisconnectIInv,
     DisconnectedIInv, ClrReadIInv, ClrWriteIInv, WlanConnectIInv,
     WlanConnectFailsIInv, ConnectedIInv, ProfileAddIInv, PollIInv, NotifyIInv
  DEF Next, Thread
<1>1. TypeOK'
  BY DEF IInv, TypeOK, vars, nwpVars
<1>2. PolicyInv' /\ PointInv' /\ ClearedInv' /\ EventInv'
  BY DEF IInv, PolicyInv, PointInv, ClearedInv, EventInv, Asked, Up, WithIp,
         Lost, Quiet, vars, nwpVars
<1> QED BY <1>1, <1>2 DEF IInv
------------------------------------------------------------------------------
(* The link comes up only in the wait of Network_IF_ConnectAP, and the     *)
(* events outstanding are those of the last connection                     *)
(* (wifi_user.c:94-160, 217-220, 536-585).                                 *)
THEOREM Invariance == Spec => []IInv
BY InitIInv, NextIInv, PTL DEF Spec

(* Types: the status has only the two bits, the queue only the three       *)
(* events (wifi_user.c:94-160, test_wifi_user.c:25-60).                    *)
THEOREM TypeCorrect == Spec => []TypeOK
<1>1. IInv => TypeOK
  BY DEF IInv
<1> QED BY <1>1, Invariance, PTL

(* With every event handled, g_ulStatus is what the link is, however often *)
(* the link was lost and wherever the thread was when a handler ran        *)
(* (wifi_user.c:555-556 against 94-160, 217-220).                          *)
THEOREM StatusFollowsLinkHolds == Spec => []StatusFollowsLink
<1>1. IInv => StatusFollowsLink
  <2> SUFFICES ASSUME IInv, events = << >>, pc \notin Clearing
               PROVE  g_ulStatus = CASE link = "down" -> {}
                                     [] link = "up" -> {CONNECTION}
                                     [] link = "ip" -> StatusBits
    BY DEF StatusFollowsLink
  <2>1. \/ link = "down" /\ g_ulStatus = {}
        \/ link = "up" /\ g_ulStatus = {CONNECTION}
        \/ link = "ip" /\ g_ulStatus = StatusBits
    BY DEF IInv, EventInv, Asked, Up, WithIp, Lost, Quiet
  <2> QED BY <2>1
<1> QED BY <1>1, Invariance, PTL

(* After boot nothing but a loss takes a working link down: test_wifi      *)
(* reconnects only what is down already (wifi_user.c:553, 706-730).        *)
THEOREM KeepsLinkHolds == Spec => KeepsLink
<1>1. IInv /\ [Next]_vars =>
        [~booting /\ link # "down" /\ link' = "down" =>
            losses' = losses + 1]_vars
  <2> SUFFICES ASSUME IInv, Next, ~booting, link # "down", link' = "down"
               PROVE  losses' = losses + 1
    BY DEF vars, nwpVars
  <2>1. ~WlanDisconnect
    BY DEF IInv, PointInv, WlanDisconnect, Goto
  <2>2. LinkLost
    BY <2>1 DEF Next, Thread, NwpConnects, NwpGetsIp, HandleEvent, ProfileDel,
       DisconnectFromAP, Disconnected, ClrRead, ClrWrite, WlanConnect,
       WlanConnectFails, Connected, ProfileAdd, Poll, Notify, Check, nwpVars
  <2> QED BY <2>2 DEF LinkLost
<1> QED BY <1>1, Invariance, PTL DEF Spec, KeepsLink
=============================================================================
