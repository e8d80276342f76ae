---------------------------- MODULE AngelOneFeed ----------------------------
(***************************************************************************)
(* Floor 1: the Angel One adapter with its login, its WebSocket and its    *)
(* health monitor, and the router that hands packets to Floor 2.           *)
(* (source_adapters.py, auth_manager.py, source_health.py,                 *)
(* ingress_router.py, feed_adapters.py, packet_envelope.py,                *)
(* manual_ingress.py, floor2_handoff.py.)                                  *)
(*                                                                         *)
(* Every socket has a thread of its own that calls the adapter back; the   *)
(* callbacks close over the adapter and not over the socket, so those of a *)
(* socket that was given up work on its successor.                         *)
(***************************************************************************)
EXTENDS Naturals, Sequences, FiniteSets

CONSTANTS
  Sockets,     \* bound: the SmartWebSocketV2 objects a run can make
  MaxEvents,   \* bound: failures of the network, calls of the adapter's owner, and ticks
  NoSocket

ASSUME FeedAssumption ==
  /\ IsFiniteSet(Sockets) /\ NoSocket \notin Sockets
  /\ MaxEvents \in Nat

VARIABLES
  auth,      \* AuthManager: token, feed token, _authenticated
  adapter,   \* AngelOneAdapter: _connected, _ws, configuration read, spot_tick subscribed;
             \* history: lost, the sockets whose close_connection raised
  dialling,  \* connect() has started the socket's thread and not yet returned
  socket,    \* state of each socket, kept by the SDK
  health,    \* lifecycle_state of the health monitor
  router,    \* IngressRouter: _routing_active, and its handlers on each adapter
  handed,    \* the handoffs of the packet just routed: Floor 2 takes them in the same call
  events     \* those so far

link == <<auth, adapter, dialling, socket, health, router, events>>
feed == <<link, handed>>

\* A step that routes no packet.
NoPacket == handed' = <<>>

-----------------------------------------------------------------------------
(* Health monitor. *)

Lifecycles == {"HEALTHY", "DEGRADED", "STALE", "AUTH_FAILED", "DISCONNECTED"}

\* VALID_TRANSITIONS
ValidTransitions ==
  {<<"HEALTHY", "DEGRADED">>, <<"HEALTHY", "AUTH_FAILED">>, <<"HEALTHY", "DISCONNECTED">>,
   <<"DEGRADED", "HEALTHY">>, <<"DEGRADED", "STALE">>,
   <<"STALE", "DEGRADED">>, <<"STALE", "DISCONNECTED">>,
   <<"AUTH_FAILED", "DISCONNECTED">>, <<"AUTH_FAILED", "HEALTHY">>,
   <<"DISCONNECTED", "HEALTHY">>}

Reaches(from, to) == from = to \/ <<from, to>> \in ValidTransitions

\* transition_to: raises, and changes nothing, where the table has no entry.
TransitionTo(from, to) == IF Reaches(from, to) THEN to ELSE from

-----------------------------------------------------------------------------
(* Login.  A reply of the API may lack either token; _authenticated is set
   all the same. *)

Replies == [token : BOOLEAN, feed : BOOLEAN]
Complete == [token |-> TRUE, feed |-> TRUE]

LoggedOut == [token |-> FALSE, feed |-> FALSE, authenticated |-> FALSE]

\* login, when generateSession has answered
LoggedIn(reply) == [token |-> reply.token, feed |-> reply.feed, authenticated |-> TRUE]

IsAuthenticated == auth.authenticated /\ auth.token

\* logout
Logout == auth' = LoggedOut

\* One more of the bounded events of the environment.
Happens == events < MaxEvents /\ events' = events + 1

\* refresh_token: a reply without an access token keeps the old one, one with a
\* null for it loses it.
RefreshToken ==
  /\ auth.authenticated /\ Happens
  /\ \E t \in BOOLEAN : auth' = [auth EXCEPT !.token = t]
  /\ UNCHANGED <<adapter, dialling, socket, health, router>>
  /\ NoPacket

-----------------------------------------------------------------------------
(* Connecting. *)

Unused == {s \in Sockets : socket[s] = "unused"}

\* _connect_websocket gets as far as making a socket
CanDial(a, configured) == a.token /\ a.feed /\ configured

\* connect, when login raises
LoginRefused ==
  /\ ~adapter.connected /\ dialling = "no" /\ Happens
  /\ health' = TransitionTo(health, "AUTH_FAILED")
  /\ UNCHANGED <<auth, adapter, dialling, socket, router>>
  /\ NoPacket

\* connect, when the socket cannot be made: the login stands
SocketFails ==
  /\ ~adapter.connected /\ dialling = "no" /\ Happens
  /\ auth' = LoggedIn(Complete)
  /\ adapter' = [adapter EXCEPT !.configured = TRUE, !.ws = NoSocket]
  /\ health' = TransitionTo(health, "AUTH_FAILED")
  /\ UNCHANGED <<dialling, socket, router>>
  /\ NoPacket

\* _connect_websocket: makes a socket and starts its thread, or returns without
\* one where something is missing
ConnectWebsocket(a, login) ==
  IF CanDial(login, a.configured)
  THEN \E s \in Unused :
         /\ socket' = [socket EXCEPT ![s] = "opening"]
         /\ adapter' = [a EXCEPT !.ws = s]
  ELSE adapter' = a /\ UNCHANGED socket

\* connect, up to the start of the socket's thread
Connect ==
  /\ ~adapter.connected /\ dialling = "no"
  /\ \E r \in Replies :
       /\ IF r = Complete THEN UNCHANGED events ELSE Happens
       /\ auth' = LoggedIn(r)
       /\ ConnectWebsocket([adapter EXCEPT !.configured = TRUE], LoggedIn(r))
  /\ dialling' = "connect"
  /\ UNCHANGED <<health, router>>
  /\ NoPacket

\* connect, its end: whatever the socket has reported by now
Connected ==
  /\ dialling = "connect"
  /\ dialling' = "no"
  /\ adapter' = [adapter EXCEPT !.connected = Reaches(health, "HEALTHY")]
  /\ health' = IF Reaches(health, "HEALTHY") THEN "HEALTHY" ELSE TransitionTo(health, "DEGRADED")
  /\ UNCHANGED <<auth, socket, router, events>>
  /\ NoPacket

\* Fault: the socket is forgotten and not closed.
DisconnectForgets ==
  /\ dialling = "no" /\ Happens
  /\ adapter' = [adapter EXCEPT !.ws = NoSocket, !.connected = FALSE]
  /\ health' = TransitionTo(health, "DISCONNECTED")
  /\ UNCHANGED <<auth, dialling, socket, router>>
  /\ NoPacket

\* disconnect: what close_connection raises is logged and the socket forgotten all
\* the same; ends with an exception where the table has no way to DISCONNECTED
Disconnect ==
  /\ dialling = "no" /\ Happens
  /\ \/ /\ socket' = [s \in Sockets |->
                       IF s = adapter.ws /\ socket[s] # "closed" THEN "closing" ELSE socket[s]]
        /\ adapter' = [adapter EXCEPT !.ws = NoSocket, !.connected = FALSE]
     \/ /\ adapter.ws # NoSocket
        /\ adapter' = [adapter EXCEPT !.ws = NoSocket, !.connected = FALSE,
                                      !.lost = @ \cup {adapter.ws}]
        /\ UNCHANGED socket
  /\ health' = TransitionTo(health, "DISCONNECTED")
  /\ UNCHANGED <<auth, dialling, router>>
  /\ NoPacket

\* _resubscribe_feeds: a socket only if the adapter has none and some feed is registered
ResubscribeFeeds(login) ==
  LET back == [adapter EXCEPT !.connected = TRUE]
  IN  IF adapter.spot /\ adapter.ws = NoSocket THEN ConnectWebsocket(back, login)
      ELSE adapter' = back /\ UNCHANGED socket

\* reconnect: the attempt that succeeds, those before it having changed nothing.
\* A connected adapter answers at once; a socket that cannot be made is only logged.
Reconnect ==
  /\ ~adapter.connected /\ dialling = "no" /\ Happens
  /\ auth' \in IF IsAuthenticated THEN {auth} ELSE {LoggedIn(r) : r \in Replies}
  /\ Reaches(health, "HEALTHY")
  /\ health' = "HEALTHY"
  /\ ResubscribeFeeds(auth')
  /\ UNCHANGED <<dialling, router>>
  /\ NoPacket

\* subscribe_feeds(["spot_tick"])
SubscribeFeeds ==
  /\ ~adapter.spot
  /\ adapter' = [adapter EXCEPT !.spot = TRUE]
  /\ UNCHANGED <<auth, dialling, socket, health, router, events>>
  /\ NoPacket

-----------------------------------------------------------------------------
(* Callbacks of the sockets' threads. *)

\* on_open: subscribes the tokens on the adapter's present socket, which need not be
\* the one that opened; on one that is not open that fails, and is logged.
Opens(s) ==
  /\ socket[s] = "opening"
  /\ adapter' = [adapter EXCEPT !.spot = TRUE]
  /\ LET opened == [socket EXCEPT ![s] = "open"]
     IN  socket' = IF adapter.ws # NoSocket /\ opened[adapter.ws] = "open"
                   THEN [opened EXCEPT ![adapter.ws] = "listening"] ELSE opened
  /\ UNCHANGED <<auth, dialling, health, router, events>>
  /\ NoPacket

\* on_error; the SDK dials again or gives up
Errs(s) ==
  /\ socket[s] \in {"opening", "open", "listening"} /\ Happens
  /\ health' = TransitionTo(health, "DEGRADED")
  /\ \E next \in {"opening", "closing"} : socket' = [socket EXCEPT ![s] = next]
  /\ UNCHANGED <<auth, adapter, dialling, router>>
  /\ NoPacket

\* on_close, of a socket that was told to close or by the server
Closes(s) ==
  /\ \/ socket[s] = "closing" /\ UNCHANGED events
     \/ socket[s] \in {"open", "listening"} /\ Happens
  /\ socket' = [socket EXCEPT ![s] = "closed"]
  /\ health' = TransitionTo(health, "DISCONNECTED")
  /\ UNCHANGED <<auth, adapter, dialling, router>>
  /\ NoPacket

-----------------------------------------------------------------------------
(* Routing. *)

ManualTypes == {"MANUAL_CALENDAR", "MANUAL_EVENT", "MANUAL_OVERRIDE"}

\* FEED_TYPE_TO_ROUTING_IDENTITY, "" for a packet without one
RoutingIdentity(feedType) ==
  CASE feedType = "spot_tick" -> "SPOT_FEED"
    [] feedType = "options_snapshot" -> "OPTIONS_FEED"
    [] feedType = "vix_tick" -> "VIX_FEED"
    [] feedType = "macro_data" -> "MACRO_FEED"
    [] feedType = "calendar_event" -> "CALENDAR_FEED"
    [] OTHER -> ""

\* send_to_floor2 on what _route_live_packet assembled
LiveHandoff(feedType) ==
  [feed |-> feedType, identity |-> RoutingIdentity(feedType), manual |-> FALSE,
   health |-> health, online |-> adapter.connected]

\* send_to_floor2 on what _route_manual_packet assembled: no identity, no health facts
ManualHandoff(feedType) ==
  [feed |-> feedType, identity |-> "", manual |-> TRUE, health |-> "none", online |-> FALSE]

\* route_packet, once for every handler registered on the source
RoutePacket(handoff) ==
  IF router.active THEN [i \in 1..router.handlers |-> handoff] ELSE <<>>

\* start_routing: the handler is a new function every time, which on_data does not know yet
StartRouting == router' = [active |-> TRUE, handlers |-> router.handlers + 1]

\* stop_routing
StopRouting == router' = [router EXCEPT !.active = FALSE]

\* _receive_data lets the packet of a listening socket through
Receives(s) == socket[s] = "listening" /\ adapter.connected /\ adapter.spot

\* _receive_data calls the router's handlers first: they were registered first
ReceiveData(s) ==
  /\ Receives(s)
  /\ Happens
  /\ handed' = RoutePacket(LiveHandoff("spot_tick"))
  /\ UNCHANGED <<auth, adapter, dialling, socket, health, router>>

\* submit_manual
SubmitManual ==
  /\ Happens
  /\ \E f \in ManualTypes : handed' = RoutePacket(ManualHandoff(f))
  /\ UNCHANGED <<auth, adapter, dialling, socket, health, router>>

-----------------------------------------------------------------------------

FeedInit ==
  /\ auth = LoggedOut
  /\ adapter = [connected |-> FALSE, ws |-> NoSocket, configured |-> FALSE, spot |-> FALSE,
                lost |-> {}]
  /\ dialling = "no"
  /\ socket = [s \in Sockets |-> "unused"]
  /\ health = "HEALTHY"
  /\ router = [active |-> FALSE, handlers |-> 0]
  /\ handed = <<>>
  /\ events = 0

FeedTypeOK ==
  /\ auth \in [token : BOOLEAN, feed : BOOLEAN, authenticated : BOOLEAN]
  /\ adapter \in [connected : BOOLEAN, ws : Sockets \cup {NoSocket}, configured : BOOLEAN,
                  spot : BOOLEAN, lost : SUBSET Sockets]
  /\ dialling \in {"no", "connect"}
  /\ socket \in [Sockets -> {"unused", "opening", "open", "listening", "closing", "closed"}]
  /\ health \in Lifecycles
  /\ router \in [active : BOOLEAN, handlers : Nat]
  /\ events \in 0..MaxEvents

=============================================================================
