----------------------------- MODULE RunnerProofs -----------------------------
(* A socket that delivers is the adapter's own or one it failed to close, and *)
(* no tick is in two candles of one session: for any sockets, prices, days, buffers and number of       *)
(* events.                                                                    *)
EXTENDS SystemRunner, TLAPS

-----------------------------------------------------------------------------
(* Sockets. *)

Live == {"opening", "open", "listening"}

\* A socket that can deliver is the adapter's own or lost, and an adapter that is not
\* connected and not dialling has none.  Health never becomes STALE, so the end of
\* connect() always finds a way to HEALTHY.
SocketsKnown ==
  /\ health # "STALE"
  /\ \A s \in Sockets : socket[s] \in Live => adapter.ws = s \/ s \in adapter.lost
  /\ ~adapter.connected /\ dialling = "no" => adapter.ws = NoSocket

FeedInv == FeedTypeOK /\ SocketsKnown

Links == [connected : BOOLEAN, ws : Sockets \cup {NoSocket}, configured : BOOLEAN, spot : BOOLEAN,
          lost : SUBSET Sockets]

LEMMA TransitionStays ==
  ASSUME NEW from \in Lifecycles \ {"STALE"}, NEW to \in Lifecycles \ {"STALE"}
  PROVE  TransitionTo(from, to) \in Lifecycles \ {"STALE"}
BY DEF TransitionTo

LEMMA AlwaysReachesHealthy ==
  ASSUME NEW from \in Lifecycles \ {"STALE"}
  PROVE  Reaches(from, "HEALTHY")
BY DEF Reaches, ValidTransitions, Lifecycles

LEMMA LoginsAreTyped ==
  ASSUME NEW r \in Replies
  PROVE  LoggedIn(r) \in [token : BOOLEAN, feed : BOOLEAN, authenticated : BOOLEAN]
BY DEF LoggedIn, Replies

\* A socket is made only for an adapter without one.
LEMMA DialKeeps ==
  ASSUME FeedInv, adapter.ws = NoSocket, NEW a \in Links, a.ws = NoSocket, a.lost = adapter.lost,
         NEW login, ConnectWebsocket(a, login)
  PROVE  /\ adapter' \in Links
         /\ adapter'.connected = a.connected
         /\ socket' \in [Sockets -> {"unused", "opening", "open", "listening", "closing", "closed"}]
         /\ \A s \in Sockets : socket'[s] \in Live => adapter'.ws = s \/ s \in adapter'.lost
<1> USE FeedAssumption DEF FeedInv, FeedTypeOK, SocketsKnown
<1>1. \A s \in Sockets : socket[s] \in Live => s \in a.lost
  OBVIOUS
<1>2. CASE CanDial(login, a.configured)
  <2>1. PICK s \in Sockets : socket' = [socket EXCEPT ![s] = "opening"] /\ adapter' = [a EXCEPT !.ws = s]
    BY <1>2 DEF ConnectWebsocket, Unused
  <2>2. /\ adapter' \in Links /\ adapter'.ws = s /\ adapter'.connected = a.connected
        /\ adapter'.lost = a.lost
    BY <2>1 DEF Links
  <2>3. socket' \in [Sockets -> {"unused", "opening", "open", "listening", "closing", "closed"}]
    BY <2>1
  <2>4. \A t \in Sockets : t # s => socket'[t] = socket[t]
    BY <2>1
  <2> QED BY <1>1, <2>2, <2>3, <2>4
<1>3. CASE ~CanDial(login, a.configured)
  BY <1>1, <1>3 DEF ConnectWebsocket
<1> QED BY <1>2, <1>3

LEMMA Resubscribes ==
  ASSUME NEW login, ResubscribeFeeds(login)
  PROVE  \/ ConnectWebsocket([adapter EXCEPT !.connected = TRUE], login)
         \/ adapter' = [adapter EXCEPT !.connected = TRUE] /\ socket' = socket
<1>1. CASE adapter.spot /\ adapter.ws = NoSocket
  BY <1>1 DEF ResubscribeFeeds
<1>2. CASE ~(adapter.spot /\ adapter.ws = NoSocket)
  BY <1>2 DEF ResubscribeFeeds
<1> QED BY <1>1, <1>2

LEMMA FeedStarts == FeedInit => FeedInv
BY FeedAssumption DEF FeedInit, FeedInv, FeedTypeOK, SocketsKnown, LoggedOut, Lifecycles, Live

\* The owner's calls and the callbacks keep what is known of the sockets.
LEMMA FeedStepKeeps ==
  ASSUME FeedInv, FeedStep
  PROVE  FeedInv'
<1> USE FeedAssumption DEF FeedInv, FeedTypeOK, SocketsKnown, Links
<1>0. {"HEALTHY", "DEGRADED", "AUTH_FAILED", "DISCONNECTED"} = Lifecycles \ {"STALE"}
  BY DEF Lifecycles
<1>1. CASE LoginRefused
  <2>1. health' \in Lifecycles \ {"STALE"}
    BY <1>0, <1>1, TransitionStays DEF LoginRefused
  <2> QED BY <1>1, <2>1 DEF LoginRefused, Happens
<1>2. CASE SocketFails
  <2>1. health' \in Lifecycles \ {"STALE"}
    BY <1>0, <1>2, TransitionStays DEF SocketFails
  <2>2. auth' \in [token : BOOLEAN, feed : BOOLEAN, authenticated : BOOLEAN]
    BY <1>2, LoginsAreTyped DEF SocketFails, Replies, Complete
  <2>3. adapter' \in Links /\ adapter'.ws = NoSocket /\ adapter'.lost = adapter.lost
    BY <1>2 DEF SocketFails
  <2> QED BY <1>2, <2>1, <2>2, <2>3 DEF SocketFails, Happens
<1>3. CASE Connect
  <2>1. PICK r \in Replies :
          /\ IF r = Complete THEN UNCHANGED events ELSE Happens
          /\ auth' = LoggedIn(r)
          /\ ConnectWebsocket([adapter EXCEPT !.configured = TRUE], LoggedIn(r))
    BY <1>3 DEF Connect
  <2>2. adapter.ws = NoSocket /\ dialling' = "connect" /\ health' = health /\ router' = router
    BY <1>3 DEF Connect
  <2>3. /\ [adapter EXCEPT !.configured = TRUE] \in Links
        /\ [adapter EXCEPT !.configured = TRUE].ws = NoSocket
        /\ [adapter EXCEPT !.configured = TRUE].lost = adapter.lost
    BY <2>2
  <2>4. /\ adapter' \in Links
        /\ socket' \in [Sockets -> {"unused", "opening", "open", "listening", "closing", "closed"}]
        /\ \A s \in Sockets : socket'[s] \in Live => adapter'.ws = s \/ s \in adapter'.lost
    BY <2>1, <2>2, <2>3, DialKeeps
  <2>5. auth' \in [token : BOOLEAN, feed : BOOLEAN, authenticated : BOOLEAN]
    BY <2>1, LoginsAreTyped
  <2>6. events' \in 0..MaxEvents
    BY <2>1 DEF Happens
  <2> QED BY <2>2, <2>4, <2>5, <2>6
<1>4. CASE Connected
  <2>1. Reaches(health, "HEALTHY")
    BY AlwaysReachesHealthy
  <2>2. adapter' = [adapter EXCEPT !.connected = TRUE] /\ health' = "HEALTHY"
    BY <1>4, <2>1 DEF Connected
  <2>3. adapter' \in Links /\ adapter'.connected = TRUE /\ adapter'.ws = adapter.ws /\ adapter'.lost = adapter.lost
    BY <2>2
  <2> QED BY <1>4, <2>2, <2>3 DEF Connected, Lifecycles
<1>5. CASE Disconnect
  <2>1. health' \in Lifecycles \ {"STALE"}
    BY <1>0, <1>5, TransitionStays DEF Disconnect
  <2>2. CASE adapter' = [adapter EXCEPT !.ws = NoSocket, !.connected = FALSE]
              /\ socket' = [s \in Sockets |->
                              IF s = adapter.ws /\ socket[s] # "closed" THEN "closing" ELSE socket[s]]
    <3>1. adapter' \in Links /\ adapter'.ws = NoSocket /\ adapter'.lost = adapter.lost
      BY <2>2
    <3>2. socket' \in [Sockets -> {"unused", "opening", "open", "listening", "closing", "closed"}]
      BY <2>2
    <3>3. \A s \in Sockets : socket'[s] \in Live => s \in adapter.lost
      BY <2>2 DEF Live
    <3> QED BY <1>5, <2>1, <3>1, <3>2, <3>3 DEF Disconnect, Happens
  <2>3. CASE /\ adapter.ws # NoSocket /\ socket' = socket
             /\ adapter' = [adapter EXCEPT !.ws = NoSocket, !.connected = FALSE,
                                           !.lost = @ \cup {adapter.ws}]
    <3>1. adapter' \in Links /\ adapter'.ws = NoSocket /\ adapter'.lost = adapter.lost \cup {adapter.ws}
      BY <2>3
    <3> QED BY <1>5, <2>1, <2>3, <3>1 DEF Disconnect, Happens
  <2> QED BY <1>5, <2>2, <2>3 DEF Disconnect
<1>6. CASE Reconnect
  <2>1. adapter.ws = NoSocket
    BY <1>6 DEF Reconnect
  <2>2. auth' \in [token : BOOLEAN, feed : BOOLEAN, authenticated : BOOLEAN]
    <3>1. CASE IsAuthenticated
      BY <1>6, <3>1 DEF Reconnect
    <3>2. CASE ~IsAuthenticated
      <4>1. auth' \in {LoggedIn(r) : r \in Replies}
        BY <1>6, <3>2 DEF Reconnect
      <4> QED BY <4>1, LoginsAreTyped
    <3> QED BY <3>1, <3>2
  <2>3. \/ ConnectWebsocket([adapter EXCEPT !.connected = TRUE], auth')
        \/ adapter' = [adapter EXCEPT !.connected = TRUE] /\ socket' = socket
    <3>1. ResubscribeFeeds(auth')
      BY <1>6 DEF Reconnect
    <3> QED BY <3>1, Resubscribes
  <2>4. /\ [adapter EXCEPT !.connected = TRUE] \in Links /\ [adapter EXCEPT !.connected = TRUE].ws = NoSocket
        /\ [adapter EXCEPT !.connected = TRUE].lost = adapter.lost
        /\ [adapter EXCEPT !.connected = TRUE].connected = TRUE
    BY <2>1
  <2>5. /\ adapter' \in Links /\ adapter'.connected = TRUE
        /\ socket' \in [Sockets -> {"unused", "opening", "open", "listening", "closing", "closed"}]
        /\ \A s \in Sockets : socket'[s] \in Live => adapter'.ws = s \/ s \in adapter'.lost
    <3>1. CASE ConnectWebsocket([adapter EXCEPT !.connected = TRUE], auth')
      BY <2>1, <2>4, <3>1, DialKeeps
    <3>2. CASE adapter' = [adapter EXCEPT !.connected = TRUE] /\ socket' = socket
      BY <2>1, <2>4, <3>2
    <3> QED BY <2>3, <3>1, <3>2
  <2>6. events' \in 0..MaxEvents /\ health' = "HEALTHY" /\ dialling' = dialling /\ router' = router
    BY <1>6 DEF Reconnect, Happens
  <2> QED BY <2>2, <2>5, <2>6 DEF Lifecycles
<1>7. CASE SubscribeFeeds
  <2>1. /\ adapter' \in Links /\ adapter'.ws = adapter.ws /\ adapter'.connected = adapter.connected
        /\ adapter'.lost = adapter.lost
    BY <1>7 DEF SubscribeFeeds
  <2> QED BY <1>7, <2>1 DEF SubscribeFeeds
<1>8. CASE RefreshToken
  <2>1. auth' \in [token : BOOLEAN, feed : BOOLEAN, authenticated : BOOLEAN]
    BY <1>8 DEF RefreshToken
  <2> QED BY <1>8, <2>1 DEF RefreshToken, Happens
<1>9. CASE SubmitManual
  BY <1>9 DEF SubmitManual, Happens
<1>10. ASSUME NEW s \in Sockets, Opens(s) PROVE FeedInv'
  <2>1. /\ adapter' \in Links /\ adapter'.ws = adapter.ws /\ adapter'.connected = adapter.connected
        /\ adapter'.lost = adapter.lost
    BY <1>10 DEF Opens
  <2>2. socket[s] \in Live
    BY <1>10 DEF Opens, Live
  <2>3. /\ socket' \in [Sockets -> {"unused", "opening", "open", "listening", "closing", "closed"}]
        /\ \A t \in Sockets : socket'[t] = socket[t] \/ t = s \/ t = adapter.ws
    BY <1>10 DEF Opens
  <2> QED BY <1>10, <2>1, <2>2, <2>3 DEF Opens
<1>11. ASSUME NEW s \in Sockets, Errs(s) PROVE FeedInv'
  <2>1. health' \in Lifecycles \ {"STALE"}
    BY <1>0, <1>11, TransitionStays DEF Errs
  <2>2. socket[s] \in Live
    BY <1>11 DEF Errs, Live
  <2>3. /\ socket' \in [Sockets -> {"unused", "opening", "open", "listening", "closing", "closed"}]
        /\ \A t \in Sockets : t # s => socket'[t] = socket[t]
    BY <1>11 DEF Errs
  <2> QED BY <1>11, <2>1, <2>2, <2>3 DEF Errs, Happens
<1>12. ASSUME NEW s \in Sockets, Closes(s) PROVE FeedInv'
  <2>1. health' \in Lifecycles \ {"STALE"}
    BY <1>0, <1>12, TransitionStays DEF Closes
  <2>2. /\ socket' \in [Sockets -> {"unused", "opening", "open", "listening", "closing", "closed"}]
        /\ \A t \in Sockets : t # s => socket'[t] = socket[t]
        /\ socket'[s] \notin Live
    BY <1>12 DEF Closes, Live
  <2> QED BY <1>12, <2>1, <2>2 DEF Closes, Happens
<1> QED BY <1>1, <1>2, <1>3, <1>4, <1>5, <1>6, <1>7, <1>8, <1>9, <1>10, <1>11, <1>12 DEF FeedStep

\* What the runner does to the feed: nothing, a packet, or the routing and the login.
LEMMA RunnerKeepsFeed ==
  ASSUME FeedInv, [Next]_vars, ~FeedStep
  PROVE  FeedInv'
<1> USE FeedAssumption DEF FeedInv, FeedTypeOK, SocketsKnown
<1>1. CASE UNCHANGED link
  BY <1>1 DEF link
<1>2. CASE StartSession
  BY <1>2 DEF StartSession, StartRouting
<1>3. CASE Stop \/ LoopEnds
  <2>1. /\ UNCHANGED <<adapter, dialling, socket, health>>
        /\ events' \in 0..MaxEvents
        /\ auth' = LoggedOut /\ router' = [router EXCEPT !.active = FALSE]
    BY <1>3 DEF Stop, LoopEnds, ShutDown, StopRouting, Logout, Happens
  <2>2. router' \in [active : BOOLEAN, handlers : Nat]
    BY <2>1
  <2>3. auth' \in [token : BOOLEAN, feed : BOOLEAN, authenticated : BOOLEAN]
    BY <2>1 DEF LoggedOut
  <2> QED BY <2>1, <2>2, <2>3
<1>4. ASSUME NEW s \in Sockets, TickArrives(s) PROVE FeedInv'
  BY <1>4 DEF TickArrives, ReceiveData, Happens
<1>5. CASE ForcedExit
  <2>1. /\ UNCHANGED <<adapter, dialling, socket, health>>
        /\ events' \in 0..MaxEvents
    BY <1>5 DEF ForcedExit, Happens
  <2>2. CASE UNCHANGED <<auth, router>>
    BY <2>1, <2>2
  <2>3. CASE ShutDown
    <3>1. auth' = LoggedOut /\ router' = [router EXCEPT !.active = FALSE]
      BY <2>3 DEF ShutDown, StopRouting, Logout
    <3>2. router' \in [active : BOOLEAN, handlers : Nat]
      BY <3>1
    <3>3. auth' \in [token : BOOLEAN, feed : BOOLEAN, authenticated : BOOLEAN]
      BY <3>1 DEF LoggedOut
    <3> QED BY <2>1, <3>2, <3>3
  <2> QED BY <1>5, <2>2, <2>3 DEF ForcedExit
<1> QED BY <1>1, <1>2, <1>3, <1>4, <1>5
     DEF Next, Main, StartLoop, Track, Minute, LoopIdle, LoopMarket, OnMarketTick, ReadCandle, LowerFlag, ZeroFields, TrackBranch,
         TrackFirst, TrackFlag, TrackNext, Ended, vars, feed

LEMMA FeedHolds == Spec => []FeedInv
<1>1. Init => FeedInv
  BY FeedStarts DEF Init
<1>2. FeedInv /\ [Next]_vars => FeedInv'
  BY FeedStepKeeps, RunnerKeepsFeed
<1> QED BY <1>1, <1>2, PTL DEF Spec

\* A socket that can still deliver ticks is the adapter's own or one whose close
\* raised, across refused logins, disconnects, reconnects and late callbacks (connect,
\* disconnect, reconnect of AngelOneAdapter), for any number of sockets and events.
THEOREM OneSocket == Spec => []OneLiveSocket
<1>1. FeedInv => OneLiveSocket
  BY DEF FeedInv, SocketsKnown, OneLiveSocket, Live
<1> QED BY <1>1, FeedHolds, PTL

-----------------------------------------------------------------------------
(* Types of the runner. *)

Ticks == [p : Nat, n : Nat]
Accumulators == [set : BOOLEAN, open : Ticks, high : Ticks, low : Ticks, close : Ticks]
Candles == [open : Ticks, high : Ticks, low : Ticks, close : Ticks, minute : Nat]
Places == {"login", "loop", "market", "read", "lower", "zero", "ended"}
Loops == [running : BOOLEAN, asked : BOOLEAN, session : BOOLEAN, last : Int, seen : Nat, at : Places]
Deliveries == [left : Nat, at : {"idle", "branch", "first", "flag", "next"}, price : Ticks]

\* A tick that is being delivered is one of those so far, and some tracker's turn.
InTurn ==
  IF tick.at = "idle" THEN tick = Quiet ELSE tick.left \in 1..trackers /\ tick.price.n \in 1..events

RunnerTypes ==
  /\ now \in 0..MaxMinute
  /\ runner \in Loops
  /\ acc \in Accumulators
  /\ trackers \in Nat
  /\ tick \in Deliveries
  /\ InTurn
  /\ buffer \in Seq(Candles) /\ Len(buffer) <= BufferMax

\* The last n of a sequence: so many at most, in their order.
LEMMA LastAreLast ==
  ASSUME NEW S, NEW s \in Seq(S), NEW n \in Nat \ {0}
  PROVE  /\ LastOf(s, n) \in Seq(S) /\ Len(LastOf(s, n)) <= n
         /\ \E k \in Nat : \A i \in DOMAIN LastOf(s, n) : i + k \in DOMAIN s /\ LastOf(s, n)[i] = s[i + k]
<1> DEFINE first == IF Len(s) > n THEN Len(s) - n + 1 ELSE 1
<1>1. first \in Nat /\ first >= 1 /\ first <= Len(s) + 1
  OBVIOUS
<1>2. LastOf(s, n) = SubSeq(s, first, Len(s))
  BY DEF LastOf
<1>3. Len(s) + 1 - first <= n
  OBVIOUS
<1> HIDE DEF first
<1>4. SubSeq(s, first, Len(s)) \in Seq(S) /\ Len(SubSeq(s, first, Len(s))) = Len(s) + 1 - first
  BY <1>1
<1>5. ASSUME NEW i \in DOMAIN LastOf(s, n)
      PROVE  i + (first - 1) \in DOMAIN s /\ LastOf(s, n)[i] = s[i + (first - 1)]
  BY <1>1, <1>2, <1>4
<1>6. first - 1 \in Nat
  BY <1>1
<1> QED BY <1>2, <1>3, <1>4, <1>5, <1>6

LEMMA RunnerStarts == Init => RunnerTypes
BY RunnerAssumption
   DEF Init, FeedInit, RunnerTypes, InTurn, Accumulators, Ticks, Empty, Zero, Quiet, NoCandle, Loops, Places, Deliveries

LEMMA LoopsMove ==
  ASSUME NEW r \in Loops, NEW at \in Places, NEW seen \in Nat, NEW last \in Int
  PROVE  /\ [r EXCEPT !.at = at, !.seen = seen] \in Loops
         /\ [r EXCEPT !.at = at, !.last = last] \in Loops
BY DEF Loops

LEMMA NoCandleIsInt == NoCandle \in Int
BY DEF NoCandle

LEMMA IndexIsInt == ASSUME NEW t \in Nat PROVE CandleIndex(t) \in Int
BY RunnerAssumption DEF CandleIndex

LEMMA EventsGrow ==
  ASSUME FeedInv, [Next]_vars
  PROVE  events' \in Nat /\ events' >= events
BY FeedAssumption
   DEF FeedInv, FeedTypeOK, Next, Main, Track, FeedStep, Minute, LoopIdle, LoopMarket, StartSession, OnMarketTick,
       ReadCandle, LowerFlag, ZeroFields, StartLoop, Stop, ForcedExit, LoopEnds, TrackBranch, TrackFirst, TrackFlag, TrackNext, TickArrives,
       ReceiveData, LoginRefused, SocketFails, Connect, Connected, Disconnect, Reconnect, SubscribeFeeds, RefreshToken,
       SubmitManual, Opens, Errs, Closes, Ended, Happens, vars, feed, link

LEMMA NextIsInTurn ==
  ASSUME RunnerTypes, tick.at # "idle", tick' = NextTracker
  PROVE  /\ tick' \in Deliveries
         /\ \/ tick' = Quiet
            \/ /\ tick'.at = "branch" /\ tick'.left \in 1..trackers /\ tick'.price = tick.price
               /\ trackers > 1
<1>1. CASE tick.left = 1
  BY <1>1 DEF NextTracker, Deliveries, Quiet, Zero, Ticks
<1>2. CASE tick.left # 1
  <2>1. tick.left \in 2..trackers /\ trackers \in Nat /\ tick \in Deliveries
    BY <1>2 DEF RunnerTypes, InTurn
  <2>2. tick' = [tick EXCEPT !.left = tick.left - 1, !.at = "branch"]
    BY <1>2 DEF NextTracker
  <2>3. tick' \in Deliveries
    <3>1. tick \in Deliveries /\ tick.left - 1 \in Nat
      BY <2>1
    <3> QED BY <2>2, <3>1 DEF Deliveries
  <2>4. tick'.at = "branch"
    BY <2>1, <2>2 DEF Deliveries
  <2>5. tick'.left = tick.left - 1
    <3>1. tick \in Deliveries
      BY <2>1
    <3> QED BY <2>2, <3>1 DEF Deliveries
  <2>6. tick'.price = tick.price
    BY <2>1, <2>2 DEF Deliveries
  <2> QED BY <2>1, <2>3, <2>4, <2>5, <2>6
<1> QED BY <1>1, <1>2

\* Every action keeps the types of what it writes.
LEMMA RunnerTyped ==
  ASSUME FeedInv, RunnerTypes, [Next]_vars
  PROVE  RunnerTypes'
<1> USE RunnerAssumption, FeedAssumption DEF RunnerTypes, InTurn
<1>0. events \in Nat /\ events' \in Nat /\ events' >= events
  BY EventsGrow DEF FeedInv, FeedTypeOK
<1>1. CASE Minute
  BY <1>0, <1>1 DEF Minute
<1>2. CASE LoopIdle
  <2>1. (IF runner.session THEN NoCandle ELSE runner.last) \in Int
    BY NoCandleIsInt DEF Loops
  <2>2. runner' \in Loops
    BY <1>2, <2>1 DEF LoopIdle, Loops
  <2> QED BY <1>0, <1>2, <2>2 DEF LoopIdle
<1>3. CASE LoopMarket
  <2>1. now \in Nat
    OBVIOUS
  <2>2. runner' \in Loops
    BY <1>3, <2>1 DEF LoopMarket, Loops, Places
  <2> QED BY <1>0, <1>3, <2>2 DEF LoopMarket
<1>4. CASE StartSession
  <2>1. runner' \in Loops
    BY <1>4, NoCandleIsInt DEF StartSession, Loops
  <2>2. trackers' = trackers + 1 /\ trackers' \in Nat
    BY <1>4 DEF StartSession
  <2>3. CASE tick = Quiet
    BY <1>4, <2>1, <2>2, <2>3 DEF StartSession, Quiet
  <2>4. CASE tick # Quiet
    <3>1. tick' = [tick EXCEPT !.left = tick.left + 1]
      BY <1>4, <2>4 DEF StartSession
    <3>2. tick' \in Deliveries /\ tick'.left = tick.left + 1 /\ tick'.at = tick.at /\ tick'.price = tick.price
      BY <3>1 DEF Deliveries
    <3>3. tick'.left \in 1..trackers' /\ tick'.price.n \in 1..events'
      BY <1>0, <2>2, <2>4, <3>2
    <3> QED BY <1>4, <2>1, <2>2, <2>4, <3>2, <3>3 DEF StartSession
  <2> QED BY <2>3, <2>4
<1>5. CASE OnMarketTick
  <2>1. CandleIndex(runner.seen) \in Int
    BY IndexIsInt DEF Loops
  <2>2. \/ runner' = [runner EXCEPT !.at = "read", !.last = CandleIndex(runner.seen)]
        \/ runner' = [runner EXCEPT !.at = "loop", !.seen = 0]
    BY <1>5 DEF OnMarketTick, BackToLoop
  <2>4. runner' \in Loops
    <3>1. {"read", "loop"} \subseteq Places /\ 0 \in Nat
      BY DEF Places
    <3>2. CASE runner' = [runner EXCEPT !.at = "read", !.last = CandleIndex(runner.seen)]
      BY <2>1, <3>1, <3>2, LoopsMove
    <3>3. CASE runner' = [runner EXCEPT !.at = "loop", !.seen = 0]
      BY <2>1, <3>1, <3>3, LoopsMove
    <3> QED BY <2>2, <3>2, <3>3
  <2> QED BY <1>0, <1>5, <2>4 DEF OnMarketTick
<1>6. CASE ReadCandle
  <2>1. runner' \in Loops
    BY <1>6 DEF ReadCandle, Goes, Loops, Places
  <2>2. Candle \in Candles
    BY DEF Candle, Candles, Accumulators, Loops
  <2>3. buffer' \in Seq(Candles) /\ Len(buffer') <= BufferMax
    <3>1. Append(buffer, Candle) \in Seq(Candles)
      BY <2>2
    <3>2. LastOf(Append(buffer, Candle), BufferMax) \in Seq(Candles)
          /\ Len(LastOf(Append(buffer, Candle), BufferMax)) <= BufferMax
      BY <3>1, LastAreLast
    <3> QED BY <1>6, <3>2 DEF ReadCandle
  <2> QED BY <1>0, <1>6, <2>1, <2>3 DEF ReadCandle
<1>7. CASE LowerFlag
  <2>1. runner' \in Loops
    BY <1>7 DEF LowerFlag, Goes, Loops, Places
  <2>2. acc' \in Accumulators
    BY <1>7 DEF LowerFlag, Accumulators
  <2> QED BY <1>0, <1>7, <2>1, <2>2 DEF LowerFlag
<1>8. CASE ZeroFields
  <2>1. runner' \in Loops
    BY <1>8 DEF ZeroFields, BackToLoop, Loops, Places
  <2>2. acc' \in Accumulators
    BY <1>8 DEF ZeroFields, Accumulators, Empty, Zero, Ticks
  <2> QED BY <1>0, <1>8, <2>1, <2>2 DEF ZeroFields
<1>9. CASE Stop
  <2>1. runner' \in Loops
    BY <1>9 DEF Stop, Loops
  <2> QED BY <1>0, <1>9, <2>1 DEF Stop
<1>17. CASE StartLoop
  <2>1. runner' \in Loops
    BY <1>17 DEF StartLoop, Loops, Places
  <2> QED BY <1>0, <1>17, <2>1 DEF StartLoop
<1>18. CASE ForcedExit
  <2>1. runner' \in Loops
    BY <1>18 DEF ForcedExit, Loops, Places
  <2> QED BY <1>0, <1>18, <2>1 DEF ForcedExit
<1>10. CASE LoopEnds
  <2>1. runner' \in Loops
    BY <1>10 DEF LoopEnds, Goes, Loops, Places
  <2> QED BY <1>0, <1>10, <2>1 DEF LoopEnds
<1>11. CASE TrackBranch
  BY <1>0, <1>11 DEF TrackBranch, Deliveries
<1>12. CASE TrackFirst
  <2>1. acc' \in Accumulators
    BY <1>12 DEF TrackFirst, FirstPrice, Accumulators, Deliveries
  <2>2. tick' \in Deliveries /\ tick'.at = "flag" /\ tick'.left = tick.left /\ tick'.price = tick.price
    BY <1>12 DEF TrackFirst, Deliveries
  <2> QED BY <1>0, <1>12, <2>1, <2>2 DEF TrackFirst
<1>13. CASE TrackFlag
  <2>1. acc' \in Accumulators
    BY <1>13 DEF TrackFlag, Accumulators
  <2>2. tick.at # "idle" /\ tick' = NextTracker
    BY <1>13 DEF TrackFlag
  <2> QED BY <1>0, <1>13, <2>1, <2>2, NextIsInTurn DEF TrackFlag, Quiet
<1>14. CASE TrackNext
  <2>1. acc' \in Accumulators
    BY <1>14 DEF TrackNext, NextPrice, Accumulators, Deliveries
  <2>2. tick.at # "idle" /\ tick' = NextTracker
    BY <1>14 DEF TrackNext
  <2> QED BY <1>0, <1>14, <2>1, <2>2, NextIsInTurn DEF TrackNext, Quiet
<1>15. ASSUME NEW s \in Sockets, TickArrives(s) PROVE RunnerTypes'
  <2>1. PICK p \in Prices :
          tick' = IF p = 0 \/ trackers = 0 THEN Quiet
                  ELSE [left |-> trackers, at |-> "branch", price |-> [p |-> p, n |-> events']]
    BY <1>15 DEF TickArrives
  <2>2. tick = Quiet /\ events' = events + 1
    BY <1>15 DEF TickArrives, ReceiveData, Happens
  <2>3. tick' \in Deliveries
    BY <1>0, <2>1 DEF Deliveries, Ticks, Quiet, Zero
  <2>4. IF tick'.at = "idle" THEN tick' = Quiet ELSE tick'.left \in 1..trackers /\ tick'.price.n \in 1..events'
    BY <1>0, <2>1, <2>2 DEF Quiet
  <2> QED BY <1>15, <2>3, <2>4 DEF TickArrives
<1>16. CASE UNCHANGED <<now, runner, acc, trackers, tick, buffer, closed>>
  BY <1>0, <1>16
<1> QED BY <1>1, <1>2, <1>3, <1>4, <1>5, <1>6, <1>7, <1>8, <1>9, <1>10, <1>11, <1>12, <1>13, <1>14, <1>15, <1>16, <1>17, <1>18
     DEF Next, Main, Track, FeedStep, Ended, vars

LEMMA RunnerHolds == Spec => [](FeedInv /\ RunnerTypes)
<1>1. Init => FeedInv /\ RunnerTypes
  BY FeedStarts, RunnerStarts DEF Init
<1>2. FeedInv /\ RunnerTypes /\ [Next]_vars => (FeedInv /\ RunnerTypes)'
  BY FeedStepKeeps, RunnerKeepsFeed, RunnerTyped
<1> QED BY <1>1, <1>2, PTL DEF Spec

\* The feed, the main loop, the accumulator and its buffer keep their types, for any
\* sockets, events, days and prices.
THEOREM RunnerTypesHold == Spec => []TypeOK
<1>1. FeedInv /\ RunnerTypes => TypeOK
  BY DEF FeedInv, RunnerTypes, TypeOK, Loops, Places
<1> QED BY <1>1, RunnerHolds, PTL

-----------------------------------------------------------------------------
(* Candles. *)

\* A tick that was written, while another or the same one is being delivered: with one
\* tracker it is older than that one until that one is written itself.
Past(x) ==
  /\ x.n <= events
  /\ tick.at # "idle" =>
       IF trackers > 1 \/ tick.at = "flag" THEN x.n <= tick.price.n ELSE x.n < tick.price.n

\* Where the accumulator has just been read, or never will be again.
Stale == {"lower", "zero", "ended"}

\* What the accumulator holds is in no candle yet, unless it has just been read.
Unread ==
  runner.at \notin Stale =>
    \A i \in DOMAIN buffer : \A x \in Fields(buffer[i]), y \in Fields(acc) : y.n # 0 => Before(x, y)

CandleInv ==
  /\ TicksInOneCandle
  /\ Unread
  /\ \A i \in DOMAIN buffer : \A x \in Fields(buffer[i]) : Past(x)
  /\ \A x \in Fields(acc) : Past(x)

\* The fields of candle and accumulator are ticks.
LEMMA FieldsAreTicks ==
  ASSUME RunnerTypes
  PROVE  /\ \A i \in DOMAIN buffer : \A x \in Fields(buffer[i]) : x \in Ticks
         /\ \A x \in Fields(acc) : x \in Ticks
<1>1. acc \in Accumulators /\ buffer \in Seq(Candles)
  BY DEF RunnerTypes
<1>2. \A x \in Fields(acc) : x \in Ticks
  BY <1>1 DEF Accumulators, Fields
<1>3. ASSUME NEW i \in DOMAIN buffer, NEW x \in Fields(buffer[i]) PROVE x \in Ticks
  <2>1. buffer[i] \in Candles
    BY <1>1, <1>3
  <2> QED BY <2>1 DEF Candles, Fields
<1> QED BY <1>2, <1>3

\* What is past stays past.
LEMMA PastStays ==
  ASSUME FeedInv, RunnerTypes, [Next]_vars, NEW x \in Ticks, Past(x)
  PROVE  Past(x)'
<1>0. /\ events \in Nat /\ events' \in Nat /\ events' >= events /\ trackers \in Nat /\ x.n \in Nat
      /\ tick \in Deliveries
  BY EventsGrow DEF FeedInv, FeedTypeOK, RunnerTypes, Ticks
<1>1. CASE UNCHANGED <<tick, trackers>>
  BY <1>0, <1>1 DEF Past
<1>2. CASE StartSession
  <2>1. trackers' = trackers + 1
    BY <1>2 DEF StartSession
  <2>2. tick' = tick \/ tick' = [tick EXCEPT !.left = @ + 1]
    BY <1>2 DEF StartSession
  <2>3. tick'.at = tick.at /\ tick'.price = tick.price
    BY <1>0, <2>2 DEF Deliveries
  <2>4. tick.price.n \in Nat
    BY <1>0 DEF Deliveries, Ticks
  <2> QED BY <1>0, <2>1, <2>3, <2>4 DEF Past
<1>3. CASE TrackBranch
  <2>1. tick'.at \in {"first", "next"} /\ tick'.price = tick.price /\ trackers' = trackers /\ tick.at = "branch"
    BY <1>0, <1>3 DEF TrackBranch, Deliveries
  <2> QED BY <1>0, <2>1 DEF Past
<1>4. CASE TrackFirst
  <2>1. tick'.at = "flag" /\ tick'.price = tick.price /\ trackers' = trackers /\ tick.at = "first"
    BY <1>0, <1>4 DEF TrackFirst, Deliveries
  <2>2. x.n <= tick.price.n
    BY <1>0, <2>1 DEF Past, Deliveries, Ticks
  <2> QED BY <1>0, <2>1, <2>2 DEF Past
<1>5. CASE TrackFlag \/ TrackNext
  <2>1. tick' = NextTracker /\ trackers' = trackers /\ tick.at # "idle"
    BY <1>5 DEF TrackFlag, TrackNext
  <2>2. tick' = Quiet \/ (tick'.price = tick.price /\ trackers > 1)
    BY <2>1, NextIsInTurn
  <2>3. x.n <= tick.price.n
    BY <1>0, <2>1 DEF Past, Deliveries, Ticks
  <2> QED BY <1>0, <2>1, <2>2, <2>3 DEF Past, Quiet
<1>6. ASSUME NEW s \in Sockets, TickArrives(s) PROVE Past(x)'
  <2>1. PICK p \in Prices :
          tick' = IF p = 0 \/ trackers = 0 THEN Quiet
                  ELSE [left |-> trackers, at |-> "branch", price |-> [p |-> p, n |-> events']]
    BY <1>6 DEF TickArrives
  <2>2. events' = events + 1 /\ trackers' = trackers
    BY <1>6 DEF TickArrives, ReceiveData, Happens
  <2>3. x.n <= events
    BY DEF Past
  <2>4. tick'.at # "idle" => tick'.price.n = events'
    BY <2>1 DEF Quiet
  <2> QED BY <1>0, <2>2, <2>3, <2>4 DEF Past
<1> QED BY <1>1, <1>2, <1>3, <1>4, <1>5, <1>6
     DEF Next, Main, Track, FeedStep, Minute, LoopIdle, LoopMarket, OnMarketTick, ReadCandle, LowerFlag, ZeroFields,
         StartLoop, Stop, ForcedExit, LoopEnds, Ended, vars

LEMMA TrackersGrow ==
  ASSUME FeedInv, RunnerTypes, [Next]_vars
  PROVE  trackers' \in Nat /\ trackers' >= trackers
BY DEF RunnerTypes, Next, Main, Track, FeedStep, Minute, LoopIdle, LoopMarket, StartSession, OnMarketTick, ReadCandle,
       LowerFlag, ZeroFields, StartLoop, Stop, ForcedExit, LoopEnds, TrackBranch, TrackFirst, TrackFlag, TrackNext, TickArrives, Ended, vars

\* A step that leaves the buffer alone, and in the accumulator what there was, nothing,
\* or the tick whose turn it is.
LEMMA KeepsCandles ==
  ASSUME FeedInv, RunnerTypes, CandleInv, [Next]_vars, buffer' = buffer,
         \A y \in Fields(acc') : \/ y \in Fields(acc)
                                 \/ y = Zero
                                 \/ y = tick.price /\ tick.at \in {"first", "next"} /\ Past(y)',
         \/ runner'.at \in Stale
         \/ runner.at \notin Stale
         \/ \A y \in Fields(acc') : y = Zero
  PROVE  CandleInv'
<1>0. /\ trackers \in Nat /\ trackers' \in Nat /\ trackers' >= trackers
      /\ \A i \in DOMAIN buffer : \A x \in Fields(buffer[i]) : x \in Ticks
      /\ \A x \in Fields(acc) : x \in Ticks
  BY TrackersGrow, FieldsAreTicks DEF RunnerTypes
<1>1. ASSUME NEW x \in Ticks, NEW y \in Ticks, Before(x, y) PROVE Before(x, y)'
  BY <1>0, <1>1 DEF Before, Ticks
<1>2. TicksInOneCandle'
  <2> SUFFICES ASSUME NEW i \in DOMAIN buffer, NEW j \in DOMAIN buffer, i < j,
                      NEW x \in Fields(buffer[i]), NEW y \in Fields(buffer[j]), y.n # 0
               PROVE  Before(x, y)'
    BY DEF TicksInOneCandle
  <2>1. Before(x, y)
    BY DEF CandleInv, TicksInOneCandle
  <2> QED BY <1>0, <1>1, <2>1
<1>3. \A i \in DOMAIN buffer' : \A x \in Fields(buffer'[i]) : Past(x)'
  <2> SUFFICES ASSUME NEW i \in DOMAIN buffer, NEW x \in Fields(buffer[i]) PROVE Past(x)'
    OBVIOUS
  <2>1. Past(x) /\ x \in Ticks
    BY <1>0 DEF CandleInv
  <2> QED BY <2>1, PastStays
<1>4. \A y \in Fields(acc') : Past(y)'
  <2> SUFFICES ASSUME NEW y \in Fields(acc') PROVE Past(y)'
    OBVIOUS
  <2>1. CASE y \in Fields(acc)
    <3>1. Past(y) /\ y \in Ticks
      BY <1>0, <2>1 DEF CandleInv
    <3> QED BY <3>1, PastStays
  <2>2. CASE y = Zero
    <3>1. RunnerTypes' /\ events' \in Nat
      BY RunnerTyped, EventsGrow
    <3>2. tick'.at # "idle" => tick'.price.n \in 1..events'
      BY <3>1 DEF RunnerTypes, InTurn
    <3> QED BY <2>2, <3>1, <3>2 DEF Past, Zero
  <2>3. CASE Past(y)'
    BY <2>3
  <2> QED BY <2>1, <2>2, <2>3
<1>5. Unread'
  <2> SUFFICES ASSUME runner'.at \notin Stale,
                      NEW i \in DOMAIN buffer, NEW x \in Fields(buffer[i]), NEW y \in Fields(acc'), y.n # 0
               PROVE  Before(x, y)'
    BY DEF Unread
  <2>1. y # Zero
    BY DEF Zero
  <2>2. runner.at \notin Stale
    BY <2>1
  <2>3. CASE y \in Fields(acc)
    <3>1. Before(x, y)
      BY <2>2, <2>3 DEF CandleInv, Unread
    <3> QED BY <1>0, <1>1, <2>3, <3>1
  <2>4. CASE y = tick.price /\ tick.at \in {"first", "next"}
    <3>1. Past(x) /\ x \in Ticks /\ y \in Ticks
      BY <1>0, <2>4 DEF CandleInv, RunnerTypes, Deliveries
    <3>2. Before(x, y)
      BY <2>4, <3>1 DEF Past, Before
    <3> QED BY <1>1, <3>1, <3>2
  <2> QED BY <2>1, <2>3, <2>4
<1> QED BY <1>2, <1>3, <1>4, <1>5 DEF CandleInv

\* The reading of a candle: its ticks are later than those of the candles before, and
\* the buffer keeps the last ones in their order.
LEMMA ReadingKeeps ==
  ASSUME FeedInv, RunnerTypes, CandleInv, ReadCandle
  PROVE  CandleInv'
<1> DEFINE b == Append(buffer, Candle)
<1>0. /\ acc' = acc /\ tick' = tick /\ trackers' = trackers /\ events' = events
      /\ runner.at = "read" /\ runner'.at = "lower"
      /\ buffer \in Seq(Candles) /\ BufferMax \in Nat \ {0}
  <2>1. runner' = [runner EXCEPT !.at = "lower"] /\ runner \in Loops
    BY DEF ReadCandle, Goes, RunnerTypes
  <2>2. runner'.at = "lower"
    BY <2>1 DEF Loops
  <2> QED BY <2>2, RunnerAssumption DEF ReadCandle, At, link, RunnerTypes
<1>1. \A x : Past(x)' <=> Past(x)
  BY <1>0 DEF Past
<1>2. \A x, y : Before(x, y)' <=> Before(x, y)
  BY <1>0 DEF Before
<1>3. CASE buffer' = buffer
  BY <1>0, <1>1, <1>2, <1>3 DEF CandleInv, Unread, Stale, TicksInOneCandle
<1>4. CASE buffer' = LastOf(b, BufferMax)
  <2>1. Fields(Candle) = Fields(acc)
    BY DEF Fields, Candle
  <2>2. Candle \in Candles
    BY DEF RunnerTypes, Candle, Candles, Accumulators, Loops
  <2>3. /\ b \in Seq(Candles) /\ Len(b) = Len(buffer) + 1 /\ b[Len(buffer) + 1] = Candle
        /\ \A i \in 1..Len(buffer) : b[i] = buffer[i]
        /\ DOMAIN b = 1..Len(buffer) + 1 /\ DOMAIN buffer = 1..Len(buffer)
    BY <1>0, <2>2
  <2> HIDE DEF b
  <2>4. \A i \in DOMAIN b : \A x \in Fields(b[i]) : Past(x)
    <3> SUFFICES ASSUME NEW i \in DOMAIN b, NEW x \in Fields(b[i]) PROVE Past(x)
      OBVIOUS
    <3>1. CASE i \in DOMAIN buffer
      BY <2>3, <3>1 DEF CandleInv
    <3>2. CASE i = Len(buffer) + 1
      BY <2>1, <2>3, <3>2 DEF CandleInv
    <3> QED BY <2>3, <3>1, <3>2
  <2>5. \A i, j \in DOMAIN b : i < j => \A x \in Fields(b[i]), y \in Fields(b[j]) : y.n # 0 => Before(x, y)
    <3> SUFFICES ASSUME NEW i \in DOMAIN b, NEW j \in DOMAIN b, i < j,
                        NEW x \in Fields(b[i]), NEW y \in Fields(b[j]), y.n # 0
                 PROVE  Before(x, y)
      OBVIOUS
    <3>1. i \in DOMAIN buffer /\ b[i] = buffer[i]
      BY <1>0, <2>3
    <3>2. CASE j \in DOMAIN buffer
      <4>1. b[j] = buffer[j]
        BY <2>3, <3>2
      <4> QED BY <3>1, <3>2, <4>1 DEF CandleInv, TicksInOneCandle
    <3>3. CASE j = Len(buffer) + 1
      <4>1. y \in Fields(acc)
        BY <2>1, <2>3, <3>3
      <4> QED BY <1>0, <3>1, <4>1 DEF CandleInv, Unread, Stale
    <3> QED BY <2>3, <3>2, <3>3
  <2>6. /\ buffer' \in Seq(Candles)
        /\ \E k \in Nat : \A i \in DOMAIN buffer' : i + k \in DOMAIN b /\ buffer'[i] = b[i + k]
    <3>1. /\ LastOf(b, BufferMax) \in Seq(Candles)
          /\ \E k \in Nat : \A i \in DOMAIN LastOf(b, BufferMax) :
               i + k \in DOMAIN b /\ LastOf(b, BufferMax)[i] = b[i + k]
      BY <1>0, <2>3, LastAreLast
    <3> QED BY <1>4, <3>1
  <2>7. PICK k \in Nat : \A i \in DOMAIN buffer' : i + k \in DOMAIN b /\ buffer'[i] = b[i + k]
    BY <2>6
  <2>8. \A i \in DOMAIN buffer' : \A x \in Fields(buffer'[i]) : Past(x)
    BY <2>4, <2>7
  <2>9. \A i, j \in DOMAIN buffer' : i < j =>
          \A x \in Fields(buffer'[i]), y \in Fields(buffer'[j]) : y.n # 0 => Before(x, y)
    <3> SUFFICES ASSUME NEW i \in DOMAIN buffer', NEW j \in DOMAIN buffer', i < j,
                        NEW x \in Fields(buffer'[i]), NEW y \in Fields(buffer'[j]), y.n # 0
                 PROVE  Before(x, y)
      OBVIOUS
    <3>1. i + k \in DOMAIN b /\ j + k \in DOMAIN b /\ buffer'[i] = b[i + k] /\ buffer'[j] = b[j + k]
      BY <2>7
    <3>2. i + k < j + k
      BY <2>6
    <3> QED BY <2>5, <3>1, <3>2
  <2> QED BY <1>0, <1>1, <1>2, <2>8, <2>9 DEF CandleInv, Unread, Stale, TicksInOneCandle
<1> QED BY <1>3, <1>4 DEF ReadCandle

LEMMA CandlesKeep ==
  ASSUME FeedInv, RunnerTypes, CandleInv, [Next]_vars
  PROVE  CandleInv'
<1>0. acc \in Accumulators /\ tick \in Deliveries /\ runner \in Loops
      /\ (tick.price.n <= events' \/ tick.at = "idle")
  BY EventsGrow DEF RunnerTypes, InTurn, FeedInv, FeedTypeOK
<1>1. acc \in Accumulators /\ tick \in Deliveries /\ runner \in Loops
  BY <1>0
<1>2. CASE ReadCandle
  BY <1>2, ReadingKeeps
<1>3. CASE acc' = acc /\ buffer' = buffer /\ (runner'.at \in Stale \/ runner.at \notin Stale)
  BY <1>3, KeepsCandles
<1>4. CASE TrackFirst
  <2>1. tick.at = "first" /\ buffer' = buffer /\ runner' = runner
    BY <1>4 DEF TrackFirst
  <2>2. PICK x \in Ticks : x = tick.price
    BY <1>1 DEF Deliveries
  <2>5. \A y \in Fields(acc') : y = x
    BY <2>2, <1>1, <1>4 DEF TrackFirst, FirstPrice, Fields, Accumulators
  <2>3. tick'.at = "flag" /\ tick'.price = tick.price
    BY <1>1, <1>4 DEF TrackFirst, Deliveries
  <2>4. Past(x)'
    BY <1>0, <1>1, <2>1, <2>2, <2>3 DEF Past, Ticks
  <2> QED BY <2>1, <2>2, <2>4, <2>5, KeepsCandles
<1>5. CASE TrackNext
  <2>1. tick.at = "next" /\ buffer' = buffer /\ runner' = runner /\ tick' = NextTracker
    BY <1>5 DEF TrackNext
  <2>2. PICK x \in Ticks : x = tick.price
    BY <1>1 DEF Deliveries
  <2>6. \A y \in Fields(acc') : y = x \/ y \in Fields(acc)
    BY <2>2, <1>1, <1>5 DEF TrackNext, NextPrice, Fields, Accumulators
  <2>3. tick' = Quiet \/ (tick'.price = tick.price /\ trackers > 1)
    BY <2>1, NextIsInTurn
  <2>4. trackers' = trackers
    BY <1>5 DEF TrackNext
  <2>5. Past(x)'
    BY <1>0, <1>1, <2>1, <2>2, <2>3, <2>4 DEF Past, Ticks, Quiet
  <2> QED BY <2>1, <2>2, <2>5, <2>6, KeepsCandles
<1>6. CASE TrackFlag \/ LowerFlag
  <2>1. buffer' = buffer /\ acc' \in {[acc EXCEPT !.set = TRUE], [acc EXCEPT !.set = FALSE]}
    BY <1>6 DEF TrackFlag, LowerFlag
  <2>2. Fields(acc') = Fields(acc)
    BY <1>1, <2>1 DEF Fields, Accumulators
  <2>3. runner' = runner \/ runner' = [runner EXCEPT !.at = "zero"]
    BY <1>6 DEF TrackFlag, LowerFlag, Goes
  <2>4. runner'.at = runner.at \/ runner'.at = "zero"
    BY <1>1, <2>3 DEF Loops
  <2>5. runner'.at \in Stale \/ runner.at \notin Stale
    BY <2>4 DEF Stale
  <2> QED BY <2>1, <2>2, <2>5, KeepsCandles
<1>7. CASE ZeroFields
  <2>1. buffer' = buffer /\ acc' = [Empty EXCEPT !.set = acc.set]
    BY <1>7 DEF ZeroFields
  <2>2. \A y \in Fields(acc') : y = Zero
    BY <2>1 DEF Fields, Empty
  <2> QED BY <2>1, <2>2, KeepsCandles
<1>8. CASE StartLoop \/ LoopIdle \/ LoopMarket \/ StartSession \/ OnMarketTick \/ Stop \/ ForcedExit \/ LoopEnds
  <2>1. acc' = acc /\ buffer' = buffer
    BY <1>8 DEF StartLoop, LoopIdle, LoopMarket, StartSession, OnMarketTick, Stop, ForcedExit, LoopEnds
  <2>2. runner.at \notin Stale \/ runner'.at \in Stale
    BY <1>1, <1>8 DEF StartLoop, LoopIdle, LoopMarket, StartSession, OnMarketTick, Stop, ForcedExit, LoopEnds, At, Loops, Stale
  <2> QED BY <1>3, <2>1, <2>2
<1>9. CASE UNCHANGED <<acc, buffer, runner>>
  BY <1>3, <1>9
<1> QED BY <1>2, <1>4, <1>5, <1>6, <1>7, <1>8, <1>9
     DEF Next, Main, Track, FeedStep, Minute, TrackBranch, TickArrives, Ended, vars

\* No tick is in two candles while one tracker is registered, and never an older tick in
\* a later one, wherever the two threads interleave (_on_candle_close, _track_price).
THEOREM CandlesApart == Spec => []TicksInOneCandle
<1>1. Init => CandleInv
  BY DEF Init, FeedInit, CandleInv, TicksInOneCandle, Unread, Past, Fields, Empty, Zero, Quiet
<1>2. FeedInv /\ RunnerTypes /\ CandleInv /\ [Next]_vars => CandleInv'
  BY CandlesKeep
<1>3. CandleInv => TicksInOneCandle
  BY DEF CandleInv
<1> QED BY <1>1, <1>2, <1>3, RunnerHolds, PTL DEF Spec

=============================================================================
