---------------------------- MODULE SystemRunner ----------------------------
(***************************************************************************)
(* The main loop and the price tracker, two threads on one candle          *)
(* accumulator, over the feed of Floor 1.  (system_runner.py.)             *)
(*                                                                         *)
(* The main thread goes round: look at the clock, start a session, close a *)
(* candle (read the accumulator, reset it, run the floors), light cycle.   *)
(* A socket's thread delivers ticks to every tracker registered so far.    *)
(* The steps are as coarse as they can be without hiding from one thread   *)
(* an order of assignments of the other.  One tick is delivered at a time: *)
(* two sockets' threads that call the tracker at once are not modelled.    *)
(***************************************************************************)
EXTENDS AngelOneFeed, Integers

CONSTANTS
  Prices,      \* prices of the index; 0 is a tick without one, or of another security
  MaxMinute,   \* bound: last minute of the clock
  DayLength,   \* minutes of a day, the first outside market hours
  BufferMax    \* CANDLE_BUFFER_MAX

ASSUME RunnerAssumption ==
  /\ Prices \subseteq Nat /\ 0 \in Prices
  /\ MaxMinute \in Nat
  /\ DayLength \in Nat /\ DayLength >= 2 /\ BufferMax \in Nat \ {0}

VARIABLES
  now,        \* the clock, in minutes
  runner,     \* _running, _session_started, _last_candle_index, where the main thread is;
              \* asked: shutdown_requested of the signal handler
  acc,        \* the accumulator: _candle_initialized and the fields
  trackers,   \* _track_price functions registered on the adapter
  tick,       \* the tick being delivered: trackers still to call, and where the present one is
  buffer,     \* _candle_buffer
  closed      \* history: the minute of the last candle close

vars == <<now, runner, acc, trackers, tick, buffer, closed, feed>>

-----------------------------------------------------------------------------
(* Clock. *)

\* _is_market_hours
IsMarketHours(t) == t % DayLength # 0

\* _get_candle_index
CandleIndex(t) == IF t % DayLength = 0 THEN 0 ELSE (t % DayLength) - 1

NoCandle == -1

Minute ==
  /\ now < MaxMinute
  /\ now' = now + 1
  /\ UNCHANGED <<runner, acc, trackers, tick, buffer, closed, link>>
  /\ NoPacket

-----------------------------------------------------------------------------
(* Accumulator.  A price carries the number of its event, for the properties. *)

Zero == [p |-> 0, n |-> 0]

Empty == [set |-> FALSE, open |-> Zero, high |-> Zero, low |-> Zero, close |-> Zero]

\* _track_price on the first tick of a candle, before it raises the flag
FirstPrice(a, x) == [a EXCEPT !.open = x, !.high = x, !.low = x, !.close = x]

\* _track_price on a later one
NextPrice(a, x) ==
  [a EXCEPT !.high = IF x.p > a.high.p THEN x ELSE a.high,
            !.low = IF a.low.p = 0 \/ x.p < a.low.p THEN x ELSE a.low,
            !.close = x]

Quiet == [left |-> 0, at |-> "idle", price |-> Zero]

\* A tick reaches the callbacks: the router's, then the trackers.
TickArrives(s) ==
  /\ tick = Quiet
  /\ ReceiveData(s)
  /\ \E p \in Prices :
       tick' = IF p = 0 \/ trackers = 0 THEN Quiet
               ELSE [left |-> trackers, at |-> "branch", price |-> [p |-> p, n |-> events']]
  /\ UNCHANGED <<now, runner, acc, trackers, buffer, closed>>

\* The present tracker is done.
NextTracker == IF tick.left = 1 THEN Quiet ELSE [tick EXCEPT !.left = @ - 1, !.at = "branch"]

TrackBranch ==
  /\ tick.at = "branch"
  /\ tick' = [tick EXCEPT !.at = IF acc.set THEN "next" ELSE "first"]
  /\ UNCHANGED <<now, runner, acc, trackers, buffer, closed, link>>
  /\ NoPacket

TrackFirst ==
  /\ tick.at = "first"
  /\ acc' = FirstPrice(acc, tick.price)
  /\ tick' = [tick EXCEPT !.at = "flag"]
  /\ UNCHANGED <<now, runner, trackers, buffer, closed, link>>
  /\ NoPacket

TrackFlag ==
  /\ tick.at = "flag"
  /\ acc' = [acc EXCEPT !.set = TRUE]
  /\ tick' = NextTracker
  /\ UNCHANGED <<now, runner, trackers, buffer, closed, link>>
  /\ NoPacket

TrackNext ==
  /\ tick.at = "next"
  /\ acc' = NextPrice(acc, tick.price)
  /\ tick' = NextTracker
  /\ UNCHANGED <<now, runner, trackers, buffer, closed, link>>
  /\ NoPacket

-----------------------------------------------------------------------------
(* Main thread. *)

At(place) == runner.at = place
Goes(place) == runner' = [runner EXCEPT !.at = place]

\* Back to the loop, by way of _run_light_cycle, which only reads the price.
BackToLoop == runner' = [runner EXCEPT !.at = "loop", !.seen = 0]

\* start, when _try_angel_one_login has returned: into the loop, whatever a signal's
\* stop() has set meanwhile
StartLoop ==
  /\ At("login") /\ dialling = "no"
  /\ runner' = [runner EXCEPT !.running = TRUE, !.at = "loop"]
  /\ UNCHANGED <<now, acc, trackers, tick, buffer, closed, link>>
  /\ NoPacket

\* _main_loop: one look at the clock, for the whole round
LoopIdle ==
  /\ At("loop") /\ runner.running /\ ~IsMarketHours(now)
  /\ runner' = [runner EXCEPT !.session = FALSE,
                              !.last = IF runner.session THEN NoCandle ELSE @]
  /\ UNCHANGED <<now, acc, trackers, tick, buffer, closed, link>>
  /\ NoPacket

LoopMarket ==
  /\ At("loop") /\ runner.running /\ IsMarketHours(now)
  /\ runner' = [runner EXCEPT !.at = "market", !.seen = now]
  /\ UNCHANGED <<now, acc, trackers, tick, buffer, closed, link>>
  /\ NoPacket

\* _start_session: the trackers and the router's handlers of earlier sessions stay,
\* and a tick that is being delivered reaches the new ones as well
StartSession ==
  /\ At("market") /\ ~runner.session
  /\ runner' = [runner EXCEPT !.session = TRUE, !.last = NoCandle]
  /\ StartRouting
  /\ trackers' = trackers + 1
  /\ IF tick = Quiet THEN UNCHANGED tick /\ NoPacket
     ELSE /\ tick' = [tick EXCEPT !.left = @ + 1]
          /\ handed' = <<LiveHandoff("spot_tick")>>
  /\ UNCHANGED <<now, acc, buffer, closed, auth, adapter, dialling, socket, health, events>>

\* _on_market_tick, once there is a session
OnMarketTick ==
  /\ At("market") /\ runner.session
  /\ IF CandleIndex(runner.seen) # runner.last
     THEN runner' = [runner EXCEPT !.at = "read", !.last = CandleIndex(runner.seen)]
     ELSE BackToLoop
  /\ UNCHANGED <<now, acc, trackers, tick, buffer, closed, link>>
  /\ NoPacket

\* Fault: the candle closes at _current_price, which a tick sets before it reaches
\* the accumulator.
CandleAtPrice == [open |-> acc.open, high |-> acc.high, low |-> acc.low,
                  close |-> IF tick = Quiet THEN acc.close ELSE tick.price,
                  minute |-> runner.seen]

Candle == [open |-> acc.open, high |-> acc.high, low |-> acc.low, close |-> acc.close,
           minute |-> runner.seen]

\* The last n of a sequence.
LastOf(s, n) == SubSeq(s, IF Len(s) > n THEN Len(s) - n + 1 ELSE 1, Len(s))

\* _on_candle_close: the candle read from the accumulator
ReadCandle ==
  /\ At("read")
  /\ buffer' = IF acc.set THEN LastOf(Append(buffer, Candle), BufferMax) ELSE buffer
  /\ closed' = runner.seen
  /\ Goes("lower")
  /\ UNCHANGED <<now, acc, trackers, tick, link>>
  /\ NoPacket

\* ... the flag of the accumulator lowered
LowerFlag ==
  /\ At("lower")
  /\ acc' = [acc EXCEPT !.set = FALSE]
  /\ Goes("zero")
  /\ UNCHANGED <<now, trackers, tick, buffer, closed, link>>
  /\ NoPacket

\* ... and its fields zeroed.  Floors 3 to 5 and Side A follow; whatever they
\* raise is caught here.
ZeroFields ==
  /\ At("zero")
  /\ acc' = [Empty EXCEPT !.set = acc.set]
  /\ BackToLoop
  /\ UNCHANGED <<now, trackers, tick, buffer, closed, link>>
  /\ NoPacket

\* What stop() does to the components; it leaves the adapter alone.
ShutDown == StopRouting /\ Logout

\* stop, called by the handler of a first signal, wherever the main thread is
Stop ==
  /\ ~At("ended") /\ ~runner.asked /\ Happens
  /\ runner' = [runner EXCEPT !.running = FALSE, !.asked = TRUE]
  /\ ShutDown
  /\ UNCHANGED <<now, acc, trackers, tick, buffer, closed, adapter, dialling, socket, health>>
  /\ NoPacket

\* A second signal: sys.exit, which leaves _main_loop by way of its finally, and
\* start() before it without another stop.
ForcedExit ==
  /\ ~At("ended") /\ runner.asked /\ Happens
  /\ runner' = [runner EXCEPT !.running = FALSE, !.at = "ended"]
  /\ IF At("login") THEN UNCHANGED <<auth, router>> ELSE ShutDown
  /\ UNCHANGED <<now, acc, trackers, tick, buffer, closed, adapter, dialling, socket, health>>
  /\ NoPacket

\* Fault: the loop ends without a stop of its own.
LoopJustEnds ==
  /\ At("loop") /\ ~runner.running
  /\ Goes("ended")
  /\ UNCHANGED <<now, acc, trackers, tick, buffer, closed, link>>
  /\ NoPacket

\* _main_loop's finally
LoopEnds ==
  /\ At("loop") /\ ~runner.running
  /\ Goes("ended")
  /\ ShutDown
  /\ UNCHANGED <<now, acc, trackers, tick, buffer, closed, adapter, dialling, socket, health, events>>
  /\ NoPacket

-----------------------------------------------------------------------------

Init ==
  /\ FeedInit
  /\ now = 0
  /\ runner = [running |-> FALSE, asked |-> FALSE, session |-> FALSE, last |-> NoCandle,
               seen |-> 0, at |-> "login"]
  /\ acc = Empty
  /\ trackers = 0
  /\ tick = Quiet
  /\ buffer = <<>>
  /\ closed = 0

\* The adapter's owner, the sockets' threads and the SDK, the login.
FeedStep ==
  /\ \/ LoginRefused \/ SocketFails \/ Connect \/ Connected \/ Disconnect \/ Reconnect
     \/ SubscribeFeeds \/ RefreshToken \/ SubmitManual
     \/ \E s \in Sockets : Opens(s) \/ Errs(s) \/ Closes(s)
  /\ UNCHANGED <<now, runner, acc, trackers, tick, buffer, closed>>

Track == TrackBranch \/ TrackFirst \/ TrackFlag \/ TrackNext

Main ==
  \/ StartLoop \/ LoopIdle \/ LoopMarket \/ StartSession \/ OnMarketTick \/ ReadCandle \/ LowerFlag
  \/ ZeroFields \/ LoopEnds

\* The program has ended.
Ended == At("ended") /\ UNCHANGED vars

Next ==
  \/ Minute
  \/ Main \/ Stop \/ ForcedExit
  \/ Track
  \/ \E s \in Sockets : TickArrives(s)
  \/ FeedStep
  \/ Ended

\* The operating system runs the main thread.
Spec == Init /\ [][Next]_vars /\ WF_vars(Main)

-----------------------------------------------------------------------------
(* Properties. *)

Fields(c) == {c.open, c.high, c.low, c.close}

\* Price x came before price y; two trackers are each given the same tick.
Before(x, y) == IF trackers > 1 THEN x.n <= y.n ELSE x.n < y.n

\* No tick is part of two candles, although the accumulator is read and reset in
\* three steps between which the socket's thread may write to it: every tick in a
\* later candle came after every tick in an earlier one.  That holds with the one
\* tracker of a first session; each further session adds a tracker that is given the
\* same tick, which may then be in two candles, and an older one still may not.
\* (_on_candle_close, _track_price)
TicksInOneCandle ==
  \A i, j \in DOMAIN buffer : i < j =>
    \A x \in Fields(buffer[i]), y \in Fields(buffer[j]) : y.n # 0 => Before(x, y)

\* A socket that can still deliver ticks is the adapter's own, or one whose close
\* raised: refused logins, disconnects, reconnects and late callbacks never leave
\* another one behind, which would deliver every tick a second time.
\* (AngelOneAdapter.connect, disconnect, reconnect)
OneLiveSocket ==
  \A s \in Sockets :
    socket[s] \in {"opening", "open", "listening"} => s = adapter.ws \/ s \in adapter.lost

\* A stop asked for at any point after start() has set _running ends the loop, with
\* the routing stopped for good even if a session was just being started.  (A stop
\* during the login is undone: start() sets _running when it is over.)
\* (stop, _main_loop)
StopEnds ==
  ~runner.running /\ ~At("login") ~> [](At("ended") /\ ~router.active)

\* start_routing's docstring: "Safe to call multiple times - duplicate callbacks are
\* not added": Floor 2 gets a packet once.  (IngressRouter.start_routing)
RoutedOnce == Len(handed) <= 1

TypeOK ==
  /\ FeedTypeOK
  /\ now \in 0..MaxMinute
  /\ runner.at \in {"login", "loop", "market", "read", "lower", "zero", "ended"}
  /\ trackers \in Nat
  /\ Len(buffer) <= BufferMax

=============================================================================
