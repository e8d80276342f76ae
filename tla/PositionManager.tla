--------------------------- MODULE PositionManager ---------------------------
(***************************************************************************)
(* side_a_execution/position_manager.py with what the orchestrator never   *)
(* calls: trailing stop, breakeven and the mark to market, next to fills   *)
(* and exits, in whatever order a client may call them.  Prices are in     *)
(* ticks, so that trail distances and profits need no tick size.           *)
(***************************************************************************)
EXTENDS Positions

CONSTANTS
  Prices,     \* bound: fill, exit, market and activation prices
  Ticks,      \* bound: trail distances and breakeven activations
  MaxUnits    \* bound: units ever filled for one trade

ASSUME ManagerAssumption ==
  /\ Prices \subseteq Nat \ {0}
  /\ Ticks \subseteq Nat \ {0}
  /\ MaxUnits \in Nat

VARIABLES
  pos,        \* _positions
  trail,      \* _trailing_stops
  breakeven,  \* _breakeven_states: activation ticks, or a state of its own
  cache,      \* _unrealized_cache
  cash,       \* history: money received for the trade less money paid
  units       \* history: units ever filled

vars == <<pos, trail, breakeven, cache, cash, units>>

\* Not configured; and breakeven's is_active.
NoTrail == [set |-> FALSE, active |-> FALSE, from |-> 0, dist |-> 0, best |-> 0, stop |-> 0]
Unset == 0
Triggered == -1

Init ==
  /\ pos = InitPositions
  /\ trail = [t \in Trades |-> NoTrail]
  /\ breakeven = [t \in Trades |-> Unset]
  /\ cache = [t \in Trades |-> 0]
  /\ cash = [t \in Trades |-> 0]
  /\ units = [t \in Trades |-> 0]

SideOf(t) == Sign(pos[t].direction)

-----------------------------------------------------------------------------
(* Fills and exits. *)

Pays(t, amount) == cash' = [cash EXCEPT ![t] = @ - amount]

\* open_position
Open(t, direction, q, price) ==
  /\ ~Exists(pos, t)
  /\ ActivePositions(pos) = {}
  /\ q <= MaxUnits
  /\ pos' = OpenPosition(pos, t, direction, q, price)
  /\ Pays(t, Sign(direction) * q * price)
  /\ units' = [units EXCEPT ![t] = q]
  /\ UNCHANGED <<trail, breakeven, cache>>

\* The average stays a whole number of ticks (bound).
ExactAverage(t, q, price) == (pos[t].qty * pos[t].avg + q * price) % (pos[t].qty + q) = 0

\* update_fill, in every status of the position.
Fill(t, q, price) ==
  /\ Exists(pos, t)
  /\ units[t] + q <= MaxUnits
  /\ ExactAverage(t, q, price)
  /\ pos' = UpdateFill(pos, t, q, price)
  /\ Pays(t, SideOf(t) * q * price)
  /\ units' = [units EXCEPT ![t] = @ + q]
  /\ UNCHANGED <<trail, breakeven, cache>>

\* partial_exit, in every status of the position.
ExitPart(t, q, price) ==
  /\ Exists(pos, t)
  /\ q <= pos[t].qty
  /\ pos' = PartialExit(pos, t, q, price)
  /\ Pays(t, -(SideOf(t) * q * price))
  /\ UNCHANGED <<trail, breakeven, cache, units>>

\* close_position of q units: trail and breakeven go, the cache stays.
Close(t, q, price) ==
  /\ Exists(pos, t)
  /\ q <= pos[t].qty
  /\ pos' = ClosePosition(pos, t, q, price)
  /\ Pays(t, -(SideOf(t) * q * price))
  /\ trail' = [trail EXCEPT ![t] = NoTrail]
  /\ breakeven' = [breakeven EXCEPT ![t] = Unset]
  /\ UNCHANGED <<cache, units>>

Unrealised(t, price) == Pnl(pos[t].direction, pos[t].avg, price, pos[t].qty)

\* Fault: the whole unrealised profit is added at every mark.
MarkAgain(t, price) ==
  /\ Exists(pos, t)
  /\ pos' = [pos EXCEPT ![t].pnl = @ + Unrealised(t, price)]
  /\ cache' = [cache EXCEPT ![t] = Unrealised(t, price)]
  /\ UNCHANGED <<trail, breakeven, cash, units>>

\* update_unrealized_pnl: what has been added for the last mark is replaced.
Mark(t, price) ==
  /\ Exists(pos, t)
  /\ pos' = [pos EXCEPT ![t].pnl = @ + (Unrealised(t, price) - cache[t])]
  /\ cache' = [cache EXCEPT ![t] = Unrealised(t, price)]
  /\ UNCHANGED <<trail, breakeven, cash, units>>

-----------------------------------------------------------------------------
(* Stops. *)

\* set_sl by the client.
MoveStop(t, price) ==
  /\ Exists(pos, t)
  /\ pos' = SetSl(pos, t, price)
  /\ UNCHANGED <<trail, breakeven, cache, cash, units>>

\* activate_trail: once per trade, until the position is closed.
ActivateTrail(t, price, distance) ==
  /\ Exists(pos, t)
  /\ ~trail[t].set
  /\ trail' = [trail EXCEPT ![t] =
       [set |-> TRUE, active |-> FALSE, from |-> price, dist |-> distance,
        best |-> price, stop |-> price - SideOf(t) * distance]]
  /\ UNCHANGED <<pos, breakeven, cache, cash, units>>

\* Price p is better for trade t than price q.
Better(t, p, q) == SideOf(t) * (p - q) > 0

\* Fault: a short position's trail tracks the highest price as well.
BestHighest(t, price) == IF price > trail[t].best THEN price ELSE trail[t].best

\* highest_price_since_activation, the lowest one of a short position.
Best(t, price) == IF Better(t, price, trail[t].best) THEN price ELSE trail[t].best

\* The stop of an active trail moves behind the best price, to the better only.
Stop(t, price) ==
  LET new == Best(t, price) - SideOf(t) * trail[t].dist IN
  IF Better(t, new, trail[t].stop) THEN new ELSE trail[t].stop

\* update_trail: an active trail overwrites the stop-loss of the position.
UpdateTrail(t, price) ==
  /\ trail[t].set
  /\ LET active == trail[t].active \/ ~Better(t, trail[t].from, price)
         stop == IF active THEN Stop(t, price) ELSE trail[t].stop
     IN  /\ trail' = [trail EXCEPT ![t].active = active,
                                   ![t].best = Best(t, price),
                                   ![t].stop = stop]
         /\ pos' = IF active THEN [pos EXCEPT ![t].sl = stop] ELSE pos
  /\ UNCHANGED <<breakeven, cache, cash, units>>

\* activate_breakeven
ActivateBreakeven(t, ticks) ==
  /\ Exists(pos, t)
  /\ breakeven[t] = Unset
  /\ breakeven' = [breakeven EXCEPT ![t] = ticks]
  /\ UNCHANGED <<pos, trail, cache, cash, units>>

\* check_breakeven, where it triggers: the stop-loss moves to the entry price.
CheckBreakeven(t, price) ==
  /\ breakeven[t] > 0
  /\ SideOf(t) * (price - pos[t].avg) >= breakeven[t]
  /\ breakeven' = [breakeven EXCEPT ![t] = Triggered]
  /\ pos' = [pos EXCEPT ![t].sl = pos[t].avg]
  /\ UNCHANGED <<trail, cache, cash, units>>

Traded(t, q, price) ==
  \/ \E direction \in {"BUY", "SELL"} : Open(t, direction, q, price)
  \/ Fill(t, q, price) \/ ExitPart(t, q, price) \/ Close(t, q, price)

Watched(t, price) ==
  \/ Mark(t, price) \/ MoveStop(t, price) \/ UpdateTrail(t, price) \/ CheckBreakeven(t, price)
  \/ \E n \in Ticks : ActivateTrail(t, price, n) \/ ActivateBreakeven(t, n)

Next ==
  \E t \in Trades, price \in Prices :
    Watched(t, price) \/ \E q \in 1..MaxUnits : Traded(t, q, price)

Spec == Init /\ [][Next]_vars

-----------------------------------------------------------------------------
(* Properties. *)

TypeOK ==
  /\ pos \in [Trades -> [status : PositionStatuses, direction : {"BUY", "SELL"}, qty : Nat,
                         avg : Int, sl : Int, pnl : Int]]
  /\ trail \in [Trades -> [set : BOOLEAN, active : BOOLEAN, from : Int, dist : Int,
                           best : Int, stop : Int]]
  /\ breakeven \in [Trades -> Int]
  /\ cache \in [Trades -> Int]
  /\ cash \in [Trades -> Int]
  /\ units \in [Trades -> 0..MaxUnits]

\* The books balance: what the manager calls profit, less the part of it that was
\* only marked to market, is the money the trade has moved plus what is left of
\* the position at its average price, for long and short, through averaging fills,
\* part exits, closes of a part, fills after a close and any number of marks.
BooksBalance ==
  \A t \in Trades : pos[t].pnl - cache[t] = cash[t] + SideOf(t) * pos[t].qty * pos[t].avg

\* A trailing stop is its distance behind the best price since it was configured,
\* also when it became active later, or the position was averaged or reduced
\* meanwhile (update_trail reuses highest_price_since_activation for the lowest).
TrailBehindBest ==
  \A t \in Trades : trail[t].set => trail[t].stop = trail[t].best - SideOf(t) * trail[t].dist

\* A trailing stop never moves away from the market: not when the price turns, nor
\* when the trail only becomes active (update_trail).
TrailTightens ==
  [][\A t \in Trades : trail[t].set /\ trail'[t].set =>
       SideOf(t) * (trail'[t].stop - trail[t].stop) >= 0]_vars

=============================================================================
