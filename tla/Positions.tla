----------------------------- MODULE Positions -----------------------------
(***************************************************************************)
(* side_a_execution/position_manager.py: the positions by trade, as        *)
(* operators from the manager's positions p to what a call leaves behind.  *)
(* A call whose arguments it refuses raises and leaves p as it was: the    *)
(* operators are p itself then.  Prices and averages are integers; the     *)
(* instances choose prices whose averages are exact.                       *)
(***************************************************************************)
EXTENDS Integers

CONSTANT Trades    \* trade ids

NoPrice == 0

\* No position yet: the trade is not in _positions.
NoPosition ==
  [status |-> "none", direction |-> "BUY", qty |-> 0, avg |-> NoPrice,
   sl |-> NoPrice, pnl |-> 0]

PositionStatuses == {"none", "OPEN", "PARTIALLY_CLOSED", "CLOSED"}

PositionBooks ==
  [Trades -> [status : PositionStatuses, direction : {"BUY", "SELL"}, qty : Nat, avg : Int,
              sl : Nat, pnl : Int]]

InitPositions == [t \in Trades |-> NoPosition]

Exists(p, t) == p[t].status # "none"

IsOpen(position) == position.status \in {"OPEN", "PARTIALLY_CLOSED"}

\* get_active_positions
ActivePositions(p) == {t \in Trades : IsOpen(p[t])}

\* _direction_multiplier and calculate_pnl
Sign(direction) == IF direction = "BUY" THEN 1 ELSE -1
Pnl(direction, entry, exit, q) == (exit - entry) * q * Sign(direction)

\* The record open_position creates.
Opened(d, q, price) ==
  [status |-> "OPEN", direction |-> d, qty |-> q, avg |-> price, sl |-> NoPrice, pnl |-> 0]

\* Fault: the one-trade rule is not enforced.
OpenPositionAnyway(p, t, direction, q, price) ==
  IF Exists(p, t) \/ q <= 0 \/ price <= 0 THEN p
  ELSE [p EXCEPT ![t] = Opened(direction, q, price)]

\* open_position: one position per trade, one active position at a time.
OpenPosition(p, t, direction, q, price) ==
  IF Exists(p, t) \/ ActivePositions(p) # {} \/ q <= 0 \/ price <= 0 THEN p
  ELSE [p EXCEPT ![t] = Opened(direction, q, price)]

\* update_fill: the average is weighted by quantity.
UpdateFill(p, t, q, price) ==
  IF ~Exists(p, t) \/ q <= 0 THEN p
  ELSE [p EXCEPT ![t].qty = @ + q,
                 ![t].avg = (p[t].qty * p[t].avg + q * price) \div (p[t].qty + q)]

\* set_sl
SetSl(p, t, price) ==
  IF ~Exists(p, t) \/ price <= 0 THEN p ELSE [p EXCEPT ![t].sl = price]

\* partial_exit; an exit of everything that is left stays PARTIALLY_CLOSED.
PartialExit(p, t, q, price) ==
  IF ~Exists(p, t) \/ q <= 0 \/ price <= 0 \/ q > p[t].qty THEN p
  ELSE [p EXCEPT ![t].qty = @ - q,
                 ![t].status = "PARTIALLY_CLOSED",
                 ![t].pnl = @ + Pnl(p[t].direction, p[t].avg, price, q)]

\* close_position; the position is CLOSED whatever quantity is left.
ClosePosition(p, t, q, price) ==
  IF ~Exists(p, t) \/ q <= 0 \/ price <= 0 \/ q > p[t].qty THEN p
  ELSE [p EXCEPT ![t].qty = @ - q,
                 ![t].status = "CLOSED",
                 ![t].pnl = @ + Pnl(p[t].direction, p[t].avg, price, q)]

=============================================================================
