--------------------------- MODULE OrderLifecycle ---------------------------
(***************************************************************************)
(* side_a_execution/order_lifecycle_manager.py: the records of the entry   *)
(* orders with their table of transitions, and the stop-loss and target    *)
(* orders linked to them.  Operators from the manager's state m to what a  *)
(* call leaves behind; a call that raises is caught by its callers, so it  *)
(* leaves what it had done so far.                                         *)
(***************************************************************************)
EXTENDS Naturals

CONSTANTS
  Trades,       \* trade ids
  EntryIds,     \* order ids of entry orders
  NoTrade,
  OrderQty      \* the quantity an entry order is registered with

Terminal == {"FILLED", "CANCELLED", "REJECTED", "EXPIRED"}

OrderStates ==
  Terminal \cup {"unregistered", "PLACED", "ACKNOWLEDGED", "PARTIAL_FILL", "MODIFIED"}

\* _VALID_TRANSITIONS; FILLED -> CANCELLED is in the table but behind the check
\* for terminal states.
ValidTransitions ==
  [PLACED       |-> {"ACKNOWLEDGED", "REJECTED", "CANCELLED"},
   ACKNOWLEDGED |-> {"PARTIAL_FILL", "FILLED", "REJECTED", "CANCELLED", "EXPIRED"},
   PARTIAL_FILL |-> {"FILLED", "MODIFIED", "CANCELLED"},
   MODIFIED     |-> {"PARTIAL_FILL", "FILLED", "CANCELLED", "REJECTED"}]

\* The manager: the entry orders; the quantity of the orders SL_<trade> and
\* TGT_<trade>, which are registered together, 0 when they are not; and for each
\* entry order the linkage to a trade's SL and TGT orders.
NoLink == [trade |-> NoTrade, qty |-> 0]

Managers ==
  [order : [EntryIds -> [trade : Trades \cup {NoTrade}, state : OrderStates, filled : Nat]],
   legs  : [Trades -> Nat],
   link  : [EntryIds -> [trade : Trades \cup {NoTrade}, qty : Nat]]]

InitManager ==
  [order |-> [o \in EntryIds |-> [trade |-> NoTrade, state |-> "unregistered", filled |-> 0]],
   legs  |-> [t \in Trades |-> 0],
   link  |-> [o \in EntryIds |-> NoLink]]

Registered(m, o) == m.order[o].state # "unregistered"
Linked(m, o) == m.link[o] # NoLink

\* register_order for an entry order.
RegisterOrder(m, o, t) ==
  IF Registered(m, o) THEN m
  ELSE [m EXCEPT !.order[o] = [trade |-> t, state |-> "PLACED", filled |-> 0]]

\* Whether update_state reaches state s without raising.
CanMove(m, o, s) ==
  LET now == m.order[o].state IN
  \/ Registered(m, o) /\ now = s
  \/ now \in DOMAIN ValidTransitions /\ s \in ValidTransitions[now]

\* update_state
UpdateState(m, o, s) ==
  IF CanMove(m, o, s) THEN [m EXCEPT !.order[o].state = s] ELSE m

\* adjust_sl_tgt_quantities
AdjustLink(m, o, q) == IF Linked(m, o) THEN [m EXCEPT !.link[o].qty = q] ELSE m

\* handle_partial_fill: filled_qty is set before update_state, which raises when
\* the order was never acknowledged; the linkage is then not adjusted.
HandlePartialFill(m, o, n) ==
  IF ~Registered(m, o) \/ n > OrderQty \/ m.order[o].state \in Terminal THEN m
  ELSE LET target == IF n = OrderQty THEN "FILLED" ELSE "PARTIAL_FILL"
           d == [m EXCEPT !.order[o].filled = n]
       IN  IF CanMove(d, o, target)
             THEN AdjustLink(UpdateState(d, o, target), o, n) ELSE d

-----------------------------------------------------------------------------
(* protection_model.py on top of it. *)

\* Fault: the linkage has the quantity of the order, not of the position.
StageProtectionOfOrder(m, t, o, q) ==
  IF m.legs[t] # 0 \/ ~Registered(m, o) \/ Linked(m, o) THEN [book |-> m, raised |-> TRUE]
  ELSE [book |-> [m EXCEPT !.legs[t] = q, !.link[o] = [trade |-> t, qty |-> OrderQty]],
        raised |-> FALSE]

\* stage_protection for q units of trade t: the two orders are registered, then
\* linked to the entry order o.
StageProtection(m, t, o, q) ==
  IF m.legs[t] # 0 THEN [book |-> m, raised |-> TRUE]
  ELSE LET d == [m EXCEPT !.legs[t] = q] IN
       IF ~Registered(m, o) \/ Linked(m, o) THEN [book |-> d, raised |-> TRUE]
       ELSE [book |-> [d EXCEPT !.link[o] = [trade |-> t, qty |-> q]], raised |-> FALSE]

=============================================================================
