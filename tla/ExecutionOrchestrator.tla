------------------------ MODULE ExecutionOrchestrator ------------------------
(***************************************************************************)
(* side_a_execution/execution_orchestrator.py: one decision's way through  *)
(* mode router, risk gate, state machine, execution core, order lifecycle  *)
(* manager, position manager and protection model, and everything that may *)
(* happen to it on the way.  An action is one call of the orchestrator,    *)
(* with all it changes in the modules it calls: the orchestrator runs in   *)
(* one thread.  What interleaves is the order of the calls and the broker. *)
(***************************************************************************)
EXTENDS ExecutionCore

CONSTANTS
  Trades,          \* trade ids; a decision is named by the trade it asks for
  NoTrade,
  Action,          \* a decision's direction, BUY or SELL
  PlanSl,          \* a decision's stop-loss price
  FillPrice,       \* bound: every fill has this price
  Sls,             \* bound: stop-loss prices operator and broker may give
  LotUnits,        \* units in one lot; every order is for one lot
  Modes,           \* bound: execution modes the operator chooses from
  Weathers,        \* bound: what may disturb trades together, sets of Disturbing
  SharedManagers   \* whether the protection model and the reconciliation
                   \* engine hold the orchestrator's own managers

Disturbing ==
  {"partial",      \* the broker fills an order in parts
   "rejection",    \* it rejects or refuses orders
   "remainder",    \* it rejects what is left of an order it has filled in part
   "outage",       \* reports of fills are lost, and the connection comes back
   "emergency",    \* trigger_emergency
   "switch",       \* activate_kill_switch
   "override",     \* process_override
   "eod"}          \* check_eod_close

ASSUME OrchestratorAssumption ==
  /\ NoTrade \notin Trades
  /\ Action \in [Trades -> {"BUY", "SELL"}]
  /\ PlanSl \in [Trades -> Nat \ {0}]
  /\ FillPrice \in Nat \ {0}
  /\ Sls \subseteq Nat \ {0}
  /\ LotUnits \in Nat \ {0}
  /\ Modes \subseteq {"ALERT", "PAPER", "REAL"} /\ Modes # {}
  /\ Weathers \subseteq SUBSET Disturbing
  /\ SharedManagers \in BOOLEAN

VARIABLES
  sm,          \* ExecutionStateMachine.state
  core,        \* ExecutionCore's tables and circuit breaker
  orderTrade,  \* trade_id of the order submissions in ExecutionCore._orders
  olm,         \* OrderLifecycleManager
  pos,         \* PositionManager._positions
  cur,         \* _current_trade_id, _current_intent, _primary_order_id and
               \* _protection_staged of the orchestrator
  seen,        \* decisions whose fingerprint has been registered; it expires no
               \* sooner than the decision turns stale (module RiskGate)
  esc,         \* _escalation_level
  ks,          \* level of the injected KillSwitch
  mode,        \* ModeRouter._mode
  broker,      \* what the broker knows of each order (external)
  held,        \* units of each trade the broker holds; no exit reaches it (external)
  weather      \* what may disturb the trades of this behaviour (external)

vars == <<sm, core, orderTrade, olm, pos, cur, seen, esc, ks, mode, broker, held,
          weather>>

Olm == INSTANCE OrderLifecycle WITH EntryIds <- OrderIds, OrderQty <- 1
Pm == INSTANCE Positions

NoTracking == [trade |-> NoTrade, intent |-> NoTrade, order |-> NoOrder, staged |-> FALSE]

NotAnOrder == [open |-> FALSE, filled |-> 0]

Init ==
  /\ sm = "IDLE"
  /\ core = InitCore
  /\ orderTrade = [o \in OrderIds |-> NoTrade]
  /\ olm = Olm!InitManager
  /\ pos = Pm!InitPositions
  /\ cur = NoTracking
  /\ seen = {}
  /\ esc = "NORMAL"
  /\ ks = "NORMAL"
  /\ mode \in Modes
  /\ broker = [o \in OrderIds |-> NotAnOrder]
  /\ held = [t \in Trades |-> 0]
  /\ weather \in Weathers

-----------------------------------------------------------------------------
(* receive_decision. *)

\* RiskGate.evaluate for the decision about trade t: check 8 asks the kill
\* switch in REAL mode, check 9 the fingerprints; `others' says how the checks
\* come out whose inputs the caller brings along.
Passes(t, others) ==
  /\ others
  /\ mode = "REAL" => ks = "NORMAL"
  /\ t \notin seen

\* ALERT has no execution path.
DecisionAlerted(t) ==
  /\ CanReceiveNewIntent(sm)
  /\ mode = "ALERT"
  /\ cur' = [cur EXCEPT !.intent = t]
  /\ UNCHANGED <<sm, core, orderTrade, olm, pos, seen, esc, ks, mode, broker, held>>

\* The risk gate blocks it, or the state machine, which takes intents only when
\* IDLE, refuses what can_receive_new_intent has let through.
DecisionStopped(t) ==
  /\ CanReceiveNewIntent(sm)
  /\ mode # "ALERT"
  /\ \E others \in BOOLEAN : Passes(t, others) => ~CanTransition(sm, "CAPTAIN_INTENT")
  /\ cur' = [cur EXCEPT !.intent = t]
  /\ seen' = seen \cup {t}
  /\ UNCHANGED <<sm, core, orderTrade, olm, pos, esc, ks, mode, broker, held>>

\* Fault: the callback is not wired.
KeepSwitch(d) == ks' = ks

\* set_circuit_breaker_callback: a breaker that trips activates SOFT.
TripSwitch(d) == ks' = IF Trips(core, d) /\ ks = "NORMAL" THEN "SOFT_ACTIVE" ELSE ks

\* The orders the broker has taken on, of the numbers n and m it has given.
Accepts(n, answer, m, again) ==
  broker' = [o \in OrderIds |->
               IF \/ o = n /\ answer = "ACKNOWLEDGED"
                  \/ o = m /\ again = "ACKNOWLEDGED"
                 THEN [open |-> TRUE, filled |-> 0] ELSE broker[o]]

\* The answer to the retry of order o's rejection, where it is retried.
RetryAnswer(c, o, rec, again, m) ==
  IF RejectionRetries(c, o, rec) THEN AnswerId(c, again, m)
                                 ELSE again = "empty" /\ m = NoOrder

\* submit_order for the decision about trade t, with the broker's answer to it
\* and to the retry of its rejection.  When it raises, the RISK_FAILED transition
\* is not in the table for the states it leaves behind.
Submitted(t, answer, n, rec, again, m) ==
  LET r == Submit(core, "RISK_PASSED", answer, n, rec, again, m) IN
  /\ core' = r.core
  /\ sm' = r.sm
  /\ TripSwitch(r.core)
  /\ IF r.raised
       THEN /\ cur' = [cur EXCEPT !.intent = t]
            /\ olm' = olm
       ELSE /\ cur' = [cur EXCEPT !.trade = t, !.intent = t, !.order = r.id]
            /\ olm' = Olm!RegisterOrder(olm, r.id, t)
  /\ orderTrade' = [o \in OrderIds |-> IF o \in {n, m} THEN t ELSE orderTrade[o]]
  /\ Accepts(n, answer, m, again)

\* The decision passes the gate and is submitted.
DecisionSubmitted(t) ==
  /\ mode # "ALERT"
  /\ Passes(t, TRUE)
  /\ CanTransition(sm, "CAPTAIN_INTENT")
  /\ seen' = seen \cup {t}
  /\ \E answer, again \in Answers, n, m \in OrderIds \cup {NoOrder}, rec \in BOOLEAN :
       /\ answer # "ACKNOWLEDGED" => "rejection" \in weather
       /\ AnswerId(core, answer, n)
       /\ IF answer = "REJECTED"
            THEN RetryAnswer(Track(core, n, answer), n, rec, again, m)
            ELSE again = "empty" /\ m = NoOrder /\ ~rec
       /\ Submitted(t, answer, n, rec, again, m)
  /\ UNCHANGED <<pos, esc, mode, held>>

-----------------------------------------------------------------------------
(* The broker's reports. *)

Open(o) == broker[o].open

\* handle_acknowledgement
HandleAcknowledgement(o) ==
  /\ Open(o)
  /\ core' = Acknowledge(core, o)
  /\ olm' = Olm!UpdateState(olm, o, "ACKNOWLEDGED")
  /\ UNCHANGED <<sm, orderTrade, pos, cur, seen, esc, ks, mode, broker, held>>

\* n more units of order o are filled at the broker (external).
Execute(o, n) ==
  /\ Open(o)
  /\ n <= LotUnits - broker[o].filled
  /\ n < LotUnits => "partial" \in weather
  /\ broker' = [broker EXCEPT ![o] = [open   |-> @.filled + n < LotUnits,
                                      filled |-> @.filled + n]]
  /\ held' = [held EXCEPT ![orderTrade[o]] = @ + n]

\* Fault: a first fill is opened and then added again.
BookFillTwice(t, n) ==
  IF Pm!Exists(pos, t) THEN Pm!UpdateFill(pos, t, n, FillPrice)
  ELSE Pm!UpdateFill(Pm!OpenPosition(pos, t, Action[t], n, FillPrice), t, n, FillPrice)

\* Step 2 of handle_fill: position and stop-loss follow the intent that is
\* current, whatever trade the order belongs to.
BookFill(t, n) ==
  LET booked == IF Pm!Exists(pos, t) THEN Pm!UpdateFill(pos, t, n, FillPrice)
                ELSE Pm!OpenPosition(pos, t,
                       IF cur.intent = NoTrade THEN "BUY" ELSE Action[cur.intent],
                       n, FillPrice)
  IN  IF cur.intent = NoTrade THEN booked ELSE Pm!SetSl(booked, t, PlanSl[cur.intent])

\* Fault: protection waits for the order to be filled completely.
WantsProtectionWhenFull(book, t) ==
  ~cur.staged /\ cur.order # NoOrder /\ book[t].qty = LotUnits

\* Step 3: protection is staged on the first fill that leaves a position.
WantsProtection(book, t) == ~cur.staged /\ cur.order # NoOrder /\ book[t].qty > 0

\* stage_protection against the orchestrator's order manager; a manager of its
\* own does not know the entry order, and link_sl_tgt raises.
Stage(book, t) ==
  IF SharedManagers THEN Olm!StageProtection(olm, t, cur.order, book[t].qty)
                    ELSE [book |-> olm, raised |-> TRUE]

\* PROTECTION_STAGED is fired when staging has not raised.
Staged(s, raised) == IF raised THEN s ELSE After(s, "PROTECTION_STAGED")

\* handle_fill for a report of n units: nothing but the core's own table changes
\* when the state machine refuses the transition.
HandleFill(o, n) ==
  /\ Execute(o, n)
  /\ LET t == orderTrade[o]
         r == Fill(core, sm, o, broker[o].filled + n < LotUnits)
         book == BookFill(t, n)
         staged == Stage(book, t)
     IN  /\ core' = r.core
         /\ IF r.raised THEN UNCHANGED <<sm, olm, pos, cur>>
            ELSE /\ pos' = book
                 /\ IF ~WantsProtection(book, t)
                      THEN /\ sm' = r.sm
                           /\ cur' = cur
                           /\ olm' = Olm!HandlePartialFill(olm, o, n)
                      ELSE /\ sm' = Staged(r.sm, staged.raised)
                           /\ cur' = [cur EXCEPT !.staged = ~staged.raised]
                           /\ olm' = Olm!HandlePartialFill(staged.book, o, n)
  /\ UNCHANGED <<orderTrade, seen, esc, ks, mode>>

\* The connection is down: the report of a fill is lost.
FillUnreported(o, n) ==
  /\ "outage" \in weather
  /\ Execute(o, n)
  /\ UNCHANGED <<sm, core, orderTrade, olm, pos, cur, seen, esc, ks, mode>>

\* handle_rejection of order o, with the broker's answer to its retry, which
\* stays outside the order manager and leaves _primary_order_id on order o.
Rejected(o, rec, again, m) ==
  LET r == Rejection(core, sm, o, rec, again, m) IN
  /\ core' = r.core
  /\ sm' = r.sm
  /\ TripSwitch(r.core)
  /\ olm' = IF r.raised THEN olm ELSE Olm!UpdateState(olm, o, "REJECTED")
  /\ orderTrade' = [p \in OrderIds |-> IF p = m THEN orderTrade[o] ELSE orderTrade[p]]
  /\ broker' = [p \in OrderIds |->
                  CASE p = o -> [broker[o] EXCEPT !.open = FALSE]
                    [] p = m /\ again = "ACKNOWLEDGED" -> [open |-> TRUE, filled |-> 0]
                    [] OTHER -> broker[p]]

\* What is still open of order o is rejected.
HandleRejection(o) ==
  /\ "rejection" \in weather
  /\ Open(o)
  /\ broker[o].filled > 0 => "remainder" \in weather
  /\ \E again \in Answers, m \in OrderIds \cup {NoOrder}, rec \in BOOLEAN :
       RetryAnswer(core, o, rec, again, m) /\ Rejected(o, rec, again, m)
  /\ UNCHANGED <<pos, cur, seen, esc, mode, held>>

\* circuit_breaker_reset_seconds have passed.
CoolDown ==
  /\ core.breaker = "open"
  /\ core' = [core EXCEPT !.breaker = "cooled"]
  /\ UNCHANGED <<sm, orderTrade, olm, pos, cur, seen, esc, ks, mode, broker, held>>

-----------------------------------------------------------------------------
(* Exits. *)

\* The state the loop of trigger_exit works its way to.
ReadyToExit(s) == After(After(s, "PROTECTION_STAGED"), "MANAGEMENT_BEGINS")

Exits(s) == CanTransition(ReadyToExit(s), "EXIT_TRIGGERED")

\* trigger_exit: skipped where EXITING cannot be reached; no order is sent.
ExitTrade(t, price) ==
  IF ~Exits(sm) THEN UNCHANGED <<sm, pos, cur>>
  ELSE /\ sm' = After(After(ReadyToExit(sm), "EXIT_TRIGGERED"), "CLOSE_COMPLETE")
       /\ pos' = Pm!ClosePosition(pos, t, pos[t].qty,
                                  IF price > 0 THEN price ELSE pos[t].avg)
       /\ cur' = NoTracking

\* The stop-loss or the target of a position is hit, or the Captain exits it.
TriggerExit(t) ==
  /\ Exits(sm)
  /\ Pm!IsOpen(pos[t])
  /\ ExitTrade(t, 0)
  /\ UNCHANGED <<core, orderTrade, olm, seen, esc, ks, mode, broker, held>>

\* check_eod_close: a current trade without a position, or with a closed one,
\* is forgotten at any time of day; otherwise it is exited when it is late.
CheckEod ==
  /\ "eod" \in weather
  /\ cur.trade # NoTrade
  /\ \/ /\ pos[cur.trade].status \in {"none", "CLOSED"}
        /\ cur' = [cur EXCEPT !.trade = NoTrade]
        /\ UNCHANGED <<sm, pos>>
     \/ /\ Pm!IsOpen(pos[cur.trade])
        /\ ExitTrade(cur.trade, pos[cur.trade].avg)
  /\ UNCHANGED <<core, orderTrade, olm, seen, esc, ks, mode, broker, held>>

\* trigger_emergency("FLATTEN"): the position is closed at price 0, which
\* close_position refuses.
Flatten ==
  /\ "emergency" \in weather
  /\ CanTransition(sm, "EMERGENCY_FLATTEN")
  /\ sm' = After(sm, "EMERGENCY_FLATTEN")
  /\ esc' = "EMERGENCY"
  /\ pos' = IF cur.trade = NoTrade THEN pos
            ELSE Pm!ClosePosition(pos, cur.trade, pos[cur.trade].qty, 0)
  /\ UNCHANGED <<core, orderTrade, olm, cur, seen, ks, mode, broker, held>>

\* trigger_emergency("LOCK")
Lock ==
  /\ "emergency" \in weather
  /\ CanTransition(sm, "CRITICAL_LOCK")
  /\ sm' = After(sm, "CRITICAL_LOCK")
  /\ esc' = "EMERGENCY"
  /\ UNCHANGED <<core, orderTrade, olm, pos, cur, seen, ks, mode, broker, held>>

-----------------------------------------------------------------------------
(* process_override: the current trade must have a quantity. *)

Override(t) ==
  /\ "override" \in weather
  /\ cur.trade = t
  /\ pos[t].qty > 0
  /\ esc' = "CAUTION"
  /\ UNCHANGED <<core, orderTrade, olm, seen, ks, mode, broker, held>>

\* REDUCE_SIZE by q units, or by everything.
ReduceSize(t) ==
  /\ Override(t)
  /\ \E q \in 1..pos[t].qty :
       pos' = IF q = pos[t].qty THEN Pm!ClosePosition(pos, t, q, pos[t].avg)
                                ELSE Pm!PartialExit(pos, t, q, pos[t].avg)
  /\ UNCHANGED <<sm, cur>>

\* TIGHTEN_SL, to any price.
TightenSl(t) ==
  /\ Override(t)
  /\ \E price \in Sls : pos' = Pm!SetSl(pos, t, price)
  /\ UNCHANGED <<sm, cur>>

\* RISK_REDUCTION by q units, or by everything: a partial exit either way.
ReduceRisk(t) ==
  /\ Override(t)
  /\ \E q \in 1..pos[t].qty : pos' = Pm!PartialExit(pos, t, q, pos[t].avg)
  /\ UNCHANGED <<sm, cur>>

\* EMERGENCY_EXIT
OverrideExit(t) ==
  /\ Override(t)
  /\ ExitTrade(t, pos[t].avg)

-----------------------------------------------------------------------------
(* Reconciliation. *)

\* ReconciliationEngine.reconcile when the broker reports stop-loss price `sl'
\* for the trade, or none: escalation, or the stop-loss is adopted.  Every other
\* mismatch only leaves a note.
Escalates(t) ==
  /\ Pm!Exists(pos, t)
  /\ \/ held[t] = 0 /\ pos[t].qty > 0
     \/ held[t] > 0 /\ pos[t].direction # Action[t]

Resolved(t, sl) ==
  IF Escalates(t) \/ held[t] = 0 THEN pos ELSE Pm!SetSl(pos, t, sl)

\* handle_reconnect: every active position is compared with the broker's.
HandleReconnect ==
  /\ "outage" \in weather
  /\ SharedManagers
  /\ \E t \in Trades, sl \in Sls \cup {Pm!NoPrice} :
       /\ Pm!IsOpen(pos[t])
       /\ pos' = Resolved(t, sl)
       /\ esc' = IF Escalates(t) THEN "SEVERE" ELSE esc
  /\ UNCHANGED <<sm, core, orderTrade, olm, cur, seen, ks, mode, broker, held>>

-----------------------------------------------------------------------------
(* The operator. *)

\* _has_active_trade
HasActiveTrade == cur.trade # NoTrade \/ Pm!ActivePositions(pos) # {}

\* set_execution_mode
SetExecutionMode(m) ==
  /\ m # mode
  /\ ~HasActiveTrade
  /\ mode' = m
  /\ UNCHANGED <<sm, core, orderTrade, olm, pos, cur, seen, esc, ks, broker, held>>

\* activate_kill_switch: the injected switch changes and has no callback.
ActivateKillSwitch(level) ==
  /\ "switch" \in weather
  /\ level # ks
  /\ level = "SOFT_ACTIVE" => ks = "NORMAL"
  /\ ks' = level
  /\ UNCHANGED <<sm, core, orderTrade, olm, pos, cur, seen, esc, mode, broker, held>>

\* ExecutionStateMachine.reset, "only appropriate after a trade has fully closed
\* or at the start of a new session".
Reset ==
  /\ sm \in {"CLOSED", "FAILED"}
  /\ sm' = "IDLE"
  /\ UNCHANGED <<core, orderTrade, olm, pos, cur, seen, esc, ks, mode, broker, held>>

Decision(t) == DecisionAlerted(t) \/ DecisionStopped(t) \/ DecisionSubmitted(t)
Report(o) ==
  \/ HandleAcknowledgement(o)
  \/ HandleRejection(o)
  \/ \E n \in 1..LotUnits : HandleFill(o, n) \/ FillUnreported(o, n)
Overridden(t) == ReduceSize(t) \/ TightenSl(t) \/ ReduceRisk(t) \/ OverrideExit(t)
Operated ==
  \/ Reset
  \/ \E m \in Modes : SetExecutionMode(m)
  \/ \E level \in {"NORMAL", "SOFT_ACTIVE", "CRITICAL_ACTIVE"} : ActivateKillSwitch(level)

Next ==
  /\ \/ \E t \in Trades : Decision(t) \/ TriggerExit(t) \/ Overridden(t)
     \/ \E o \in OrderIds : Report(o)
     \/ CoolDown \/ CheckEod \/ Flatten \/ Lock \/ HandleReconnect \/ Operated
  /\ UNCHANGED weather

Spec == Init /\ [][Next]_vars

-----------------------------------------------------------------------------
(* Properties. *)

TypeOK ==
  /\ sm \in States
  /\ core \in CoreStates
  /\ orderTrade \in [OrderIds -> Trades \cup {NoTrade}]
  /\ olm \in Olm!Managers
  /\ pos \in Pm!PositionBooks
  /\ cur \in [trade : Trades \cup {NoTrade}, intent : Trades \cup {NoTrade},
              order : OrderIds \cup {NoOrder}, staged : BOOLEAN]
  /\ seen \subseteq Trades
  /\ esc \in {"NORMAL", "CAUTION", "SEVERE", "EMERGENCY"}
  /\ ks \in {"NORMAL", "SOFT_ACTIVE", "CRITICAL_ACTIVE"}
  /\ mode \in Modes
  /\ broker \in [OrderIds -> [open : BOOLEAN, filled : 0..LotUnits]]
  /\ held \in [Trades -> Nat]
  /\ weather \in Weathers

\* What the books hold is backed by executions, and executions by decisions: the
\* orchestrator implements TradeLedger, through lost reports, retries, late fills
\* of an earlier trade and every way a position is reduced.
Ledger == INSTANCE TradeLedger WITH
  MaxUnits <- LotUnits,
  decided <- seen,
  executed <- held,
  booked <- [t \in Trades |-> pos[t].qty]

LedgerSpec == Ledger!Spec

\* From the step in which the circuit breaker trips, no entry passes the kill
\* switch, also when the failure comes from a retry inside submit_order
\* (set_circuit_breaker_callback in __init__).
TripBlocksEntries == [][Trips(core, core') => ks' # "NORMAL"]_vars

-----------------------------------------------------------------------------
(* What holds as long as certain disturbances stay away, and what they break. *)

Active(t) == Pm!IsOpen(pos[t])

\* Together they reopen a closed trade while another one is active: an emergency
\* leaves the trade current, a submission whose retry raises lets a late fill add
\* to it, and RISK_REDUCTION of those units makes it PARTIALLY_CLOSED again.
Storm == {"override", "rejection", "emergency"} \subseteq weather

\* get_active_positions "returns max 1 position": the one-trade rule, through
\* late fills of earlier trades, rejections, emergencies and lost reports.
OneActivePosition ==
  ~Storm => \A t, u \in Trades : Active(t) /\ Active(u) => t = u

\* Nothing but the broker acts on a trade; the rejection of what is left of an
\* earlier trade's order, which fails the machine under the current one, is away.
Calm ==
  /\ SharedManagers
  /\ weather \cap {"emergency", "override", "eod", "remainder"} = {}

\* An active position is the trade that overrides, periodic reconciliation and
\* the end-of-day close look at, the machine is PROTECTED, and its legs exist.
ActiveIsManaged ==
  Calm => \A t \in Trades : Active(t) =>
            /\ cur.trade = t
            /\ sm = "PROTECTED"
            /\ \E o \in OrderIds : olm.link[o].trade = t

\* "Protection must be established as early as practical."  Refuted for the order
\* manager of its own that the component registry gives the protection model.
ActiveIsProtected ==
  \A t \in Trades : Active(t) => \E o \in OrderIds : olm.link[o].trade = t

\* adjust_sl_tgt_quantities: "SL and TGT quantities are always equal to the
\* position quantity", from the staging on the first fill on.
LegsMatchPosition ==
  Calm => \A o \in OrderIds : Olm!Linked(olm, o) =>
            LET t == olm.link[o].trade IN
            Active(t) => olm.link[o].qty = pos[t].qty /\ olm.legs[t] = pos[t].qty

\* "PositionManager opens/updates position": an active position has all that the
\* broker executed for its trade.  Refuted by the second part of a partial fill:
\* no state but ORDER_PENDING takes a fill, and the report is dropped.
FillsAreBooked == \A t \in Trades : Active(t) => pos[t].qty = held[t]

=============================================================================
