------------------------------- MODULE Captain -------------------------------
(***************************************************************************)
(* What allows the Captain to decide a trade: the permission gate with the *)
(* loss lock and the operator's override, the active trade, the cooldown   *)
(* after one, and the sessions and days that reset them.                   *)
(* (captain_engine.py, permission_gate.py, loss_lock_manager.py and        *)
(* override_guard.py.  The armed plans are in ArmedPlans.)                 *)
(***************************************************************************)
EXTENDS Integers

CONSTANTS
  Modes,       \* execution modes
  MaxLosses,   \* LossLockManager.MAX_LOSSES
  Cooldowns,   \* cooldown_candles of the trade classes, the default included
  MaxCandle,   \* bound: last candle of a session
  MaxDay       \* bound: last day

ASSUME CaptainAssumption ==
  /\ "ALERT" \in Modes /\ "REAL" \in Modes /\ "NONE" \notin Modes
  /\ MaxLosses \in Nat \ {0}
  /\ Cooldowns \subseteq Nat
  /\ MaxCandle \in Nat /\ MaxDay \in Nat

VARIABLES
  day,        \* the date
  candle,     \* index of the last candle a heavy cycle was called for, or -1
  active,     \* mode of _active_trade, or "NONE"
  cooldown,   \* _cooldown_remaining
  lock,       \* the loss-lock manager the engine has, and the one its gate has
  guard,      \* the override guard of each
  opened,     \* day of the last start_session, or -1
  losses,     \* history: REAL losses since the first cycle of the day they are of
  rested      \* history: candle from which the cooldown of the last trade is over

vars == <<day, candle, active, cooldown, lock, guard, opened, losses, rested>>

NoTrade == "NONE"
Holders == {"engine", "gate"}
Days == 0..MaxDay
Candles == 0..MaxCandle
BeforeOpening == -1
Never == -1

\* LossLockManager.__init__
NewLock(d) == [count |-> 0, locked |-> FALSE, mode |-> "ALERT", day |-> d]

\* OverrideGuard: neither required nor granted, or one of the two.
GuardStates == {"idle", "required", "granted"}

Init ==
  /\ day = 0
  /\ candle = BeforeOpening
  /\ active = NoTrade
  /\ cooldown = 0
  /\ lock = [h \in Holders |-> NewLock(0)]
  /\ guard = [h \in Holders |-> "idle"]
  /\ opened = Never
  /\ losses = [day |-> 0, n |-> 0]
  /\ rested = BeforeOpening

\* After the first start_session the two are not the same objects any more.
Split == opened # Never

\* What the engine does to its object happens to the gate's if it is the same one.
EngineWrites(f, value) ==
  IF Split THEN [f EXCEPT !["engine"] = value] ELSE [h \in Holders |-> value]

-----------------------------------------------------------------------------
(* The heavy cycle. *)

\* check_and_reset_if_new_day
ResetIfNewDay(l) ==
  IF day > l.day THEN [l EXCEPT !.count = 0, !.locked = FALSE, !.day = day] ELSE l

\* Fault: the override of an earlier trade counts as one for this.
RealModeOpenOnceAsked(m, locks) ==
  m = "REAL" /\ locks["gate"].locked => guard["gate"] # "idle"

\* _check_real_mode_lock
RealModeOpen(m, locks) ==
  m = "REAL" /\ locks["gate"].locked => guard["gate"] = "granted"

\* check_all: the active trade, the lock, and the six checks of the outside world.
Allowed(m, others, locks) == others /\ active = NoTrade /\ RealModeOpen(m, locks)

\* Step 21: the cooldown of this cycle.
Cooler == IF cooldown > 0 THEN cooldown - 1 ELSE 0

\* Whether the scores want a trade that can be constructed is up to the market.
HeavyCycle(m, at, others, wants) ==
  LET locks == EngineWrites(lock, ResetIfNewDay(lock["engine"])) IN
  /\ at > candle
  /\ candle' = at
  /\ lock' = locks
  /\ losses' = IF day > losses.day THEN [day |-> day, n |-> 0] ELSE losses
  /\ IF Allowed(m, others, locks)
       THEN /\ cooldown' = Cooler
            /\ active' = IF wants /\ Cooler = 0 THEN m ELSE NoTrade
       ELSE UNCHANGED <<cooldown, active>>
  /\ UNCHANGED <<day, guard, opened, rested>>

-----------------------------------------------------------------------------
(* What the Captain is told. *)

\* Fault: no cooldown without an active trade to take the class from.
TradeCompleteUnrested(n) ==
  /\ active' = NoTrade
  /\ cooldown' = IF active = NoTrade THEN 0 ELSE n
  /\ rested' = candle + n
  /\ UNCHANGED <<day, candle, lock, guard, opened, losses>>

\* on_trade_complete
TradeComplete(n) ==
  /\ active' = NoTrade
  /\ cooldown' = n
  /\ rested' = candle + n
  /\ UNCHANGED <<day, candle, lock, guard, opened, losses>>

\* record_loss: counts in REAL mode only.  The bound is on the count.
RecordLoss ==
  LET l == lock["engine"] IN
  /\ l.mode = "REAL"
  /\ l.count <= MaxLosses
  /\ lock' = EngineWrites(lock,
               [l EXCEPT !.count = @ + 1, !.locked = @ \/ l.count + 1 >= MaxLosses])
  /\ losses' = [losses EXCEPT !.n = @ + 1]
  /\ UNCHANGED <<day, candle, active, cooldown, guard, opened, rested>>

\* LossLockManager.set_mode
SetMode(m) ==
  /\ lock' = EngineWrites(lock, [lock["engine"] EXCEPT !.mode = m])
  /\ UNCHANGED <<day, candle, active, cooldown, guard, opened, losses, rested>>

Guards(g) ==
  /\ guard' = EngineWrites(guard, g)
  /\ UNCHANGED <<day, candle, active, cooldown, lock, opened, losses, rested>>

RequireOverride == Guards("required")
GrantOverride == guard["engine"] = "required" /\ Guards("granted")
DenyOverride == Guards("idle")

\* start_session: new managers, and a gate that keeps the old ones.  The runner
\* calls it when the market opens, once a day.
StartSession ==
  /\ day > opened
  /\ candle' = BeforeOpening
  /\ active' = NoTrade
  /\ cooldown' = 0
  /\ rested' = BeforeOpening
  /\ lock' = [lock EXCEPT !["engine"] = NewLock(day)]
  /\ guard' = [guard EXCEPT !["engine"] = "idle"]
  /\ opened' = day
  /\ losses' = [day |-> day, n |-> 0]
  /\ UNCHANGED day

NextDay ==
  /\ day < MaxDay
  /\ day' = day + 1
  /\ UNCHANGED <<candle, active, cooldown, lock, guard, opened, losses, rested>>

Operator == RequireOverride \/ GrantOverride \/ DenyOverride

Next ==
  \/ \E m \in Modes, at \in Candles, others, wants \in BOOLEAN :
       HeavyCycle(m, at, others, wants)
  \/ \E n \in Cooldowns : TradeComplete(n)
  \/ \E m \in Modes : SetMode(m)
  \/ RecordLoss \/ Operator \/ StartSession \/ NextDay

Spec == Init /\ [][Next]_vars

-----------------------------------------------------------------------------
(* Properties. *)

Locks == [count : 0..MaxLosses + 1, locked : BOOLEAN, mode : Modes, day : Days]

TypeOK ==
  /\ day \in Days
  /\ candle \in Candles \cup {BeforeOpening}
  /\ active \in Modes \cup {NoTrade}
  /\ cooldown \in Nat
  /\ lock \in [Holders -> Locks]
  /\ guard \in [Holders -> GuardStates]
  /\ opened \in Days \cup {Never}
  /\ losses \in [day : Days, n : 0..MaxLosses + 1]
  /\ rested \in Int

DecidesReal == active = NoTrade /\ active' = "REAL"
LossLimitReached == losses'.n >= MaxLosses

\* "3 losing trades -> REAL mode becomes locked/off", until the next trading day or
\* an override.  Refuted from the first start_session on: the gate goes on asking
\* the manager it was built with, and losses are recorded with another.
LossesLockReal ==
  [][DecidesReal /\ LossLimitReached => guard["engine"] = "granted"]_vars

\* The same as long as the gate asks the engine's own managers: through mode changes,
\* blocked cycles, overrides taken back, and the reset of a new day.
LossesLockSameManager ==
  [][DecidesReal /\ LossLimitReached /\ ~Split => guard["engine"] = "granted"]_vars

\* "Number of 1m candles before re-entry allowed": the cooldown counts analysed
\* cycles, and never lets a trade in before its candles are over, whichever of
\* them are skipped or blocked (on_trade_complete, step 21).
RestsItsCandles ==
  [][active = NoTrade /\ active' # NoTrade => candle' >= rested]_vars

=============================================================================
