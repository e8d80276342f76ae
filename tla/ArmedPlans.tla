----------------------------- MODULE ArmedPlans -----------------------------
(***************************************************************************)
(* Armed plans: the Captain's heavy cycle arms a plan at the end of a      *)
(* candle and purges what is too old; the light cycle watches the armed    *)
(* ones at every tick, until each is invalidated, expires or triggers.     *)
(* (armed_plan_engine.py and setup_expiry_manager.py, as captain_engine.py *)
(* calls them.)  Prices are steps of a ladder; 0 is the price before the   *)
(* first tick has come.                                                    *)
(***************************************************************************)
EXTENDS Integers

CONSTANTS
  PlanClasses, \* trade classes
  Window,      \* _CLASS_EXPIRY_WINDOWS, in candles; 0 is "not candle-bound"
  TimeLimit,   \* the time expiry of a plan that is not candle-bound, in minutes
  Prices,
  Margin,      \* half a percent of a price: how far invalidation is from the level
  Plans,       \* bound: plans of one session
  LastCandle   \* bound: last candle of a session

ASSUME PlanAssumption ==
  /\ Window \in [PlanClasses -> Nat]
  /\ TimeLimit \in Nat \ {0}
  /\ Prices \subseteq Nat
  /\ Margin \in Nat \ {0}
  /\ LastCandle \in Nat

VARIABLES
  plans,        \* _plans
  cycleCandle,  \* the candle index the cycles are called with
  broken        \* history: a light cycle has seen the armed plan beyond its invalidation

plansVars == <<plans, cycleCandle, broken>>

Done == {"TRIGGERED", "EXPIRED", "INVALIDATED"}
Sides == {"BUY", "SELL"}
PlanCandles == 0..LastCandle

\* No such plan in _plans.
NoPlan == [state |-> "UNARMED"]

\* create_plan, as _build_armed_plan calls it.
Plan(dir, class, level, at) ==
  [state |-> "WATCHING", dir |-> dir, class |-> class, level |-> level, born |-> at]

PlansInit ==
  /\ plans = [i \in Plans |-> NoPlan]
  /\ cycleCandle = 0
  /\ broken = [i \in Plans |-> FALSE]

Watched(p) == p.state = "WATCHING"

-----------------------------------------------------------------------------
(* What a cycle finds out about one plan p. *)

\* Candles since the plan was armed; not negative.
Elapsed(p, at) == IF at >= p.born THEN at - p.born ELSE 0

CandleBound(p) == Window[p.class] > 0

\* _check_expiry_condition.  A plan bound by time was armed somewhere within its
\* candle, so in the last one it has minutes left or not: early says which.
Expired(p, at, early) ==
  IF CandleBound(p)
    THEN Elapsed(p, at) >= Window[p.class]
    ELSE Elapsed(p, at) >= IF early THEN TimeLimit + 1 ELSE TimeLimit

\* _is_plan_expired: a plan of candle 0 counts as one with no candle recorded.
Purged(p, at) == CandleBound(p) /\ p.born # 0 /\ at - p.born >= Window[p.class]

\* _check_invalidation, with the level _build_armed_plan gives the plan.
Invalidated(p, price) ==
  /\ p.level # 0
  /\ IF p.dir = "BUY" THEN price < p.level - Margin ELSE price > p.level + Margin

\* _check_price_trigger: above for a BUY, below for a SELL.
Triggered(p, price) == IF p.dir = "BUY" THEN price >= p.level ELSE price <= p.level

\* Fault: the trigger is looked at before the expiry.
OutcomeTriggerFirst(p, price, at, early) ==
  IF Invalidated(p, price) THEN "INVALIDATED"
  ELSE IF Triggered(p, price) THEN "TRIGGERED"
  ELSE IF Expired(p, at, early) THEN "EXPIRED"
  ELSE "WATCHING"

\* Fault: nobody looks whether the structure broke.
OutcomeUnbroken(p, price, at, early) ==
  IF Expired(p, at, early) THEN "EXPIRED"
  ELSE IF Triggered(p, price) THEN "TRIGGERED"
  ELSE "WATCHING"

\* watch_plans, for one plan.
Outcome(p, price, at, early) ==
  IF Invalidated(p, price) THEN "INVALIDATED"
  ELSE IF Expired(p, at, early) THEN "EXPIRED"
  ELSE IF Triggered(p, price) THEN "TRIGGERED"
  ELSE "WATCHING"

-----------------------------------------------------------------------------
(* The cycles. *)

\* Step 18: the watched plans that are too old expire.
Purge(book, at) ==
  [i \in Plans |->
     IF Watched(book[i]) /\ Purged(book[i], at)
       THEN [book[i] EXCEPT !.state = "EXPIRED"] ELSE book[i]]

\* A heavy cycle that the permission gate blocks returns before the plans.
HeavyBlocked(at) ==
  /\ at >= cycleCandle
  /\ cycleCandle' = at
  /\ UNCHANGED <<plans, broken>>

\* Steps 17 and 18 without an idea, without a class for it, or in a cooldown.
HeavyCycleNoIdea(at) ==
  /\ at >= cycleCandle
  /\ cycleCandle' = at
  /\ plans' = Purge(plans, at)
  /\ UNCHANGED broken

\* Steps 17 and 18 with an idea: the level is the zone's price, or the current one.
HeavyCycleArms(i, dir, class, level, at) ==
  /\ plans[i] = NoPlan
  /\ at >= cycleCandle
  /\ cycleCandle' = at
  /\ plans' = Purge([plans EXCEPT ![i] = Plan(dir, class, level, at)], at)
  /\ UNCHANGED broken

\* light_cycle, with the candle of the last heavy cycle.
LightCycle(price, early) ==
  /\ plans' = [i \in Plans |->
                 IF Watched(plans[i])
                   THEN [plans[i] EXCEPT !.state = Outcome(plans[i], price, cycleCandle, early)]
                   ELSE plans[i]]
  /\ broken' = [i \in Plans |->
                  broken[i] \/ (Watched(plans[i]) /\ Invalidated(plans[i], price))]
  /\ UNCHANGED cycleCandle

\* start_session: clear_session, and the candles count from the opening again.
ClearSession ==
  /\ cycleCandle' = 0
  /\ plans' = [i \in Plans |-> NoPlan]
  /\ broken' = [i \in Plans |-> FALSE]

Heavy(at) ==
  \/ HeavyBlocked(at)
  \/ HeavyCycleNoIdea(at)
  \/ \E i \in Plans, dir \in Sides, class \in PlanClasses, level \in Prices :
       HeavyCycleArms(i, dir, class, level, at)

PlansNext ==
  \/ \E at \in PlanCandles : Heavy(at)
  \/ \E price \in Prices, early \in BOOLEAN : LightCycle(price, early)
  \/ ClearSession

PlansSpec == PlansInit /\ [][PlansNext]_plansVars

-----------------------------------------------------------------------------
(* Properties. *)

PlanRecords ==
  [state : {"WATCHING"} \cup Done, dir : Sides, class : PlanClasses, level : Prices,
   born : PlanCandles]

PlansTypeOK ==
  /\ plans \in [Plans -> PlanRecords \cup {NoPlan}]
  /\ cycleCandle \in PlanCandles
  /\ broken \in [Plans -> BOOLEAN]

\* The age at which a plan may still trigger.
InTime(p, at) ==
  /\ at >= p.born
  /\ IF CandleBound(p) THEN at - p.born < Window[p.class] ELSE at - p.born <= TimeLimit

\* A plan triggers in the session it was armed in and within its class's window,
\* "expiry is HARD cutoff": also when blocked cycles did not purge it, when candles
\* were skipped, and when it was armed in candle 0 (watch_plans, clear_session).
TriggersInTime ==
  [][\A i \in Plans :
       plans[i].state # "TRIGGERED" /\ plans'[i].state = "TRIGGERED" =>
         InTime(plans'[i], cycleCandle')]_plansVars

\* A price that has once broken a plan's structure ends the plan, even if the price
\* comes back to the trigger before the plan is too old.
NoComeback == \A i \in Plans : plans[i].state = "TRIGGERED" => ~broken[i]

=============================================================================
