---------------------------- MODULE TradePlanning ----------------------------
(***************************************************************************)
(* What trade the Captain would take: its direction, its class, the strike *)
(* the capital pays for, and the levels it is entered, given up, stopped   *)
(* and closed at.  (trade_idea_generator.py, trade_class_engine.py and     *)
(* trade_constructor.py, as the heavy cycle calls them: without a zone)    *)
(***************************************************************************)
EXTENDS Scoring

\* _REGIME_TRADE_MAP, the first candidate; whether SCALP is one
RegimeClass(regime) ==
  CASE regime \in Trends -> "CONTINUATION" [] regime \in WeakTrends -> "LIQUIDITY_RECLAIM"
    [] regime = "RANGE" -> "OPTIONS_PRESSURE" [] regime = "CHOP" -> "SCALP" [] OTHER -> None

\* _suggest_trade_class
SuggestedClass(quality, regime, phase) ==
  CASE phase = "OPENING" -> "LIQUIDITY_RECLAIM" [] phase = "LUNCH" -> "REVERSAL" [] phase = "CLOSING" -> "SCALP"
    [] OTHER -> IF quality < 400 /\ regime \in Trends \cup {"RANGE"} THEN "SCALP" ELSE RegimeClass(regime)

\* _CLASS_METADATA: the band a class asks for
LeastBand ==
  [SCALP |-> "WEAK", CONTINUATION |-> "TRADABLE", REVERSAL |-> "STRONG", LIQUIDITY_RECLAIM |-> "TRADABLE",
   OPTIONS_PRESSURE |-> "STRONG"]

FitOf(scalp, continuation, reversal, reclaim, pressure) ==
  [SCALP |-> scalp, CONTINUATION |-> continuation, REVERSAL |-> reversal, LIQUIDITY_RECLAIM |-> reclaim,
   OPTIONS_PRESSURE |-> pressure]

\* _REGIME_CLASS_FIT, in tenths
Fit(regime) ==
  CASE regime \in Trends -> FitOf(7, 10, 1, 6, 4) [] regime \in WeakTrends -> FitOf(6, 4, 3, 9, 7)
    [] regime = "RANGE" -> FitOf(7, 1, 4, 5, 10) [] regime = "CHOP" -> FitOf(9, 0, 2, 3, 4)
    [] regime = "UNCLEAR" -> FitOf(5, 0, 1, 2, 3)

\* _evaluate_best_class: the session and the confluence weigh on all classes alike,
\* and a suggested class the band does not allow scores nothing
AssignedClass(suggested, regime, band) ==
  LET fit == Fit(regime)
      open == {c \in Classes : BandValue[band] >= BandValue[LeastBand[c]]}
      best == CHOOSE c \in open : \A d \in open : fit[d] <= fit[c]
      said == IF suggested \in open THEN fit[suggested] ELSE 0
  IN IF open = {} THEN None
     ELSE IF suggested = None \/ 10 * fit[best] > 12 * said THEN best ELSE suggested

-----------------------------------------------------------------------------
(* The construction. *)

Lot == 50
StrikeInterval == 50

Distance(x, y) == IF x > y THEN x - y ELSE y - x

\* _estimate_premium: the further away the cheaper, on either side
Premium(strike, atm) ==
  LET price == 100 - (5 * Distance(strike, atm)) \div StrikeInterval
  IN Lot * (IF price < 10 THEN 10 ELSE price)

\* _get_itm_strike, _get_otm_strike: a call for BUY, a put for SELL
Itm(direction, atm) == IF direction = "BUY" THEN atm - StrikeInterval ELSE atm + StrikeInterval
Otm(direction, atm) == IF direction = "BUY" THEN atm + StrikeInterval ELSE atm - StrikeInterval

\* _select_strike: what the capital pays for, and the nearest strike when it pays for none
SelectedStrike(direction, atm, capital, band) ==
  CASE Premium(atm, atm) <= capital -> atm
    [] OTHER -> IF band \in Tradable /\ Premium(Itm(direction, atm), atm) <= capital THEN Itm(direction, atm)
                ELSE IF Premium(Otm(direction, atm), atm) <= capital THEN Otm(direction, atm) ELSE atm

\* Fault: the pullback a scalp is given up at is beyond its stop.
LooseInvalidation(class) == IF class = "SCALP" THEN 5 ELSE IF class = "REVERSAL" THEN 8 ELSE 5

\* _determine_invalidation_level and _build_sl_plan, in thousandths of the price
InvalidationShare(class) ==
  CASE class = "SCALP" -> 2 [] class = "REVERSAL" -> 8 [] class = "LIQUIDITY_RECLAIM" -> 6 [] OTHER -> 5
StopShare(class) ==
  CASE class = "SCALP" -> 3 [] class = "REVERSAL" -> 8 [] class = "LIQUIDITY_RECLAIM" -> 6 [] OTHER -> 5

\* the reward of _build_target_plan, in tenths of the risk
Reward(class) ==
  CASE class = "SCALP" -> 10 [] class \in {"CONTINUATION", "LIQUIDITY_RECLAIM"} -> 20 [] OTHER -> 15

Against(direction, price, distance) == IF direction = "BUY" THEN price - distance ELSE price + distance

Share(price, thousandths) == (price * thousandths + 500) \div 1000

\* _build_target_plan: an elite conviction aims a third further
TargetDistance(class, price, band) ==
  LET distance == (price * StopShare(class) * Reward(class)) \div 10000
  IN IF band = "ELITE" THEN (133 * distance) \div 100 ELSE distance

\* construct_trade; a plan the capital does not pay for is no trade
TradePlan(direction, class, band, capital, atm, price) ==
  LET strike == SelectedStrike(direction, atm, capital, band)
  IN [direction |-> direction, class |-> class, strike |-> strike, entry |-> price,
      confirm |-> class # "SCALP",
      invalidation |-> Against(direction, price, Share(price, InvalidationShare(class))),
      stop |-> Against(direction, price, Share(price, StopShare(class))),
      target |-> Against(direction, price, -TargetDistance(class, price, band)),
      fits |-> capital > 0 /\ Premium(strike, atm) <= capital]

=============================================================================
