----------------------------- MODULE Supervision -----------------------------
(***************************************************************************)
(* What the Captain makes of a trade that is on: the supervisor reviews    *)
(* its thesis, and the intervention engine judges the review together with *)
(* what else it is told.                                                   *)
(* (active_trade_supervisor.py, intervention_engine.py)                    *)
(***************************************************************************)
EXTENDS TradePlanning

\* _check_zone_validity: how far from its zone a trade may be, in thousandths
ZoneReach(class) == CASE class = "SCALP" -> 3 [] class = "REVERSAL" -> 8 [] OTHER -> 5
ZoneValid(class, zone, price) ==
  zone = 0 \/ price = 0 \/ 1000 * Distance(price, zone) <= ZoneReach(class) * zone

\* _check_market_story_support
StorySupports(direction, story) ==
  /\ story.regime \notin NoRegime
  /\ ~(direction = "BUY" /\ story.bias = "BEARISH") /\ ~(direction = "SELL" /\ story.bias = "BULLISH")

\* _check_opposite_case: original is the bias the trade was taken with
OppositeStronger(confluence, original) ==
  /\ confluence.dominant # "NEUTRAL"
  /\ \/ {original, confluence.dominant} = {"BULLISH", "BEARISH"}
     \/ confluence.quality < 300

\* The reasons of review_thesis to doubt a trade
Concerns(trade, story, confluence, original, zone, price) ==
  {c \in {"zone", "story", "macro", "options", "opposite"} :
     CASE c = "zone" -> ~ZoneValid(trade.class, zone, price)
       [] c = "story" -> ~StorySupports(trade.direction, story)
       [] c = "macro" -> story.regime \in NoRegime
       [] c = "options" -> trade.class = "OPTIONS_PRESSURE" /\ price = 0
       [] c = "opposite" -> OppositeStronger(confluence, original)}

Critical(concerns) == concerns \cap {"zone", "opposite", "macro"}

\* _determine_recommendation
Recommendation(concerns) ==
  CASE concerns = {} -> "THESIS_INTACT"
    [] Cardinality(Critical(concerns)) >= 2 -> "INTERVENTION_REQUIRED"
    [] OTHER -> IF concerns \cap {"zone", "opposite"} # {} THEN "PREPARE_EXIT"
                ELSE IF concerns # {} THEN "MONITOR_CLOSELY" ELSE "THESIS_INTACT"

\* should_intervene
ShouldIntervene(review) == review # None /\ Recommendation(review) = "INTERVENTION_REQUIRED"

-----------------------------------------------------------------------------
(* The intervention.  A review is the set of its concerns, None before the *)
(* first; signs are what the light cycle is told besides.                  *)

Severities == <<"NORMAL", "CAUTION", "EMERGENCY_OVERRIDE">>
Emergency == 3
Caution == 2
Quiet == 0

\* _check_thesis_break
ThesisBreak(review) ==
  CASE review = None -> Quiet
    [] OTHER -> IF Cardinality(Critical(review)) < 2 \/ Cardinality(review) < 3 THEN Quiet
                ELSE IF Cardinality(Critical(review)) = 3 THEN Emergency ELSE Caution

\* _check_regime_flip
RegimeFlip(regime) == IF regime \in NoRegime \cup {"RANGE"} THEN Caution ELSE Quiet

\* Fault: a turned confluence counts when the other case is strong as well.
OppositionWhenStrong(review, strength) ==
  IF review # None /\ strength >= 700 THEN (IF "opposite" \in review THEN Emergency ELSE Caution) ELSE Quiet

\* _check_strong_opposite_confluence
Opposition(review, strength) ==
  CASE review = None -> Quiet
    [] OTHER -> IF "opposite" \in review THEN (IF strength >= 700 THEN Emergency ELSE Caution)
                ELSE IF strength >= 700 THEN Caution ELSE Quiet

\* _check_options_collapse
OptionsCollapse(class, healthy) == IF class = "OPTIONS_PRESSURE" /\ ~healthy THEN Caution ELSE Quiet

\* _check_risk_emergency
RiskEmergency(critical, event) == IF critical \/ event THEN Emergency ELSE Quiet

\* _ACTION_MAP: what follows from the first trigger at the highest severity
ActionMap ==
  [thesis_break |-> <<"TIGHTEN_STOP_LOSS", "REDUCE_POSITION_SIZE", "CLOSE_POSITION">>,
   regime_flip |-> <<"MONITOR_ONE_CANDLE", "EXIT_HALF_POSITION", "CLOSE_POSITION">>,
   strong_opposite_confluence |-> <<"ADD_PROTECTION", "HEDGE_POSITION", "CLOSE_POSITION">>,
   options_collapse |-> <<"MONITOR_CLOSELY", "REDUCE_POSITION_SIZE", "CLOSE_POSITION">>,
   risk_emergency |-> <<"ALERT_OPERATOR", "LOCK_IN_PROFITS", "IMMEDIATE_EXIT">>]

NoIntervention == [intervene |-> FALSE, trigger |-> None, severity |-> "NORMAL", action |-> None]

\* evaluate_intervention
Intervention(review, class, signs) ==
  LET found == <<[trigger |-> "thesis_break", severity |-> ThesisBreak(review)],
                 [trigger |-> "regime_flip", severity |-> RegimeFlip(signs.regime)],
                 [trigger |-> "strong_opposite_confluence", severity |-> Opposition(review, signs.opposition)],
                 [trigger |-> "options_collapse", severity |-> OptionsCollapse(class, signs.healthy)],
                 [trigger |-> "risk_emergency", severity |-> RiskEmergency(signs.critical, signs.event)]>>
      scenarios == {i \in DOMAIN found : found[i].severity # Quiet}
      highest == Max({found[i].severity : i \in scenarios})
      trigger == found[Min(scenarios)].trigger
  IN IF scenarios = {} THEN NoIntervention
     ELSE [intervene |-> TRUE, trigger |-> trigger, severity |-> Severities[highest],
           action |-> ActionMap[trigger][highest]]

=============================================================================
