------------------------------- MODULE Scoring -------------------------------
(***************************************************************************)
(* How the Captain turns the reports of the heads into scores: the story   *)
(* of the market, the confluence of the heads, the case against a trade,   *)
(* the three scores, the class of the trade, its decay and its levels.     *)
(* (floor_5_captain: session_policy, market_story_engine, confluence_,     *)
(* opposite_case_, conviction_, personality_, trade_class_,                *)
(* confidence_decay_engine, trade_idea_generator and trade_constructor)    *)
(*                                                                         *)
(* A view is what a cycle is given: the reports by head, and the summary   *)
(* of the floor or None.  A confidence is in tenths, a context quality in  *)
(* per cent, confluence and opposition in thousandths, a score in          *)
(* hundredths of a point until it is rounded to tenths, a price in tenths. *)
(***************************************************************************)
EXTENDS Integers, FiniteSets, FiniteSetsExt

CONSTANT None

Core == {"SMC", "ICT"}
Directional == Core \cup {"Technical", "Options", "Macro"}
Classes == {"SCALP", "CONTINUATION", "REVERSAL", "LIQUIDITY_RECLAIM", "OPTIONS_PRESSURE"}

Clamp(x, top) == IF x < 0 THEN 0 ELSE IF x > top THEN top ELSE x
When(condition, value) == IF condition THEN value ELSE 0
Sum(f(_), S) == MapThenSumSet(f, S)

\* _get_directional_reports
Voting(reports) == Directional \cap DOMAIN reports
WithBias(reports, bias) == {h \in Voting(reports) : reports[h].bias = bias}

-----------------------------------------------------------------------------
(* The session. *)

\* _utc_to_ist; a moment is a minute of the day in UTC and a weekday
Ist(moment) == (moment.minute + 330) % 1440

\* get_session_phase_from_time: what is no phase counts as the opening
Phase(moment) ==
  LET t == Ist(moment)
  IN CASE t \in 585 .. 659 -> "GOLDEN_MORNING" [] t \in 660 .. 779 -> "LUNCH"
       [] t \in 780 .. 930 -> "CLOSING" [] OTHER -> "OPENING"

\* is_market_open
MarketOpen(moment) == moment.weekday < 5 /\ Ist(moment) \in 555 .. 929

Strictness == [OPENING |-> "HIGH", GOLDEN_MORNING |-> "NORMAL", LUNCH |-> "NORMAL", CLOSING |-> "VERY_HIGH"]

\* get_aggression_modifier, in points of conviction
Aggression == [OPENING |-> -300, GOLDEN_MORNING |-> 150, LUNCH |-> -150, CLOSING |-> -300]

-----------------------------------------------------------------------------
(* The story. *)

Trend(bias) == IF bias = "BULLISH" THEN "TREND_UP" ELSE "TREND_DOWN"
WeakTrend(bias) == IF bias = "BULLISH" THEN "WEAK_UP" ELSE "WEAK_DOWN"

\* _detect_regime_from_reports
RegimeOfReports(reports) ==
  LET n == Cardinality(Voting(reports))
      sum == Sum(LAMBDA h : reports[h].confidence, Voting(reports))
      up == Cardinality(WithBias(reports, "BULLISH"))
      down == Cardinality(WithBias(reports, "BEARISH"))
      side == IF up > down THEN "BULLISH" ELSE "BEARISH"
  IN CASE n = 0 -> "UNCLEAR"
       [] n > 0 /\ sum < 4 * n -> "CHOP"
       [] n > 0 /\ sum >= 4 * n /\ up = down -> "RANGE"
       [] OTHER -> IF sum >= 7 * n THEN Trend(side) ELSE WeakTrend(side)

\* _detect_regime: the floor's own bias and confidence, whatever the confluence says
Regime(view) ==
  LET s == view.summary
      heads == s.ready + s.uncertain + s.stale
  IN IF s = None THEN RegimeOfReports(view.reports)
     ELSE CASE heads > 0 /\ 2 * s.stale > heads -> "UNCLEAR"
            [] ~(heads > 0 /\ 2 * s.stale > heads) /\ s.conflict /\ s.confidence < 40 -> "CHOP"
            [] OTHER -> IF s.bias = "NEUTRAL" THEN (IF s.conflict THEN "CHOP" ELSE "RANGE")
                        ELSE IF s.confidence >= 70 THEN Trend(s.bias)
                        ELSE IF s.confidence >= 40 THEN WeakTrend(s.bias) ELSE "RANGE"

\* _get_directional_bias
StoryBias(view) ==
  LET up == Cardinality(WithBias(view.reports, "BULLISH"))
      down == Cardinality(WithBias(view.reports, "BEARISH"))
  IN CASE view.summary # None -> view.summary.bias
       [] view.summary = None /\ up > down -> "BULLISH" [] view.summary = None /\ down > up -> "BEARISH"
       [] OTHER -> "NEUTRAL"

-----------------------------------------------------------------------------
(* The confluence. *)

Priority == [SMC |-> 10, ICT |-> 9, Technical |-> 7, Options |-> 6, Macro |-> 4]
StateWeight == [READY |-> 10, UNCERTAIN |-> 6, STALE |-> 3]
TagWeight == [FRESH |-> 20, WARM |-> 15, STALE |-> 8]

\* _get_context_quality_modifier
QualityWeight(q) == CASE q = None -> 8 [] q \in 80 .. 100 -> 10 [] q \in 50 .. 79 -> 8 [] OTHER -> 5

\* _compute_trust_weight
Trust(h, r) ==
  Priority[h] * StateWeight[r.state] * TagWeight[r.tag] * (IF h \in Core THEN QualityWeight(r.quality) ELSE 10)

\* bullish_weight, bearish_weight, neutral_weight
Votes(reports, bias) ==
  Sum(LAMBDA h : Trust(h, reports[h]) * reports[h].confidence, WithBias(reports, bias))

\* max of the pairs: of equal weights the name decides
Dominant(up, down, calm) ==
  CASE calm >= up /\ calm >= down -> "NEUTRAL" [] calm < up /\ up >= down -> "BULLISH" [] OTHER -> "BEARISH"

\* _detect_conflict
InConflict(reports, dominant, quality) ==
  /\ \A bias \in {"BULLISH", "BEARISH"} : WithBias(reports, bias) # {}
  /\ \/ /\ \A h \in Core : h \in DOMAIN reports /\ reports[h].bias \notin {dominant, "NEUTRAL"}
        /\ quality < 700
     \/ quality < 600

\* The vote that weighs most, its share, the heads of that mind, and the conflict.
Weighed(reports, dominant, most, total) ==
  LET quality == IF total = 0 THEN 0 ELSE (1000 * most) \div total
  IN [dominant |-> dominant, quality |-> quality, aligned |-> WithBias(reports, dominant),
      conflict |-> InConflict(reports, dominant, quality)]

Poll(reports, up, down, calm) ==
  Weighed(reports, Dominant(up, down, calm), Max({up, down, calm}), up + down + calm)

\* compute_confluence
Confluence(reports) ==
  Poll(reports, Votes(reports, "BULLISH"), Votes(reports, "BEARISH"), Votes(reports, "NEUTRAL"))

\* _direction_from_confluence, _determine_direction
Direction(confluence) ==
  CASE confluence.dominant = "BULLISH" -> "BUY" [] confluence.dominant = "BEARISH" -> "SELL" [] OTHER -> None

-----------------------------------------------------------------------------
(* The case against a trade. *)

Other(bias) == IF bias = "BULLISH" THEN "BEARISH" ELSE "BULLISH"

\* _check_head_biases: a fifth for each head, weighted by the mean confidence
BiasesAgainst(reports, against) ==
  LET heads == WithBias(reports, against)
  IN When(heads # {}, Clamp(20 * Sum(LAMBDA h : reports[h].confidence, heads)
                            + When("SMC" \in heads, 150) + When("ICT" \in heads, 100), 1000))

\* _check_bull_bear_cases: the heads that have more than a word to say for the other side
CasesAgainst(reports, against) ==
  Clamp((1000 * Cardinality({h \in Voting(reports) : against \in reports[h].cases})) \div 3, 1000)

\* _check_options_context
OptionsAgainst(reports, against) ==
  IF "Options" \notin WithBias(reports, against) THEN 0
  ELSE LET r == reports["Options"]
       IN IF r.walls THEN Clamp(120 * r.confidence, 1000) ELSE When(r.confidence >= 6, 60 * r.confidence)

\* _check_macro_context
MacroAgainst(reports, against) ==
  IF "Macro" \notin DOMAIN reports THEN 0
  ELSE LET r == reports["Macro"] opposes == r.bias = against
       IN IF r.eventRisk /\ opposes THEN 60 * (IF r.confidence = 0 THEN 5 ELSE r.confidence)
          ELSE When(r.eventRisk \/ (opposes /\ r.confidence >= 6), 300)

\* _check_invalidation_clarity
UnclearFor(reports, bias) ==
  LET heads == WithBias(reports, bias)
      weak == Cardinality({h \in heads : ~reports[h].clear})
  IN IF weak = 0 \/ 10 * weak < 3 * Cardinality(heads) THEN 0
     ELSE Clamp((600 * weak) \div Cardinality(heads), 500)

\* _check_smc_ict_structure
StructureAgainst(reports, against) ==
  LET part(h, weight) ==
        IF h \notin WithBias(reports, against) THEN 0
        ELSE (reports[h].confidence * weight
              * (IF reports[h].quality \in {None, 0} THEN 50 ELSE reports[h].quality)) \div 10
  IN Clamp(part("SMC", 15) + part("ICT", 12), 1000)

NoCase == [exists |-> FALSE, strength |-> 0]

\* The mean of the reasons there are: a weak one more makes the case weaker.
MeanOfReasons(scores) ==
  LET reasons == {x \in scores : x.score > 0}
  IN IF reasons = {} THEN 0 ELSE Clamp(Sum(LAMBDA x : x.score, reasons) \div Cardinality(reasons), 1000)

\* analyze: of a bias.  A direction to trade in is none, so heavy_cycle gets no case.
OppositeCase(proposed, reports) ==
  IF proposed \notin {"BULLISH", "BEARISH"} THEN NoCase
  ELSE LET against == Other(proposed)
           strength == MeanOfReasons(
             {[check |-> "biases", score |-> BiasesAgainst(reports, against)],
              [check |-> "cases", score |-> CasesAgainst(reports, against)],
              [check |-> "options", score |-> OptionsAgainst(reports, against)],
              [check |-> "macro", score |-> MacroAgainst(reports, against)],
              [check |-> "clarity", score |-> UnclearFor(reports, proposed)],
              [check |-> "structure", score |-> StructureAgainst(reports, against)]})
       IN [exists |-> strength > 100, strength |-> strength]

-----------------------------------------------------------------------------
(* The scores. *)

Trends == {"TREND_UP", "TREND_DOWN"}
WeakTrends == {"WEAK_UP", "WEAK_DOWN"}
NoRegime == {"CHOP", "UNCLEAR"}

Tenths(score) == (score + 5) \div 10

\* conviction_score_to_band
Band(score) ==
  IF score >= 900 THEN "ELITE" ELSE IF score >= 750 THEN "STRONG" ELSE IF score >= 600 THEN "TRADABLE"
  ELSE IF score >= 400 THEN "WEAK" ELSE "REJECT"

BandValue == [REJECT |-> 0, WEAK |-> 1, TRADABLE |-> 2, STRONG |-> 3, ELITE |-> 4]
Tradable == {"TRADABLE", "STRONG", "ELITE"}

\* _compute_permission_score of a cycle that is allowed; psych is the psychology report or None
PermissionScore(confluence, psych, phase) ==
  LET base == 5000 + 2 * confluence.quality
              + (CASE Strictness[phase] = "NORMAL" -> 1500 [] Strictness[phase] = "HIGH" -> 750 [] OTHER -> 300)
      wary == IF psych # None /\ psych.caution > 5 THEN (base * (100 - 3 * psych.caution)) \div 100 ELSE base
  IN Clamp(IF psych # None /\ psych.cooldown THEN wary \div 2 ELSE wary, 10000)

\* _compute_conviction_score: a trend counts for the trade, whichever way it goes
ConvictionScore(confluence, opposite, regime, psych, phase) ==
  Clamp(6 * confluence.quality
        - When(opposite.exists, (5 * opposite.strength) \div 2 + When(opposite.strength >= 700, 1500))
        + When(regime \in Trends, 2500) + When(regime \in WeakTrends, 1500) + When(regime = "RANGE", 750)
        - (IF psych = None THEN 0
           ELSE When(psych.caution > 5, 75 * psych.caution) + When(psych.cooldown, 750) + When(psych.trap, 450))
        + Aggression[phase], 10000)

\* _compute_no_trade_score
NoTradeScore(confluence, opposite, regime, psych) ==
  Clamp(When(opposite.exists, (7 * opposite.strength) \div 2)
        + When(confluence.conflict, 2000)
        + When(confluence.quality < 400, (5 * (1000 - confluence.quality)) \div 2)
        + (IF psych = None THEN 0
           ELSE (IF ~psych.allowed THEN 2500 ELSE When(psych.caution > 5, 250 * psych.caution))
                + When(psych.cooldown, 1250) + When(psych.repeated, 1000))
        + When(regime \in NoRegime, 1500) + When(regime = "RANGE", 750), 10000)

\* _check_stale_core_heads
CoreStale(reports) == \E h \in Core \cap DOMAIN reports : reports[h].state = "STALE"

\* _evaluate_setup_presence: a summary that was built says HAS_SETUP or NO_SETUP and
\* keeps what kind of absence it is for itself
SetupPresence(summary) ==
  CASE summary = None -> "UNKNOWN"
    [] summary # None /\ summary.presence # None -> summary.presence
    [] OTHER -> IF summary.ready >= 3 THEN "READY_NO_SETUP" ELSE IF summary.uncertain >= 2 THEN "UNCERTAIN_NO_SETUP"
                ELSE IF summary.stale >= 2 THEN "STALE_NO_SETUP" ELSE "UNKNOWN"

\* Steps 13 to 13c of heavy_cycle, on rounded scores
Penalised(conviction, noTrade, stale, presence) ==
  LET price == IF ~stale THEN 0 ELSE IF conviction >= 600 THEN 150 ELSE 50
  IN [conviction |-> Clamp(Clamp(conviction - price, 1000) - When(presence = "STALE_NO_SETUP", 50), 1000),
      noTrade |-> Clamp(noTrade + price \div 2 + When(presence = "STALE_NO_SETUP", 200)
                        + When(presence = "UNCERTAIN_NO_SETUP", 100), 1000)]

-----------------------------------------------------------------------------
(* The decay. *)

\* _DECAY_RATES, in per cent for a cycle; without a class the default
DecayRate ==
  [SCALP |-> 30, CONTINUATION |-> 10, REVERSAL |-> 15, LIQUIDITY_RECLAIM |-> 5, OPTIONS_PRESSURE |-> 5]
RateOf(class) == IF class = None THEN 10 ELSE DecayRate[class]

\* calculate_decay
DecayFactor(class, elapsed) ==
  IF 100 - RateOf(class) * elapsed < 10 THEN 10 ELSE 100 - RateOf(class) * elapsed

\* Fault: the decay is reported, and the score is left as it was.
DecayedInReport(score, class, elapsed) == score

\* apply_decay
Decayed(score, class, elapsed) ==
  IF elapsed = 0 THEN score ELSE (score * DecayFactor(class, elapsed) + 50) \div 100

\* Fault: any conviction that outweighs the reasons against it will do.
WantsAny(conviction, noTrade) == conviction > noTrade

\* _should_trade
ShouldTrade(conviction, noTrade) == Band(conviction) \in Tradable /\ conviction > noTrade

-----------------------------------------------------------------------------
(* The mood, and why there is no trade. *)

\* determine_mood of a cycle that is allowed, so without an active trade: what a
\* loss would change in it is only asked otherwise
Mood(band, regime, phase) ==
  LET lively == regime \in Trends \cup WeakTrends
      late == phase \in {"LUNCH", "CLOSING"}
  IN CASE band \in {"STRONG", "ELITE"} -> IF lively /\ ~late THEN "AGGRESSIVE" ELSE "PATIENT"
       [] band = "TRADABLE" -> IF lively /\ ~late THEN "PATIENT" ELSE "OBSERVER"
       [] OTHER -> "OBSERVER"

\* _log_silence_reason
WaitReason(conviction, confluence, opposite, regime) ==
  IF Band(conviction) \in {"REJECT", "WEAK"}
    THEN IF confluence.conflict /\ opposite.strength <= 700 THEN "INSUFFICIENT_CONFLUENCE" ELSE "WEAK_CONVICTION"
    ELSE IF regime \in NoRegime THEN "DEAD_MARKET" ELSE "WEAK_CONVICTION"

=============================================================================
