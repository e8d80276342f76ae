-------------------------------- MODULE Heads --------------------------------
(***************************************************************************)
(* Floor 4: what each department head reads out of a contract of Floor 3.  *)
(* (floor_4_heads/*_head.py, head_types.py)                                *)
(*                                                                         *)
(* Shares are in per cent, a confidence in ten-thousandths.  A kind of     *)
(* signal that is missing is an empty sequence.  Wording is left out: a    *)
(* rule of invalidation is a name.                                         *)
(***************************************************************************)
EXTENDS Integers, Sequences, FiniteSets, SequencesExt, FiniteSetsExt

CONSTANT None

ASSUME HeadsAssumption == None \notin Int

Percent(x) == Max({0, Min({100, x})})
LastOnly(s) == IF s = <<>> THEN <<>> ELSE <<s[Len(s)]>>
LastOr(s, default) == IF s = <<>> THEN default ELSE s[Len(s)]
If(condition, value) == IF condition THEN value ELSE 0
Rule(condition, name) == IF condition THEN {name} ELSE {}

\* Fault: no rule of invalidation is no reason to give one.
NoBaseline(rules) == rules

\* _build_invalidation: the baseline when there is nothing to say
OrBaseline(rules) == IF rules = {} THEN {"baseline"} ELSE rules

\* compute_bias_from_signals: neutral when the weaker side has over three tenths of the stronger
Bias(bullish, bearish) ==
  LET major == Max({bullish, bearish}) minor == Min({bullish, bearish})
  IN CASE major = 0 \/ 10 * minor > 3 * major -> "NEUTRAL"
       [] bullish > bearish -> "BULLISH"
       [] OTHER -> "BEARISH"

\* compute_confidence
Confidence(base, fresh, context, strength) ==
  Max({0, Min({10000, 40 * base + 20 * fresh + 25 * context + 15 * strength})})

\* What a head reports when it says nothing else; the refresh adds how fresh it is.
Silent ==
  [bias |-> "NEUTRAL", confidence |-> 0, quality |-> 0, primary |-> None, backup |-> None,
   zones |-> <<>>, triggers |-> <<>>, rules |-> {"no data"}, caution |-> 0, eventRisk |-> FALSE,
   allowed |-> TRUE, cooldown |-> FALSE, repeated |-> FALSE, trap |-> FALSE,
   tag |-> "STALE", freshness |-> 0, state |-> "STALE"]

\* _make_zone_dict
ZoneOf(type, price, direction) == [type |-> type, price |-> price, direction |-> direction]

-----------------------------------------------------------------------------
(* SMC. *)

\* _compute_context_quality of the SMC head
SmcQuality(valid, gaps, blocks, chochs, n) ==
  Percent(If(valid, 30) + If(gaps, 25) + If(blocks, 20) + If(chochs, 15) + Min({10, n}))

\* _compute_base_confidence of the SMC head
SmcBase(valid, primary, gaps) ==
  Percent(If(valid, 30) + If(primary # None, 40) + Min({20, 10 * gaps}))

\* The setups of a side: from open gaps, from blocks, from structure alone.
SideSetups(gaps, blocks, chochs, structure) ==
  CASE gaps # <<>> -> <<"FVG Retest", IF blocks # <<>> THEN "Order Block Bounce" ELSE None>>
    [] gaps = <<>> /\ blocks # <<>> ->
         <<"Order Block Bounce", IF chochs # <<>> THEN "Structure Break Continuation" ELSE None>>
    [] OTHER -> <<IF structure THEN "BOS Continuation" ELSE None, None>>

OfType(signals, type) == SelectSeq(signals, LAMBDA x : x.type = type)
Unmitigated(gaps) == FlattenSeq([k \in DOMAIN gaps |-> IF gaps[k].mitigated THEN <<>> ELSE <<gaps[k]>>])

\* The structure, the open gaps and the blocks of a side.
UpSide(s) ==
  [structure |-> \E m \in ToSet(LastOnly(s.structure)) : m.valid /\ m.type \in {"BULLISH_HH_HL", "BREAKOUT"},
   gaps |-> OfType(Unmitigated(s.gaps), "BULLISH_FVG"), blocks |-> OfType(s.blocks, "BULLISH_OB"),
   chochs |-> OfType(s.chochs, "BULLISH_CHOCH")]
DownSide(s) ==
  [structure |-> \E m \in ToSet(LastOnly(s.structure)) : m.valid /\ m.type = "BEARISH_LH_LL",
   gaps |-> OfType(Unmitigated(s.gaps), "BEARISH_FVG"), blocks |-> OfType(s.blocks, "BEARISH_OB"),
   chochs |-> OfType(s.chochs, "BEARISH_CHOCH")]

\* What a side weighs: every confirmed change of character counts for both.
SideWeight(side, confirmed) ==
  Len(side.gaps) + Len(side.blocks) + Len(confirmed) + If(side.structure, 2)

SmcZones(up, down) ==
  LET gaps(side, direction) == [k \in DOMAIN side.gaps |-> ZoneOf("FVG", side.gaps[k].top, direction)]
      blocks(side, direction) == [k \in DOMAIN side.blocks |-> ZoneOf("ORDER_BLOCK", side.blocks[k].price, direction)]
  IN gaps(up, "bullish") \o gaps(down, "bearish") \o blocks(up, "bullish") \o blocks(down, "bearish")

SmcSetups(bias, up, down) ==
  LET any(side) == side.gaps # <<>> \/ side.blocks # <<>>
  IN CASE bias = "BULLISH" -> SideSetups(up.gaps, up.blocks, up.chochs, up.structure)
       [] bias = "BEARISH" -> SideSetups(down.gaps, down.blocks, down.chochs, down.structure)
       [] OTHER -> <<IF any(up) THEN "Liquidity Sweep Reclaim" ELSE None,
                     IF any(down) /\ ~any(up) THEN "Liquidity Sweep Reclaim" ELSE None>>

\* SMCHead._interpret; the trigger of a bearish gap takes the last zone, which may be a block's
SmcReport(s, fresh) ==
  LET up == UpSide(s) down == DownSide(s)
      confirmed == SelectSeq(s.chochs, LAMBDA c : c.confirmed)
      bias == Bias(SideWeight(up, confirmed), SideWeight(down, confirmed))
      zones == SmcZones(up, down)
      setups == SmcSetups(bias, up, down)
      valid == \E m \in ToSet(LastOnly(s.structure)) : m.valid
      open == Len(Unmitigated(s.gaps))
      n == Len(s.structure) + Len(s.gaps) + Len(s.blocks) + Len(s.chochs)
      quality == SmcQuality(valid, open > 0, s.blocks # <<>>, confirmed # <<>>, n)
  IN IF n = 0 THEN Silent
     ELSE [Silent EXCEPT
           !.bias = bias, !.primary = setups[1], !.backup = setups[2], !.zones = zones, !.quality = quality,
           !.triggers = (IF up.gaps = <<>> THEN <<>> ELSE <<zones[1].price>>)
                        \o (IF down.gaps = <<>> THEN <<>> ELSE <<zones[Len(zones)].price>>),
           !.rules = OrBaseline(Rule(up.structure, "swing low") \cup Rule(down.structure, "swing high")
                       \cup Rule(setups[1] = "FVG Retest" /\ up.gaps # <<>>, "gap closed")
                       \cup Rule(setups[1] = "Order Block Bounce" /\ up.blocks # <<>>, "block broken")),
           !.confidence = Confidence(SmcBase(valid, setups[1], open), fresh, quality, Min({100, 5 * n}))]

-----------------------------------------------------------------------------
(* ICT. *)

\* The last word of each kind of signal.
PdOf(s) == LastOr(s.pd, [state |-> "", equilibrium |-> 0, ote |-> 0])
MoveOf(s) == LastOr(s.displacement, [side |-> "", strength |-> 0])
ShiftOf(s) == LastOr(s.mss, [side |-> "", confirmed |-> FALSE])
OpenOn(s, side) == \E l \in ToSet(s.levels) : l.type = side /\ ~l.swept

\* Open liquidity on the other side draws the price.
IctBias(s) ==
  LET weight(side) == If(MoveOf(s).side = side, IF MoveOf(s).strength > 50 THEN 2 ELSE 1)
                      + If(ShiftOf(s).confirmed /\ ShiftOf(s).side = side, 2)
  IN Bias(If(PdOf(s).state = "DISCOUNT", 2) + weight("BULLISH") + If(OpenOn(s, "SELL_SIDE"), 1),
          If(PdOf(s).state = "PREMIUM", 2) + weight("BEARISH") + If(OpenOn(s, "BUY_SIDE"), 1))

IctSetups(s, bias) ==
  LET with(condition, setup) == IF condition THEN setup ELSE None
      moved == MoveOf(s).side = bias
      shifted == with(ShiftOf(s).confirmed, "MSS Continuation")
      zone == IF bias = "BULLISH" THEN "DISCOUNT" ELSE "PREMIUM"
  IN CASE bias = "NEUTRAL" ->
            <<with(OpenOn(s, "BUY_SIDE") \/ OpenOn(s, "SELL_SIDE"), "Delivery-Aligned Reversal"), None>>
       [] bias # "NEUTRAL" /\ PdOf(s).state = zone ->
            <<"Premium/Discount Reaction", with(moved, "Displacement Reclaim")>>
       [] bias # "NEUTRAL" /\ PdOf(s).state # zone /\ moved -> <<"Displacement Reclaim", shifted>>
       [] OTHER -> <<shifted, None>>

IctZones(s) ==
  LET entry(pd) == IF pd.ote = 0 THEN <<>>
                   ELSE <<ZoneOf("OTE_ZONE", pd.ote, IF pd.state = "DISCOUNT" THEN "bullish" ELSE "bearish")>>
  IN (IF PdOf(s).equilibrium > 0 THEN <<ZoneOf("EQUILIBRIUM", PdOf(s).equilibrium, "neutral")>> ELSE <<>>)
     \o FlattenSeq([k \in DOMAIN s.pd |-> entry(s.pd[k])])

\* _compute_context_quality and _compute_base_confidence of the ICT head
IctQuality(s) ==
  Percent(If(s.pd # <<>>, 30) + If(s.displacement # <<>>, 20) + If(ShiftOf(s).confirmed, 30)
          + LastOr(s.delivery, 50) \div 10 + Min({10, s.count}))
IctBase(s, primary) ==
  Percent(If(s.pd # <<>>, 20) + If(primary # None, 30) + If(ShiftOf(s).confirmed, 20)
          + LastOr(s.delivery, 50) \div 5)

\* ICTHead._interpret; s.delivery is in per cent
IctReport(s, fresh) ==
  LET setups == IctSetups(s, IctBias(s))
  IN IF s.count = 0 THEN Silent
     ELSE [Silent EXCEPT
           !.bias = IctBias(s), !.primary = setups[1], !.backup = setups[2], !.quality = IctQuality(s),
           !.zones = IctZones(s),
           !.rules = OrBaseline(Rule(PdOf(s).state = "DISCOUNT", "discount lost")
                       \cup Rule(PdOf(s).state = "PREMIUM", "premium lost")
                       \cup Rule(ShiftOf(s).confirmed, "shift fails")),
           !.confidence = Confidence(IctBase(s, setups[1]), fresh, IctQuality(s), Percent((100 * s.count) \div 15))]

-----------------------------------------------------------------------------
(* Technical. *)

\* trend is STRONG_UP and so on, vwap the distance from it
Aligned(s) == s.trend # <<>> /\ s.aligned
IsOversold(s) == LastOr(s.rsi, "NEUTRAL") = "OVERSOLD"
IsOverbought(s) == LastOr(s.rsi, "NEUTRAL") = "OVERBOUGHT"
FastOf(s) == LastOr(s.fast, 0)
SlowOf(s) == LastOr(s.slow, 0)

TechnicalBias(s) ==
  LET trendWeight == (IF Aligned(s) THEN 2 ELSE 1) + If(s.strong, 1)
      trend(states) == If(LastOr(s.trend, "") \in states, trendWeight)
      vwap(above) == If(s.vwap # <<>> /\ (LastOr(s.vwap, 0) > 0) = above, 1)
  IN Bias(trend({"STRONG_UP", "WEAK_UP"}) + If(IsOversold(s), 1) + vwap(TRUE)
            + If(FastOf(s) > SlowOf(s) /\ SlowOf(s) > 0, 1),
          trend({"STRONG_DOWN", "WEAK_DOWN"}) + If(IsOverbought(s), 1) + vwap(FALSE)
            + If(SlowOf(s) > FastOf(s) /\ FastOf(s) > 0, 1))

TechnicalSetups(s, bias) ==
  LET rebound == "Support/Resistance Rebound"
  IN CASE bias # "NEUTRAL" /\ s.vwap # <<>> ->
            <<"VWAP Pullback Continuation", IF Aligned(s) THEN "Trend Continuation Reclaim" ELSE None>>
       [] bias # "NEUTRAL" /\ s.vwap = <<>> /\ Aligned(s) ->
            <<"Trend Continuation Reclaim", "MTF Breakout Continuation">>
       [] bias # "NEUTRAL" /\ s.vwap = <<>> /\ ~Aligned(s) -> <<rebound, None>>
       [] bias = "NEUTRAL" /\ IsOversold(s) -> <<rebound, None>>
       [] bias = "NEUTRAL" /\ IsOverbought(s) -> <<None, rebound>>
       [] OTHER -> <<IF LastOr(s.vwap, 0) \notin -50 .. 50 THEN "VWAP Pullback Continuation" ELSE None, None>>

TechnicalZones(s) ==
  LET side == IF FastOf(s) > SlowOf(s) THEN "bullish" ELSE "bearish"
      zone(present, z) == IF present THEN <<z>> ELSE <<>>
      profile(p) == <<ZoneOf("POC", p.poc, "neutral"), ZoneOf("VAH", p.vah, "bearish"), ZoneOf("VAL", p.val, "bullish")>>
  IN zone(s.vwap # <<>>, ZoneOf("VWAP", LastOr(s.vwap, 0), IF LastOr(s.vwap, 0) > 0 THEN "bullish" ELSE "bearish"))
     \o zone(FastOf(s) > 0, ZoneOf("MA_FAST", FastOf(s), side)) \o zone(SlowOf(s) > 0, ZoneOf("MA_SLOW", SlowOf(s), side))
     \o (IF s.profile = <<>> THEN <<>> ELSE profile(s.profile[1]))

\* _compute_base_confidence of the technical head
TechnicalBase(s, primary) ==
  Percent(If(Aligned(s), 40) + If(primary # None, 30) + Min({20, 2 * s.count}))

\* TechnicalHead._interpret
TechnicalReport(s, fresh) ==
  LET setups == TechnicalSetups(s, TechnicalBias(s))
  IN IF s.count = 0 THEN Silent
     ELSE [Silent EXCEPT
           !.bias = TechnicalBias(s), !.primary = setups[1], !.backup = setups[2], !.zones = TechnicalZones(s),
           !.rules = OrBaseline(Rule(Aligned(s), "alignment lost") \cup Rule(s.vwap # <<>>, "vwap lost")
                       \cup Rule(FastOf(s) > 0 /\ SlowOf(s) > 0, "cross reverses")),
           !.confidence = Confidence(TechnicalBase(s, setups[1]), fresh, IF Aligned(s) THEN 60 ELSE 30,
                                     Percent((100 * s.count) \div 15))]

-----------------------------------------------------------------------------
(* Options. *)

\* pcr in per cent; building counts interest up by a tenth; pressure is the strength
\* of each side in whole numbers
WallsOf(s, type) == SelectSeq(s.walls, LAMBDA w : w.type = type)

OptionsBias(s) ==
  LET pcr == LastOr(s.pcr, 100)
  IN Bias(If(pcr > 120, 1) + s.building["PE"] + If(WallsOf(s, "PUT_WALL") # <<>>, 2) + s.pressure["BULLISH"],
          If(pcr < 80, 1) + s.building["CE"] + If(WallsOf(s, "CALL_WALL") # <<>>, 2) + s.pressure["BEARISH"])

OptionsSetups(s, bias) ==
  LET more == IF bias # "NEUTRAL" /\ s.pressure[bias] > 0 THEN "Options Pressure Continuation" ELSE None
      own == WallsOf(s, IF bias = "BULLISH" THEN "PUT_WALL" ELSE "CALL_WALL")
  IN CASE bias = "NEUTRAL" -> <<None, IF WallsOf(s, "CALL_WALL") \o WallsOf(s, "PUT_WALL") = <<>> THEN None
                                      ELSE "Wall-Break Transition">>
       [] bias # "NEUTRAL" /\ own # <<>> -> <<"OI Wall Bounce", more>>
       [] OTHER -> <<more, None>>

OptionsZones(s) ==
  LET zone(type, direction) ==
        LET wall == LastOnly(WallsOf(s, type))
        IN [k \in DOMAIN wall |-> ZoneOf(type, wall[k].strike, direction)]
  IN zone("CALL_WALL", "bearish") \o zone("PUT_WALL", "bullish")

\* _compute_base_confidence of the options head
OptionsBase(s, primary) ==
  Percent(If(s.walls # <<>>, 30) + If(primary # None, 30)
          + Min({30, 10 * (s.building["CE"] + s.building["PE"])}))

\* OptionsHead._interpret
OptionsReport(s, fresh) ==
  LET setups == OptionsSetups(s, OptionsBias(s))
  IN IF s.count = 0 THEN Silent
     ELSE [Silent EXCEPT
           !.bias = OptionsBias(s), !.primary = setups[1], !.backup = setups[2], !.zones = OptionsZones(s),
           !.rules = OrBaseline(Rule(WallsOf(s, "CALL_WALL") # <<>>, "call wall breaks")
                       \cup Rule(WallsOf(s, "PUT_WALL") # <<>>, "put wall breaks")
                       \cup Rule(s.pressure["BULLISH"] > 0, "bullish pressure gone")
                       \cup Rule(s.pressure["BEARISH"] > 0, "bearish pressure gone")),
           !.confidence = Confidence(OptionsBase(s, setups[1]), fresh, 50, Percent(10 * s.count))]

-----------------------------------------------------------------------------
(* Macro. *)

\* fii is the net state and whether it is above five hundred
EventRisk(s) == Max({0} \cup {e.risk : e \in ToSet(s.events)})

MacroCaution(s) ==
  LET vix == LastOr(s.vix, 15)
      fii == LastOr(s.fii, [net |-> "NEUTRAL", large |-> FALSE])
  IN Percent((CASE vix > 20 -> 40 [] vix \in 14 .. 20 -> 20 [] OTHER -> 0)
             + If(fii.net = "SELL", IF fii.large THEN 30 ELSE 15)
             + If(EventRisk(s) > 50, (30 * Min({100, EventRisk(s)})) \div 100)
             + (CASE LastOr(s.environment, "STABLE") = "STRESSED" -> 30
                  [] LastOr(s.environment, "STABLE") = "CAUTIOUS" -> 15 [] OTHER -> 0))

\* A light bias: no more than calm buying or troubled selling.
MacroBias(s, caution) ==
  LET net == LastOr(s.fii, [net |-> "NEUTRAL"]).net
  IN CASE caution < 20 /\ net = "BUY" -> "BULLISH"
       [] caution > 60 \/ (caution > 30 /\ net = "SELL") -> "BEARISH" [] OTHER -> "NEUTRAL"

\* _build_event_triggers
EventTriggers(s) ==
  IF EventRisk(s) > 50 THEN SetToSeq({e.type : e \in {x \in ToSet(s.events) : x.risk > 30}}) ELSE <<>>

\* _compute_base_confidence of the macro head
MacroBase(s, n) ==
  Percent(If(s.vix # <<>>, 30) + If(s.fii # <<>>, 30) + If(s.events # <<>>, 20) + Min({15, 3 * n}))

\* MacroHead._interpret
MacroReport(s, fresh) ==
  LET caution == MacroCaution(s)
      n == Len(s.vix) + Len(s.fii) + Len(s.events) + Len(s.environment)
  IN IF n = 0 THEN Silent
     ELSE [Silent EXCEPT
           !.caution = caution, !.eventRisk = EventRisk(s) > 50, !.bias = MacroBias(s, caution),
           !.triggers = EventTriggers(s),
           !.rules = OrBaseline(Rule(LastOr(s.vix, 15) >= 14, "vix normal") \cup Rule(EventRisk(s) > 50, "event passed")
                       \cup Rule(caution > 40, "caution removed")),
           !.confidence = Confidence(MacroBase(s, n), fresh, 50, Percent((100 * n) \div 8))]

-----------------------------------------------------------------------------
(* Psychology: the one head with a memory of its own. *)

\* PsychologyMemory and _last_refresh as minutes since, None before the first
NewMind ==
  [allowed |-> TRUE, cooldown |-> FALSE, left |-> 0, repeated |-> FALSE, mistakes |-> 0, sameZone |-> 0,
   trap |-> FALSE, density |-> 0, losses |-> 0, sequence |-> 0, decayed |-> None]

\* Fault: every refresh starts the clock of the cooldown again.
DecayFromNow(mind) == [mind EXCEPT !.decayed = IF mind.cooldown THEN 0 ELSE mind.decayed]

\* _decay_cooldown: only while a cooldown runs is the clock read
Decay(mind) ==
  IF ~mind.cooldown THEN mind
  ELSE IF mind.decayed = None \/ mind.decayed = 0 THEN [mind EXCEPT !.decayed = 0]
  ELSE LET left == mind.left - mind.decayed
       IN [mind EXCEPT !.decayed = 0, !.cooldown = left > 0, !.left = Max({0, left})]

\* _process_signals: in the order of the contract; a missing report changes nothing
Process(mind, s) ==
  LET loss == LastOr(s.loss, [count |-> mind.losses, sequence |-> mind.sequence])
      cooldown == LastOr(s.cooldown, [active |-> mind.cooldown, remaining |-> mind.left])
      trap == LastOr(s.trap, [pressure |-> mind.trap, density |-> mind.density])
      mistakes == LastOr(s.mistakes, [count |-> mind.mistakes, sameZone |-> mind.sameZone])
  IN [mind EXCEPT
        !.allowed = LastOr(s.discipline, mind.allowed),
        !.cooldown = cooldown.active, !.left = cooldown.remaining,
        !.losses = loss.count, !.sequence = loss.sequence,
        !.trap = trap.pressure, !.density = trap.density,
        !.mistakes = mistakes.count, !.sameZone = mistakes.sameZone,
        !.repeated = IF s.mistakes = <<>> THEN mind.repeated
                     ELSE CASE mistakes.sameZone >= 2 -> TRUE [] mistakes.sameZone = 0 -> FALSE [] OTHER -> mind.repeated]

\* _derive_trade_allowed
TradeAllowed(mind) ==
  /\ mind.allowed /\ ~mind.cooldown /\ mind.sequence < 3
  /\ ~(mind.trap /\ mind.density > 70)

\* _compute_caution_level, in per cent; nothing sets the memory's own level
Caution(mind) ==
  Percent(If(mind.cooldown, 25) + If(mind.repeated, 20)
          + If(mind.trap, (15 * Min({100, 2 * mind.density})) \div 100)
          + Min({30, 10 * mind.sequence}) + Min({15, 5 * mind.mistakes}))

\* PsychologyHead._interpret after its memory has been brought up to date
PsychologyReport(mind, count, fresh) ==
  LET base == Percent(If(count > 0, 40) + If(mind.allowed /\ ~mind.cooldown, 30)
                      + If(mind.mistakes > 0 \/ mind.losses > 0, 20))
  IN [Silent EXCEPT
      !.bias = IF TradeAllowed(mind) THEN "NEUTRAL" ELSE "BEARISH",
      !.allowed = TradeAllowed(mind), !.caution = Caution(mind), !.cooldown = mind.cooldown,
      !.repeated = mind.repeated, !.trap = mind.trap,
      !.rules = OrBaseline(Rule(mind.cooldown, "cooldown over") \cup Rule(mind.repeated, "mistakes over")
                  \cup Rule(mind.trap, "trap over") \cup Rule(mind.sequence >= 3, "losses over")
                  \cup Rule(~mind.allowed, "block lifted")),
      !.confidence = Confidence(base, fresh, 50, Percent(20 * count))]

=============================================================================
