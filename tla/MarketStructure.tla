-------------------------- MODULE MarketStructure --------------------------
(***************************************************************************)
(* The smart-money engine of Floor 3: swings, structure, fair value gaps,  *)
(* order blocks and changes of character of a series of candles.           *)
(* (floor_3_calculations/smc/)                                             *)
(*                                                                         *)
(* Prices are whole ticks of about one per cent; a candle's time is its    *)
(* place in the series.  What the code writes once for highs and once for  *)
(* lows is written once here, on the side a swing looks to.                *)
(***************************************************************************)
EXTENDS Integers, Sequences, FiniteSets, SequencesExt, FiniteSetsExt

CONSTANTS
  Window,        \* pivot_window: candles on each side of a swing
  Lookback,      \* market_structure_lookback, in candles
  MinGap,        \* fvg_min_gap_pips, in ticks
  Confirmations, \* choch_required_consecutive
  ChochCandles   \* shortest series looked at for a change of character

ASSUME StructureAssumption ==
  /\ Window \in Nat \ {0} /\ Lookback \in Nat /\ Lookback >= 3
  /\ MinGap \in Nat \ {0} /\ Confirmations \in Nat \ {0} /\ ChochCandles \in Nat

\* The numbers from 1 to n, none when n is negative.
UpTo(n) == 1 .. Max({0, n})

\* The last n of a series: candles[-n:]
LastN(s, n) == IF Len(s) > n THEN SubSeq(s, Len(s) - n + 1, Len(s)) ELSE s

\* The elements of a series at some of its places, in their order.
Kept(s, places) == FlattenSeq([k \in DOMAIN s |-> IF k \in places THEN <<s[k]>> ELSE <<>>])

\* A price on the side a swing looks to; the larger, the further out.
Side(kind, price) == IF kind = "HIGH" THEN price ELSE 0 - price
EdgeOf(kind, c) == IF kind = "HIGH" THEN c.high ELSE c.low

Clamp(low, x, high) == Max({low, Min({x, high})})

-----------------------------------------------------------------------------
(* Swings and structure. *)

\* _normalize_strength, in per cent: half a per cent is a quarter
Strength(diff, reference) ==
  IF reference <= 0 \/ diff <= 0 THEN 10 ELSE Clamp(10, (diff * 5000) \div reference, 100)

\* _detect_pivots: of equal candles the first is the swing
Pivots(candles, kind) ==
  LET out(i) == Side(kind, EdgeOf(kind, candles[i]))
  IN {i \in Window + 1 .. Len(candles) - Window :
        /\ \A j \in i - Window .. i - 1 : out(j) < out(i)
        /\ \A j \in i + 1 .. i + Window : out(j) <= out(i)}

\* The swing at a pivot, with how far it stands out from its neighbours.
SwingAt(candles, kind, i, offset) ==
  LET out(j) == Side(kind, EdgeOf(kind, candles[j]))
      beside == (i - Window .. i + Window) \ {i}
  IN [kind |-> kind, price |-> EdgeOf(kind, candles[i]), at |-> i + offset,
      strength |-> Strength(out(i) - Max({out(j) : j \in beside}), EdgeOf(kind, candles[i]))]

\* analyze_structure: the swings of the last candles by time, a high before a low
Swings(candles) ==
  LET recent == LastN(candles, Lookback)
      offset == Len(candles) - Len(recent)
      pivots == [kind \in {"HIGH", "LOW"} |-> Pivots(recent, kind)]
      swing(i, kind) == IF i \in pivots[kind] THEN <<SwingAt(recent, kind, i, offset)>> ELSE <<>>
  IN FlattenSeq([i \in DOMAIN recent |-> swing(i, "HIGH") \o swing(i, "LOW")])

OfKind(swings, kind) == SelectSeq(swings, LAMBDA s : s.kind = kind)

\* Steps from one swing to the next of its kind that go up.
Rises(swings) == Cardinality({i \in 2 .. Len(swings) : swings[i].price > swings[i - 1].price})

\* _is_recent_breakout: the last of three swings half a per cent beyond its predecessor
RecentBreakout(swings) ==
  LET three == LastN(swings, 3)
      highs == OfKind(three, "HIGH")
      lows == OfKind(three, "LOW")
  IN \/ Len(highs) >= 2 /\ 1000 * highs[Len(highs)].price > 1005 * highs[Len(highs) - 1].price
     \/ Len(lows) >= 2 /\ 1000 * lows[Len(lows)].price < 995 * lows[Len(lows) - 1].price

\* Seven tenths of the steps; what does not rise counts as a fall.
Trend(highs, lows, otherwise) ==
  LET pairs == Len(highs) + Len(lows) - 2
      rises == Rises(highs) + Rises(lows)
  IN CASE Len(highs) < 2 \/ Len(lows) < 2 -> "CHOP"
       [] 10 * rises >= 7 * pairs -> "BULLISH_HH_HL"
       [] 10 * (pairs - rises) >= 7 * pairs -> "BEARISH_LH_LL"
       [] OTHER -> otherwise

\* _classify_structure
Structure(swings) ==
  IF Len(swings) < 4 THEN "CHOP"
  ELSE Trend(OfKind(swings, "HIGH"), OfKind(swings, "LOW"),
             IF RecentBreakout(swings) THEN "BREAKOUT" ELSE "CHOP")

StructureValid(candles) == Len(LastN(candles, Lookback)) >= 2 * Window + 1

-----------------------------------------------------------------------------
(* Fair value gaps. *)

\* _check_bullish_fvg, _check_bearish_fvg: the space between a candle and the next but one
BullishGap(candles, i) ==
  LET bottom == candles[i].high top == candles[i + 2].low
  IN IF top - bottom >= MinGap
     THEN <<[type |-> "BULLISH_FVG", top |-> top, bottom |-> bottom, at |-> i, mitigated |-> FALSE]>> ELSE <<>>

BearishGap(candles, i) ==
  LET top == candles[i].low bottom == candles[i + 2].high
  IN IF top - bottom >= MinGap
     THEN <<[type |-> "BEARISH_FVG", top |-> top, bottom |-> bottom, at |-> i, mitigated |-> FALSE]>> ELSE <<>>

\* detect_fvg
Gaps(candles) ==
  FlattenSeq([i \in UpTo(Len(candles) - 2) |-> BullishGap(candles, i) \o BearishGap(candles, i)])

\* _find_fvg_index: the first candle of the same time or the same edges
GapIndex(gap, candles) ==
  LET edges(i) == IF gap.type = "BULLISH_FVG" THEN <<candles[i].high, candles[i + 2].low>>
                                              ELSE <<candles[i + 2].high, candles[i].low>>
  IN Min({i \in 1 .. Len(candles) - 2 : i = gap.at \/ edges(i) = <<gap.bottom, gap.top>>})

\* check_mitigation: any candle reaches below the top or above the bottom
Mitigated(gap, candles) ==
  \E i \in GapIndex(gap, candles) + 3 .. Len(candles) :
    candles[i].low <= gap.top \/ candles[i].high >= gap.bottom

-----------------------------------------------------------------------------
(* Order blocks. *)

\* find_swing_candle_index: the first candle of the whole series with the swing's price
SwingCandle(swing, candles) ==
  {i \in Window + 1 .. Len(candles) - Window : EdgeOf(swing.kind, candles[i]) = swing.price}

\* _calculate_ob_strength, in per cent: seven parts the move away, three the candle's range
BlockStrength(swing, i, candles) ==
  LET after == i + 1 .. Min({i + 4 * Window - 1, Len(candles)})
      other == IF swing.kind = "HIGH" THEN "LOW" ELSE "HIGH"
      away == {Side(other, EdgeOf(other, candles[j])) : j \in after}
      impulse == Max(away) - Side(other, swing.price)
      range == candles[i].high - candles[i].low
      factor(x, scale) == Clamp(0, (x * scale * 100) \div Max({swing.price, 1}), 100)
  IN IF after = {} \/ impulse <= 0 THEN 10
     ELSE Max({10, (7 * factor(impulse, 50) + 3 * factor(range, 50)) \div 10})

\* detect_order_blocks: none against the trend
OrderBlocks(candles, trend) ==
  LET against == IF trend = "BEARISH_LH_LL" THEN "LOW"
                 ELSE IF trend = "BULLISH_HH_HL" THEN "HIGH" ELSE "NONE"
      swings == Swings(candles)
      from == Kept(swings, {k \in DOMAIN swings : swings[k].kind # against /\ SwingCandle(swings[k], candles) # {}})
      block(s) == LET i == Min(SwingCandle(s, candles))
                  IN [type |-> IF s.kind = "LOW" THEN "BULLISH_OB" ELSE "BEARISH_OB",
                      price |-> s.price, at |-> i, strength |-> BlockStrength(s, i, candles)]
  IN IF StructureValid(candles) THEN [k \in DOMAIN from |-> block(from[k])] ELSE <<>>

-----------------------------------------------------------------------------
(* Changes of character. *)

\* _find_first_close_above, _find_first_close_below
ClosesBeyond(swing, candles, from) ==
  {i \in from .. Len(candles) : Side(swing.kind, candles[i].close) > Side(swing.kind, swing.price)}

\* Fault: closes beyond the level count, consecutive or not.
ConfirmedInAll(swing, candles, first) ==
  Cardinality({i \in first .. Min({first + 3 * Confirmations - 1, Len(candles)}) :
                 i \in ClosesBeyond(swing, candles, first)}) >= Confirmations

\* _confirm_break: consecutive closes beyond the level soon after the first
Confirmed(swing, candles, first) ==
  \E i \in first .. Min({first + 3 * Confirmations - 1, Len(candles)}) - Confirmations + 1 :
    i .. i + Confirmations - 1 \subseteq ClosesBeyond(swing, candles, first)

\* _infer_prior_structure: from the four swings before
PriorStructure(swings, k) ==
  LET four == SubSeq(swings, k - 4, k - 1)
  IN IF k <= 4 THEN "CHOP" ELSE Trend(OfKind(four, "HIGH"), OfKind(four, "LOW"), "CHOP")

\* _check_bullish_break, _check_bearish_break: not where the structure already goes that way
Breaks(swings, k, candles) ==
  LET swing == swings[k]
      already == IF swing.kind = "HIGH" THEN "BULLISH_HH_HL" ELSE "BEARISH_LH_LL"
      beyond == ClosesBeyond(swing, candles, Min(SwingCandle(swing, candles)) + 1)
  IN /\ Structure(swings) # already
     /\ swing \in ToSet(LastN(OfKind(swings, swing.kind), 3))
     /\ beyond # {} /\ Confirmed(swing, candles, Min(beyond))

\* _check_swing_for_choch: a swing with enough candles after it
CheckSwing(swings, k, candles) ==
  LET swing == swings[k]
      at == SwingCandle(swing, candles)
  IN IF at = {} \/ Min(at) > Len(candles) - Confirmations \/ ~Breaks(swings, k, candles) THEN <<>>
     ELSE <<[type |-> IF swing.kind = "HIGH" THEN "BULLISH_CHOCH" ELSE "BEARISH_CHOCH",
             price |-> swing.price, at |-> Min(ClosesBeyond(swing, candles, Min(at) + 1)),
             prior |-> PriorStructure(swings, k), confirmed |-> TRUE]>>

\* detect_choch
Chochs(candles) ==
  LET swings == Swings(candles)
  IN IF Len(candles) < ChochCandles \/ ~StructureValid(candles) \/ Len(swings) < 4 THEN <<>>
     ELSE FlattenSeq([k \in DOMAIN swings |-> CheckSwing(swings, k, candles)])

-----------------------------------------------------------------------------
(* The engine and the validator of its signals. *)

WithMitigation(gaps, candles) ==
  [k \in DOMAIN gaps |-> [gaps[k] EXCEPT !.mitigated = Mitigated(gaps[k], candles)]]

\* What the market structure signal says.
StructureSignal(swings, candles) ==
  [type |-> Structure(swings), valid |-> StructureValid(candles),
   highs |-> Len(OfKind(swings, "HIGH")), lows |-> Len(OfKind(swings, "LOW"))]

\* run: the signals in the order the engine makes them
SmcSignals(candles) ==
  IF candles = <<>> THEN [structure |-> <<>>, gaps |-> <<>>, blocks |-> <<>>, chochs |-> <<>>]
  ELSE [structure |-> <<StructureSignal(Swings(candles), candles)>>,
        gaps |-> WithMitigation(Gaps(candles), candles),
        blocks |-> OrderBlocks(candles, Structure(Swings(candles))), chochs |-> Chochs(candles)]

Structures == {"BULLISH_HH_HL", "BEARISH_LH_LL", "CHOP", "BREAKOUT"}

\* validate_smc_signals: what halts a signal, and what only flags it
SmcValid(signals) ==
  /\ \A s \in ToSet(signals.structure) : s.type \in Structures /\ s.valid \in BOOLEAN
  /\ \A g \in ToSet(signals.gaps) : g.type \in {"BULLISH_FVG", "BEARISH_FVG"} /\ g.top > g.bottom
  /\ \A b \in ToSet(signals.blocks) :
       b.type \in {"BULLISH_OB", "BEARISH_OB"} /\ b.price > 0 /\ b.strength \in 0 .. 100
  /\ \A c \in ToSet(signals.chochs) :
       c.type \in {"BULLISH_CHOCH", "BEARISH_CHOCH"} /\ c.price > 0 /\ c.prior \in Structures

=============================================================================
