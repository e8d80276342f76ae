----------------------------- MODULE Indicators -----------------------------
(***************************************************************************)
(* The technical and the ICT engine of Floor 3: RSI, averages, true range, *)
(* volume profile; premium and discount, kill zones, liquidity levels.     *)
(* (floor_3_calculations/technical/, ict/)                                 *)
(*                                                                         *)
(* An average the code keeps as a float is kept here as a whole number     *)
(* over a common scale, so nothing is rounded on the way.                  *)
(***************************************************************************)
EXTENDS Integers, Sequences, FiniteSets, SequencesExt, FiniteSetsExt, MarketStructure

CONSTANTS
  RsiPeriod, Oversold, Overbought,   \* rsi_period and its thresholds in per cent
  FastPeriod, SlowPeriod,            \* ma_fast_period, ma_slow_period
  AtrPeriod,                         \* atr_period
  ProfilePeriod, Buckets,            \* volume_profile_period, bucket_count
  ArrayPeriod,                       \* pd_array_period
  LiquidityWindow, SweepThreshold    \* pivot_window of ict_engine, sweep threshold in ticks

ASSUME IndicatorAssumption ==
  /\ RsiPeriod \in Nat \ {0, 1} /\ Oversold \in 0 .. 100 /\ Overbought \in Oversold + 1 .. 100
  /\ FastPeriod \in Nat \ {0} /\ SlowPeriod \in Nat /\ SlowPeriod > FastPeriod
  /\ AtrPeriod \in Nat \ {0, 1} /\ ProfilePeriod \in Nat \ {0} /\ Buckets \in Nat \ {0}
  /\ ArrayPeriod \in Nat \ {0, 1}
  /\ LiquidityWindow \in Nat \ {0} /\ SweepThreshold \in Nat

Absolute(x) == IF x < 0 THEN 0 - x ELSE x
Total(s) ==
  LET sum[i \in 0 .. Len(s)] == IF i = 0 THEN 0 ELSE sum[i - 1] + s[i]
  IN sum[Len(s)]
First(s, n) == SubSeq(s, 1, n)
Closes(candles) == [i \in DOMAIN candles |-> candles[i].close]

-----------------------------------------------------------------------------
(* Technical. *)

\* Wilder's average of a series as value over scale: avg * (period - 1) + x, over period
Wilder(s, period) ==
  LET next(avg, x) == [value |-> avg.value * (period - 1) + x * avg.scale, scale |-> avg.scale * period]
      average[i \in 0 .. Len(s) - period] ==
        IF i = 0 THEN [value |-> Total(First(s, period)), scale |-> period]
                 ELSE next(average[i - 1], s[period + i])
  IN average[Len(s) - period]

Changes(closes) == [i \in UpTo(Len(closes) - 1) |-> closes[i + 1] - closes[i]]

\* calculate_rsi, _compute_rsi: the last value in per cent; without losses it is 100
Rsi(candles) ==
  LET changes == Changes(Closes(candles))
      gain == Wilder([i \in DOMAIN changes |-> Max({changes[i], 0})], RsiPeriod).value
      loss == Wilder([i \in DOMAIN changes |-> Max({0 - changes[i], 0})], RsiPeriod).value
  IN IF loss = 0 THEN 100 ELSE IF gain = 0 THEN 0 ELSE (100 * gain) \div (gain + loss)

\* classify_rsi
RsiClass(value) ==
  IF value <= Oversold THEN "OVERSOLD" ELSE IF value >= Overbought THEN "OVERBOUGHT" ELSE "NEUTRAL"

\* _compute_sma: the last running sum; the average is over period
RunningSum(closes, period) ==
  FoldLeft(LAMBDA sum, i : sum + closes[i] - closes[i - period],
           Total(First(closes, period)), [k \in UpTo(Len(closes) - period) |-> period + k])

\* classify_ma_cross, of two averages given by their sums
MaCross(fast, slow) ==
  LET f == fast * SlowPeriod s == slow * FastPeriod
  IN IF f > s THEN "BULLISH_CROSS" ELSE IF f < s THEN "BEARISH_CROSS" ELSE "EQUAL"

\* _compute_true_range
TrueRange(c, before) ==
  Max({c.high - c.low, Absolute(c.high - before.close), Absolute(c.low - before.close)})

\* calculate_atr: the last average, over a scale
Atr(candles) == Wilder([i \in UpTo(Len(candles) - 1) |-> TrueRange(candles[i + 1], candles[i])], AtrPeriod)

\* The volume a candle puts into a bucket: in parts, cut to whole numbers.
\* A bucket is as wide as the range over their number.
BucketVolume(c, b, low, range) ==
  LET first == ((c.low - low) * Buckets) \div range
      last == Min({Buckets - 1, ((c.high - low) * Buckets) \div range})
      from == Max({(c.low - low) * Buckets, b * range})
      to == Min({(c.high - low) * Buckets, (b + 1) * range})
  IN IF first = last THEN (IF b = first THEN c.volume ELSE 0)
     ELSE IF b \in first .. last /\ to > from
          THEN (c.volume * (to - from)) \div ((c.high - c.low) * Buckets) ELSE 0

\* Fault: the area grows to the lighter side.
GrowToLighter(area, volume, target) ==
  LET left == IF area.low > 0 THEN volume[area.low - 1] ELSE -1
      right == IF area.high < Buckets - 1 THEN volume[area.high + 1] ELSE -1
  IN IF area.volume >= target \/ (left < 0 /\ right < 0) THEN area
     ELSE IF right < 0 \/ (left >= 0 /\ left <= right)
          THEN [area EXCEPT !.low = @ - 1, !.volume = @ + left]
          ELSE [area EXCEPT !.high = @ + 1, !.volume = @ + right]

\* One round of the loop that widens the value area to the heavier side.
Grow(area, volume, target) ==
  LET left == IF area.low > 0 THEN volume[area.low - 1] ELSE -1
      right == IF area.high < Buckets - 1 THEN volume[area.high + 1] ELSE -1
  IN IF area.volume >= target \/ (left < 0 /\ right < 0) THEN area
     ELSE IF left >= right THEN [area EXCEPT !.low = @ - 1, !.volume = @ + left]
          ELSE [area EXCEPT !.high = @ + 1, !.volume = @ + right]

\* The area grown from the point of control until it holds the target or everything.
ValueArea(volume, poc, target) ==
  LET area[k \in 0 .. Buckets] ==
        IF k = 0 THEN [low |-> poc, high |-> poc, volume |-> volume[poc]]
                 ELSE Grow(area[k - 1], volume, target)
  IN area[Buckets]

\* The volume in each bucket.
Spread(window, low, range) ==
  [b \in 0 .. Buckets - 1 |->
     Total([i \in DOMAIN window |-> BucketVolume(window[i], b, low, range)])]

\* calculate_volume_profile: the point of control and the area with seven tenths of the
\* volume, as buckets; <<>> where there is none, flat where every price is one
VolumeProfile(candles) ==
  LET window == LastN(candles, ProfilePeriod)
      low == Min({c.low : c \in ToSet(window)})
      range == Max({c.high : c \in ToSet(window)}) - low
      total == Total([i \in DOMAIN window |-> window[i].volume])
      volume == Spread(window, low, range)
      poc == Min({b \in DOMAIN volume : \A other \in DOMAIN volume : volume[other] <= volume[b]})
      whole == ValueArea(volume, poc, (total * 7) \div 10)
  IN IF Len(candles) < ProfilePeriod THEN <<>>
     ELSE IF range = 0 THEN <<[poc |-> 0, val |-> 0, vah |-> 0, volume |-> total, total |-> total]>>
     ELSE <<[poc |-> poc, val |-> whole.low, vah |-> whole.high, volume |-> whole.volume, total |-> total]>>

\* The index error of a flat candle at the top of the window.
ProfileFails(candles) ==
  LET window == LastN(candles, ProfilePeriod)
      top == Max({c.high : c \in ToSet(window)})
  IN /\ Len(candles) >= ProfilePeriod
     /\ \E c \in ToSet(window) : c.low < top
     /\ \E c \in ToSet(window) : c.low = top /\ c.volume > 0

\* run of the technical engine: each indicator once there are candles for it
TechnicalSignals(candles) ==
  LET n == Len(candles)
      fast == RunningSum(Closes(candles), FastPeriod)
      slow == RunningSum(Closes(candles), SlowPeriod)
      when(enough, value) == IF enough THEN <<value>> ELSE <<>>
  IN [rsi |-> [k \in UpTo(n - RsiPeriod) |-> Rsi(First(candles, RsiPeriod + k))],
      fast |-> when(n >= FastPeriod, fast), slow |-> when(n >= SlowPeriod, slow),
      cross |-> when(n >= SlowPeriod, MaCross(fast, slow)),
      atr |-> when(n > AtrPeriod, Atr(candles)),
      profile |-> IF ProfileFails(candles) \/ \E p \in ToSet(VolumeProfile(candles)) : p.total = 0
                  THEN <<>> ELSE VolumeProfile(candles)]

\* validate_technical_signals: what halts a signal
TechnicalValid(signals) ==
  /\ \A rsi \in ToSet(signals.rsi) : rsi \in 0 .. 100
  /\ \A atr \in ToSet(signals.atr) : atr.value >= 0
  /\ \A p \in ToSet(signals.profile) : p.poc >= 0 /\ p.val >= 0 /\ p.vah >= 0

-----------------------------------------------------------------------------
(* ICT. *)

\* _classify_price: within a fortieth of the range of five eighths of it
Zone(price, high, low) ==
  LET range == high - low above == price - low
  IN IF 5 * Absolute(8 * above - 5 * range) <= range THEN "OPTIMAL_TRADE_ENTRY"
     ELSE IF 2 * above >= range THEN "PREMIUM" ELSE "DISCOUNT"

\* _calculate_strength, in per cent of the way from the middle to the edge
ZoneStrength(price, high, low) ==
  LET zone == Zone(price, high, low)
      above == 2 * price - high - low
      toEdge == IF zone = "DISCOUNT" THEN 0 - above ELSE above
  IN IF zone = "OPTIMAL_TRADE_ENTRY" THEN 100 ELSE Clamp(0, (100 * toEdge) \div (high - low), 100)

\* calculate_pd_array, _classify_single: each candle against the candles before it;
\* the level is in eighths of a tick
ArrayAt(candles, i) ==
  LET before == SubSeq(candles, i - ArrayPeriod, i - 1)
      high == Max({c.high : c \in ToSet(before)})
      low == Min({c.low : c \in ToSet(before)})
      zone == Zone(candles[i].close, high, low)
  IN IF high <= low THEN <<>>
     ELSE <<[type |-> zone, strength |-> ZoneStrength(candles[i].close, high, low),
             level |-> CASE zone = "OPTIMAL_TRADE_ENTRY" -> 8 * low + 5 * (high - low)
                         [] zone = "DISCOUNT" -> 8 * low [] OTHER -> 8 * high]>>

PdArray(candles) ==
  FlattenSeq([k \in UpTo(Len(candles) - ArrayPeriod) |-> ArrayAt(candles, ArrayPeriod + k)])

\* _KILL_ZONE_DEFS with their buffer, in minutes of the Indian day
KillZones ==
  <<[type |-> "ASIAN", from |-> 135, to |-> 570], [type |-> "LONDON_OPEN", from |-> 735, to |-> 885],
    [type |-> "NY_AM_OPEN", from |-> 1035, to |-> 1215], [type |-> "NY_PM_CLOSE", from |-> 1305, to |-> 1395]>>

\* get_active_kill_zones
ActiveZones(minute) ==
  Kept(KillZones, {k \in DOMAIN KillZones : KillZones[k].from <= minute /\ minute < KillZones[k].to})

\* get_next_kill_zone: the zone that is open or the first to come; the time left is to its end
NextZone(minute) ==
  LET later == Kept(KillZones, {k \in DOMAIN KillZones : minute < KillZones[k].from})
      zones == ActiveZones(minute) \o later
  IN IF zones = <<>> THEN <<>>
     ELSE <<[type |-> zones[1].type, active |-> ActiveZones(minute) # <<>>, left |-> zones[1].to - minute]>>

\* Fault: a level needs no candles after it.
EarlyLiquidityPivots(candles, kind) ==
  LET out(i) == Side(kind, EdgeOf(kind, candles[i]))
  IN {i \in LiquidityWindow + 1 .. Len(candles) :
        \A j \in (i - LiquidityWindow .. Min({i + LiquidityWindow, Len(candles)})) \ {i} : out(j) < out(i)}

\* detect_liquidity_levels: candles strictly beyond all their neighbours
LiquidityPivots(candles, kind) ==
  LET out(i) == Side(kind, EdgeOf(kind, candles[i]))
  IN {i \in LiquidityWindow + 1 .. Len(candles) - LiquidityWindow :
        \A j \in (i - LiquidityWindow .. i + LiquidityWindow) \ {i} : out(j) < out(i)}

\* _is_swept, _check_level_swept: a later close beyond the level by more than the threshold
Swept(candles, kind, i) ==
  \E j \in i + 1 .. Len(candles) :
    Side(kind, candles[j].close) > Side(kind, EdgeOf(kind, candles[i])) + SweepThreshold

LiquidityLevels(candles) ==
  LET level(i, kind) ==
        IF i \in LiquidityPivots(candles, kind)
        THEN <<[type |-> IF kind = "HIGH" THEN "BUY_SIDE" ELSE "SELL_SIDE", at |-> i,
                price |-> EdgeOf(kind, candles[i]), swept |-> Swept(candles, kind, i)]>> ELSE <<>>
  IN FlattenSeq([i \in DOMAIN candles |-> level(i, "HIGH") \o level(i, "LOW")])

\* classify_liquidity: without an open level it is the buy side
LiquidityContext(levels) ==
  LET open == {l.type : l \in {x \in ToSet(levels) : ~x.swept}}
  IN CASE open = {"BUY_SIDE", "SELL_SIDE"} -> "DOUBLE_DISTRIBUTION"
       [] open = {"SELL_SIDE"} -> "SELL_SIDE"
       [] OTHER -> "BUY_SIDE"

\* run of the ICT engine
IctSignals(candles, minute) ==
  LET levels == LiquidityLevels(candles)
  IN IF candles = <<>> THEN [zones |-> <<>>, levels |-> <<>>, array |-> <<>>, next |-> <<>>, context |-> <<>>]
     ELSE [array |-> PdArray(candles), zones |-> ActiveZones(minute),
           next |-> IF ActiveZones(minute) = <<>> THEN NextZone(minute) ELSE <<>>,
           levels |-> levels, context |-> <<LiquidityContext(levels)>>]

\* validate_ict_signals: what halts a signal, and negative times, which flag it
IctValid(signals) ==
  /\ \A p \in ToSet(signals.array) : p.level > 0 /\ p.strength \in 0 .. 100
  /\ \A z \in ToSet(signals.next) : z.left >= 0
  /\ \A l \in ToSet(signals.levels) : l.price > 0 /\ l.type \in {"BUY_SIDE", "SELL_SIDE"}
  /\ ToSet(signals.context) \subseteq {"BUY_SIDE", "SELL_SIDE", "DOUBLE_DISTRIBUTION"}

=============================================================================
