----------------------------- MODULE MCAnalysis -----------------------------
(* Four candles, a dozen unusual cycles and two contracts made by hand. *)
EXTENDS Analysis

Candle(open, high, low, close, volume) ==
  [open |-> open, high |-> high, low |-> low, close |-> close, volume |-> volume]

\* Up, down, a wide one and one that stands still at the top.
FourCandles ==
  {Candle(100, 104, 99, 103, 9), Candle(100, 101, 96, 97, 4),
   Candle(103, 108, 102, 107, 6), Candle(104, 104, 104, 104, 2)}

Quote(kind, strike, oi, change, iv) ==
  [kind |-> kind, strike |-> strike, oi |-> oi, change |-> change, iv |-> iv]
Chain ==
  <<Quote("CE", 100, 60, 20, 14), Quote("PE", 100, 90, 0 - 10, 16), Quote("CE", 105, 80, 1, 0), Quote("PE", 95, 40, 40, 31)>>

Day(mistakes, trades, sequence, cooldown, today) ==
  [mistakes |-> mistakes, sameZone |-> 0, trades |-> trades, losses |-> sequence,
   sequence |-> sequence, cooldown |-> cooldown, today |-> today]
Trade(outcome, ago) == [outcome |-> outcome, ago |-> ago]
CalmDay == Day(<<>>, <<>>, 0, 0, 0)

Cycle(phase, late, failed, minutes, chain, day) ==
  [phase |-> phase, late |-> late, failed |-> failed, minutes |-> minutes, chain |-> chain, day |-> day]

AMinute == Cycle("OPEN", {}, {}, 1, Chain, CalmDay)

UnusualCycles ==
  {Cycle("PRE_OPEN", {}, {}, 1, <<>>, CalmDay), Cycle("CLOSING", {}, {}, 3, <<>>, CalmDay),
   Cycle("POST_CLOSE", {}, {}, 40, <<>>, CalmDay)}
  \cup {Cycle("OPEN", {d}, {}, 1, Chain, CalmDay) : d \in {"SMC", "ICT", "TECHNICAL", "OPTIONS"}}
  \cup {Cycle("OPEN", {"PSYCHOLOGY"}, {}, m, <<>>, CalmDay) : m \in {1, 3}}
  \cup {Cycle("OPEN", {"PSYCHOLOGY"}, {h}, 2, <<>>, CalmDay) : h \in {"Psychology", "ICT"}}
  \cup {Cycle("OPEN", {}, {}, 1, Chain, day) :
          day \in {Day(<<>>, <<>>, 0, 4, 5), Day(<<TRUE, TRUE, FALSE>>, <<>>, 2, 0, 0),
                   Day(<<>>, <<Trade("LOSS", 50), Trade("WIN", 20), Trade("LOSS", 5)>>, 3, 0, 0)}}

Quiet == HeadInputs(NoContract)
Bullish ==
  [Quiet EXCEPT
     !.ICT = [@ EXCEPT !.pd = <<[state |-> "DISCOUNT", equilibrium |-> 100, ote |-> 99]>>, !.count = 3,
                       !.mss = <<[side |-> "BULLISH", confirmed |-> TRUE]>>,
                       !.displacement = <<[side |-> "BULLISH", strength |-> 70]>>],
     !.Technical = [@ EXCEPT !.trend = <<"STRONG_UP">>, !.aligned = TRUE, !.strong = TRUE,
                             !.vwap = <<20>>, !.fast = <<101>>, !.slow = <<100>>, !.count = 5],
     !.Options = [@ EXCEPT !.walls = <<[type |-> "PUT_WALL", strike |-> 95]>>, !.pcr = <<130>>, !.count = 2],
     !.Macro = [@ EXCEPT !.vix = <<12>>, !.fii = <<[net |-> "BUY", large |-> FALSE]>>]]
Stressed ==
  [Quiet EXCEPT
     !.ICT = [@ EXCEPT !.pd = <<[state |-> "PREMIUM", equilibrium |-> 100, ote |-> 0]>>, !.count = 1],
     !.Technical = [@ EXCEPT !.trend = <<"STRONG_DOWN">>, !.vwap = <<0 - 80>>, !.count = 2],
     !.Macro = [vix |-> <<25>>, fii |-> <<[net |-> "SELL", large |-> TRUE]>>,
                events |-> <<[risk |-> 60, type |-> "RBI"]>>, environment |-> <<"STRESSED">>],
     !.Psychology = [@ EXCEPT !.mistakes = <<[count |-> 3, sameZone |-> 2]>>, !.count = 1]]

HandMade == {[inputs |-> Bullish, minutes |-> 1], [inputs |-> Stressed, minutes |-> 12]}

=============================================================================
