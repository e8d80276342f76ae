-------------------------------- MODULE MCDesk --------------------------------
(***************************************************************************)
(* Desk with a handful of calls: markets that agree, that split, that chop *)
(* and that are stale, the heads' summary built the way Floor 4 builds it. *)
(***************************************************************************)
EXTENDS Desk

Report(bias, confidence, state, tag) ==
  [bias |-> bias, confidence |-> confidence, state |-> state, tag |-> tag, quality |-> 90,
   cases |-> {}, walls |-> FALSE, eventRisk |-> FALSE, clear |-> TRUE]
Fresh(bias, confidence) == Report(bias, confidence, "READY", "FRESH")
Old(bias, confidence) == Report(bias, confidence, "STALE", "STALE")

Mind(allowed, caution) ==
  [bias |-> "NEUTRAL", confidence |-> 8, state |-> "READY", allowed |-> allowed, caution |-> caution,
   cooldown |-> FALSE, repeated |-> FALSE, trap |-> FALSE]

\* What Floor 4 makes of the reports (floor_summary_builder.py)
SummaryOf(reports, presence) ==
  LET heads == DOMAIN reports
      n == Cardinality(heads)
      of(bias) == Cardinality({h \in heads : reports[h].bias = bias})
      in(state) == Cardinality({h \in heads : reports[h].state = state})
      bias == CASE of("BULLISH") > of("BEARISH") /\ of("BULLISH") > of("NEUTRAL") -> "BULLISH"
                [] of("BEARISH") > of("BULLISH") /\ of("BEARISH") > of("NEUTRAL") -> "BEARISH" [] OTHER -> "NEUTRAL"
      setups == {reports[h].bias : h \in {"SMC", "ICT", "Technical", "Options"} \cap heads}
  IN [bias |-> bias, confidence |-> (10 * Sum(LAMBDA h : reports[h].confidence, heads)) \div n,
      conflict |-> {"BULLISH", "BEARISH"} \subseteq setups,
      ready |-> in("READY"), uncertain |-> in("UNCERTAIN"), stale |-> in("STALE"), presence |-> presence,
      health |-> IF 2 * in("STALE") >= n THEN "CRITICAL" ELSE IF 10 * in("STALE") >= 3 * n THEN "DEGRADED"
                 ELSE IF in("STALE") > 0 \/ in("UNCERTAIN") > 1 THEN "CAUTION" ELSE "GOOD"]

View(reports, presence) == [reports |-> reports, summary |-> SummaryOf(reports, presence)]

Heads(smc, ict, technical, options, macro, mind) ==
  [SMC |-> smc, ICT |-> ict, Technical |-> technical, Options |-> options, Macro |-> macro, Psychology |-> mind]

Calm == Mind(TRUE, 0)

\* All for a rise, with conviction to spare
Agreed == View(Heads(Fresh("BULLISH", 9), Fresh("BULLISH", 9), Fresh("BULLISH", 8), Fresh("BULLISH", 8),
                     Fresh("NEUTRAL", 5), Calm), "HAS_SETUP")

\* The core for a fall, and no more than noise from the others: a market that chops
Choppy == View(Heads(Fresh("BEARISH", 10), Fresh("BEARISH", 10), Old("NEUTRAL", 1), Old("BULLISH", 1),
                     Fresh("NEUTRAL", 0), Calm), "HAS_SETUP")

\* A majority for a rise, without the most important head
StaleCore == View(Heads(Old("BEARISH", 9), Fresh("BULLISH", 6), Fresh("BULLISH", 8), Fresh("BULLISH", 6),
                        Fresh("BEARISH", 10), Calm), "NO_SETUP")

\* The head of the operator's mind says no
Unwell == View([Agreed.reports EXCEPT !["Psychology"] = Mind(FALSE, 9)], "HAS_SETUP")

Golden == [minute |-> 270, weekday |-> 2]   \* 10:00
Noon == [minute |-> 360, weekday |-> 2]     \* 11:30

Call(v, moment, capital, price) ==
  [view |-> v, moment |-> moment, capital |-> capital, price |-> price, strike |-> 19500]

MCCalls ==
  {Call(Agreed, Golden, 10000, 195000), Call(Agreed, Noon, 4800, 195000), Call(Choppy, Golden, 10000, 195000),
   Call(StaleCore, Golden, 10000, 192000), Call(Unwell, Golden, 10000, 195000)}

Sign(regime, opposition, healthy, critical) ==
  [regime |-> regime, opposition |-> opposition, healthy |-> healthy, critical |-> critical, event |-> FALSE]

\* What the runner tells, and a market that turns
MCSigns == {Sign("", 0, TRUE, FALSE), Sign("CHOP", 800, FALSE, FALSE), Sign("", 0, TRUE, TRUE)}

=============================================================================
