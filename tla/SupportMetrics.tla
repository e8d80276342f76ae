--------------------------- MODULE SupportMetrics ---------------------------
(***************************************************************************)
(* The options engine and the support metrics of Floor 3: what is read out *)
(* of an option chain, and what of the day's trades and mistakes.          *)
(* (floor_3_calculations/options/, support_metrics/, macro/)               *)
(*                                                                         *)
(* A chain is a sequence of quotes: kind CE or PE, strike, open interest,  *)
(* its change and the implied volatility (0 for none).  Times are minutes. *)
(***************************************************************************)
EXTENDS Integers, Sequences, FiniteSets, SequencesExt, FiniteSetsExt, Indicators

CONSTANTS
  MinChange,     \* min_oi_change_pct
  IvHigh, IvLow, \* iv_high_threshold, iv_low_threshold
  TopWalls       \* top_n of detect_walls

ASSUME MetricsAssumption ==
  /\ MinChange \in Nat /\ IvLow \in Nat /\ IvHigh \in Nat /\ IvHigh > IvLow
  /\ TopWalls \in Nat \ {0}

\* sorted(key = ..., reverse = True): the largest key first, equal ones in their order
ByKey(s, key) ==
  LET before(i) == {j \in DOMAIN s : key[j] > key[i] \/ (key[j] = key[i] /\ j < i)}
  IN [k \in DOMAIN s |-> s[CHOOSE i \in DOMAIN s : Cardinality(before(i)) = k - 1]]

-----------------------------------------------------------------------------
(* Options. *)

\* The change in per cent of the interest before it.
ChangePct(q) == (100 * Absolute(q.change)) \div (q.oi - q.change)

\* calculate_oi_changes: the significant ones, the largest first
OiChanges(chain) ==
  LET known(q) == q.oi > 0 /\ q.oi - q.change > 0
      large(q) == 100 * Absolute(q.change) >= MinChange * (q.oi - q.change)
      quotes == Kept(chain, {k \in DOMAIN chain : known(chain[k]) /\ large(chain[k])})
      change(q) == [kind |-> q.kind, strike |-> q.strike, pct |-> ChangePct(q),
                    direction |-> IF q.change > 0 THEN "BUYING" ELSE "UNWINDING"]
  IN ByKey([k \in DOMAIN quotes |-> change(quotes[k])], [k \in DOMAIN quotes |-> ChangePct(quotes[k])])

\* calculate_oi_summary
OiSummary(changes) ==
  [side \in {"CE", "PE"} \X {"BUYING", "UNWINDING"} |->
     Len(SelectSeq(changes, LAMBDA c : <<c.kind, c.direction>> = side))]

InterestOf(quotes) == Total([k \in DOMAIN quotes |-> quotes[k].oi])
OfOption(chain, kind) == Kept(chain, {k \in DOMAIN chain : chain[k].kind = kind})

\* calculate_pcr: put over call interest in ten-thousandths; without calls it is 0
Pcr(chain) ==
  LET calls == InterestOf(OfOption(chain, "CE"))
  IN IF calls > 0 THEN (10000 * InterestOf(OfOption(chain, "PE"))) \div calls ELSE 0

\* calculate_iv: twice the median, and its class
Iv(chain) ==
  LET known == SelectSeq(chain, LAMBDA q : q.iv > 0)
      s == SortSeq([k \in DOMAIN known |-> known[k].iv], <)
      n == Len(s)
      twice == IF n % 2 = 0 THEN s[n \div 2] + s[n \div 2 + 1] ELSE 2 * s[n \div 2 + 1]
  IN IF known = <<>> THEN [twice |-> 0, context |-> "NORMAL", count |-> 0]
     ELSE [twice |-> twice, count |-> n,
           context |-> IF twice >= 2 * IvHigh THEN "HIGH" ELSE IF twice <= 2 * IvLow THEN "LOW" ELSE "NORMAL"]

\* Interest by strike, in the order the strikes are first met.
ByStrike(quotes) ==
  LET strike(k) == quotes[k].strike
      first == Kept(quotes, {k \in DOMAIN quotes : \A j \in 1 .. k - 1 : strike(j) # strike(k)})
      all(s) == Kept(quotes, {k \in DOMAIN quotes : strike(k) = s})
  IN [k \in DOMAIN first |-> [strike |-> first[k].strike, oi |-> InterestOf(all(first[k].strike))]]

ByInterest(levels) == ByKey(levels, [k \in DOMAIN levels |-> levels[k].oi])

\* detect_walls: the strikes with the most interest on each side, all by interest
Walls(chain) ==
  LET wall(kind, type) ==
        LET top == First(ByInterest(ByStrike(OfOption(chain, kind))),
                         Min({TopWalls, Len(ByStrike(OfOption(chain, kind)))}))
        IN [k \in DOMAIN top |-> [type |-> type, strike |-> top[k].strike, oi |-> top[k].oi]]
  IN ByInterest(wall("CE", "CALL_WALL") \o wall("PE", "PUT_WALL"))

\* calculate_max_pain: the strike with the most interest, the first of equals
MaxPain(chain) ==
  LET levels == ByStrike(SelectSeq(chain, LAMBDA q : q.strike > 0))
  IN IF levels = <<>> THEN 0
     ELSE levels[Min({k \in DOMAIN levels : \A j \in DOMAIN levels : levels[j].oi <= levels[k].oi})].strike

\* run of the options engine
OptionsSignals(chain) ==
  IF chain = <<>> THEN [changes |-> <<>>, summary |-> <<>>, pcr |-> <<>>, iv |-> <<>>, walls |-> <<>>, pain |-> <<>>]
  ELSE [changes |-> OiChanges(chain), summary |-> <<OiSummary(OiChanges(chain))>>, pcr |-> <<Pcr(chain)>>,
        iv |-> <<Iv(chain)>>, walls |-> Walls(chain), pain |-> <<MaxPain(chain)>>]

-----------------------------------------------------------------------------
(* Support metrics. *)

\* detect_trap_pressure: same-zone mistakes among the last ten, in per cent of four tenths of them
Trap(mistakes, sameZone) ==
  LET recent == LastN(mistakes, 10)
      count == IF recent = <<>> THEN sameZone ELSE Len(SelectSeq(recent, LAMBDA same : same))
      of == IF recent = <<>> THEN 1 ELSE Len(recent)
      density == Min({100, (250 * count) \div of})
  IN [pressure |-> 250 * count > 50 * of, density |-> density, count |-> count]

\* The losses at the end of the day's trades.
LossRun(trades) ==
  Len(trades) - Max({0} \cup {i \in DOMAIN trades : trades[i].outcome # "LOSS"})

\* compute_loss_report: from the trades when there are any, else as reported
LossReport(trades, losses, sequence) ==
  IF trades = <<>> THEN [count |-> losses, sequence |-> sequence]
  ELSE [count |-> Len(SelectSeq(trades, LAMBDA t : t.outcome = "LOSS")), sequence |-> LossRun(trades)]

\* The length of a cooldown after losses in a row.
CooldownTotal(sequence) ==
  CASE sequence >= 3 -> 10 [] sequence = 2 -> 5 [] sequence = 1 -> 2 [] OTHER -> 0

\* compute_cooldown_status as the engine calls it, without the time of the last loss:
\* what is left is taken as it is, and a sequence alone starts a cooldown again and again
Cooldown(left, sequence) ==
  LET remaining == IF left > 0 THEN left ELSE CooldownTotal(sequence)
  IN [active |-> remaining > 0, remaining |-> remaining]

\* detect_overtrade: more than three trades in half an hour
Overtrade(trades, today) ==
  LET recent == SelectSeq(trades, LAMBDA t : t.ago <= 30)
  IN (IF trades = <<>> THEN today ELSE Len(recent)) > 3

\* run of the support metrics engine; the cooldown takes the sequence as reported,
\* not the one read from the trades
SupportSignals(day) ==
  [trap |-> Trap(day.mistakes, day.sameZone),
   loss |-> LossReport(day.trades, day.losses, day.sequence),
   cooldown |-> Cooldown(day.cooldown, day.sequence),
   allowed |-> ~Overtrade(day.trades, day.today)]

-----------------------------------------------------------------------------
(* Calendar. *)

=============================================================================
