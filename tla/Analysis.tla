------------------------------ MODULE Analysis ------------------------------
(***************************************************************************)
(* A closed candle's way through Floor 3 and Floor 4: the engines of the   *)
(* market's phase run one after the other, a late one's signals are        *)
(* dropped, then every head is refreshed and the floor is summed up.       *)
(* (f3_orchestrator.py, head_base.py, floor_summary_builder.py and the     *)
(* heavy cycle of system_runner.py)                                        *)
(*                                                                         *)
(* What comes with a cycle besides the candles is one record: the phase,   *)
(* the domains whose engine is late, the heads that raise, the minutes     *)
(* since the last cycle, the chain of options and the facts about the      *)
(* day's trades.                                                           *)
(***************************************************************************)
EXTENDS SupportMetrics, Heads

CONSTANTS
  Stamped,    \* candles come with a datetime, which every calculator asks for
  Candles,    \* what a candle may look like
  Ordinary,   \* the cycle of a minute with a candle
  Unusual,    \* cycles of a minute without one
  Contracts,  \* contracts given to the heads by hand
  Open,       \* the minute of the day the first candle closes
  BufferMax,  \* CANDLE_BUFFER_MAX
  MaxCandles, \* bound: candles that close
  MaxUnusual, \* bound: cycles that are not ordinary
  MaxBefore,  \* bound: length of a series that goes on after one
  MaxOnce     \* bound: length of a series that ends with one

\* At most one report of a cooldown, with the minutes that remain of it.
IsCooldown(said) ==
  said = <<>> \/ \E left \in Nat : said = <<[active |-> left > 0, remaining |-> left]>>

\* A sequence, whatever it holds.
IsSequence(s) == s \in Seq(ToSet(s))

\* What a contract made by hand may hold for the heads: sequences of signals and their number.
IsReadable(inputs) ==
  /\ \A part \in {"structure", "gaps", "blocks", "chochs"} : IsSequence(inputs.SMC[part])
  /\ \A part \in {"vix", "fii", "events", "environment"} : IsSequence(inputs.Macro[part])
  /\ inputs.ICT.delivery \in Seq(Int)
  /\ \A kind \in {"CE", "PE"} : inputs.Options.building[kind] \in Nat
  /\ \A head \in {"ICT", "Technical", "Options", "Psychology"} : inputs[head].count \in Nat

ASSUME AnalysisAssumption ==
  /\ Stamped \in BOOLEAN /\ Open \in Nat /\ BufferMax \in Nat \ {0}
  /\ MaxCandles \in Nat /\ MaxUnusual \in Nat /\ MaxBefore \in Nat /\ MaxOnce \in Nat
  /\ Candles \subseteq [open : Nat, high : Nat, low : Nat \ {0}, close : Nat, volume : Nat]
  /\ \A c \in Candles : c.low <= Min({c.open, c.close}) /\ c.high >= Max({c.open, c.close})
  /\ \A with \in Unusual \cup {Ordinary} :
       with.minutes \in Nat /\ with.day.cooldown \in Nat /\ with.day.sequence \in Nat /\ IsSequence(with.chain)
  /\ \A c \in Contracts :
       c.minutes \in Nat /\ IsCooldown(c.inputs.Psychology.cooldown) /\ IsReadable(c.inputs)

VARIABLES
  candles,  \* _candle_buffer
  dropped,  \* candles the buffer no longer holds, for the properties
  clock,    \* minutes since the first cycle
  contract, \* OutputContract of the last cycle
  ages,     \* _last_deep_update of each head, as minutes since
  mind,     \* the psychology head's memory
  reports,  \* the reports of the last cycle, by head
  summary,  \* FloorSummary of the last cycle
  unusual,  \* cycles so far that were not ordinary
  owed      \* minutes of cooldown left by the clock, for the properties

vars == <<candles, dropped, clock, contract, ages, mind, reports, summary, unusual, owed>>

-----------------------------------------------------------------------------
(* Floor 3. *)

\* _PHASE_DOMAIN_MAP, in the order the engines run
PhaseDomains(phase) ==
  CASE phase = "PRE_OPEN" -> <<"SMC", "ICT", "PSYCHOLOGY">>
    [] phase \in {"OPEN", "LUNCH"} -> <<"SMC", "ICT", "TECHNICAL", "OPTIONS", "PSYCHOLOGY">>
    [] phase = "CLOSING" -> <<"SMC", "TECHNICAL", "PSYCHOLOGY">>
    [] phase = "POST_CLOSE" -> <<"PSYCHOLOGY">>

\* The candles a calculator takes: those with a datetime.
Dated(series) == IF Stamped THEN series ELSE <<>>

\* What the contract holds of a domain that delivered nothing.
NoSignals ==
  [SMC |-> [structure |-> <<>>, gaps |-> <<>>, blocks |-> <<>>, chochs |-> <<>>],
   ICT |-> [array |-> <<>>, zones |-> <<>>, next |-> <<>>, levels |-> <<>>, context |-> <<>>],
   TECHNICAL |-> [rsi |-> <<>>, fast |-> <<>>, slow |-> <<>>, cross |-> <<>>, atr |-> <<>>, profile |-> <<>>],
   OPTIONS |-> [changes |-> <<>>, summary |-> <<>>, pcr |-> <<>>, iv |-> <<>>, walls |-> <<>>, pain |-> <<>>],
   PSYCHOLOGY |-> <<>>]

\* An engine that looks for dated candles in a series without any still
\* tells the length of the series and the time of day.
SmcRun(series) ==
  IF Stamped THEN SmcSignals(series)
  ELSE [NoSignals.SMC EXCEPT
          !.structure = <<[type |-> "CHOP", valid |-> StructureValid(series), highs |-> 0, lows |-> 0]>>]

IctRun(series, minute) ==
  IF Stamped THEN IctSignals(series, minute)
  ELSE [IctSignals(series, minute) EXCEPT !.array = <<>>, !.levels = <<>>, !.context = <<"BUY_SIDE">>]

\* The run of a domain's engine.
EngineSignals(domain, series, minute, with) ==
  CASE domain = "SMC" -> IF series = <<>> THEN NoSignals.SMC ELSE SmcRun(series)
    [] domain = "ICT" -> IF series = <<>> THEN NoSignals.ICT ELSE IctRun(series, minute)
    [] domain = "TECHNICAL" -> TechnicalSignals(Dated(series))
    [] domain = "OPTIONS" -> OptionsSignals(with.chain)
    [] domain = "PSYCHOLOGY" -> <<SupportSignals(with.day)>>

\* The error that one calculator raises, and the note of an engine without data.
EngineError(domain, series) == domain = "TECHNICAL" /\ ProfileFails(Dated(series))
DataMissing(domain, series, with) ==
  \/ domain \in {"SMC", "ICT", "TECHNICAL"} /\ series = <<>>
  \/ domain = "OPTIONS" /\ with.chain = <<>>

\* Fault: a late engine's signals are passed on with the error.
SentAnyway(domain, series, minute, with) == EngineSignals(domain, series, minute, with)

\* _run_with_timeout: a late engine's report keeps the names of its signals, not the signals
Sent(domain, series, minute, with) ==
  IF domain \in with.late THEN NoSignals[domain] ELSE EngineSignals(domain, series, minute, with)

\* handle_calculation_cycle, _compute_data_health: missing data is no error of the
\* engine but costs the health of the cycle
CalculationCycle(series, minute, with) ==
  LET active == ToSet(PhaseDomains(with.phase))
      failed == {d \in active : d \in with.late \/ EngineError(d, series)}
      missing == {d \in active : DataMissing(d, series, with)}
  IN [signals |-> [d \in DOMAIN NoSignals |-> IF d \in active THEN Sent(d, series, minute, with) ELSE NoSignals[d]],
      statuses |-> [d \in active |-> IF d \in failed THEN "ERROR" ELSE "COMPLETE"],
      health |-> IF failed \cup missing # {} THEN "CAUTION" ELSE "GOOD",
      silent |-> (DOMAIN NoSignals \ active) \cup with.late]

-----------------------------------------------------------------------------
(* What the heads take out of a contract.  A signal of another name or     *)
(* another key than the head asks for only counts.                         *)

\* _extract_signals and the lookups by name of each head
HeadInputs(c) ==
  LET ict == c.signals.ICT tech == c.signals.TECHNICAL options == c.signals.OPTIONS
      psychology == c.signals.PSYCHOLOGY
      ictCount == Len(ict.array) + Len(ict.zones) + Len(ict.next) + Len(ict.levels) + Len(ict.context)
      techCount == Len(tech.rsi) + Len(tech.fast) + Len(tech.slow) + Len(tech.cross) + Len(tech.atr)
                   + Len(tech.profile)
      optionsCount == Len(options.changes) + Len(options.summary) + Len(options.pcr) + Len(options.iv)
                      + Len(options.walls) + Len(options.pain)
      each(part(_)) == [k \in DOMAIN psychology |-> part(psychology[k])]
  IN [SMC |-> c.signals.SMC,
      ICT |-> [pd |-> <<>>, displacement |-> <<>>, mss |-> <<>>, levels |-> ict.levels,
               delivery |-> <<>>, count |-> ictCount],
      Technical |-> [trend |-> <<>>, aligned |-> FALSE, strong |-> FALSE, vwap |-> <<>>,
                     fast |-> <<>>, slow |-> <<>>, profile |-> tech.profile, count |-> techCount,
                     rsi |-> [k \in DOMAIN tech.rsi |-> RsiClass(tech.rsi[k])]],
      Options |-> [pcr |-> [k \in DOMAIN options.pcr |-> options.pcr[k] \div 100], walls |-> <<>>,
                   building |-> [CE |-> 0, PE |-> 0], pressure |-> [BULLISH |-> 0, BEARISH |-> 0],
                   count |-> optionsCount],
      Macro |-> [vix |-> <<>>, fii |-> <<>>, events |-> <<>>, environment |-> <<>>],
      Psychology |-> [discipline |-> each(LAMBDA p : p.allowed), cooldown |-> each(LAMBDA p : p.cooldown),
                      loss |-> each(LAMBDA p : p.loss), trap |-> each(LAMBDA p : p.trap),
                      mistakes |-> <<>>, count |-> 4 * Len(psychology)]]

-----------------------------------------------------------------------------
(* Floor 4. *)

\* _HEAD_ORDER; the first four have a direction and setups
HeadOrder == <<"SMC", "ICT", "Technical", "Options", "Macro", "Psychology">>
Heads == ToSet(HeadOrder)
SetupHeads == Heads \ {"Macro", "Psychology"}

\* _compute_approx_freshness, in per cent
ApproxFreshness(age) ==
  CASE age = None -> 50 [] age \in 0 .. 1 -> 100 [] age \in 2 .. 9 -> 70 [] age \in 10 .. 29 -> 40 [] OTHER -> 10

\* compute_freshness of the refresh before this one
Freshness(age) ==
  CASE age = None -> [tag |-> "STALE", score |-> 0]
    [] age \in 0 .. 1 -> [tag |-> "FRESH", score |-> 100 - 50 * age]
    [] age \in 2 .. 9 -> [tag |-> "WARM", score |-> 50 - (30 * (age - 2)) \div 8]
    [] age \in 10 .. 29 -> [tag |-> "STALE", score |-> 20 - (15 * (age - 10)) \div 20]
    [] OTHER -> [tag |-> "STALE", score |-> 0]

\* _compute_state
StateOfHead(tag, confidence) ==
  IF tag = "STALE" THEN "STALE" ELSE IF confidence < 3000 THEN "UNCERTAIN" ELSE "READY"

\* _interpret of a head; thinking is the psychology memory it reads
Interpret(head, input, fresh, thinking) ==
  CASE head = "SMC" -> SmcReport(input, fresh) [] head = "ICT" -> IctReport(input, fresh)
    [] head = "Technical" -> TechnicalReport(input, fresh) [] head = "Options" -> OptionsReport(input, fresh)
    [] head = "Macro" -> MacroReport(input, fresh)
    [] head = "Psychology" -> PsychologyReport(thinking, input.count, fresh)

\* refresh, _build_report
RefreshHead(head, input, age, thinking) ==
  LET said == Interpret(head, input, ApproxFreshness(age), thinking)
      fresh == Freshness(age)
  IN [said EXCEPT !.tag = fresh.tag, !.freshness = fresh.score, !.state = StateOfHead(fresh.tag, said.confidence)]

\* Some heads, in the order their reports are in.
Ordered(heads) == SelectSeq(HeadOrder, LAMBDA h : h \in heads)

\* _build_bias_snapshot: more than the other side and more than nobody's
DominantBias(rs) ==
  LET of(bias) == Cardinality({h \in DOMAIN rs : rs[h].bias = bias})
      leads(bias, other) == of(bias) > of(other) /\ of(bias) > of("NEUTRAL")
  IN CASE leads("BULLISH", "BEARISH") -> "BULLISH" [] leads("BEARISH", "BULLISH") -> "BEARISH"
       [] OTHER -> "NEUTRAL"

\* _build_confidence_snapshot: the first head with the highest and with the lowest
Extremes(rs) ==
  LET leading(less(_, _)) == Ordered({h \in DOMAIN rs : \A g \in DOMAIN rs : ~less(rs[g].confidence, rs[h].confidence)})
  IN [highest |-> leading(LAMBDA x, y : x > y)[1], lowest |-> leading(LAMBDA x, y : x < y)[1]]

\* _detect_conflict
Conflict(rs) ==
  \A bias \in {"BULLISH", "BEARISH"} : \E h \in SetupHeads \cap DOMAIN rs : rs[h].bias = bias

\* _find_strongest_domain_signal: a setup is worth three tenths of confidence
StrongestDomain(rs) ==
  LET score(h) == rs[h].confidence + If(rs[h].primary # None, 3000)
      best == Ordered({h \in SetupHeads \cap DOMAIN rs : \A g \in SetupHeads \cap DOMAIN rs : score(g) <= score(h)})
  IN IF best = <<>> THEN None ELSE best[1]

\* _find_strongest_context_signal
ContextSignals(rs) ==
  LET macro == "Macro" \in DOMAIN rs psychology == "Psychology" \in DOMAIN rs
  IN Rule(macro /\ rs["Macro"].caution > 50, "macro caution")
     \cup Rule(macro /\ rs["Macro"].eventRisk, "event risk")
     \cup Rule(macro /\ ~rs["Macro"].eventRisk /\ rs["Macro"].caution <= 30, "macro calm")
     \cup Rule(psychology /\ ~rs["Psychology"].allowed, "psychology block")
     \cup Rule(psychology /\ rs["Psychology"].allowed /\ rs["Psychology"].repeated, "repeated mistakes")

\* _find_strongest_risk_warning: the first of the heaviest, heads in the order of their reports
RiskWarning(rs) ==
  LET warning(h) ==
        (IF rs[h].state = "STALE" THEN <<[weight |-> 7, head |-> h]>> ELSE <<>>)
        \o (IF h = "Psychology" /\ ~rs[h].allowed THEN <<[weight |-> 9, head |-> h]>> ELSE <<>>)
        \o (IF h = "Macro" /\ rs[h].caution > 50
            THEN <<[weight |-> IF rs[h].caution > 70 THEN 8 ELSE 5, head |-> h]>> ELSE <<>>)
        \o (IF h \in {"SMC", "ICT"} /\ rs[h].quality < 30 THEN <<[weight |-> 6, head |-> h]>> ELSE <<>>)
      here == Ordered(DOMAIN rs)
      all == FlattenSeq([k \in DOMAIN here |-> warning(here[k])])
      heaviest == SelectSeq(all, LAMBDA w : \A v \in ToSet(all) : v.weight <= w.weight)
  IN IF all = <<>> THEN None ELSE heaviest[1]

\* _compute_data_health of the floor: by the share of stale reports
FloorHealth(rs) ==
  LET stale == Cardinality({h \in DOMAIN rs : rs[h].state = "STALE"})
      uncertain == Cardinality({h \in DOMAIN rs : rs[h].state = "UNCERTAIN"})
      total == Cardinality(DOMAIN rs)
  IN CASE 2 * stale >= total -> "CRITICAL"
       [] 2 * stale < total /\ 10 * stale >= 3 * total -> "DEGRADED"
       [] 10 * stale < 3 * total /\ (stale > 0 \/ uncertain > 1) -> "CAUTION"
       [] OTHER -> "GOOD"

\* _build_head_health_snapshot: a head without a report is stale
HeadHealth(rs) ==
  [h \in Heads |-> IF h \in DOMAIN rs THEN [state |-> rs[h].state, tag |-> rs[h].tag]
                                      ELSE [state |-> "STALE", tag |-> "STALE"]]

\* _compute_setup_context
SetupContext(rs) ==
  LET has(state) == \E h \in SetupHeads \cap DOMAIN rs : rs[h].state = state
  IN CASE \E h \in SetupHeads \cap DOMAIN rs : rs[h].primary # None -> "HAS_SETUP"
       [] OTHER -> IF has("STALE") THEN "STALE_NO_SETUP"
                   ELSE IF has("UNCERTAIN") THEN "UNCERTAIN_NO_SETUP" ELSE "READY_NO_SETUP"

\* build; without a report there is no summary
Summarise(rs) ==
  IF rs = <<>> THEN None
  ELSE [bias |-> DominantBias(rs), extremes |-> Extremes(rs), conflict |-> Conflict(rs),
        strongest |-> StrongestDomain(rs), context |-> ContextSignals(rs), risk |-> RiskWarning(rs),
        health |-> FloorHealth(rs), heads |-> HeadHealth(rs), setups |-> SetupContext(rs)]

-----------------------------------------------------------------------------
(* The cycles. *)

NoContract == [signals |-> NoSignals, statuses |-> <<>>, health |-> "GOOD", silent |-> {}]

Init ==
  /\ candles = <<>> /\ dropped = 0 /\ clock = 0
  /\ contract = NoContract
  /\ ages = [h \in Heads |-> None] /\ mind = NewMind
  /\ reports = <<>> /\ summary = None
  /\ unusual = 0 /\ owed = 0

Later(age, minutes) == IF age = None THEN None ELSE age + minutes

\* An age, of which half an hour and more are all the same.
Older(age, minutes) == IF age = None THEN None ELSE Min({age + minutes, 30})

\* What is left of a cooldown by the clock: it runs from the first refresh after its report.
Owed(input, minutes) ==
  IF input.cooldown # <<>> THEN input.cooldown[1].remaining
  ELSE IF mind.decayed = None THEN owed ELSE Max({0, owed - minutes})

\* _refresh_floor_4_heads: each head on its own; one that raises is left out and stays as it was
Refresh(inputs, minutes, failed) ==
  LET older == [h \in Heads |-> Older(ages[h], minutes)]
      awake == [mind EXCEPT !.decayed = Later(@, minutes)]
  IN /\ ages' = [h \in Heads |-> IF h \in failed THEN older[h] ELSE 0]
     /\ mind' = IF "Psychology" \in failed THEN awake ELSE Process(Decay(awake), inputs["Psychology"])
     /\ owed' = IF "Psychology" \in failed THEN owed ELSE Owed(inputs["Psychology"], minutes)
     /\ reports' = [h \in Heads \ failed |-> RefreshHead(h, inputs[h], older[h], mind')]
     /\ summary' = Summarise(reports')

\* _run_heavy_cycle up to the captain
Analyse(series, with) ==
  /\ contract' = CalculationCycle(series, Open + clock', with)
  /\ Refresh(HeadInputs(contract'), with.minutes, with.failed)

\* A minute ends in which there were ticks; the oldest candle leaves a full buffer.
CandleClosed(c) ==
  /\ Len(candles) + dropped < (IF unusual = 0 THEN MaxCandles ELSE MaxBefore)
  /\ candles' = LastN(Append(candles, c), BufferMax)
  /\ dropped' = dropped + (IF Len(candles) < BufferMax THEN 0 ELSE 1)
  /\ clock' = clock + Ordinary.minutes
  /\ Analyse(candles', Ordinary)
  /\ UNCHANGED unusual

\* The bounds on cycles that are not ordinary.
MayBeUnusual ==
  \/ unusual < MaxUnusual /\ Len(candles) <= MaxBefore
  \/ unusual = 0 /\ Len(candles) <= MaxOnce

\* A minute ends in which there were none: the buffer is passed as it was.
QuietMinute(with) ==
  /\ MayBeUnusual
  /\ unusual' = unusual + 1
  /\ clock' = clock + with.minutes
  /\ Analyse(candles, with)
  /\ UNCHANGED <<candles, dropped>>

\* The heads read a contract that was put together by hand.
HandedOver(c) ==
  /\ MayBeUnusual
  /\ unusual' = unusual + 1
  /\ clock' = clock + c.minutes
  /\ contract' = NoContract
  /\ Refresh(c.inputs, c.minutes, {})
  /\ UNCHANGED <<candles, dropped>>

Next ==
  \/ \E c \in Candles : CandleClosed(c)
  \/ \E with \in Unusual : QuietMinute(with)
  \/ \E c \in Contracts : HandedOver(c)

Spec == Init /\ [][Next]_vars

-----------------------------------------------------------------------------
(* Properties. *)

Delivered(domain) == contract.signals[domain]

\* The same level once its candle is so many places nearer to the start of the buffer.
Moved(l, places) == [l EXCEPT !.at = @ - places]

\* What the engines found stays found: a level is only reported once the candles after
\* it are known, so no later candle takes it back, and a swept one stays swept.  A level
\* goes when a candle leaves the buffer that its own was compared with.
\* (detect_liquidity_levels, CANDLE_BUFFER_MAX)
LevelsKept ==
  LET places == dropped' - dropped
  IN contract'.statuses # <<>> /\ "ICT" \notin contract'.silent =>
       \A l \in ToSet(contract.signals.ICT.levels) : l.at - places > LiquidityWindow =>
         \E m \in ToSet(contract'.signals.ICT.levels) :
           m = [Moved(l, places) EXCEPT !.swept = m.swept] /\ (l.swept => m.swept)
LevelsStay == [][LevelsKept]_vars

\* The first close beyond the level after some candle with its price, and so many in a row
\* from there or soon after.
ClosesConfirm(series, c) ==
  LET kind == IF c.type = "BULLISH_CHOCH" THEN "HIGH" ELSE "LOW"
      Beyond(j) == Side(kind, series[j].close) > Side(kind, c.price)
  IN /\ \E i \in 1 .. c.at - 1 : /\ EdgeOf(kind, series[i]) = c.price
                                /\ \A j \in i + 1 .. c.at - 1 : ~Beyond(j)
     /\ Beyond(c.at)
     /\ \E i \in c.at .. c.at + 2 * Confirmations :
          \A j \in i .. i + Confirmations - 1 : j <= Len(series) /\ Beyond(j)

\* A change of character is the first break of its level, confirmed by that many closes in
\* a row.  The break comes after a candle with the level's price; that is the first such
\* candle in the buffer, so the swing itself may come later still.
\* (_find_first_close_above, _confirm_break, find_swing_candle_index)
ConfirmedByCloses ==
  \A c \in ToSet(Delivered("SMC").chochs) : ClosesConfirm(candles, c)

\* The value area holds seven tenths of the volume unless it is the whole range.
\* It lacked them before its last bucket, and that was no lighter than the one on
\* the other side.  (calculate_volume_profile)
ValueAreaHolds ==
  LET window == LastN(candles, ProfilePeriod)
      low == Min({c.low : c \in ToSet(window)})
      range == Max({c.high : c \in ToSet(window)}) - low
      volume == Spread(window, low, range)
      at(b) == IF b \in DOMAIN volume THEN volume[b] ELSE -1
      target(p) == (p.total * 7) \div 10
      lastOne(p, b, other) == b # p.poc /\ p.volume - at(b) < target(p) /\ at(b) >= at(other)
  IN \A p \in ToSet(Delivered("TECHNICAL").profile) :
       \/ range = 0
       \/ /\ p.val <= p.poc /\ p.poc <= p.vah
          /\ p.volume >= target(p) \/ (p.val = 0 /\ p.vah = Buckets - 1)
          /\ \/ p.val = p.vah
             \/ lastOne(p, p.val, p.vah + 1)
             \/ lastOne(p, p.vah, p.val - 1)

\* A head says nothing out of an engine that was late or did not run: no bias, no
\* setup, no zone.  (_run_with_timeout, the _interpret of the heads)
LateEngineIsSilent ==
  LET headOf == [SMC |-> "SMC", ICT |-> "ICT", TECHNICAL |-> "Technical", OPTIONS |-> "Options"]
  IN \A d \in DOMAIN headOf \cap contract.silent : headOf[d] \in DOMAIN reports =>
       LET report == reports[headOf[d]]
       IN report.bias = "NEUTRAL" /\ report.primary = None /\ report.backup = None /\ report.zones = <<>>

\* A cooldown does not outlast the minutes it was given, counted from the first
\* refresh after it was reported.  (_decay_cooldown)
CooldownEnds == mind.cooldown => mind.left > 0 /\ mind.left <= owed

\* The range of a confidence.
TenThousandths == 0 .. 10000

\* Whatever the market and the engines do, nothing that is passed on has an error that
\* halts it: not the reports, and not the signals of the three engines with a validator.
\* What a validator only flags is not spoken of.
\* (ReportValidator.validate, validate_smc_signals and the like)
ReportValid(head, r) ==
  /\ r.rules # {}
  /\ head \in {"SMC", "ICT"} => r.quality \in 0 .. 100
  /\ head \in {"Macro", "Psychology"} => r.primary = None /\ r.backup = None
  /\ r.state \in {"READY", "UNCERTAIN", "STALE"}
  /\ r.freshness \in 0 .. 100 /\ r.confidence \in TenThousandths

EverythingAccepted ==
  /\ \A h \in DOMAIN reports : ReportValid(h, reports[h])
  /\ SmcValid(Delivered("SMC")) /\ IctValid(Delivered("ICT")) /\ TechnicalValid(Delivered("TECHNICAL"))

\* Once there are enough candles the engines have the history they need: "Pass FULL
\* buffer to Floor 3 so engines have historical data" (system_runner.py).
HistoryIsRead ==
  Len(candles) > RsiPeriod /\ "TECHNICAL" \notin contract.silent /\ contract.statuses # <<>>
    => Delivered("TECHNICAL").rsi # <<>>

=============================================================================
