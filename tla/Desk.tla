--------------------------------- MODULE Desk ---------------------------------
(***************************************************************************)
(* The Captain at work: Captain with the market and the heads' reports in  *)
(* the place of a free choice.  What a heavy cycle is called with is one   *)
(* record: the view, the moment, the capital, the price and the strike.    *)
(* (heavy_cycle and light_cycle of captain_engine.py)                      *)
(*                                                                         *)
(* The heavy cycle's own review of an active trade comes after the gate    *)
(* that an active trade does not pass; a review only happens when          *)
(* review_thesis is called on its own.                                     *)
(***************************************************************************)
EXTENDS Captain, Supervision

CONSTANTS
  Calls,       \* what a heavy cycle may be called with
  Signs,       \* what a light cycle may be told
  MaxAsked     \* bound: last candle with a review or a light cycle

ASSUME DeskAssumption ==
  MaxAsked \in Int /\ None \notin Modes \cup Classes \cup {"BULLISH", "BEARISH"}

VARIABLES
  waited,      \* _cycles_without_trade
  read,        \* the call behind _current_story, _current_confluence and _current_scores, or None
  decision,    \* the decision of the last heavy cycle, or None
  trade,       \* the plan of _active_trade, or None
  review,      \* the concerns of the supervisor's latest review, or None
  judged       \* the latest decision of the intervention engine, or None

deskVars == <<waited, read, decision, trade, review, judged>>
allVars == <<vars, deskVars>>

DeskInit ==
  /\ Init
  /\ waited = 0 /\ read = None /\ decision = None /\ trade = None
  /\ review = None /\ judged = None

-----------------------------------------------------------------------------
(* The heavy cycle. *)

PsychologyOf(reports) == IF "Psychology" \in DOMAIN reports THEN reports["Psychology"] ELSE None

\* The checks of check_all that are about the outside world, by their names
ChecksFailed(call) ==
  {c \in {"market_open", "psychology_block", "data_health", "session_policy", "capital_availability"} :
     CASE c = "market_open" -> ~MarketOpen(call.moment)
       [] c = "psychology_block" -> PsychologyOf(call.view.reports) # None /\ ~PsychologyOf(call.view.reports).allowed
       [] c = "data_health" -> call.view.summary # None /\ call.view.summary.health = "CRITICAL"
       [] c = "session_policy" -> Strictness[Phase(call.moment)] # "NORMAL"
       [] c = "capital_availability" -> call.capital = 0}

\* What steps 3 to 15 read out of a call; none of it depends on earlier cycles.
Stories == [c \in Calls |-> [regime |-> Regime(c.view), bias |-> StoryBias(c.view)]]
Confluences == [c \in Calls |-> Confluence(c.view.reports)]

\* The votes for a bias are a weight, the caution a proportion, and a price is a
\* hundred points or more.
ASSUME CallsAssumption ==
  \A c \in Calls :
    /\ \A bias \in {"BULLISH", "BEARISH", "NEUTRAL"} : Votes(c.view.reports, bias) \in Nat
    /\ PsychologyOf(c.view.reports) # None => PsychologyOf(c.view.reports).caution \in Nat
    /\ c.price \in Nat /\ c.price >= 1000

Directions == [c \in Calls |-> Direction(Confluences[c])]
Opposites == [c \in Calls |-> OppositeCase(Directions[c], c.view.reports)]

\* compute_scores
RawScores ==
  [c \in Calls |->
     LET psych == PsychologyOf(c.view.reports) phase == Phase(c.moment)
     IN [permission |-> Tenths(PermissionScore(Confluences[c], psych, phase)),
         conviction |-> Tenths(ConvictionScore(Confluences[c], Opposites[c], Stories[c].regime, psych, phase)),
         noTrade |-> Tenths(NoTradeScore(Confluences[c], Opposites[c], Stories[c].regime, psych))]]

Scores ==
  [c \in Calls |-> Penalised(RawScores[c].conviction, RawScores[c].noTrade,
                             CoreStale(c.view.reports), SetupPresence(c.view.summary))]

\* generate_idea and assign_trade_class; the band is the one before the penalties
ClassOf(call) ==
  LET suggested == SuggestedClass(Confluences[call].quality, Stories[call].regime, Phase(call.moment))
  IN IF Directions[call] = None THEN None
     ELSE AssignedClass(suggested, Stories[call].regime, Band(RawScores[call].conviction))

TradeClasses == [c \in Calls |-> ClassOf(c)]
Verdicts == [c \in Calls |-> ChecksFailed(c)]

\* The locks as the gate of this cycle finds them.
LocksNow == EngineWrites(lock, ResetIfNewDay(lock["engine"]))

Passes(m, call) == Allowed(m, Verdicts[call] = {}, LocksNow)

\* The reason _handle_blocked gives, by precedence
BlockReason(m, call) ==
  LET failed == Verdicts[call]
  IN CASE active # NoTrade -> "ACTIVE_TRADE_EXISTS"
       [] active = NoTrade /\ ~RealModeOpen(m, LocksNow) -> "REAL_MODE_LOCK"
       [] OTHER -> IF "psychology_block" \in failed THEN "PSYCHOLOGY_BLOCK"
                   ELSE IF "data_health" \in failed THEN "DEAD_MARKET"
                   ELSE IF "capital_availability" \in failed THEN "CAPITAL_MISMATCH" ELSE "DEAD_MARKET"

NotTrading(kind, mood, reason) == [kind |-> kind, mood |-> mood, reason |-> reason, plan |-> None]

\* Steps 21 to 23: the plan, or the decision to wait with its reason; a capital that
\* does not pay for the plan is no reason.
Settled(call, left, mood, plan, cool) ==
  IF cool /\ ShouldTrade(left, Scores[call].noTrade) /\ Directions[call] # None /\ plan.fits
    THEN [kind |-> "TRADE", mood |-> mood, reason |-> None, plan |-> plan]
    ELSE NotTrading("WAIT", mood, WaitReason(left, Confluences[call], Opposites[call], Stories[call].regime))

Construct(call, left) ==
  TradePlan(Directions[call], TradeClasses[call], Band(left), call.capital, call.strike, call.price)

CallMood(call) == Mood(Band(RawScores[call].conviction), Stories[call].regime, Phase(call.moment))

\* Step 19: what is left of the conviction, by the cycles since the last trade
Remaining(call, elapsed) == Decayed(Scores[call].conviction, TradeClasses[call], elapsed)

Decision(call, elapsed, cool) ==
  Settled(call, Remaining(call, elapsed), CallMood(call), Construct(call, Remaining(call, elapsed)), cool)

\* A cycle needs a candle, so no more of them can have gone by.
Decisions ==
  [c \in Calls |-> [elapsed \in 0..MaxCandle + 1 |-> [cool \in BOOLEAN |-> Decision(c, elapsed, cool)]]]

DeskHeavy(m, at, call) ==
  /\ IF Passes(m, call)
       THEN /\ read' = call
            /\ decision' = Decisions[call][waited][Cooler = 0]
            /\ waited' = IF decision'.kind = "TRADE" THEN 0 ELSE waited + 1
       ELSE /\ decision' = NotTrading("BLOCKED", "OBSERVER", BlockReason(m, call))
            /\ UNCHANGED <<waited, read>>
  /\ trade' = IF decision'.kind = "TRADE" THEN decision'.plan ELSE trade
  /\ HeavyCycle(m, at, Verdicts[call] = {}, decision'.kind = "TRADE")
  /\ UNCHANGED <<review, judged>>

-----------------------------------------------------------------------------
(* The other calls. *)

\* start_session: nothing of the last session stays
DeskStartSession ==
  /\ StartSession
  /\ waited' = 0 /\ read' = None /\ decision' = None /\ trade' = None
  /\ review' = None /\ judged' = None

\* on_trade_complete leaves the reviews of the trade behind.
DeskTradeComplete(n) ==
  /\ TradeComplete(n)
  /\ trade' = None
  /\ UNCHANGED <<waited, read, decision, review, judged>>

\* What touches nothing of the desk; the bounds let a day end before
\* its first session, and nobody come to the locks after a review.
DeskOther ==
  /\ \/ \E m \in Modes : SetMode(m)
     \/ RecordLoss
     \/ Operator
     \/ ~Split /\ candle = BeforeOpening /\ NextDay
  /\ review = None /\ judged = None
  /\ UNCHANGED deskVars

\* The bound on reviews and light cycles: early, and with nobody at the locks.
Undisturbed == ~Split /\ \A h \in Holders : lock[h] = NewLock(0) /\ guard[h] = "idle"
MayAsk == Undisturbed /\ candle <= MaxAsked

\* review_thesis, called for the active trade with what a cycle would have read
ReviewThesis(call, original, zone) ==
  /\ MayAsk /\ active # NoTrade
  /\ review' = Concerns(trade, Stories[call], Confluences[call], original, zone, call.price)
  /\ UNCHANGED <<vars, waited, read, decision, trade, judged>>

\* light_cycle without its plans
DeskLight(signs) ==
  /\ MayAsk /\ active # NoTrade
  /\ judged' = Intervention(review, trade.class, signs)
  /\ UNCHANGED <<vars, waited, read, decision, trade, review>>

Zones == {0} \cup {call.price : call \in Calls}

DeskNext ==
  \/ \E at \in (candle + 1)..MaxCandle, m \in Modes, call \in Calls : DeskHeavy(m, at, call)
  \/ DeskStartSession
  \/ \E n \in Cooldowns : DeskTradeComplete(n)
  \/ DeskOther
  \/ \E call \in Calls, original \in {"BULLISH", "BEARISH"}, zone \in Zones : ReviewThesis(call, original, zone)
  \/ \E signs \in Signs : DeskLight(signs)

DeskSpec == DeskInit /\ [][DeskNext]_allVars

-----------------------------------------------------------------------------
(* Properties. *)

Decides == active = NoTrade /\ active' # NoTrade

\* "Gradually lowers conviction as cycles pass without a trade": no trade is decided
\* once two fifths of the conviction would be gone, however strong the market then
\* is.  The cycles are the Captain's and not a setup's, so the first strong setup
\* after them is refused as well (step 19, step 27).
OnlyWhileFresh == [][Decides => waited * DecayRate[trade'.class] <= 40]_allVars

\* The votes for the side a trade is on, and all the others.
Backing(plan, reports) == Votes(reports, IF plan.direction = "BUY" THEN "BULLISH" ELSE "BEARISH")
Rest(plan, reports) ==
  Votes(reports, "BULLISH") + Votes(reports, "BEARISH") + Votes(reports, "NEUTRAL") - Backing(plan, reports)

\* The scores add up trend, session and confluence, and are compared with one
\* number: still no trade is decided that the heads' own weighted votes are not for
\* by more than half, and by four to one when SMC or ICT is stale (steps 9 to 13c).
TradeIsBacked ==
  [][Decides =>
       LET reports == read'.view.reports
       IN Backing(trade', reports) > (IF CoreStale(reports) THEN 4 ELSE 1) * Rest(trade', reports)]_allVars

\* A trade is given up at its invalidation before its stop is hit, both on the
\* losing side of its entry, and its target is on the other (trade_constructor).
InOrder(a, b, c, d) == a <= b /\ b < c /\ c < d
PlanIsSane ==
  trade # None =>
    IF trade.direction = "BUY" THEN InOrder(trade.stop, trade.invalidation, trade.entry, trade.target)
    ELSE InOrder(-trade.stop, -trade.invalidation, -trade.entry, -trade.target)

\* What the supervisor says requires an intervention is not passed over by the
\* intervention engine, whatever else it is told (should_intervene against
\* evaluate_intervention, whose thresholds are their own).
WhatIsRequiredIsDone ==
  trade # None /\ ShouldIntervene(review) =>
    \A signs \in Signs : Intervention(review, trade.class, signs).intervene

=============================================================================
