# Verification of Junior Aladdin

Junior Aladdin is an options-trading program in Python: market data comes in through five "floors"
that end in a decision (the Captain), *Side A* executes decisions at a broker, *Side B* serves a
dashboard and *Side C* keeps a memory of events. This directory holds TLA+ modules that model the
parts where order, failure, repetition and arithmetic matter, the TLC configurations that check
them on small instances, and proofs of what matters most for every instance.

Paths below are relative to `src/junior_aladdin/`. `PROJECT.json` gives, for every definition,
the lines it stands for (`map`), every place that is hard to test (`hazards`), and for every
checked property a plausible bug that breaks it (`mutants`).

    tlc -workers 2 -config KillSwitch.cfg KillSwitch      # one run, from this directory
    tlapm EntryProofs.tla                                 # one module of proofs

## 1. Inventory

The program is one process with three threads: the main loop of `system_runner.py` (every half
second: heavy cycle at the end of a candle, light cycle otherwise), the WebSocket thread of the
Angel One adapter, and the API server's event loop. Side A is called synchronously, from the main
loop (`set_execution_mode`, `receive_decision`) and, by its interface, from broker callbacks
(`handle_fill`, `handle_acknowledgement`, `handle_rejection`), operator commands and timers.

| Part | State | Operations | What is hard, and what makes it correct |
|---|---|---|---|
| Floor 1 `floor_1_connection/` | lifecycle of a source, callbacks, feeds, heartbeat | connect, disconnect, reconnect, WebSocket callbacks, routing | a socket's late callbacks against connect and reconnect; flags and sockets tell the same story |
| Floor 2 `floor_2_datacenter/` | raw, cleaned and structured stores, stages, health records | validate, clean, structure, stream, hand over, review | late, repeated and future packets; candles are those of the ticks accepted; one gap is not for ever |
| Floor 3 `floor_3_calculations/` | none between calls | engines over candles, each with a timeout | windows that end with the series, levels reported and taken back, late engines |
| Floor 4 `floor_4_heads/` | memory and state of six heads | refresh, summarise | a stale report used as a fresh one, clocks that are kept or reset |
| Floor 5 `floor_5_captain/` | session, loss lock, cooldown, active trade, decay, armed plans | heavy cycle, light cycle, start of session, permission checks, scoring, plan of a trade, supervision | losses lock REAL mode; a trade has a majority and sane levels behind it; a plan triggers once |
| Side A `side_a_execution/` | execution state machine, order table with retries and circuit breaker, order legs, positions, fingerprints, kill switch and its file, mode, escalation | decisions, broker reports, exits, overrides, end of day, emergencies, reconnect | lost, late and repeated reports; retries; orders left working; crash between steps: section 5 |
| Side B `side_b_api/`, `side_b_dashboard/` | session cache, alerts | views and commands | commands that are acknowledged and reach nobody |
| Side C `side_c_memory/` | three stores with indexes, archive, logs of Side A | ingest, route, query, retain | one record in several indexes; ages, late events |
| `system_runner.py` | candle accumulator, buffer, price, session flag | main loop, price tracker, stop | two threads on the accumulator |
| `shared/` | registry of components, configuration | construction, lookup | one instance of what is shared |

Inside Side A the execution orchestrator owns the order of calls: risk gate, state machine,
execution core, broker, order-lifecycle manager, position manager, protection model, reconciliation
engine, kill switch.

**Who calls whom.** In the running program only `set_execution_mode` and `receive_decision` of
Side A have a caller. `handle_fill`, `check_eod_close`, `periodic_reconcile`, `process_override`,
`trigger_emergency`, `update_trail`, the state machine's `reset`, the Captain's `on_trade_complete`
and `record_loss`, the adapter's `reconnect`, Side C's retention and the validators of Floors 3
and 4 are written, exported and tested, and nothing in production calls them yet. The models take
each part at its interface, in any order its guards allow, as the tests do.

## 2. Modules

| Module | Models | How |
|---|---|---|
| `KillSwitch` | `kill_switch.py` | State, file and the phases of a call: flatten callback (where one was given), assignment, open-for-writing (which truncates), write. A crash may come between any two. Of the account, the entry orders that are out and those that were filled; a fill comes when it comes, also under CRITICAL. |
| `ExecutionStateMachine` | `execution_state_machine.py` | The transition table as a set of triples; `After(s, e)` is the state after an accepted event. |
| `ExecutionCore` | `execution_core.py` | Order table, retry counts, circuit breaker as operators on a record: submit with nested retries, rejection, cancel, mark. |
| `OrderRetries` | core + state machine + broker | One action per handler of the core, with a broker that acknowledges, rejects, raises, or answers without an id. |
| `OrderLifecycle` | `order_lifecycle_manager.py` | Entry orders linked to a trade, with legs, sizes and prices, as operators. |
| `Positions` | `position_manager.py`, the part the orchestrator uses | Open, fill, part exit, close as operators on a book. |
| `PositionManager` | all of `position_manager.py` | One position with trail, breakeven, marks, against the account's cash. |
| `RiskGate` | `risk_gate.py`, `intent_fingerprint.py` | Fingerprint window, TTL store, age check; the clock is read three times in an evaluation and may move between. |
| `ExecutionOrchestrator`, `MCOrchestrator` | `execution_orchestrator.py`, with `reconciliation_engine.py`, `protection_model.py`, `mode_router.py` as it calls them | Composes state machine, core, order manager and positions; one action per handler, everything it calls included. |
| `TradeLedger` | what Side A promises about units | Abstract specification: nothing is executed undecided, nothing is booked unexecuted. |
| `Captain` | `captain_engine.py`, `permission_gate.py`, `loss_lock_manager.py`, `override_guard.py` | The control of decisions: active trade, cooldown, loss lock, override, sessions and days. Engine and gate have each a loss lock and a guard, the same objects until the first `start_session`. |
| `Scoring` | `market_story_engine.py`, `confluence_engine.py`, `opposite_case_engine.py`, `conviction_engine.py`, `personality_engine.py`, `session_policy.py`, `confidence_decay_engine.py` | Every number a decision depends on, as exact tenths and hundredths. |
| `TradePlanning` | `trade_idea_generator.py`, `trade_class_engine.py`, `trade_constructor.py` | Class, stop, invalidation, target, size and strike of a trade. |
| `Supervision` | `active_trade_supervisor.py`, `intervention_engine.py` | Concerns of a review and the action made of them. |
| `Desk`, `MCDesk` | the heavy and light cycles with all of the above | `Captain` with its nondeterminism replaced by scores: a refinement (`DeskIsCaptain`). |
| `ArmedPlans`, `MCArmedPlans` | `armed_plan_engine.py`, `setup_expiry_manager.py` as the two cycles call them | Plans armed and purged at the end of a candle, watched at every tick. |
| `AngelOneFeed` | `source_adapters.py`, `auth_manager.py`, `ingress_router.py`, `manual_ingress.py`, `source_health.py` | Lifecycle and flags of the adapter, the sockets it has lost by a close that raised, and the callbacks of every socket it ever opened, each on its own thread. |
| `SystemRunner` | `system_runner.py` over `AngelOneFeed` | `start` from the login on (before it the signal handlers are installed, so a stop may come then) and the main loop, in steps as coarse as the other threads allow: look at the clock, read the accumulator, reset it field by field, cycle. |
| `DataHealth` | `review/health_monitor.py` | Heartbeats, latencies, reconnects, losses; score, state, events with their suppression, signal. |
| `DataCentre`, `MCDataCentre` | validation, both raw stores, cleaning, stages, streams and handoff, over `DataHealth` | One action per delivery or call; a packet has an id, a time that can be read or cannot, a price and a feed. The streams stop at their maxima. |
| `MarketStructure` | the SMC engine and its calculators | Swings, trend, order blocks, gaps, changes of character with their confirmation, over a sequence of candles. |
| `Indicators` | the ICT and the technical engine with their calculators | Liquidity, arrays, kill zones; averages, RSI, ATR, volume profile with its value area, over integers. |
| `SupportMetrics` | the options engine and the support metrics | Walls, open interest, put-call ratio, volatility; losses, overtrading, traps, cooldown. |
| `Heads` | the six heads and `head_base.py` | What a head reads of a contract, its freshness, state, bias, confidence and memory. |
| `Analysis`, `MCAnalysis` | `f3_orchestrator.py`, `head_base.py`, `floor_summary_builder.py` | The cycle of a candle: the runner's buffer cut to its last candles, the engines of the phase, a late one's signals dropped, the heads refreshed, the floor summed up. |
| `Memory`, `MCMemory` | `side_c_memory/`, `execution_logging_layer.py`, `blocked_action_journal.py` | Events through write contracts, router, stores with their indexes, retention and archive; a query returns what it found or raises. |

`ExecutionOrchestrator` has a variable `weather` that never changes, one of the constant `Weathers`: the things that
may go wrong or be asked for in this behaviour. They are `"partial"` (an order is filled in parts), `"rejection"`
(the broker refuses, raises, answers without an id), `"remainder"` (it refuses what is left of an order it has
filled in part), `"outage"` (reports are lost, a reconnect follows), `"emergency"` (flatten, lock), `"override"`
(the operator's four), `"eod"` (end-of-day check), `"switch"` (kill switch). A property names the weather it is
not about: `OneActivePosition` the `Storm` of overrides, rejections and emergencies together, `ActiveIsManaged` and
`LegsMatchPosition` all but the `Calm` one. Section 5 has the behaviours that break them there.

Data is abstracted to what the properties tell apart: a trade is a model value, `Seller` being one
that sells; prices are small integers, or tenths of a point where the code's percentages are
taken; a lot is `LotUnits` units so that it can be filled in parts. Logs, texts and views are left
out; a timestamp that nothing compares is too. Floats are integers at a fixed scale: a score is in tenths, and
a step of the code that rounds is modelled with its rounding.

**Implements.** Two refinements, both proved: `ExecutionOrchestrator` implements `TradeLedger` under every weather, and
`Desk` implements `Captain`. So what is proved of the ledger holds of Side A's books, and what `DeskProofs` shows of the
Captain's control alone holds with the scoring, the planning and the supervision in place.

**Proofs.** Eight modules hold them: `EntryProofs` (`KillSwitch`, `RiskGate`, `OrderRetries`: what an order passes on its way in),
`OrchestratorProofs` (with `TradeLedger`), `PositionManagerProofs`, `DeskProofs` (`Captain`, `Desk`, `ArmedPlans`), `RunnerProofs`
(`AngelOneFeed`, `SystemRunner`), `MemoryProofs`, `DataCentreProofs` (`DataHealth`, `DataCentre`), `AnalysisProofs` (`MarketStructure`,
`Indicators`, `Heads`, `Analysis`). Where one of them extends several specifications, those carry the name of their
component in their top-level definitions: `SwitchSpec`, `RetriesSpec`, `PlansSpec`.

## 3. Runs

| Run | Bounds | What it shows |
|---|---|---|
| `kill_switch` | one switch with or without a callback and a file, two entry orders, crashes at every step | What a restart restores is the level in memory except where the save failed or was cut (`DurableLevel`); CRITICAL is entered only after the callback, where there is one, was tried; what the account holds or may yet be filled under it is there because no callback was wired, because the flatten failed, or because the order was out before the flatten, never by a later decision (`ExposureHasReason`); every activation that began ends. |
| `order_retries` | 6 orders, 2 retries an order, threshold 2, each report once | The breaker is closed exactly below the threshold; retries since it last closed are bounded by the threshold, not by `max_retries`, because each retry starts a new count; the broker works one order at a time. |
| `orchestrator` | 2 trades, 2 orders, lots of 2, REAL; three weathers that together have all disturbances but the switch | At most one position is active, short of a storm; refinement of `TradeLedger` with lost reports, refused remainders, overrides and emergencies. |
| `orchestrator_fills` | 3 trades, 3 orders, ALERT and REAL; partial fills with rejections and the switch, or with lost reports | The active position is the current, protected trade, its legs of its size; a breaker that trips blocks entries in the same step. |
| `risk_gate` | 2 trades, 2 decisions, 6 seconds, TTL = maximal age = 2, window 3 | An answered decision never passes later; what passes is new to its window. |
| `position_manager` | 1 position, prices 1 to 3, up to 2 units | Realised and unrealised profit equal what the account paid and holds; a trailing stop is at its distance behind the best price since activation. |
| `desk` | 5 markets, 3 signs for the light cycle, 1 loss, cooldown of 2, candles 0 to 3, 2 days, ALERT and REAL | After a trade the desk rests its candles; a REAL trade after the last loss needs an override while gate and engine share their managers; no trade once the conviction has decayed by two fifths; a trade has the heads' weighted majority, four to one when a core head is stale; stop, invalidation, entry and target are in order; what the supervisor requires the intervention engine does. |
| `armed_plans` | 2 plans, a class of 2 candles and one of 2 minutes, candles 0 to 4, 4 prices | A plan triggers within its window and session, and never after a price has broken it. |
| `system_runner` | 2 sockets, 2 socket events, 3 prices, 5 minutes, a day of 3, a buffer of 2 | The candles that reach Floor 3 are made of ticks in their order, and with one price tracker no tick is in two of them, though two threads write the accumulator; a socket that can deliver is the adapter's own, or one whose close raised; a stop after the login ends loop and routing. |
| `memory` | 2 subjects, 3 families (one per store), 2 events, 4 days, rings of 3 and 2 | Queries by index find what a scan finds, and raise exactly where what they sort has records with and without a time; an event stays as long as its policy says, in the store and then in the archive; the two records of blocked decisions agree from their ends backwards, as far as both go. |
| `data_centre` | 1 source, 2 ids, a tick feed and one without a duplicate check, 2 prices, times 0 to 2, 4 calls, streams of up to 3 ticks and 2 candles | Candles and ticks tell the same story as far as both streams go, also where one or both are cut to their oldest; a gap costs one packet; stuck packets are found also after resets, purges and redelivery; a source in a bad state is signalled. |
| `analysis` | every series of up to 7 of four candles through a buffer of 6; up to 3 unusual cycles (other phases, late engines, raising heads, other days) near a short series; 2 contracts made by hand | A change of character is the first break of its level and has its closes; the value area has its share; a late engine's head says nothing; a cooldown ends; the validators would find no error in anything; a liquidity level stays once reported, until a candle it was compared with leaves the buffer. |

**Why the bounds are enough.** The orchestrator keeps one current trade and one machine state, so what
goes wrong needs an earlier trade's leftover and a current one: two trades with an order each, a lot
of two units so that a fill can be partial, one retry so that an order can be replaced, and a
threshold of two so that the breaker trips, cools and trips again. A third trade is in
`orchestrator_fills`, where one buys, one sells and one repeats. In `RiskGate`
six seconds cover two windows, an entry's whole life and its eviction on the last tick.
In `Desk` the five markets (all agree; agree at noon with little capital; split and choppy; a stale core head;
an operator who is unwell) pass and fail every check of the gate and reach every branch of the scoring that the
runner's inputs reach, the decay reaches its limit within the four candles for the
fastest class, and the second day is the lock's reset; losses and overrides happen before the day's end,
the day ends before a session's first candle, and reviews and light cycles come up to candle `MaxAsked` with no
lock or override in play (`Undisturbed`), since nothing that a review reads depends on them. The proofs have none of these bounds.
In `ArmedPlans` the candles outlast both windows, and price 0 is the price before the first tick.
In `SystemRunner` two sockets are enough for one that is late while another is opened, two socket events for what is still under way when a
socket closes, and five minutes for two sessions, so that two price trackers run; a market day of three has two minutes in which a candle may close, so one session with its one tracker fills the
buffer and `TicksInOneCandle` is checked in its strict form; a buffer of two drops its oldest. In `Memory` the ages keep the order of the real policies, and
rings of three and two hold blocks with other events between them, with one and with two entries to compare; while Side C is not wired, nothing but the rings grows and they may
fill and overflow as often as there is room in the numbers (`LogRoom`).
In `DataCentre` two packets make a gap, a duplicate and a pair out of order, two samples are the health
monitor's window, and the stream maxima are below, at and above what can be written; a packet whose time cannot be read comes with the present and one price, since neither is looked
at. The two ids are symmetric: nothing but their equality is. In `Analysis` six candles are enough for a swing, its break and two confirming closes, and are longer than every
period of the instance; the seventh makes the first leave the buffer (`BufferMax` is 6 there and 100 in the runner). Its candles carry a datetime (`Stamped = TRUE`) as those of the tests do;
with the strings the runner makes of them the engines find nothing (section 5). Every bound is a constant of its cfg
and named as one where it is declared.

The type invariants are proved and not run, in favour of properties that say more; `Memory`, `DataCentre` and `Analysis` have what typing their
proofs need in their invariants.
Every inductive invariant was checked by TLC on these instances before it was proved.

**Counterexamples kept beside the runs.** Six configurations state a claim of a docstring, comment or test that the code does
not keep, and TLC finds a behaviour against it; each is described in section 5.

| Configuration | Module | Violated |
|---|---|---|
| `FillsAreBooked.cfg` | `MCOrchestrator` | the rest of a partial fill reaches the position |
| `UnsharedManagers.cfg` | `MCOrchestrator` | with the registry's order managers a position is protected |
| `LossesLockReal.cfg` | `Captain` | three losses lock REAL mode, also after the first `start_session` |
| `RoutedOnce.cfg` | `SystemRunner` | `start_routing` may be called many times and Floor 2 gets a packet once |
| `LoggedIsStored.cfg` | `MCMemory` | what Side A logs is in Side C |
| `HistoryIsRead.cfg` | `MCAnalysis` | the engines use the buffer the runner gives them |

**Deadlock.** The orchestrator's configurations set `CHECK_DEADLOCK FALSE`: with all orders of the
instance used and every trade over, nothing need happen. `Analysis` does too: the series ends. All other runs check it.

**Fairness.** `KillSwitch`: a call in progress goes on (`WF(CallStep)`: it is straight-line
code, whose callback either returns or raises) and a dead process is started again
(`WF(Restart)`: the operator's job, needed for "ends up or down" not to hang on it). `SystemRunner`: the main thread goes
on (`WF(Main)`: its loop sleeps half a second and calls nothing that blocks on another thread); the sockets' threads have none. Nothing else has
a fair step: reports come or do not, and no thread or timer of the program is bound to call Side A, the Captain's `on_trade_complete`
or Side C's retention. So no liveness is claimed for orders, positions and records; section 5 lists what stays stuck.

## 4. Proofs

| Theorem | Says |
|---|---|
| `EntryProofs!SwitchTypes`, `Durable`, `CriticalFlattens`, `ExposureExplained`, `Sticky` | the safety properties of the switch, through crashes and restarts |
| `EntryProofs!RetriesTypes`, `BreakerTheorem`, `RetriesBounded`, `OneOrderAtATime` | for any orders, retries, threshold and broker; all but the last also where it repeats reports |
| `EntryProofs!GateTypes`, `AnswerStands`, `News` | for any window, TTL and age with `MaxAge <= Ttl` |
| `OrchestratorProofs!TypeCorrect`, `LedgerImplemented`, `Backed`, `BreakerStopsEntries` | for any trades, orders, lots, prices, limits and weathers |
| `OrchestratorProofs!OneTradeRule` | one active position, for any number of trades and orders, short of a storm |
| `OrchestratorProofs!Managed`, `LegsMatch` | the active position is the managed one and its legs are of its size, in calm weather |
| `PositionManagerProofs!PositionTypes`, `TrailBehind`, `TrailNeverLoosens`, `Balance` | for any trades, integer prices and distances |
| `DeskProofs!CaptainTypes`, `Rests`, `LocksReal` | for any cooldowns, limit of losses, modes, days and length of a session |
| `DeskProofs!DeskIsCaptain`, `DeskRests`, `DeskLocks` | every behaviour of the desk is one of the Captain, so it has the two above |
| `DeskProofs!FreshOnly`, `Sane`, `Majority`, `RequiredIsDone` | decay, levels, majority and interventions, for any reports, capital, strikes, moments and signs |
| `DeskProofs!PlansTypes`, `InTimeOnly`, `NeverBack` | for any classes, windows, prices and number of plans |
| `RunnerProofs!RunnerTypesHold`, `OneSocket`, `CandlesApart` | for any number of sockets, closes that raise, events, ticks, sessions and days |
| `MemoryProofs!NothingForgotten`, `QueriesFindAll`, `IndexesInStep`, `SameBlocks` | for any families, subjects, policies, rings, order of passes, and records with and without a time |
| `DataCentreProofs!BadIsSignalled`, `GapsArePassed`, `OverdueAreFound`, `CandlesMatch` | for any packets, sources, clocks, limits and stream maxima |
| `AnalysisProofs!LateEngineTheorem`, `CooldownTheorem` | for any candles, late engines, raising heads and contracts made by hand |
| `AnalysisProofs!LevelsTheorem`, `ConfirmationTheorem`, `ValueAreaTheorem` | for series of any length, any buffer and any periods, buckets and thresholds |
| `AnalysisProofs!AcceptedTheorem` | for any series of positive prices, phases, late engines, raising heads and contracts made by hand |

The arguments:

* *Kill switch.* The assignment of CRITICAL reads nothing of what came before it. `FlattenKnown` says that between the callback and the
  assignment a callback that was wired has been tried and the account already has one of the three reasons (`Reason`). From there no entry is
  let in, so a fill only moves an order from `working` to `held`, and a reason stays one through fills, exits, saves and crashes.
* *Retries.* `Bounded`: while the breaker is closed, every retry but one has a failure in the count,
  the one being the retry let through by the reset itself; when it is open or cooling the total is
  at most the threshold. `RejectionFact` shows the nested retry loop keeps it. `OneOrderAtATime` speaks of the machine too (`Lone`): a working
  order keeps it in ORDER_PENDING, where no submission starts, and a retry comes only after what it replaces was rejected.
* *Risk gate.* `Remembered` (what the store forgot is older than the TTL) and `Answered` (an answer has a
  registered entry not older than the decision): an answered decision young enough for the age
  check still has its entry when the TTL is at least the maximal age. In the code both are 60 seconds;
  the named assumption `TtlCoversAge` is exactly that.
* *Orchestrator.* `IInv` types the state, with two facts: the broker works only on orders of decisions that came to the gate, and a trade without a
  position has no units. With it every step maps to a step of the ledger or none, action by action. The step that opens the breaker ends in
  `trip_breaker`, which is `BreakerStopsEntries`. `OInv` says why `open_position`'s check is enough short of a storm: a RISK_REDUCTION can reopen only a current
  trade that is closed and not empty, and that takes an emergency that leaves it current and a submission that raises (`PendingIsNew`,
  `ClosedIsEmpty`, `HeldIsBusy`). `CInv` is for calm weather: an order the broker has filled nothing of belongs to the current trade, and is
  the only one (`UnfilledIsCurrent`); linkages, legs and positions are of the same trades (`LegsHavePositions`, `OrdersAreTracked`); the current trade
  can be staged until it is PROTECTED (`CurrentIsStageable`); so the fill that opens a position also stages and links its legs
  (`ActiveIsWhole`, `LegsAreEqual`).
* *Positions.* `Behind` (a trail is at its distance behind its best price; not yet active, it has seen nothing
  better than the price it was set at), `Guarded` and `Balanced` (for each trade realised plus marked profit equals cash plus the
  value at the last mark). The average price is the exact quotient by a guard of the model
  (`ExactAverage`): rounding of floats is not modelled.
* *Captain.* `Resting`: the candles of the rest still to come are at most the cycles still to count, since a cycle
  takes one off the count and comes at least one candle later. `LockInv`: the engine's manager counts exactly the day's losses,
  a manager at its limit is locked (`Full`), and the gate's equals the engine's until `Split`.
* *Desk.* `Waiting` (no more cycles have been waited than there were candles) makes every desk step a step of `Captain` or none. `FreshOnly` is arithmetic on the scores:
  the raw conviction is at most 100, what is left after more than two fifths of decay is below the 60 a trade needs.
  `Sane` goes through the stop tables of each class and the rounding of an invalidation, for both sides. `Majority`: trend and session
  add 26.5 points of score at most, so a conviction of 60 (of 75 with a stale core head) leaves the votes a share above one half (above four
  fifths). `RequiredIsDone`: a required intervention has a concern that alone or with the ones it brings along reaches the
  engine's threshold (`Reviewed`); a concern of the macro head comes with one of the story. They assume
  `CallsAssumption`: a vote is a weight, a quality a share, a caution a number, and a price is a hundred points at least (a price of 0 would give a
  stop equal to the entry; the runner passes the last tick's price, which is 0 before the first).
* *Armed plans.* `ArmedBefore` (no plan is armed later than the candle the cycles are called with, so its age is not cut to zero) and
  `BrokenEnds` (a plan seen broken is INVALIDATED, in the very tick).
* *Runner.* `SocketsKnown`: a socket that can deliver is the one the adapter holds or one it has lost by a close that raised, and an adapter that is neither
  connected nor dialling holds none. `CandleInv`: outside the main loop's reset, what the accumulator holds comes after every candle in the buffer (`Unread`),
  and what was written is older than the tick now being delivered, or no younger where two trackers deliver it (`Past`).
* *Memory.* `Numbered` (records are unique, the counter ahead of all), `Placed` (a routed event is in its
  family's store or, from its age on, in the archive), `Indexed` (an entry in an index for each record that has the key, and no other). So a store's query finds what a scan finds, and it remains to see when sorting that raises
  (`SortedAnswers`); a query that sorts more records than it returns raises for the more (`MixedGrows`). Ring agreement survives an append to
  both and a drop from either, whichever is smaller.
* *Data centre.* `Signed`: a bad state has been reported and its event stays until cleared. `InOrder`: the last time of a feed is not
  behind any time that was found in order. `Tracked`: the newest time in a packet's history is that of its present stage.
  `Written`: what is cleaned was stored and sent. The rest of `CandlesMatch` is about sorting: the members of a finite set, in the order of how many
  come before each, are a list of all of them (`SortedLists`); so the tick stream is what was written in another order (`TicksAreWritten`), which takes
  the ticks of a minute to those its candle is made of (`SameMinute`). That is the whole story of uncut streams (`AllTogether`); a maximum
  keeps the oldest part of a list (`FirstOfList`), and the two parts agree as far as both go (`OldestTogether`).
* *Analysis.* `Cooling` bounds what is left of a cooldown by what is owed, through refreshes that keep the clock. The contract holds what the engines find in the
  candles so far (`LevelsFound`, `ChangesFound`, `ProfileFound`), so the rest is about the algorithms. A level needs candles on both
  sides and reads no others, so it is found in every longer series, and in what is left of one when its neighbours are (`LevelsMove`). A change of character
  is the first close beyond its level after the candle it was looked up from, and its closes follow (`ClosesConfirm`). The value area keeps `AreaOk` with each bucket it takes (`GrowKeeps`),
  and after as many rounds as there are buckets it has enough or everything (`AreaGrown`). What is passed on is accepted part by part:
  each engine's calculators give signals in their ranges (`SmcRunDelivers`, `IctRunDelivers`, `TechnicalDelivers`), a domain that is late
  or not run gives none, every head finds in that what it reads (`CycleCanBeRead`) and reports in its ranges (`HeadAccepted`). That takes
  `AnalysisAssumption`: the low of a candle is positive, as the runner drops a tick whose price is not (`system_runner.py:522`) and the validators
  refuse a level at 0; and a contract made by hand holds sequences and counts.

Some of these need induction over sequences and over rounds of a loop. The library's induction theorems take an
operator and cannot be used; `AnalysisProofs` derives what it needs from the well-foundedness of strict inclusion: a set of numbers that has 0 and every
successor is `Nat` (`Induction`), and a function defined step by step exists (`Recursion`).

*Only model-checked*: the two liveness properties `ActivationEnds` and `StopEnds`. *Out of the prover's reach*: liveness under fairness and ENABLED, operators passed to
operators (`SelectSeq`, `FoldLeft`), and RECURSIVE ones; the models use recursive functions instead where something is proved about the result.

The orchestrator's `seen` is never evicted, whereas the store evicts after its TTL. That is sound by the two
`RiskGate` theorems: a decision still young enough to pass is still in the store, and `trade_id` comes
from the snapshot's id, so two different decisions do not share a fingerprint.

## 5. Where code and words part

Met while modelling. The six with a configuration are marked with its name.

### Side A (`side_a_execution/`)

* *Kill switch*: the save truncates the file before it writes (`kill_switch.py:317`), so a crash there restores
  NORMAL although "the kill switch state is restored".
* *Partial fills*: the second fill of an order never reaches the position, as the machine has no transition for it
  (`execution_core.py:581`, `FillsAreBooked.cfg`).
* *Registry*: `get_position_manager` and `get_order_lifecycle_manager` build a new instance each call, so the protection model links
  legs in a manager nobody else reads (`UnsharedManagers.cfg`).
* *No flatten*: the registry builds the switch without a callback (`component_registry.py:242`), and a CRITICAL activation then flattens nothing and logs that
  `flatten_ok` is True (`kill_switch.py:153`); with one, entry orders the broker still works are not cancelled and may be filled after it.
* *Flatten*: it closes at price 0.0, which `close_position` refuses (`execution_orchestrator.py:864`); a staged flag
  survives it (586).
* *Failed submission* leaves the machine in RISK_PASSED (430), a failed retry in ORDER_PENDING (`execution_core.py:668`).
* *End of day*: `check_eod_close` at any time of the day forgets a trade that still waits for its fill (1337), and
  the mode may then change (1390).
* *Part exits*: REDUCE_SIZE leaves the legs' size (1240); RISK_REDUCTION of everything leaves an active position of no
  units (1260); TIGHTEN_SL takes any price (1251); exits are never sent to the broker (1054) and do not
  cancel the rest of a partly filled order (1007).
* *Reconnect* notes a wrong quantity and keeps it (`reconciliation_engine.py:498`); `periodic_reconcile` compares the
  local books with themselves (788).
* *Rejections* repeated or late are retried after the submission is over (`execution_core.py:976`), though the retry says it
  is "already in ORDER_PENDING" (661); so `OneWorkingOrder` is checked with each report once, while the theorems about
  the breaker hold with `Redelivery` too. A late acknowledgement or cancel overwrites a final status (485, 742).
* *Late fills*: after FLATTEN and a reset the order left working is filled while the next decision is current, and the
  position is opened in that decision's direction (`execution_orchestrator.py:543`).
* *Closed positions* get units again from a late fill, and an override's part exit sets them PARTIALLY_CLOSED
  (`position_manager.py:767`), though close_position returns "the finalised PositionState" (807).
* *Two active positions*: "returns max 1 position" (`position_manager.py:888`) fails when overrides, rejections and
  emergencies come together. A flattened and reset trade stays current while a submission whose retry raises leaves the machine waiting for a fill;
  a late fill then adds to the closed trade, and RISK_REDUCTION makes it PARTIALLY_CLOSED beside another that is active.
* *Remainders*: a rejection is handled whatever order it is of (`execution_core.py:976`). Refused, what is left of an earlier trade's order fails the machine
  under the current one's working order, whose fill then opens a position nobody manages.
* *Retries* ask neither kill switch nor lock (`execution_core.py:664`) and start a new count (686).
* *Decisions* that come while the machine is CLOSED or FAILED use up their fingerprint and are refused.
* *Order manager* registers a quantity of 1 and then refuses fills of units (457, 510).
* *Positions*: a closed position keeps the last mark in its pnl (`position_manager.py:1031`), an active trail overwrites the
  breakeven stop (578).
* *Risk gate*: two decisions of one five-second window, delivered a TTL apart, may both pass.
* *States* MANAGING, EXITING and UNKNOWN_PENDING_RECONCILE are never rested in; LOCKED is left by `reset` only.

### Captain (`floor_5_captain/`)

* *Managers*: `start_session` builds a new loss lock and override guard, and the permission gate keeps those it was built with
  (`captain_engine.py:1376`, `LossesLockReal.cfg`).
* *Overrides* are documented as a grant for one trade (`override_guard.py:50`) and end only by
  `clear_override`, which nobody calls. `on_trade_complete`, `record_loss` and `LossLockManager.set_mode` have no caller in production, so the
  running program counts no loss and keeps its first active trade for the session; a rejection by Side A is not told to the Captain either.
* *Opposite case*: the heavy cycle passes "BUY" or "SELL" and `analyze` knows "BULLISH" and "BEARISH" (`opposite_case_engine.py:91`), so
  there never is one. Called rightly, it averages, so that one more weak reason weakens it.
* *Decay* counts the Captain's unblocked cycles and not a setup's: after one to eight silent ones, by class, no score reaches 60 until the
  next session.
* *Supervision*: the heavy cycle's own review (step 20) is unreachable, as an active trade blocks the cycle; its "original direction" would be the current
  one; the runner's light cycle passes no regime, opposition or risk, so no intervention ever comes of it; reviews are not cleared when a trade completes.
* *Scores*: the penalties for STALE and UNCERTAIN_NO_SETUP never apply (presence is HAS_SETUP or NO_SETUP); an upward regime adds its 25
  points to a SELL; the "veto" of SMC and ICT adds 20 to the no-trade score and no more; a recent loss does not change the mood.
* *State*: `active_trade` is False in the state of a cycle that an active trade has blocked; a capital that is too small is logged as WEAK_CONVICTION;
  an option in the money is estimated cheaper than one at the money.
* *Armed plans*: the purge takes a plan of candle 0 for one without
  a candle (`setup_expiry_manager.py:210`); the light cycle expires it all the same; the runner drops what a light cycle triggers (`system_runner.py:464`).

### Floor 1 and the runner

* Only the login calls `connect` and `subscribe_feeds`; nobody calls `reconnect`, `disconnect`, `refresh_token`, `tick_heartbeat_age` or `submit_manual`.
* A socket's close marks the source DISCONNECTED and leaves `_connected` true: `reconnect` says it is connected (`source_adapters.py:424`); a close
  from DEGRADED raises.
* Each `start_session` registers one more price tracker and one more routing closure (`RoutedOnce.cfg`), so that
  one tick may be in two candles; `TicksInOneCandle` says "strictly" for one tracker only.
* A close that raises is logged and the socket forgotten (`source_adapters.py:189`): it goes on delivering beside the one of the next login. Its ticks
  and the new one's may then come at the same moment from two threads; the model delivers them one after the other.
* A stop asked for during the login is lost: the signal handlers are installed before `start` (`system_runner.py:777`), which sets `_running` when the login
  is over (215).
* A tick between the reading of the accumulator and its reset is lost, and one inside the reset may leave an open of 0 (`system_runner.py:353`).
* `_on_idle` keeps accumulator and buffer of the day before; `stop` leaves the adapter connected.

### Floor 2 (`floor_2_datacenter/`)

* The cleaned options snapshot drops its timestamp: the options stream skips it and the enforced handoff never completes from cleaned data.
* With the downstream callback writing to the raw store before validation, as the docstring proposes, every Tier A and B packet is its own duplicate.
* The tick stream sorts a record whose time cannot be read by a `datetime.min` without a zone (`tick_stream_builder.py:76`): beside one with a time the sort
  raises, and the caller gets neither stream. The streams keep the oldest 1000 ticks and 390 candles and say so in a log, so once the cleaned layer has more, a session's later ticks are in neither.
* "Complete minute windows" of the candle stream include the incomplete one.
* Events are emitted once per type and source for good; one more CRITICAL event can raise a state from CRITICAL to DEGRADED; the five "latest" reports are the oldest. A score falls by
  silence alone (`health_monitor.py:290`) while the state waits for the next call.
* The cleaned layer never expires; a handoff holds every macro stream ever made; `count_by_type` counts ids that are gone; redelivery by Tier C resets a stage to RAW.
* `replay_raw` and `replay_cleaned` of several sources return the first one's packets; `replay_structured` calls `.get` on a dataclass; `create_session` overwrites.
* `dispatch_all` raises where Floor 3 refuses, before Side B and C got theirs; `record_heartbeat` measures an age of nearly 0.

### Floors 3 and 4

* The runner's candles carry a string where every calculator asks for a datetime, so the engines skip them all (`HistoryIsRead.cfg`).
* A gap is marked mitigated by nearly every next candle; a swing's candle is looked up by price
  and the first one with it is taken (`_shared.py:41`), so a change of character may be confirmed by closes before its swing (`choch_calculator.py:178`); equal highs count as lower highs; a market that stands still has an
  RSI of 100; a flat candle at the top of the profile's window raises; `MA_CROSS` "EQUAL" is no type of its validator; "max pain" is the strike with the most open interest;
  the next kill zone's time is to its end.
* The runner keeps 100 candles (`system_runner.py:329`): a level, a swing or a gap is forgotten with the candles it was found in, however often it was reported.
* Floor 3 emits names and keys some heads do not read; MACRO is routed to nobody.
* The SMC head counts a confirmed change of character for both sides; the trigger of a bearish gap is the last zone's, whichever that is.
* Freshness is that of the previous refresh, so the first report is always STALE; data health leaves out heads that raised, the snapshot calls them STALE.
* A later cooldown may end early by the age of a clock kept while none ran; Floor 3's own cooldown is set anew as long as a losing sequence lasts.
* A replay cycle computes its first packet only; a late engine's undelivered signals are in the summary's count; `ReportValidator` is never called in production.

### Side C and the logs

* A Side A event that Side C refuses is in the dashboard's ring only, although "log an execution event to Side C" (`LoggedIsStored.cfg`).
* The envelope drops the payload; `store_reference` documents `ref_key` as part of the payload and reads it from the references.
* Records with and without a time make a sort raise TypeError (`event_store.py:187`, `journal_store.py:192`, `query_layer.py:130`), at times where no record
  without a time belongs to the answer: a trade's history sorts the executions of all trades first. Archived events never expire.
* `poll_side_c` calls the builders with arguments they do not have; nobody sets the router of events or runs retention in production.

## 6. Not modelled, and why

* *Brokers*: the paper broker's random prices and the real broker's HTTP calls; `ExecutionCore` sees every answer they can give.
* *Side B*: views of the other parts, and commands written into a cache that nobody else reads. *Dashboard*: browser pages.
* *Replay, governance registries, ingress and output checks of Floor 3, formatters and spare stores of Floor 4*: the running system does not call them.
* *Memory of setups, narrative, decision snapshots* of Floor 5: no decision reads them back.
* *Data-health policy of Side A*: a table whose verdict is an input of `RiskGate`.
* Texts, journals' formatting, views, float rounding beyond what section 2 names.

`SupportMetrics` has all of the options engine and the support metrics, though the heads read only some of the numbers and of the rest how many
there are: the count is what makes a head's report, and it depends on every condition of the engine. No property is about the other fields.

`PROJECT.json` names the operations left out of each part that is only partly modelled.

## 7. Plan

Done: kill switch; state machine, core and retries; orchestrator with order manager, positions and
reconciliation; ledger and refinement; risk gate; position manager; Captain, armed plans and the desk over it; Floor 1 and the runner; data centre; engines and heads; Side C.
Every safety property a run checks is a theorem.

Next, most important first:

1. The Captain composed with Side A's answer to a decision and with what ends a trade: one active trade
   on both sides, a rejected decision does not block the session. The three hazards without a property belong here and to Side B's cache.
2. The unclear-acknowledgement path of the reconciliation engine with its bounded retries; the paper broker's order table; replay sessions.
