------------------------------ MODULE DeskProofs ------------------------------
(* The Captain's rests and locks, for any limit of losses, any cooldowns and *)
(* any length of a session.  The desk is a Captain, its trades are decided   *)
(* while the conviction is fresh and with the heads' votes behind them, and  *)
(* their levels are in order: for any calls.  Armed plans trigger in time and *)
(* never after they were broken, for any classes, windows and prices.        *)
EXTENDS Desk, ArmedPlans, FiniteSetTheorems, TLAPS

Candle == candle \in Int /\ rested \in Int /\ cooldown \in Nat

\* The candles of the rest that are left are at most the cycles that are.
Resting == Candle /\ rested <= candle + cooldown

Managers == [count : Nat, locked : BOOLEAN, mode : Modes, day : Days]

Typed ==
  /\ day \in Days
  /\ lock \in [Holders -> Managers]
  /\ guard \in [Holders -> GuardStates]
  /\ losses \in [day : Days, n : Nat]

\* A manager at its limit is locked.
Full(l) == l.count >= MaxLosses => l.locked

\* What the engine's manager counts is what was lost since the day's first cycle, and
\* no manager at its limit is open.
Counted ==
  /\ \A h \in Holders : Full(lock[h])
  /\ losses.n = lock["engine"].count
  /\ losses.day = lock["engine"].day

\* Engine and gate have the same managers until the first session is opened.
SameManagers ==
  ~Split => lock["gate"] = lock["engine"] /\ guard["gate"] = guard["engine"]

LockInv == Typed /\ Counted /\ SameManagers

-----------------------------------------------------------------------------
(* The rest after a trade. *)

\* A cycle counts down by at most one, and comes at a later candle.
LEMMA CoolerFalls ==
  ASSUME cooldown \in Nat
  PROVE  Cooler \in Nat /\ Cooler + 1 >= cooldown
BY DEF Cooler

\* The rest is kept by every step, and a trade is decided only when it is over.
LEMMA RestingStep ==
  ASSUME Resting, [Next]_vars
  PROVE  Resting' /\ (active = NoTrade /\ active' # NoTrade => candle' >= rested)
<1> USE CaptainAssumption DEF Resting, Candle
<1>1. CASE \E m \in Modes, at \in Candles, others, wants \in BOOLEAN :
             HeavyCycle(m, at, others, wants)
  <2>1. PICK m \in Modes, at \in Candles, others \in BOOLEAN, wants \in BOOLEAN :
          HeavyCycle(m, at, others, wants)
    BY <1>1
  <2>2. at \in Int /\ at > candle /\ candle' = at /\ rested' = rested
    BY <2>1 DEF HeavyCycle, Candles
  <2>3. \/ cooldown' = Cooler /\ active' = IF wants /\ Cooler = 0 THEN m ELSE NoTrade
        \/ cooldown' = cooldown /\ active' = active
    BY <2>1 DEF HeavyCycle
  <2> QED BY <2>2, <2>3, CoolerFalls
<1>2. CASE \E n \in Cooldowns : TradeComplete(n)
  BY <1>2 DEF TradeComplete
<1>3. CASE RecordLoss \/ (\E m \in Modes : SetMode(m)) \/ Operator \/ NextDay
  BY <1>3 DEF RecordLoss, SetMode, Operator, RequireOverride, GrantOverride, DenyOverride,
              Guards, NextDay
<1>4. CASE StartSession
  BY <1>4 DEF StartSession, BeforeOpening
<1>5. CASE UNCHANGED vars
  BY <1>5 DEF vars
<1> QED BY <1>1, <1>2, <1>3, <1>4, <1>5 DEF Next

\* A cooldown of n candles lasts n candles, however many cycles are blocked or skipped
\* meanwhile (on_trade_complete and step 21 of the heavy cycle).
THEOREM Rests == Spec => RestsItsCandles
<1>1. Init => Resting
  BY DEF Init, Resting, Candle, BeforeOpening
<1>2. Resting /\ [Next]_vars
        => Resting' /\ (active = NoTrade /\ active' # NoTrade => candle' >= rested)
  BY RestingStep
<1> QED BY <1>1, <1>2, PTL DEF Spec, RestsItsCandles

-----------------------------------------------------------------------------
(* The lock after the last loss allowed. *)

\* What is written to the engine's object; the gate's is another one after a session.
LEMMA WritesBoth ==
  ASSUME NEW S, NEW f \in [Holders -> S], NEW value \in S
  PROVE  LET g == EngineWrites(f, value) IN
         /\ g \in [Holders -> S]
         /\ g["engine"] = value
         /\ g["gate"] = IF Split THEN f["gate"] ELSE value
BY DEF EngineWrites, Holders

\* The reset of a new day.
LEMMA Resets ==
  ASSUME NEW l \in Managers, day \in Days, Full(l)
  PROVE  LET r == ResetIfNewDay(l) IN
         /\ r \in Managers /\ Full(r)
         /\ r.count = IF day > l.day THEN 0 ELSE l.count
         /\ r.day = IF day > l.day THEN day ELSE l.day
<1> USE CaptainAssumption
<1>1. CASE day > l.day
  <2> DEFINE r == [count |-> 0, locked |-> FALSE, mode |-> l.mode, day |-> day]
  <2>1. ResetIfNewDay(l) = r
    BY <1>1 DEF ResetIfNewDay, Managers
  <2>2. r \in Managers
    BY DEF Managers
  <2>3. Full(r)
    BY DEF Full
  <2> QED BY <1>1, <2>1, <2>2, <2>3
<1>2. CASE ~(day > l.day)
  BY <1>2 DEF ResetIfNewDay
<1> QED BY <1>1, <1>2

\* A new value of the engine's manager keeps the invariant if it is in step with the
\* history and nothing else moves.
LEMMA NewManager ==
  ASSUME LockInv, NEW k \in Managers, Full(k),
         lock' = EngineWrites(lock, k),
         losses' \in [day : Days, n : Nat], losses'.n = k.count, losses'.day = k.day,
         UNCHANGED <<day, guard, opened>>
  PROVE  LockInv'
<1>1. /\ lock' \in [Holders -> Managers]
      /\ lock'["engine"] = k /\ lock'["gate"] = IF Split THEN lock["gate"] ELSE k
  BY DEF EngineWrites, Holders, LockInv, Typed
<1>2. Typed'
  BY <1>1 DEF LockInv, Typed
<1>3. Counted'
  BY <1>1 DEF LockInv, Counted, Holders, Full
<1>4. SameManagers'
  BY <1>1 DEF LockInv, SameManagers, Split
<1> QED BY <1>2, <1>3, <1>4 DEF LockInv

\* A cycle's reset, and what the gate is asked after it.
LEMMA CycleLocks ==
  ASSUME LockInv,
         NEW m \in Modes, NEW at \in Candles, NEW others \in BOOLEAN, NEW wants \in BOOLEAN,
         HeavyCycle(m, at, others, wants)
  PROVE  /\ LockInv'
         /\ DecidesReal /\ LossLimitReached /\ ~Split => guard["engine"] = "granted"
<1> DEFINE l == lock["engine"]
           r == ResetIfNewDay(l)
           locks == EngineWrites(lock, r)
<1>1. /\ lock' = locks /\ UNCHANGED <<day, guard, opened>>
      /\ losses' = IF day > losses.day THEN [day |-> day, n |-> 0] ELSE losses
      /\ active' # active => Allowed(m, others, locks) /\ active' \in {m, NoTrade}
  BY DEF HeavyCycle
<1>2. l \in Managers /\ Full(l) /\ day \in Days
  BY DEF LockInv, Typed, Counted, Holders
<1>3. /\ r \in Managers /\ Full(r)
      /\ r.count = IF day > l.day THEN 0 ELSE l.count
      /\ r.day = IF day > l.day THEN day ELSE l.day
  BY <1>2, Resets
<1> HIDE DEF r
<1>4. losses' \in [day : Days, n : Nat] /\ losses'.n = r.count /\ losses'.day = r.day
  BY <1>1, <1>2, <1>3 DEF LockInv, Typed, Counted
<1>5. LockInv'
  BY <1>1, <1>3, <1>4, NewManager
<1>6. ASSUME DecidesReal, LossLimitReached, ~Split
      PROVE  guard["engine"] = "granted"
  <2>1. RealModeOpen("REAL", locks)
    BY <1>1, <1>6, CaptainAssumption DEF DecidesReal, Allowed, NoTrade
  <2>2. locks["gate"] = r
    BY <1>3, <1>6, WritesBoth DEF LockInv, Typed
  <2>3. r.locked
    BY <1>3, <1>4, <1>6 DEF LossLimitReached, Full
  <2> QED BY <2>1, <2>2, <2>3, <1>6 DEF RealModeOpen, LockInv, SameManagers
<1> QED BY <1>5, <1>6

\* Every other step keeps the count, and decides no trade.
LEMMA OtherLocks ==
  ASSUME LockInv,
         \/ \E n \in Cooldowns : TradeComplete(n)
         \/ \E m \in Modes : SetMode(m)
         \/ RecordLoss \/ Operator \/ StartSession \/ NextDay \/ UNCHANGED vars
  PROVE  LockInv' /\ ~DecidesReal
<1> DEFINE l == lock["engine"]
<1>0. l \in Managers /\ Full(l)
  BY DEF LockInv, Typed, Counted, Holders
<1>1. CASE (\E n \in Cooldowns : TradeComplete(n)) \/ NextDay \/ UNCHANGED vars
  <2>1. /\ UNCHANGED <<lock, guard, opened, losses>> /\ active' \in {active, NoTrade}
        /\ day' \in {day, day + 1} /\ (day' = day \/ day < MaxDay)
    BY <1>1 DEF TradeComplete, NextDay, vars
  <2>2. day' \in Days
    BY <2>1, CaptainAssumption DEF LockInv, Typed, Days
  <2> QED BY <2>1, <2>2 DEF LockInv, Typed, Counted, SameManagers, Split, DecidesReal, NoTrade
<1>2. CASE \E m \in Modes : SetMode(m)
  <2>1. PICK m \in Modes : SetMode(m)
    BY <1>2
  <2> DEFINE k == [l EXCEPT !.mode = m]
  <2>2. k \in Managers /\ Full(k) /\ k.count = l.count /\ k.day = l.day
    BY <1>0 DEF Managers, Full
  <2>3. lock' = EngineWrites(lock, k) /\ UNCHANGED <<day, losses, guard, opened, active>>
    BY <2>1 DEF SetMode
  <2> HIDE DEF k
  <2>4. LockInv'
    BY <2>2, <2>3, NewManager DEF LockInv, Typed, Counted
  <2> QED BY <2>3, <2>4 DEF DecidesReal, NoTrade
<1>3. CASE RecordLoss
  <2> DEFINE shut == l.locked \/ l.count + 1 >= MaxLosses
             k == [l EXCEPT !.count = @ + 1, !.locked = @ \/ l.count + 1 >= MaxLosses]
  <2>1. k \in Managers /\ Full(k) /\ k.count = l.count + 1 /\ k.day = l.day
    <3>1. shut \in BOOLEAN /\ l.count + 1 \in Nat /\ (l.count + 1 >= MaxLosses => shut)
      BY <1>0 DEF Managers
    <3>2. k = [l EXCEPT !.count = l.count + 1, !.locked = shut]
      BY <1>0 DEF Managers
    <3> HIDE DEF shut, k, l
    <3>3. k \in Managers /\ k.count = l.count + 1 /\ k.locked = shut /\ k.day = l.day
      BY <1>0, <3>1, <3>2 DEF Managers
    <3> QED BY <3>1, <3>3 DEF Full
  <2>2. /\ lock' = EngineWrites(lock, k) /\ UNCHANGED <<day, guard, opened, active>>
        /\ losses' = [losses EXCEPT !.n = @ + 1]
    BY <1>3 DEF RecordLoss
  <2> HIDE DEF k
  <2>3. /\ losses' \in [day : Days, n : Nat]
        /\ losses'.n = losses.n + 1 /\ losses'.day = losses.day
    BY <2>2 DEF LockInv, Typed
  <2>4. LockInv'
    BY <2>1, <2>2, <2>3, NewManager DEF LockInv, Counted
  <2> QED BY <2>2, <2>4 DEF DecidesReal, NoTrade
<1>4. CASE Operator
  <2>1. PICK g \in GuardStates : guard' = EngineWrites(guard, g)
                                 /\ UNCHANGED <<day, lock, losses, opened, active>>
    BY <1>4 DEF Operator, RequireOverride, GrantOverride, DenyOverride, Guards, GuardStates
  <2>2. /\ guard' \in [Holders -> GuardStates]
        /\ guard'["engine"] = g /\ guard'["gate"] = IF Split THEN guard["gate"] ELSE g
    BY <2>1 DEF EngineWrites, Holders, LockInv, Typed
  <2> QED BY <2>1, <2>2 DEF LockInv, Typed, Counted, SameManagers, Split, DecidesReal, NoTrade
<1>5. CASE StartSession
  <2>1. /\ NewLock(day) \in Managers /\ Full(NewLock(day))
        /\ NewLock(day).count = 0 /\ NewLock(day).day = day
    BY CaptainAssumption DEF LockInv, Typed, NewLock, Managers, Full
  <2>2. /\ lock' = [lock EXCEPT !["engine"] = NewLock(day)]
        /\ guard' = [guard EXCEPT !["engine"] = "idle"]
        /\ losses' = [day |-> day, n |-> 0]
        /\ opened' = day /\ day' = day /\ active' = NoTrade
    BY <1>5 DEF StartSession
  <2> HIDE DEF NewLock
  <2>3. Typed'
    BY <2>1, <2>2 DEF LockInv, Typed, GuardStates
  <2>4. Counted'
    BY <2>1, <2>2 DEF LockInv, Typed, Counted, Holders
  <2>5. Split'
    BY <2>2 DEF LockInv, Typed, Split, Days, Never
  <2> QED BY <2>2, <2>3, <2>4, <2>5 DEF LockInv, SameManagers, DecidesReal, NoTrade
<1> QED BY <1>1, <1>2, <1>3, <1>4, <1>5

\* As long as engine and gate have the same managers, a REAL trade after the last loss
\* allowed has the operator's override, whatever modes, days and cycles come between
\* (record_loss, check_and_reset_if_new_day, _check_real_mode_lock).
THEOREM LocksReal == Spec => LossesLockSameManager
<1>1. Init => LockInv
  BY CaptainAssumption
     DEF Init, LockInv, Typed, Counted, SameManagers, NewLock, Holders, Managers, Full,
         Days, GuardStates
<1>2. LockInv /\ [Next]_vars
        => /\ LockInv'
           /\ DecidesReal /\ LossLimitReached /\ ~Split => guard["engine"] = "granted"
  BY CycleLocks, OtherLocks DEF Next
<1> QED BY <1>1, <1>2, PTL DEF Spec, LossesLockSameManager

\* Whatever a manager does, its count stays in its bound: it is only added to below it.
LEMMA LockTypes ==
  ASSUME NEW l \in Locks, day \in Days
  PROVE  /\ NewLock(day) \in Locks /\ ResetIfNewDay(l) \in Locks
         /\ \A m \in Modes : [l EXCEPT !.mode = m] \in Locks
         /\ l.count <= MaxLosses
              => [l EXCEPT !.count = @ + 1, !.locked = @ \/ l.count + 1 >= MaxLosses] \in Locks
<1> USE CaptainAssumption
<1>1. NewLock(day) \in Locks
  BY DEF NewLock, Locks
<1>2. ResetIfNewDay(l) \in {l, [count |-> 0, locked |-> FALSE, mode |-> l.mode, day |-> day]}
  BY DEF ResetIfNewDay, Locks
<1>3. [count |-> 0, locked |-> FALSE, mode |-> l.mode, day |-> day] \in Locks
  BY DEF Locks
<1>4. \A m \in Modes : [l EXCEPT !.mode = m] \in Locks
  BY DEF Locks
<1>5. ASSUME l.count <= MaxLosses
      PROVE  [l EXCEPT !.count = @ + 1, !.locked = @ \/ l.count + 1 >= MaxLosses] \in Locks
  <2> DEFINE shut == l.locked \/ l.count + 1 >= MaxLosses
             k == [l EXCEPT !.count = @ + 1, !.locked = @ \/ l.count + 1 >= MaxLosses]
  <2>1. shut \in BOOLEAN /\ l.count + 1 \in 0..MaxLosses + 1
    BY <1>5 DEF Locks
  <2>2. k = [l EXCEPT !.count = l.count + 1, !.locked = shut]
    BY DEF Locks
  <2> HIDE DEF shut, k
  <2>3. k \in Locks
    BY <2>1, <2>2 DEF Locks
  <2> QED BY <2>3 DEF k
<1> QED BY <1>1, <1>2, <1>3, <1>4, <1>5

\* A step keeps the types.
LEMMA TypeStep ==
  ASSUME LockInv, TypeOK, [Next]_vars
  PROVE  TypeOK'
<1> USE CaptainAssumption
<1>0. /\ lock["engine"] \in Locks /\ day \in Days /\ losses.n = lock["engine"].count
      /\ losses \in [day : Days, n : 0..MaxLosses + 1]
  BY DEF TypeOK, LockInv, Counted, Holders
<1>1. /\ NewLock(day) \in Locks /\ ResetIfNewDay(lock["engine"]) \in Locks
      /\ \A m \in Modes : [lock["engine"] EXCEPT !.mode = m] \in Locks
  BY <1>0, LockTypes
<1>2. ASSUME NEW k \in Locks PROVE EngineWrites(lock, k) \in [Holders -> Locks]
  BY DEF TypeOK, EngineWrites
<1>3. CASE \E m \in Modes, at \in Candles, others, wants \in BOOLEAN : HeavyCycle(m, at, others, wants)
  <2>1. PICK m \in Modes, at \in Candles, others, wants \in BOOLEAN : HeavyCycle(m, at, others, wants)
    BY <1>3
  <2>2. lock' \in [Holders -> Locks]
    BY <1>1, <1>2, <2>1 DEF HeavyCycle
  <2>3. candle' \in Candles /\ active' \in Modes \cup {NoTrade} /\ cooldown' \in Nat
    BY <2>1 DEF HeavyCycle, TypeOK, Cooler
  <2>4. losses' \in [day : Days, n : 0..MaxLosses + 1]
    BY <1>0, <2>1 DEF HeavyCycle
  <2> QED BY <2>1, <2>2, <2>3, <2>4 DEF HeavyCycle, TypeOK
<1>4. CASE \E n \in Cooldowns : TradeComplete(n)
  <2>1. PICK n \in Cooldowns : TradeComplete(n)
    BY <1>4
  <2>2. n \in Nat /\ candle \in Int
    BY DEF TypeOK, Candles, BeforeOpening
  <2>3. cooldown' \in Nat /\ rested' \in Int /\ active' \in Modes \cup {NoTrade}
    BY <2>1, <2>2 DEF TradeComplete
  <2>4. UNCHANGED <<day, candle, lock, guard, opened, losses>>
    BY <2>1 DEF TradeComplete
  <2> QED BY <2>3, <2>4 DEF TypeOK
<1>5. CASE \E m \in Modes : SetMode(m)
  <2>1. PICK m \in Modes : SetMode(m)
    BY <1>5
  <2> QED BY <1>1, <1>2, <2>1 DEF SetMode, TypeOK
<1>6. CASE RecordLoss
  <2>1. lock["engine"].count <= MaxLosses
    BY <1>6 DEF RecordLoss
  <2>2. lock' \in [Holders -> Locks]
    BY <1>0, <1>2, <1>6, <2>1, LockTypes DEF RecordLoss
  <2>3. losses' = [losses EXCEPT !.n = @ + 1] /\ losses.n <= MaxLosses
    BY <1>0, <1>6, <2>1 DEF RecordLoss
  <2>4. losses' \in [day : Days, n : 0..MaxLosses + 1]
    BY <1>0, <2>3
  <2> QED BY <1>6, <2>2, <2>4 DEF RecordLoss, TypeOK
<1>7. CASE Operator
  BY <1>7 DEF Operator, RequireOverride, GrantOverride, DenyOverride, Guards, GuardStates, EngineWrites, TypeOK
<1>8. CASE StartSession
  <2>1. lock' \in [Holders -> Locks]
    BY <1>1, <1>8 DEF StartSession, TypeOK
  <2>2. losses' \in [day : Days, n : 0..MaxLosses + 1]
    BY <1>0, <1>8 DEF StartSession
  <2>3. guard' \in [Holders -> GuardStates]
    BY <1>8 DEF StartSession, TypeOK, GuardStates
  <2>4. cooldown' \in Nat /\ rested' \in Int
    BY <1>8 DEF StartSession, BeforeOpening
  <2> QED BY <1>0, <1>8, <2>1, <2>2, <2>3, <2>4 DEF StartSession, TypeOK, BeforeOpening
<1>9. CASE NextDay \/ UNCHANGED vars
  BY <1>9 DEF NextDay, vars, TypeOK, Days
<1> QED BY <1>3, <1>4, <1>5, <1>6, <1>7, <1>8, <1>9 DEF Next

\* Type correctness: a manager never counts more losses than one beyond the limit.
THEOREM CaptainTypes == Spec => []TypeOK
<1>1. Init => TypeOK /\ LockInv
  BY CaptainAssumption
     DEF Init, TypeOK, LockInv, Typed, Counted, SameManagers, NewLock, Holders, Managers, Full, Locks,
         Days, GuardStates, BeforeOpening, NoTrade, Never
<1>2. TypeOK /\ LockInv /\ [Next]_vars => TypeOK' /\ LockInv'
  BY TypeStep, CycleLocks, OtherLocks DEF Next
<1> QED BY <1>1, <1>2, PTL DEF Spec

-----------------------------------------------------------------------------
(* The desk. *)

\* No more cycles have gone by than there were candles for them.
Waiting ==
  /\ candle \in Candles \cup {BeforeOpening}
  /\ waited \in 0..candle + 1

-----------------------------------------------------------------------------
(* The desk implements Captain. *)

\* A heavy cycle of the desk is one of the Captain.
LEMMA HeavyIsHeavy ==
  ASSUME candle \in Int, candle >= BeforeOpening,
         NEW at \in (candle + 1)..MaxCandle, NEW m \in Modes, NEW call \in Calls,
         DeskHeavy(m, at, call)
  PROVE  Next
<1>1. at \in Candles
  BY CaptainAssumption DEF Candles, BeforeOpening
<1>2. PICK others, wants \in BOOLEAN : HeavyCycle(m, at, others, wants)
  <2>1. (Verdicts[call] = {}) \in BOOLEAN /\ (decision'.kind = "TRADE") \in BOOLEAN
    OBVIOUS
  <2> QED BY <2>1 DEF DeskHeavy
<1> QED BY <1>1, <1>2 DEF Next

\* The invariant holds, and every step is one of the Captain or none of his.
LEMMA DeskStep ==
  ASSUME Waiting, [DeskNext]_allVars
  PROVE  Waiting' /\ [Next]_vars
<1> USE CaptainAssumption DEF Waiting, Candles, BeforeOpening
<1>1. CASE \E at \in (candle + 1)..MaxCandle, m \in Modes, call \in Calls : DeskHeavy(m, at, call)
  <2>1. PICK at \in (candle + 1)..MaxCandle, m \in Modes, call \in Calls : DeskHeavy(m, at, call)
    BY <1>1
  <2>2. candle' = at
    BY <2>1 DEF DeskHeavy, HeavyCycle
  <2>3. waited' \in {0, waited + 1, waited}
    BY <2>1 DEF DeskHeavy
  <2>4. Next
    BY <2>1, HeavyIsHeavy
  <2> QED BY <2>2, <2>3, <2>4
<1>2. CASE DeskStartSession
  BY <1>2 DEF DeskStartSession, StartSession, Next
<1>3. CASE \E n \in Cooldowns : DeskTradeComplete(n)
  BY <1>3 DEF DeskTradeComplete, TradeComplete, Next
<1>4. CASE DeskOther
  BY <1>4 DEF DeskOther, deskVars, Next, SetMode, RecordLoss, Operator, RequireOverride, GrantOverride,
              DenyOverride, Guards, NextDay
<1>5. CASE UNCHANGED vars /\ waited' = waited
  BY <1>5 DEF vars
<1>6. CASE \E call \in Calls, original \in {"BULLISH", "BEARISH"}, zone \in Zones : ReviewThesis(call, original, zone)
  BY <1>5, <1>6 DEF ReviewThesis
<1>7. CASE \E signs \in Signs : DeskLight(signs)
  BY <1>5, <1>7 DEF DeskLight
<1>8. CASE UNCHANGED allVars
  BY <1>5, <1>8 DEF allVars, deskVars
<1> QED BY <1>1, <1>2, <1>3, <1>4, <1>6, <1>7, <1>8 DEF DeskNext

LEMMA DeskStarts == DeskInit => Waiting /\ Init
BY CaptainAssumption DEF DeskInit, Init, Waiting, Candles, BeforeOpening

\* The heavy cycle with its scores, and everything else the desk does, is the Captain's
\* control: whatever the scores are, his rules hold (heavy_cycle in captain_engine.py).
THEOREM DeskIsCaptain == DeskSpec => Spec
<1>1. Waiting /\ [DeskNext]_allVars => Waiting' /\ [Next]_vars
  BY DeskStep
<1> QED BY <1>1, DeskStarts, PTL DEF DeskSpec, Spec

-----------------------------------------------------------------------------
(* The conviction is a score. *)

Regimes == Trends \cup WeakTrends \cup {"RANGE"} \cup NoRegime

LEMMA RegimeIsOne == ASSUME NEW view PROVE Regime(view) \in Regimes
<1>1. RegimeOfReports(view.reports) \in Regimes
  BY DEF RegimeOfReports, Regimes, Trends, WeakTrends, NoRegime, Trend, WeakTrend
<1> QED BY <1>1 DEF Regime, Regimes, Trends, WeakTrends, NoRegime, Trend, WeakTrend

LEMMA ClampBounds ==
  ASSUME NEW x \in Int, NEW top \in Nat
  PROVE  Clamp(x, top) \in Nat /\ Clamp(x, top) <= top
BY DEF Clamp

\* The opposite case is none, as a direction to trade in is no bias.
LEMMA NoOpposite == ASSUME NEW call \in Calls PROVE Opposites[call] = NoCase
<1>1. Directions[call] \notin {"BULLISH", "BEARISH"}
  BY DeskAssumption DEF Directions, Direction
<1> QED BY <1>1 DEF Opposites, OppositeCase

LEMMA AggressionIsInt == ASSUME NEW moment PROVE Aggression[Phase(moment)] \in Int
BY DEF Aggression, Phase

LEMMA Quotient ==
  ASSUME NEW x \in Nat, NEW y \in Nat, y > 0
  PROVE  x \div y \in Nat /\ (x \div y) * y <= x
OBVIOUS

\* The votes of a call, and what their poll makes of them: the side named has the
\* most of them, and the quality is its share.
LEMMA PollIsFair ==
  ASSUME NEW up \in Nat, NEW down \in Nat, NEW calm \in Nat, NEW reports
  PROVE  LET poll == Poll(reports, up, down, calm)
             total == up + down + calm
         IN /\ poll.quality \in Nat
            /\ poll.dominant = "BULLISH" => poll.quality * total <= 1000 * up
            /\ poll.dominant = "BEARISH" => poll.quality * total <= 1000 * down
<1> DEFINE poll == Poll(reports, up, down, calm)
           total == up + down + calm
           most == Max({up, down, calm})
<1>1. most \in {up, down, calm} /\ most >= up /\ most >= down /\ most >= calm
  <2>1. \E x \in {up, down, calm} : \A y \in {up, down, calm} : x >= y
    OBVIOUS
  <2> QED BY <2>1 DEF Max
<1>2. poll.dominant = Dominant(up, down, calm)
      /\ poll.quality = IF total = 0 THEN 0 ELSE (1000 * most) \div total
  BY DEF Poll, Weighed
<1>3. poll.dominant = "BULLISH" => most = up
  BY <1>1, <1>2 DEF Dominant
<1>4. poll.dominant = "BEARISH" => most = down
  BY <1>1, <1>2 DEF Dominant
<1> HIDE DEF most, poll
<1>5. most \in Nat /\ total \in Nat
  BY <1>1
<1> HIDE DEF total
<1>6. poll.quality \in Nat /\ poll.quality * total <= 1000 * most
  <2>1. CASE total = 0
    BY <1>2, <1>5, <2>1
  <2>2. CASE total # 0
    <3>1. 1000 * most \in Nat /\ total > 0
      BY <1>5, <2>2
    <3> QED BY <1>2, <1>5, <2>2, <3>1, Quotient
  <2> QED BY <2>1, <2>2
<1> QED BY <1>3, <1>4, <1>6 DEF poll, total

LEMMA VotesAreNat ==
  ASSUME NEW call \in Calls
  PROVE  /\ Votes(call.view.reports, "BULLISH") \in Nat
         /\ Votes(call.view.reports, "BEARISH") \in Nat
         /\ Votes(call.view.reports, "NEUTRAL") \in Nat
BY CallsAssumption DEF CallsAssumption

LEMMA QualityIsInt == ASSUME NEW call \in Calls PROVE Confluences[call].quality \in Int
<1>1. Confluences[call]
        = Poll(call.view.reports, Votes(call.view.reports, "BULLISH"), Votes(call.view.reports, "BEARISH"),
               Votes(call.view.reports, "NEUTRAL"))
  BY DEF Confluences, Confluence
<1> QED BY <1>1, VotesAreNat, PollIsFair

LEMMA CautionIsInt ==
  ASSUME NEW call \in Calls, PsychologyOf(call.view.reports) # None
  PROVE  PsychologyOf(call.view.reports).caution \in Int
BY CallsAssumption DEF CallsAssumption

LEMMA PriceIsNat == ASSUME NEW call \in Calls PROVE call.price \in Nat /\ call.price >= 1000
BY CallsAssumption DEF CallsAssumption

\* What the heads, the regime and the session come to is a score from 0 to 1000.
LEMMA RawConviction ==
  ASSUME NEW call \in Calls
  PROVE  RawScores[call].conviction \in Nat /\ RawScores[call].conviction <= 1000
<1> DEFINE quality == Confluences[call].quality
           psych == PsychologyOf(call.view.reports)
           regime == Stories[call].regime
           wary == IF psych = None THEN 0
                   ELSE When(psych.caution > 5, 75 * psych.caution) + When(psych.cooldown, 750)
                        + When(psych.trap, 450)
           sum == 6 * quality - 0 + When(regime \in Trends, 2500) + When(regime \in WeakTrends, 1500)
                  + When(regime = "RANGE", 750) - wary + Aggression[Phase(call.moment)]
<1>1. quality \in Int
  BY QualityIsInt
<1>2. wary \in Int
  BY CautionIsInt DEF When
<1>3. When(regime \in Trends, 2500) \in Int /\ When(regime \in WeakTrends, 1500) \in Int
      /\ When(regime = "RANGE", 750) \in Int
  BY DEF When
<1>4. sum \in Int
  <2>1. Aggression[Phase(call.moment)] \in Int
    BY AggressionIsInt
  <2> HIDE DEF wary, quality
  <2> QED BY <1>1, <1>2, <1>3, <2>1
<1>5. ConvictionScore(Confluences[call], NoCase, regime, psych, Phase(call.moment)) = Clamp(sum, 10000)
  BY DEF ConvictionScore, NoCase, When
<1>6. RawScores[call].conviction = Tenths(Clamp(sum, 10000))
  BY <1>5, NoOpposite DEF RawScores
<1> HIDE DEF sum
<1>7. Clamp(sum, 10000) \in Nat /\ Clamp(sum, 10000) <= 10000
  BY <1>4, ClampBounds
<1> QED BY <1>6, <1>7 DEF Tenths

\* The penalties only lower it.
LEMMA Conviction ==
  ASSUME NEW call \in Calls
  PROVE  Scores[call].conviction \in 0..RawScores[call].conviction
<1> DEFINE raw == RawScores[call].conviction
           stale == CoreStale(call.view.reports)
           presence == SetupPresence(call.view.summary)
           price == IF ~stale THEN 0 ELSE IF raw >= 600 THEN 150 ELSE 50
           once == Clamp(raw - price, 1000)
           twice == Clamp(once - When(presence = "STALE_NO_SETUP", 50), 1000)
<1>1. raw \in Nat /\ raw <= 1000
  BY RawConviction
<1>2. price \in 0..150
  OBVIOUS
<1>3. Scores[call].conviction = twice
  BY DEF Scores, Penalised
<1> HIDE DEF raw, price
<1>4. once \in 0..raw
  BY <1>1, <1>2 DEF Clamp
<1> HIDE DEF once
<1>5. twice \in 0..raw
  BY <1>1, <1>4 DEF Clamp, When
<1> QED BY <1>3, <1>5 DEF raw

-----------------------------------------------------------------------------
(* The class of a trade is one. *)

LEMMA FitIsNat ==
  ASSUME NEW regime \in Regimes
  PROVE  Fit(regime) \in [Classes -> Nat]
BY DEF Regimes, Trends, WeakTrends, NoRegime, Fit, FitOf, Classes

\* Of some classes one fits a regime best.
LEMMA OneFitsBest ==
  ASSUME NEW fit \in [Classes -> Nat], NEW open \in SUBSET Classes, open # {}
  PROVE  \E c \in open : \A d \in open : fit[d] <= fit[c]
<1>1. fit["SCALP"] \in Nat /\ fit["CONTINUATION"] \in Nat /\ fit["REVERSAL"] \in Nat
      /\ fit["LIQUIDITY_RECLAIM"] \in Nat /\ fit["OPTIONS_PRESSURE"] \in Nat
  BY DEF Classes
<1>2. PICK c \in Classes : c \in open
  OBVIOUS
<1> QED BY <1>1, <1>2 DEF Classes

LEMMA SuggestedIsOne ==
  ASSUME NEW quality, NEW regime \in Regimes, NEW phase
  PROVE  SuggestedClass(quality, regime, phase) \in Classes \cup {None}
BY DEF SuggestedClass, RegimeClass, Classes, Regimes, Trends, WeakTrends, NoRegime

\* A band that trades is enough for a scalp, and so for some class.
LEMMA AssignedIsOne ==
  ASSUME NEW suggested \in Classes \cup {None}, NEW regime \in Regimes, NEW band
  PROVE  /\ AssignedClass(suggested, regime, band) \in Classes \cup {None}
         /\ band \in Tradable => AssignedClass(suggested, regime, band) \in Classes
<1> DEFINE fit == Fit(regime)
           open == {c \in Classes : BandValue[band] >= BandValue[LeastBand[c]]}
           best == CHOOSE c \in open : \A d \in open : fit[d] <= fit[c]
           said == IF suggested \in open THEN fit[suggested] ELSE 0
<1>1. AssignedClass(suggested, regime, band)
        = IF open = {} THEN None ELSE IF suggested = None \/ 10 * fit[best] > 12 * said THEN best ELSE suggested
  BY DEF AssignedClass
<1>2. fit \in [Classes -> Nat]
  BY FitIsNat
<1>3. open \in SUBSET Classes
  OBVIOUS
<1>4. band \in Tradable => "SCALP" \in open
  BY DEF Tradable, BandValue, LeastBand, Classes
<1> HIDE DEF fit, open
<1>5. open # {} => best \in open
  BY <1>2, <1>3, OneFitsBest
<1> HIDE DEF best, said
<1> QED BY <1>1, <1>3, <1>4, <1>5

LEMMA ClassIsOne ==
  ASSUME NEW call \in Calls
  PROVE  /\ TradeClasses[call] \in Classes \cup {None}
         /\ Directions[call] # None /\ RawScores[call].conviction >= 600 => TradeClasses[call] \in Classes
<1> DEFINE regime == Stories[call].regime
           band == Band(RawScores[call].conviction)
           suggested == SuggestedClass(Confluences[call].quality, regime, Phase(call.moment))
<1>1. TradeClasses[call] = IF Directions[call] = None THEN None ELSE AssignedClass(suggested, regime, band)
  BY DEF TradeClasses, ClassOf
<1>2. regime \in Regimes
  BY RegimeIsOne DEF Stories
<1>3. suggested \in Classes \cup {None}
  BY <1>2, SuggestedIsOne
<1>4. RawScores[call].conviction >= 600 => band \in Tradable
  BY RawConviction DEF Band, Tradable
<1> HIDE DEF regime, band, suggested
<1> QED BY <1>1, <1>2, <1>3, <1>4, AssignedIsOne

-----------------------------------------------------------------------------
(* A trade is decided while the conviction is fresh. *)

LEMMA ProductGrows ==
  ASSUME NEW x \in Nat, NEW y \in Nat, NEW f \in Nat, x <= y
  PROVE  x * f <= y * f
<1>1. (y - x) * f >= 0
  OBVIOUS
<1>2. (y - x) * f = y * f - x * f
  OBVIOUS
<1> QED BY <1>1, <1>2

\* After the decay enough is left for a trade only if less than two fifths have gone.
LEMMA DecayLeaves ==
  ASSUME NEW score \in Nat, score <= 1000, NEW class \in Classes \cup {None}, NEW elapsed \in Nat,
         Decayed(score, class, elapsed) >= 600
  PROVE  score >= 600 /\ elapsed * RateOf(class) <= 40
<1> DEFINE rate == RateOf(class)
           lost == rate * elapsed
           factor == DecayFactor(class, elapsed)
<1>1. rate \in {5, 10, 15, 30}
  BY DEF Classes, DecayRate, RateOf
<1>2. lost \in Nat /\ elapsed * rate = lost
  BY <1>1
<1>3. factor = IF 100 - lost < 10 THEN 10 ELSE 100 - lost
  BY <1>1 DEF DecayFactor
<1>4. CASE elapsed = 0
  BY <1>1, <1>4 DEF Decayed
<1>5. CASE elapsed # 0
  <2>1. (score * factor + 50) \div 100 >= 600
    BY <1>5 DEF Decayed
  <2> HIDE DEF rate, lost, factor
  <2>2. factor \in Nat /\ factor <= 100
    BY <1>2, <1>3
  <2>3. score * factor \in Nat
    BY <2>2
  <2>4. score * factor >= 59950
    BY <2>1, <2>3
  <2>5. score * factor <= 1000 * factor
    BY <2>2, ProductGrows
  <2>6. factor * score <= 100 * score
    BY <2>2, ProductGrows
  <2>7. score >= 600
    BY <2>2, <2>4, <2>6
  <2>8. factor >= 60
    BY <2>2, <2>4, <2>5
  <2> QED BY <1>2, <1>3, <2>7, <2>8 DEF rate
<1> QED BY <1>4, <1>5

LEMMA DecayedIsInt ==
  ASSUME NEW score \in Nat, NEW class \in Classes \cup {None}, NEW elapsed \in Nat
  PROVE  Decayed(score, class, elapsed) \in Int
<1>1. RateOf(class) \in {5, 10, 15, 30}
  BY DEF Classes, DecayRate, RateOf
<1>2. RateOf(class) * elapsed \in Int
  BY <1>1
<1>3. DecayFactor(class, elapsed) \in Int
  BY <1>2 DEF DecayFactor
<1>4. score * DecayFactor(class, elapsed) \in Int
  BY <1>3
<1> QED BY <1>4 DEF Decayed

\* What a heavy cycle that decides a trade decided, and on what.
LEMMA DecidedTrade ==
  ASSUME Waiting, NEW at \in (candle + 1)..MaxCandle, NEW m \in Modes, NEW call \in Calls,
         DeskHeavy(m, at, call), decision'.kind = "TRADE"
  PROVE  /\ Directions[call] # None
         /\ Remaining(call, waited) >= 600
         /\ decision'.plan = Construct(call, Remaining(call, waited))
<1> DEFINE left == Remaining(call, waited)
           plan == Construct(call, left)
           mood == CallMood(call)
<1>1. Passes(m, call)
  BY DEF DeskHeavy, NotTrading
<1>2. decision' = Decisions[call][waited][Cooler = 0]
  BY <1>1 DEF DeskHeavy
<1>3. waited \in 0..MaxCandle + 1
  BY CaptainAssumption DEF Waiting, Candles, BeforeOpening
<1>4. Decisions[call][waited][Cooler = 0] = Decision(call, waited, Cooler = 0)
  <2>1. Decisions[call] = [elapsed \in 0..MaxCandle + 1 |-> [cool \in BOOLEAN |-> Decision(call, elapsed, cool)]]
    BY DEF Decisions
  <2>2. Decisions[call][waited] = [cool \in BOOLEAN |-> Decision(call, waited, cool)]
    BY <1>3, <2>1
  <2>3. (Cooler = 0) \in BOOLEAN
    OBVIOUS
  <2> QED BY <2>2, <2>3, Zenon
<1>5. decision' = Settled(call, left, mood, plan, Cooler = 0)
  BY <1>2, <1>4 DEF Decision
<1> HIDE DEF left, plan, mood
<1>6. /\ Directions[call] # None /\ ShouldTrade(left, Scores[call].noTrade)
      /\ decision'.plan = plan
  BY <1>5 DEF Settled, NotTrading
<1>7. Band(left) \in Tradable
  BY <1>6 DEF ShouldTrade
<1>8. left \in Int
  <2>1. Scores[call].conviction \in Nat
    BY Conviction, RawConviction
  <2> QED BY <1>3, <2>1, ClassIsOne, DecayedIsInt, CaptainAssumption DEF left, Remaining
<1>9. left >= 600
  BY <1>7, <1>8 DEF Band, Tradable
<1> QED BY <1>6, <1>9 DEF left, plan

\* Only a heavy cycle decides a trade, and it has a class of its own.
LEMMA TradesAreFresh ==
  ASSUME Waiting, NEW at \in (candle + 1)..MaxCandle, NEW m \in Modes, NEW call \in Calls,
         DeskHeavy(m, at, call), decision'.kind = "TRADE"
  PROVE  /\ trade' = decision'.plan /\ trade'.class = TradeClasses[call] /\ trade'.class \in Classes
         /\ waited * DecayRate[trade'.class] <= 40
<1>1. /\ Directions[call] # None
      /\ Decayed(Scores[call].conviction, TradeClasses[call], waited) >= 600
      /\ decision'.plan = Construct(call, Remaining(call, waited))
  BY DecidedTrade DEF Remaining
<1>2. trade' = decision'.plan
  BY DEF DeskHeavy
<1>3. trade'.class = TradeClasses[call]
  BY <1>1, <1>2 DEF Construct, TradePlan
<1>4. waited \in Nat
  BY DEF Waiting, Candles, BeforeOpening
<1>5. Scores[call].conviction \in Nat /\ Scores[call].conviction <= RawScores[call].conviction
      /\ RawScores[call].conviction <= 1000
  BY Conviction, RawConviction
<1>6. TradeClasses[call] \in Classes \cup {None}
  BY ClassIsOne
<1>7. Scores[call].conviction >= 600 /\ waited * RateOf(TradeClasses[call]) <= 40
  BY <1>1, <1>4, <1>5, <1>6, RawConviction, DecayLeaves
<1>8. TradeClasses[call] \in Classes
  BY <1>1, <1>5, <1>7, RawConviction, ClassIsOne
<1>9. RateOf(TradeClasses[call]) = DecayRate[TradeClasses[call]]
  BY <1>8, DeskAssumption DEF RateOf
<1> QED BY <1>2, <1>3, <1>7, <1>8, <1>9

\* A trade that was not on is one that a heavy cycle of this step decided.
LEMMA OnlyHeavyDecides ==
  ASSUME Waiting, DeskNext, Decides
  PROVE  \E at \in (candle + 1)..MaxCandle, m \in Modes, call \in Calls :
           DeskHeavy(m, at, call) /\ decision'.kind = "TRADE"
<1>1. active = NoTrade /\ active' # NoTrade
  BY DEF Decides
<1>2. CASE \E at \in (candle + 1)..MaxCandle, m \in Modes, call \in Calls : DeskHeavy(m, at, call)
  <2>1. PICK at \in (candle + 1)..MaxCandle, m \in Modes, call \in Calls : DeskHeavy(m, at, call)
    BY <1>2
  <2>2. HeavyCycle(m, at, Verdicts[call] = {}, decision'.kind = "TRADE")
    BY <2>1 DEF DeskHeavy
  <2>3. decision'.kind = "TRADE"
    BY <1>1, <2>2 DEF HeavyCycle
  <2> QED BY <2>1, <2>3
<1>3. CASE DeskStartSession
  BY <1>1, <1>3 DEF DeskStartSession, StartSession
<1>4. CASE \E n \in Cooldowns : DeskTradeComplete(n)
  BY <1>1, <1>4 DEF DeskTradeComplete, TradeComplete
<1>5. CASE DeskOther
  BY <1>1, <1>5 DEF DeskOther, SetMode, RecordLoss, Operator, RequireOverride, GrantOverride,
                    DenyOverride, Guards, NextDay
<1>6. CASE \E call \in Calls, original \in {"BULLISH", "BEARISH"}, zone \in Zones : ReviewThesis(call, original, zone)
  BY <1>1, <1>6 DEF ReviewThesis, vars
<1>7. CASE \E signs \in Signs : DeskLight(signs)
  BY <1>1, <1>7 DEF DeskLight, vars
<1> QED BY <1>2, <1>3, <1>4, <1>5, <1>6, <1>7 DEF DeskNext

\* No trade is decided once two fifths of the conviction would be gone
\* (step 19 of heavy_cycle, apply_decay of confidence_decay_engine.py).
THEOREM FreshOnly == DeskSpec => OnlyWhileFresh
<1>1. Waiting /\ [DeskNext]_allVars => [Decides => waited * DecayRate[trade'.class] <= 40]_allVars
  BY OnlyHeavyDecides, TradesAreFresh
<1>2. Waiting /\ [DeskNext]_allVars => Waiting'
  BY DeskStep
<1> QED BY <1>1, <1>2, DeskStarts, PTL DEF DeskSpec, OnlyWhileFresh

-----------------------------------------------------------------------------
(* A trade is backed. *)

\* What trend and session can add leaves most of a conviction to the confluence.
LEMMA ConvictionNeedsQuality ==
  ASSUME NEW call \in Calls
  PROVE  /\ RawScores[call].conviction >= 600 => 1000 < 2 * Confluences[call].quality
         /\ RawScores[call].conviction >= 750 => 4000 < 5 * Confluences[call].quality
<1> DEFINE quality == Confluences[call].quality
           psych == PsychologyOf(call.view.reports)
           regime == Stories[call].regime
           session == Aggression[Phase(call.moment)]
           trend == When(regime \in Trends, 2500) + When(regime \in WeakTrends, 1500) + When(regime = "RANGE", 750)
           wary == IF psych = None THEN 0
                   ELSE When(psych.caution > 5, 75 * psych.caution) + When(psych.cooldown, 750)
                        + When(psych.trap, 450)
           sum == 6 * quality + trend - wary + session
<1>1. quality \in Int
  BY QualityIsInt
<1>2. wary \in Nat
  <2>1. psych # None => psych.caution \in Nat
    BY CallsAssumption DEF CallsAssumption
  <2> HIDE DEF psych
  <2> QED BY <2>1 DEF When
<1>3. trend \in Nat /\ trend <= 2500
  BY RegimeIsOne DEF Stories, When, Trends, WeakTrends
<1>4. session \in Int /\ session <= 150
  BY DEF Aggression, Phase
<1>5. ConvictionScore(Confluences[call], NoCase, regime, psych, Phase(call.moment))
        = Clamp(6 * quality - 0 + When(regime \in Trends, 2500) + When(regime \in WeakTrends, 1500)
                + When(regime = "RANGE", 750) - wary + session, 10000)
  BY DEF ConvictionScore, NoCase, When
<1>6. When(regime \in Trends, 2500) \in Int /\ When(regime \in WeakTrends, 1500) \in Int
      /\ When(regime = "RANGE", 750) \in Int
  BY DEF When
<1>7. ConvictionScore(Confluences[call], NoCase, regime, psych, Phase(call.moment)) = Clamp(sum, 10000)
  <2> HIDE DEF quality, wary, session, regime
  <2>1. 6 * quality - 0 + When(regime \in Trends, 2500) + When(regime \in WeakTrends, 1500)
          + When(regime = "RANGE", 750) - wary + session = sum
    BY <1>1, <1>2, <1>4, <1>6
  <2> QED BY <1>5, <2>1
<1>8. RawScores[call].conviction = Tenths(Clamp(sum, 10000))
  BY <1>7, NoOpposite DEF RawScores
<1> HIDE DEF quality, wary, session, trend
<1>9. sum \in Int /\ sum <= 6 * quality + 2650
  BY <1>1, <1>2, <1>3, <1>4
<1> HIDE DEF sum
<1>10. Tenths(Clamp(sum, 10000)) >= 600 => sum >= 5995
  BY <1>9 DEF Tenths, Clamp
<1>11. Tenths(Clamp(sum, 10000)) >= 750 => sum >= 7495
  BY <1>9 DEF Tenths, Clamp
<1> QED BY <1>1, <1>8, <1>9, <1>10, <1>11 DEF quality

\* A share above a half is more than the rest, one above four fifths four times as much.
LEMMA ShareOutweighs ==
  ASSUME NEW quality \in Nat, NEW total \in Nat, NEW part \in Nat, part <= total,
         quality * total <= 1000 * part
  PROVE  /\ 1000 < 2 * quality /\ total > 0 => part > total - part
         /\ 4000 < 5 * quality /\ total > 0 => part > 4 * (total - part)
<1>1. ASSUME NEW a \in Nat, NEW b \in Nat, a < b, total > 0 PROVE a * total < b * total
  <2>1. (b - a) * total > 0
    BY <1>1
  <2>2. (b - a) * total = b * total - a * total
    OBVIOUS
  <2> QED BY <2>1, <2>2
<1>2. (2 * quality) * total = 2 * (quality * total) /\ (5 * quality) * total = 5 * (quality * total)
      /\ quality * total \in Nat
  OBVIOUS
<1>3. 1000 < 2 * quality /\ total > 0 => 1000 * total < 2 * (quality * total)
  BY <1>1, <1>2
<1>4. 4000 < 5 * quality /\ total > 0 => 4000 * total < 5 * (quality * total)
  BY <1>1, <1>2
<1> QED BY <1>2, <1>3, <1>4

\* With a quality of more than nothing there are votes.
LEMMA QualityNeedsVotes ==
  ASSUME NEW up \in Nat, NEW down \in Nat, NEW calm \in Nat, NEW reports,
         Poll(reports, up, down, calm).quality > 0
  PROVE  up + down + calm > 0
BY DEF Poll, Weighed

\* The penalty of a stale core head is above that bar.
LEMMA StaleCosts ==
  ASSUME NEW call \in Calls, Scores[call].conviction >= 600
  PROVE  CoreStale(call.view.reports) => RawScores[call].conviction >= 750
<1> DEFINE raw == RawScores[call].conviction
           presence == SetupPresence(call.view.summary)
           price == IF raw >= 600 THEN 150 ELSE 50
<1>1. raw \in Nat /\ raw <= 1000
  BY RawConviction
<1>2. CoreStale(call.view.reports) =>
        Scores[call].conviction
          = Clamp(Clamp(raw - price, 1000) - When(presence = "STALE_NO_SETUP", 50), 1000)
  BY DEF Scores, Penalised
<1> HIDE DEF raw
<1>3. Clamp(Clamp(raw - price, 1000) - When(presence = "STALE_NO_SETUP", 50), 1000) >= 600 => raw >= 750
  BY <1>1 DEF Clamp, When
<1> QED BY <1>2, <1>3 DEF raw

LEMMA DecidedIsBacked ==
  ASSUME Waiting, NEW at \in (candle + 1)..MaxCandle, NEW m \in Modes, NEW call \in Calls,
         DeskHeavy(m, at, call), decision'.kind = "TRADE"
  PROVE  LET reports == read'.view.reports
         IN Backing(trade', reports) > (IF CoreStale(reports) THEN 4 ELSE 1) * Rest(trade', reports)
<1> DEFINE reports == call.view.reports
           up == Votes(reports, "BULLISH")
           down == Votes(reports, "BEARISH")
           calm == Votes(reports, "NEUTRAL")
           total == up + down + calm
           poll == Poll(reports, up, down, calm)
           part == Backing(trade', reports)
<1>1. read' = call
  BY DEF DeskHeavy, NotTrading
<1>2. /\ Directions[call] # None
      /\ Decayed(Scores[call].conviction, TradeClasses[call], waited) >= 600
      /\ trade' = Construct(call, Remaining(call, waited))
  BY DecidedTrade, TradesAreFresh DEF Remaining
<1>3. Confluences[call] = poll
  BY DEF Confluences, Confluence
<1>4. Scores[call].conviction >= 600
  <2>1. waited \in Nat
    BY DEF Waiting, Candles, BeforeOpening
  <2>2. Scores[call].conviction \in Nat /\ Scores[call].conviction <= 1000
    BY Conviction, RawConviction
  <2>3. TradeClasses[call] \in Classes \cup {None}
    BY ClassIsOne
  <2> QED BY <1>2, <2>1, <2>2, <2>3, DecayLeaves
<1>5. /\ 1000 < 2 * poll.quality
      /\ CoreStale(reports) => 4000 < 5 * poll.quality
  <2>1. RawScores[call].conviction >= 600
    BY <1>4, Conviction, RawConviction
  <2> QED BY <1>3, <1>4, <2>1, StaleCosts, ConvictionNeedsQuality
<1>6. up \in Nat /\ down \in Nat /\ calm \in Nat
  BY VotesAreNat
<1>7. \/ poll.dominant = "BULLISH" /\ trade'.direction = "BUY"
      \/ poll.dominant = "BEARISH" /\ trade'.direction = "SELL"
  <2>1. trade'.direction = Directions[call]
    BY <1>2 DEF Construct, TradePlan
  <2>2. Directions[call] = Direction(poll)
    BY <1>3 DEF Directions
  <2> HIDE DEF poll
  <2> QED BY <1>2, <2>1, <2>2 DEF Direction
<1>8. part \in Nat /\ part <= total /\ poll.quality * total <= 1000 * part
  <2>1. CASE poll.dominant = "BULLISH" /\ trade'.direction = "BUY"
    <3>1. part = up
      BY <2>1 DEF Backing
    <3> QED BY <1>6, <2>1, <3>1, PollIsFair
  <2>2. CASE poll.dominant = "BEARISH" /\ trade'.direction = "SELL"
    <3>1. part = down
      BY <2>2 DEF Backing
    <3> QED BY <1>6, <2>2, <3>1, PollIsFair
  <2> QED BY <1>7, <2>1, <2>2
<1>9. poll.quality \in Nat
  BY <1>6, PollIsFair
<1>10. total > 0 /\ total \in Nat
  BY <1>5, <1>6, <1>9, QualityNeedsVotes
<1>11. Rest(trade', reports) = total - part
  BY <1>6, <1>8 DEF Rest
<1> HIDE DEF part, total, poll
<1>12. part > total - part /\ (CoreStale(reports) => part > 4 * (total - part))
  BY <1>5, <1>8, <1>9, <1>10, ShareOutweighs
<1>13. part > (IF CoreStale(reports) THEN 4 ELSE 1) * Rest(trade', reports)
  BY <1>8, <1>10, <1>11, <1>12
<1> QED BY <1>1, <1>13 DEF part

\* No trade is decided that the heads' own votes are not for by more than half, and by
\* four to one when SMC or ICT is stale (steps 9 to 13c of heavy_cycle), for any reports.
THEOREM Majority == DeskSpec => TradeIsBacked
<1>1. Waiting /\ [DeskNext]_allVars =>
        [Decides =>
           LET reports == read'.view.reports
           IN Backing(trade', reports) > (IF CoreStale(reports) THEN 4 ELSE 1) * Rest(trade', reports)]_allVars
  BY OnlyHeavyDecides, DecidedIsBacked
<1>2. Waiting /\ [DeskNext]_allVars => Waiting'
  BY DeskStep
<1> QED BY <1>1, <1>2, DeskStarts, PTL DEF DeskSpec, TradeIsBacked

-----------------------------------------------------------------------------
(* The levels of a trade are in order. *)

\* The distances of the levels from the entry.
LEMMA DistancesInOrder ==
  ASSUME NEW class \in Classes, NEW price \in Nat, price >= 1000, NEW band
  PROVE  /\ Share(price, InvalidationShare(class)) \in Nat /\ Share(price, StopShare(class)) \in Nat
         /\ TargetDistance(class, price, band) \in Nat
         /\ 0 < Share(price, InvalidationShare(class))
         /\ Share(price, InvalidationShare(class)) <= Share(price, StopShare(class))
         /\ 0 < TargetDistance(class, price, band)
<1> DEFINE distance == (price * StopShare(class) * Reward(class)) \div 10000
<1>1. CASE class = "SCALP"
  <2>1. InvalidationShare(class) = 2 /\ StopShare(class) = 3 /\ Reward(class) = 10
    BY <1>1 DEF InvalidationShare, StopShare, Reward
  <2> QED BY <2>1 DEF Share, TargetDistance
<1>2. CASE class = "CONTINUATION"
  <2>1. InvalidationShare(class) = 5 /\ StopShare(class) = 5 /\ Reward(class) = 20
    BY <1>2 DEF InvalidationShare, StopShare, Reward
  <2> QED BY <2>1 DEF Share, TargetDistance
<1>3. CASE class = "REVERSAL"
  <2>1. InvalidationShare(class) = 8 /\ StopShare(class) = 8 /\ Reward(class) = 15
    BY <1>3 DEF InvalidationShare, StopShare, Reward
  <2> QED BY <2>1 DEF Share, TargetDistance
<1>4. CASE class = "LIQUIDITY_RECLAIM"
  <2>1. InvalidationShare(class) = 6 /\ StopShare(class) = 6 /\ Reward(class) = 20
    BY <1>4 DEF InvalidationShare, StopShare, Reward
  <2> QED BY <2>1 DEF Share, TargetDistance
<1>5. CASE class = "OPTIONS_PRESSURE"
  <2>1. InvalidationShare(class) = 5 /\ StopShare(class) = 5 /\ Reward(class) = 15
    BY <1>5 DEF InvalidationShare, StopShare, Reward
  <2> QED BY <2>1 DEF Share, TargetDistance
<1> QED BY <1>1, <1>2, <1>3, <1>4, <1>5 DEF Classes

\* A decided trade's levels are in order.
LEMMA DecidedInOrder ==
  ASSUME Waiting, NEW at \in (candle + 1)..MaxCandle, NEW m \in Modes, NEW call \in Calls,
         DeskHeavy(m, at, call), decision'.kind = "TRADE"
  PROVE  PlanIsSane'
<1> DEFINE left == Remaining(call, waited)
           direction == Directions[call]
           class == TradeClasses[call]
           near == Share(call.price, InvalidationShare(class))
           far == Share(call.price, StopShare(class))
           aim == TargetDistance(class, call.price, Band(left))
<1>1. trade' = Construct(call, left) /\ direction # None
  BY DecidedTrade, TradesAreFresh
<1>2. class \in Classes
  BY TradesAreFresh
<1>3. call.price \in Nat /\ call.price >= 1000
  BY PriceIsNat
<1>4. near \in Nat /\ far \in Nat /\ aim \in Nat /\ 0 < near /\ near <= far /\ 0 < aim
  BY <1>2, <1>3, DistancesInOrder
<1>5. direction \in {"BUY", "SELL"}
  BY <1>1 DEF Directions, Direction
<1> HIDE DEF near, far, aim, direction, class
<1>6. /\ trade'.direction = direction /\ trade'.entry = call.price
      /\ trade'.invalidation = Against(direction, call.price, near)
      /\ trade'.stop = Against(direction, call.price, far)
      /\ trade'.target = Against(direction, call.price, -aim)
  BY <1>1 DEF Construct, TradePlan, near, far, aim, direction, class
<1> QED BY <1>3, <1>4, <1>5, <1>6 DEF PlanIsSane, InOrder, Against

\* A trade is given up at its invalidation before its stop is hit, and its target is
\* on the other side of its entry (construct_trade), whatever the calls.
THEOREM Sane == DeskSpec => []PlanIsSane
<1>1. DeskInit => PlanIsSane
  BY DEF DeskInit, PlanIsSane
<1>2. Waiting /\ PlanIsSane /\ [DeskNext]_allVars => PlanIsSane'
  <2> SUFFICES ASSUME Waiting, PlanIsSane, [DeskNext]_allVars PROVE PlanIsSane'
    OBVIOUS
  <2>1. CASE \E at \in (candle + 1)..MaxCandle, m \in Modes, call \in Calls : DeskHeavy(m, at, call)
    <3>1. PICK at \in (candle + 1)..MaxCandle, m \in Modes, call \in Calls : DeskHeavy(m, at, call)
      BY <2>1
    <3>2. CASE decision'.kind = "TRADE"
      BY <3>1, <3>2, DecidedInOrder
    <3>3. CASE decision'.kind # "TRADE"
      BY <3>1, <3>3 DEF DeskHeavy, PlanIsSane
    <3> QED BY <3>2, <3>3
  <2>2. CASE trade' = None
    BY <2>2 DEF PlanIsSane
  <2>3. CASE trade' = trade
    BY <2>3 DEF PlanIsSane
  <2> QED BY <2>1, <2>2, <2>3 DEF DeskNext, DeskStartSession, DeskTradeComplete, DeskOther, ReviewThesis,
                                  DeskLight, allVars, deskVars
<1>3. Waiting /\ [DeskNext]_allVars => Waiting'
  BY DeskStep
<1> QED BY <1>1, <1>2, <1>3, DeskStarts, PTL DEF DeskSpec

-----------------------------------------------------------------------------
(* What is required is done. *)

\* What a review may hold: a market without a regime supports no trade either.
Reviewed ==
  review # None =>
    /\ review \subseteq {"zone", "story", "macro", "options", "opposite"}
    /\ "macro" \in review => "story" \in review

LEMMA ConcernsAreReviewed ==
  ASSUME NEW plan, NEW story, NEW confluence, NEW original, NEW zone, NEW price
  PROVE  LET concerns == Concerns(plan, story, confluence, original, zone, price)
         IN /\ concerns \subseteq {"zone", "story", "macro", "options", "opposite"}
            /\ "macro" \in concerns => "story" \in concerns
BY DEF Concerns, StorySupports

LEMMA FiniteConcerns ==
  ASSUME NEW concerns, concerns \subseteq {"zone", "story", "macro", "options", "opposite"}
  PROVE  IsFiniteSet(concerns) /\ Cardinality(concerns) \in Nat
<1>1. IsFiniteSet({"zone", "story"})
  <2>1. IsFiniteSet({"zone"})
    BY FS_Singleton
  <2>2. IsFiniteSet({"zone"} \cup {"story"})
    BY <2>1, FS_AddElement
  <2>3. {"zone"} \cup {"story"} = {"zone", "story"}
    OBVIOUS
  <2> QED BY <2>2, <2>3
<1>2. IsFiniteSet({"zone", "story"} \cup {"macro"})
  BY <1>1, FS_AddElement
<1>3. IsFiniteSet(({"zone", "story"} \cup {"macro"}) \cup {"options"})
  BY <1>2, FS_AddElement
<1>4. IsFiniteSet((({"zone", "story"} \cup {"macro"}) \cup {"options"}) \cup {"opposite"})
  BY <1>3, FS_AddElement
<1>5. concerns \in SUBSET ((({"zone", "story"} \cup {"macro"}) \cup {"options"}) \cup {"opposite"})
  OBVIOUS
<1>6. IsFiniteSet(concerns)
  BY <1>4, <1>5, FS_Subset
<1> QED BY <1>6, FS_CardinalityType

LEMMA ThreeConcerns == Cardinality({"zone", "macro"} \cup {"story"}) = 3
<1>1. IsFiniteSet({"zone"}) /\ Cardinality({"zone"}) = 1
  BY FS_Singleton
<1>2. IsFiniteSet({"zone"} \cup {"macro"}) /\ Cardinality({"zone"} \cup {"macro"}) = 2
  BY <1>1, FS_AddElement
<1>3. {"zone"} \cup {"macro"} = {"zone", "macro"}
  OBVIOUS
<1>4. IsFiniteSet({"zone", "macro"}) /\ Cardinality({"zone", "macro"}) = 2
  BY <1>2, <1>3
<1> QED BY <1>4, FS_AddElement

\* Two criticals without a turned confluence are the zone and the regime, and the
\* regime brings the story with it: the three that break a thesis.
LEMMA RequiredIsSevere ==
  ASSUME Reviewed, ShouldIntervene(review), NEW strength
  PROVE  ThesisBreak(review) # Quiet \/ Opposition(review, strength) # Quiet
<1>1. review # None /\ Cardinality(Critical(review)) >= 2
  BY DEF ShouldIntervene, Recommendation
<1>2. review \subseteq {"zone", "story", "macro", "options", "opposite"}
  BY <1>1 DEF Reviewed
<1>3. CASE "opposite" \in review
  BY <1>1, <1>3 DEF Opposition, Quiet, Caution, Emergency
<1>4. CASE "opposite" \notin review
  <2>1. ASSUME NEW c, Critical(review) \subseteq {c} PROVE FALSE
    <3>1. IsFiniteSet({c}) /\ Cardinality({c}) = 1
      BY FS_Singleton
    <3>2. Cardinality(Critical(review)) <= 1 /\ Cardinality(Critical(review)) \in Nat
      BY <2>1, <3>1, FS_Subset, FS_CardinalityType
    <3> QED BY <1>1, <3>2
  <2>2. "zone" \in review /\ "macro" \in review
    <3>1. Critical(review) \subseteq {"zone", "macro"}
      BY <1>4 DEF Critical
    <3>2. ~(Critical(review) \subseteq {"zone"}) /\ ~(Critical(review) \subseteq {"macro"})
      BY <2>1
    <3> QED BY <3>1, <3>2 DEF Critical
  <2>3. "story" \in review
    BY <1>1, <2>2 DEF Reviewed
  <2>4. Cardinality(review) >= 3
    <3>1. IsFiniteSet(review) /\ Cardinality(review) \in Nat
      BY <1>2, FiniteConcerns
    <3>2. ({"zone", "macro"} \cup {"story"}) \in SUBSET review
      BY <2>2, <2>3
    <3>3. Cardinality({"zone", "macro"} \cup {"story"}) <= Cardinality(review)
      BY <3>1, <3>2, FS_Subset
    <3> QED BY <3>1, <3>3, ThreeConcerns
  <2>5. Cardinality(Critical(review)) \in Nat
    BY FiniteConcerns DEF Critical
  <2>6. Cardinality(review) \in Nat
    BY <1>2, FiniteConcerns
  <2>7. ~(Cardinality(Critical(review)) < 2 \/ Cardinality(review) < 3)
    BY <1>1, <2>4, <2>5, <2>6
  <2> QED BY <1>1, <2>7 DEF ThesisBreak, Quiet, Caution, Emergency
<1> QED BY <1>3, <1>4

\* One trigger that is not quiet is an intervention.
LEMMA SevereIsDone ==
  ASSUME NEW concerns, NEW class, NEW signs,
         ThesisBreak(concerns) # Quiet \/ Opposition(concerns, signs.opposition) # Quiet
  PROVE  Intervention(concerns, class, signs).intervene
<1> DEFINE found == <<[trigger |-> "thesis_break", severity |-> ThesisBreak(concerns)],
                      [trigger |-> "regime_flip", severity |-> RegimeFlip(signs.regime)],
                      [trigger |-> "strong_opposite_confluence", severity |-> Opposition(concerns, signs.opposition)],
                      [trigger |-> "options_collapse", severity |-> OptionsCollapse(class, signs.healthy)],
                      [trigger |-> "risk_emergency", severity |-> RiskEmergency(signs.critical, signs.event)]>>
           scenarios == {i \in DOMAIN found : found[i].severity # Quiet}
<1>1. scenarios # {}
  <2>1. {1, 3} \subseteq DOMAIN found
    OBVIOUS
  <2>2. found[1].severity = ThesisBreak(concerns) /\ found[3].severity = Opposition(concerns, signs.opposition)
    OBVIOUS
  <2> HIDE DEF found
  <2> QED BY <2>1, <2>2
<1>2. \E trigger, severity, action :
        Intervention(concerns, class, signs)
          = IF scenarios = {} THEN NoIntervention
            ELSE [intervene |-> TRUE, trigger |-> trigger, severity |-> severity, action |-> action]
  BY DEF Intervention
<1> HIDE DEF scenarios
<1>3. PICK trigger, severity, action :
        Intervention(concerns, class, signs)
          = [intervene |-> TRUE, trigger |-> trigger, severity |-> severity, action |-> action]
  BY <1>1, <1>2
<1> QED BY <1>3

\* What review_thesis requires evaluate_intervention does, whatever the market, the
\* story and the operator's signs are.
THEOREM RequiredIsDone == DeskSpec => []WhatIsRequiredIsDone
<1>1. DeskInit => Reviewed
  BY DEF DeskInit, Reviewed
<1>2. Reviewed /\ [DeskNext]_allVars => Reviewed'
  <2> SUFFICES ASSUME Reviewed, [DeskNext]_allVars PROVE Reviewed'
    OBVIOUS
  <2>1. CASE \E call \in Calls, original \in {"BULLISH", "BEARISH"}, zone \in Zones : ReviewThesis(call, original, zone)
    <3>1. PICK call, original, zone :
             review' = Concerns(trade, Stories[call], Confluences[call], original, zone, call.price)
      BY <2>1 DEF ReviewThesis
    <3> QED BY <3>1, ConcernsAreReviewed DEF Reviewed
  <2>2. CASE review' = None
    BY <2>2 DEF Reviewed
  <2>3. CASE review' = review
    BY <2>3 DEF Reviewed
  <2> QED BY <2>1, <2>2, <2>3 DEF DeskNext, DeskHeavy, DeskStartSession, DeskTradeComplete, DeskOther, DeskLight,
                                  allVars, deskVars
<1>3. Reviewed => WhatIsRequiredIsDone
  BY RequiredIsSevere, SevereIsDone DEF WhatIsRequiredIsDone
<1> QED BY <1>1, <1>2, <1>3, PTL DEF DeskSpec

-----------------------------------------------------------------------------
(* What the desk has from the Captain. *)

\* After a trade the desk rests its candles (on_trade_complete, tick_cooldown).
THEOREM DeskRests == DeskSpec => RestsItsCandles
BY DeskIsCaptain, Rests

\* A loss lock of the desk's manager keeps REAL mode shut (record_loss, is_real_mode_allowed).
THEOREM DeskLocks == DeskSpec => LossesLockSameManager
BY DeskIsCaptain, LocksReal

-----------------------------------------------------------------------------
(* Armed plans. *)

PlansTyped == plans \in [Plans -> PlanRecords \cup {NoPlan}] /\ cycleCandle \in PlanCandles

\* Candles only go forward in a session, so no plan is armed later than now.
ArmedBefore == \A i \in Plans : plans[i] # NoPlan => plans[i].born <= cycleCandle

\* A plan is seen broken in the tick that ends it.
BrokenEnds ==
  /\ broken \in [Plans -> BOOLEAN]
  /\ \A i \in Plans : broken[i] => plans[i].state = "INVALIDATED"

PlansInv == PlansTyped /\ ArmedBefore /\ BrokenEnds

\* Whatever a cycle finds out about a plan only changes its state.
LEMMA StateOnly ==
  \A p \in PlanRecords, s \in {"WATCHING"} \cup Done :
    /\ [p EXCEPT !.state = s] \in PlanRecords
    /\ [p EXCEPT !.state = s] # NoPlan
    /\ [p EXCEPT !.state = s].state = s
    /\ [p EXCEPT !.state = s].born = p.born
    /\ [p EXCEPT !.state = s].class = p.class
BY DEF PlanRecords, NoPlan

\* There is no plan where none is watched, and a watched one is a plan.
LEMMA WatchedIsPlan ==
  ASSUME NEW p \in PlanRecords \cup {NoPlan}, Watched(p)
  PROVE  p \in PlanRecords
BY DEF Watched, NoPlan

LEMMA NothingToWatch == ~Watched(NoPlan)
BY DEF Watched, NoPlan

\* watch_plans gives one of the states a plan may have.
LEMMA OutcomeStates ==
  ASSUME NEW p, NEW price, NEW at, NEW early
  PROVE  Outcome(p, price, at, early) \in {"WATCHING"} \cup Done
BY DEF Outcome, Done

\* A plan that triggers is in time, and not broken.
LEMMA TriggerInTime ==
  ASSUME NEW p \in PlanRecords, NEW at \in PlanCandles, p.born <= at,
         NEW price, NEW early \in BOOLEAN, Outcome(p, price, at, early) = "TRIGGERED"
  PROVE  InTime(p, at) /\ ~Invalidated(p, price)
<1>1. ~Expired(p, at, early) /\ ~Invalidated(p, price)
  BY DEF Outcome
<1>2. p.born \in Int /\ at \in Int /\ TimeLimit \in Int /\ Window[p.class] \in Int
  BY PlanAssumption DEF PlanRecords, PlanCandles
<1>3. Elapsed(p, at) = at - p.born
  BY <1>2 DEF Elapsed
<1>4. CASE CandleBound(p)
  BY <1>1, <1>2, <1>3, <1>4 DEF Expired, InTime
<1>5. CASE ~CandleBound(p)
  BY <1>1, <1>2, <1>3, <1>5 DEF Expired, InTime
<1> QED BY <1>1, <1>4, <1>5

\* A purge ends watched plans only.
LEMMA PurgeKeeps ==
  ASSUME NEW book \in [Plans -> PlanRecords \cup {NoPlan}], NEW at, NEW i \in Plans
  PROVE  /\ Purge(book, at) \in [Plans -> PlanRecords \cup {NoPlan}]
         /\ Purge(book, at)[i] # NoPlan => book[i] # NoPlan /\ Purge(book, at)[i].born = book[i].born
         /\ ~Watched(book[i]) => Purge(book, at)[i] = book[i]
         /\ Purge(book, at)[i].state = "TRIGGERED" => book[i].state = "TRIGGERED"
<1>1. \A j \in Plans : Watched(book[j]) => book[j] \in PlanRecords
  BY WatchedIsPlan
<1>2. \A j \in Plans : Watched(book[j]) =>
        /\ [book[j] EXCEPT !.state = "EXPIRED"] \in PlanRecords
        /\ [book[j] EXCEPT !.state = "EXPIRED"].state = "EXPIRED"
        /\ [book[j] EXCEPT !.state = "EXPIRED"].born = book[j].born
  BY <1>1, StateOnly DEF Done
<1>3. \A j \in Plans : Purge(book, at)[j] =
        IF Watched(book[j]) /\ Purged(book[j], at)
          THEN [book[j] EXCEPT !.state = "EXPIRED"] ELSE book[j]
  BY DEF Purge
<1>4. Purge(book, at) \in [Plans -> PlanRecords \cup {NoPlan}]
  BY <1>2 DEF Purge
<1>5. Watched(book[i]) => book[i] # NoPlan
  BY DEF Watched, NoPlan
<1> QED BY <1>2, <1>3, <1>4, <1>5

-----------------------------------------------------------------------------

LEMMA HeavyStep ==
  ASSUME PlansInv, NEW at \in PlanCandles, Heavy(at)
  PROVE  PlansInv' /\ \A i \in Plans : plans'[i].state = "TRIGGERED" => plans[i].state = "TRIGGERED"
<1> USE PlanAssumption
<1>0. /\ cycleCandle \in Int /\ at \in Int /\ at >= cycleCandle /\ cycleCandle' = at
      /\ broken' = broken
      /\ \A i \in Plans : plans[i] # NoPlan => plans[i].born \in Int
  <2>1. at >= cycleCandle /\ cycleCandle' = at /\ broken' = broken
    BY DEF Heavy, HeavyBlocked, HeavyCycleNoIdea, HeavyCycleArms
  <2>2. \A i \in Plans : plans[i] # NoPlan => plans[i].born \in Int
    BY DEF PlansInv, PlansTyped, PlanCandles, PlanRecords
  <2> QED BY <2>1, <2>2 DEF PlansInv, PlansTyped, PlanCandles
<1>1. CASE plans' = plans
  <2>1. ArmedBefore'
    BY <1>0, <1>1 DEF PlansInv, ArmedBefore
  <2> QED BY <1>0, <1>1, <2>1 DEF PlansInv, PlansTyped, BrokenEnds
<1>2. ASSUME NEW book \in [Plans -> PlanRecords \cup {NoPlan}], plans' = Purge(book, at),
             \A i \in Plans :
               \/ book[i] = plans[i]
               \/ plans[i] = NoPlan /\ book[i].state = "WATCHING" /\ book[i].born = at
      PROVE  PlansInv' /\ \A i \in Plans : plans'[i].state = "TRIGGERED" => plans[i].state = "TRIGGERED"
  <2>1. PlansTyped'
    BY <1>0, <1>2, PurgeKeeps DEF PlansInv, PlansTyped, Purge
  <2>2. ArmedBefore'
    BY <1>0, <1>2, PurgeKeeps DEF PlansInv, ArmedBefore
  <2>3. BrokenEnds'
    BY <1>0, <1>2, PurgeKeeps DEF PlansInv, BrokenEnds, Watched, NoPlan
  <2>4. \A i \in Plans : plans'[i].state = "TRIGGERED" => plans[i].state = "TRIGGERED"
    BY <1>2, PurgeKeeps
  <2> QED BY <2>1, <2>2, <2>3, <2>4 DEF PlansInv
<1>3. CASE HeavyCycleNoIdea(at)
  BY <1>2, <1>3 DEF HeavyCycleNoIdea, PlansInv, PlansTyped
<1>4. ASSUME NEW i \in Plans, NEW dir \in Sides, NEW class \in PlanClasses,
             NEW level \in Prices, HeavyCycleArms(i, dir, class, level, at)
      PROVE  PlansInv' /\ \A j \in Plans : plans'[j].state = "TRIGGERED" => plans[j].state = "TRIGGERED"
  <2> DEFINE p == Plan(dir, class, level, at)
             book == [plans EXCEPT ![i] = p]
  <2>1. p \in PlanRecords /\ p.state = "WATCHING" /\ p.born = at
    BY DEF Plan, PlanRecords
  <2>2. plans[i] = NoPlan /\ plans' = Purge(book, at)
    BY <1>4 DEF HeavyCycleArms
  <2> HIDE DEF p
  <2>3. book \in [Plans -> PlanRecords \cup {NoPlan}]
    BY <2>1 DEF PlansInv, PlansTyped
  <2>4. \A j \in Plans :
          \/ book[j] = plans[j]
          \/ plans[j] = NoPlan /\ book[j].state = "WATCHING" /\ book[j].born = at
    BY <2>1, <2>2 DEF PlansInv, PlansTyped
  <2> HIDE DEF book
  <2> QED BY <1>2, <2>2, <2>3, <2>4
<1> QED BY <1>1, <1>3, <1>4 DEF Heavy, HeavyBlocked

LEMMA LightStep ==
  ASSUME PlansInv, NEW price \in Prices, NEW early \in BOOLEAN, LightCycle(price, early)
  PROVE  /\ PlansInv'
         /\ \A i \in Plans : plans[i].state # "TRIGGERED" /\ plans'[i].state = "TRIGGERED"
              => InTime(plans'[i], cycleCandle')
<1>1. \A i \in Plans : plans'[i] =
        IF Watched(plans[i])
          THEN [plans[i] EXCEPT !.state = Outcome(plans[i], price, cycleCandle, early)]
          ELSE plans[i]
  BY DEF LightCycle
<1>2. \A i \in Plans : Watched(plans[i]) =>
        /\ plans[i] \in PlanRecords
        /\ plans'[i] \in PlanRecords /\ plans'[i].state = Outcome(plans[i], price, cycleCandle, early)
        /\ plans'[i].born = plans[i].born /\ plans'[i].class = plans[i].class
  <2>1. SUFFICES ASSUME NEW i \in Plans, Watched(plans[i])
                 PROVE  /\ plans[i] \in PlanRecords
                        /\ plans'[i] \in PlanRecords
                        /\ plans'[i].state = Outcome(plans[i], price, cycleCandle, early)
                        /\ plans'[i].born = plans[i].born /\ plans'[i].class = plans[i].class
    OBVIOUS
  <2>2. plans[i] \in PlanRecords
    BY <2>1, WatchedIsPlan DEF PlansInv, PlansTyped
  <2> DEFINE s == Outcome(plans[i], price, cycleCandle, early)
             q == [plans[i] EXCEPT !.state = s]
  <2>3. s \in {"WATCHING"} \cup Done
    BY OutcomeStates
  <2>4. plans'[i] = q
    BY <1>1, <2>1
  <2> HIDE DEF s
  <2>5. q \in PlanRecords /\ q.state = s /\ q.born = plans[i].born /\ q.class = plans[i].class
    BY <2>2, <2>3, StateOnly
  <2> HIDE DEF q
  <2>6. plans'[i].state = Outcome(plans[i], price, cycleCandle, early)
    BY <2>4, <2>5 DEF s
  <2> QED BY <2>2, <2>4, <2>5, <2>6
<1>3. cycleCandle' = cycleCandle /\ cycleCandle \in PlanCandles
  BY DEF LightCycle, PlansInv, PlansTyped
<1>4. PlansTyped'
  <2>1. plans' = [i \in Plans |-> plans'[i]]
    BY DEF LightCycle
  <2>2. \A i \in Plans : plans'[i] \in PlanRecords \cup {NoPlan}
    BY <1>1, <1>2 DEF PlansInv, PlansTyped
  <2> QED BY <1>3, <2>1, <2>2 DEF PlansTyped
<1>5. ArmedBefore'
  <2>1. SUFFICES ASSUME NEW i \in Plans, plans'[i] # NoPlan
                 PROVE  plans'[i].born <= cycleCandle'
    BY DEF ArmedBefore
  <2>2. plans[i] # NoPlan
    BY <1>1, <2>1, NothingToWatch
  <2>3. plans'[i].born = plans[i].born
    BY <1>1, <1>2
  <2> QED BY <1>3, <2>2, <2>3 DEF PlansInv, ArmedBefore
<1>6. BrokenEnds'
  <2>1. /\ broken' \in [Plans -> BOOLEAN]
        /\ \A i \in Plans : broken'[i] => broken[i] \/ (Watched(plans[i]) /\ Invalidated(plans[i], price))
    BY DEF LightCycle, PlansInv, BrokenEnds
  <2>2. \A i \in Plans : broken[i] => ~Watched(plans[i]) /\ plans[i].state = "INVALIDATED"
    BY DEF PlansInv, BrokenEnds, Watched
  <2>3. \A i \in Plans : Invalidated(plans[i], price)
                           => Outcome(plans[i], price, cycleCandle, early) = "INVALIDATED"
    BY DEF Outcome
  <2> QED BY <1>1, <1>2, <2>1, <2>2, <2>3 DEF BrokenEnds
<1>7. ASSUME NEW i \in Plans, plans[i].state # "TRIGGERED", plans'[i].state = "TRIGGERED"
      PROVE  InTime(plans'[i], cycleCandle')
  <2>1. Watched(plans[i])
    BY <1>1, <1>7
  <2>2. plans[i].born <= cycleCandle
    BY <2>1 DEF PlansInv, ArmedBefore, Watched, NoPlan
  <2>3. InTime(plans[i], cycleCandle)
    BY <1>2, <1>3, <1>7, <2>1, <2>2, TriggerInTime
  <2> QED BY <1>2, <1>3, <2>1, <2>3 DEF InTime, CandleBound
<1> QED BY <1>4, <1>5, <1>6, <1>7 DEF PlansInv

LEMMA PlansStep ==
  ASSUME PlansInv, [PlansNext]_plansVars
  PROVE  /\ PlansInv'
         /\ \A i \in Plans : plans[i].state # "TRIGGERED" /\ plans'[i].state = "TRIGGERED"
              => InTime(plans'[i], cycleCandle')
<1>1. CASE ClearSession
  BY <1>1, PlanAssumption
     DEF ClearSession, PlansInv, PlansTyped, ArmedBefore, BrokenEnds, PlanCandles, NoPlan
<1>2. CASE UNCHANGED plansVars
  BY <1>2 DEF plansVars, PlansInv, PlansTyped, ArmedBefore, BrokenEnds
<1> QED BY <1>1, <1>2, HeavyStep, LightStep DEF PlansNext

LEMMA InitPlansInv == PlansInit => PlansInv
BY PlanAssumption DEF PlansInit, PlansInv, PlansTyped, ArmedBefore, BrokenEnds, PlanCandles, NoPlan

\* Type correctness: a plan has a state, a direction, a class and a candle it was armed in.
THEOREM PlansTypes == PlansSpec => []PlansTypeOK
<1>1. PlansInv => PlansTypeOK
  BY DEF PlansInv, PlansTyped, BrokenEnds, PlansTypeOK
<1>2. PlansInv /\ [PlansNext]_plansVars => PlansInv'
  BY PlansStep
<1> QED BY <1>1, <1>2, InitPlansInv, PTL DEF PlansSpec

\* "Expiry is HARD cutoff": a plan triggers in the session it was armed in and before
\* its class's window is over, for any windows, skipped candles and blocked cycles.
THEOREM InTimeOnly == PlansSpec => TriggersInTime
<1>1. PlansInv /\ [PlansNext]_plansVars
        => /\ PlansInv'
           /\ \A i \in Plans : plans[i].state # "TRIGGERED" /\ plans'[i].state = "TRIGGERED"
                => InTime(plans'[i], cycleCandle')
  BY PlansStep
<1> QED BY <1>1, InitPlansInv, PTL DEF PlansSpec, TriggersInTime

\* A price that has broken a plan's structure has ended the plan for good
\* (watch_plans looks at the invalidation first).
THEOREM NeverBack == PlansSpec => []NoComeback
<1>1. PlansInv => NoComeback
  BY DEF PlansInv, BrokenEnds, NoComeback
<1>2. PlansInv /\ [PlansNext]_plansVars => PlansInv'
  BY PlansStep
<1> QED BY <1>1, <1>2, InitPlansInv, PTL DEF PlansSpec

=============================================================================
