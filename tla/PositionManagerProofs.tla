------------------------ MODULE PositionManagerProofs ------------------------
(* Trailing stops, for any prices, distances and numbers of trades.          *)
EXTENDS PositionManager, TLAPS

\* The types the argument needs.
Records == [status : PositionStatuses, direction : {"BUY", "SELL"}, qty : Nat, avg : Int,
            sl : Int, pnl : Int]

Trails == [set : BOOLEAN, active : BOOLEAN, from : Int, dist : Int, best : Int, stop : Int]

Typed ==
  /\ pos \in [Trades -> Records]
  /\ trail \in [Trades -> Trails]

\* A trail belongs to a position and is at its distance behind its best price; one
\* that is not active yet has seen nothing better than its activation price.
Behind(t, tr) ==
  tr.set => /\ Exists(pos, t)
            /\ tr.stop = tr.best - SideOf(t) * tr.dist
            /\ ~tr.active => tr.best = tr.from

Inv == Typed /\ \A t \in Trades : Behind(t, trail[t])

\* A side is +1 or -1.
LEMMA SideIsSign ==
  ASSUME Typed, NEW t \in Trades
  PROVE  \/ pos[t].direction = "BUY" /\ SideOf(t) = 1
         \/ pos[t].direction = "SELL" /\ SideOf(t) = -1
BY DEF Typed, Records, SideOf, Sign

\* No trade has a trail in the beginning.
LEMMA InitInv == Init => Inv
BY DEF Init, Inv, Typed, Records, Trails, Behind, InitPositions, NoPosition, NoTrail, NoPrice,
       PositionStatuses

\* Positions keep their type, the direction of a position that exists stays, and
\* no position is forgotten.
KeepsPositions ==
  /\ pos' \in [Trades -> Records]
  /\ \A t \in Trades : Exists(pos, t) =>
       pos'[t].direction = pos[t].direction /\ Exists(pos', t)

\* A call that keeps the positions and leaves every trail behind its best price
\* keeps the invariant.
LEMMA KeepsInv ==
  ASSUME Inv, KeepsPositions, trail' \in [Trades -> Trails],
         \A t \in Trades : Behind(t, trail'[t])
  PROVE  Inv'
<1>1. \A t \in Trades : Exists(pos, t) => SideOf(t)' = SideOf(t) /\ Exists(pos, t)'
  BY DEF KeepsPositions, SideOf, Exists
<1> QED
  BY <1>1 DEF Inv, Typed, KeepsPositions, Behind

\* So does a call that leaves the trails alone.
LEMMA SameTrail ==
  ASSUME Inv, KeepsPositions, trail' = trail
  PROVE  Inv'
BY KeepsInv DEF Inv, Typed

\* And one that changes one trail to one behind its best price.
LEMMA OneTrail ==
  ASSUME Inv, KeepsPositions, NEW t \in Trades, NEW tr \in Trails, Behind(t, tr),
         trail' = [trail EXCEPT ![t] = tr]
  PROVE  Inv'
<1>1. \A u \in Trades : trail'[u] = IF u = t THEN tr ELSE trail[u]
  BY DEF Inv, Typed
<1>2. trail' \in [Trades -> Trails]
  BY DEF Inv, Typed
<1>3. \A u \in Trades : Behind(u, trail'[u])
  BY <1>1 DEF Inv
<1> QED
  BY <1>2, <1>3, KeepsInv

\* Profit and loss are integers.
LEMMA PnlInt ==
  ASSUME NEW d \in {"BUY", "SELL"}, NEW a \in Int, NEW b \in Int, NEW q \in Int
  PROVE  Pnl(d, a, b, q) \in Int
<1>1. (b - a) * q \in Int
  OBVIOUS
<1> QED
  BY <1>1 DEF Pnl, Sign

\* A new record for one trade keeps the positions.
LEMMA Replaced ==
  ASSUME Typed, NEW t \in Trades, NEW r \in Records, pos' = [pos EXCEPT ![t] = r],
         r.status # "none", Exists(pos, t) => r.direction = pos[t].direction
  PROVE  KeepsPositions
BY DEF Typed, KeepsPositions, Exists

\* Opening a position.
LEMMA OpenKeeps ==
  ASSUME Typed, NEW t \in Trades, NEW d \in {"BUY", "SELL"}, NEW q \in 1..MaxUnits,
         NEW price \in Prices, Open(t, d, q, price)
  PROVE  KeepsPositions
<1> DEFINE r == Opened(d, q, price)
<1>1. q > 0 /\ q \in Nat /\ price \in Int /\ price > 0
  BY ManagerAssumption
<1>2. r \in Records /\ r.status = "OPEN"
  BY <1>1 DEF Opened, Records, PositionStatuses, NoPrice
<1>3. pos' = [pos EXCEPT ![t] = r]
  BY <1>1 DEF Open, OpenPosition
<1>4. ~Exists(pos, t)
  BY DEF Open
<1> HIDE DEF r
<1> QED
  BY <1>2, <1>3, <1>4, Replaced

\* A whole number divided by a positive one is a whole number.
LEMMA QuotientInt ==
  ASSUME NEW a \in Int, NEW b \in Nat, b > 0
  PROVE  a \div b \in Int
OBVIOUS

\* A fill.
LEMMA FillKeeps ==
  ASSUME Typed, NEW t \in Trades, NEW q \in 1..MaxUnits, NEW price \in Prices,
         Fill(t, q, price)
  PROVE  KeepsPositions
<1> DEFINE total == pos[t].qty * pos[t].avg + q * price
           r == [pos[t] EXCEPT !.qty = pos[t].qty + q, !.avg = total \div (pos[t].qty + q)]
<1>1. /\ q > 0 /\ q \in Nat /\ price \in Int
      /\ pos[t] \in Records /\ pos[t].qty \in Nat /\ pos[t].avg \in Int
  BY ManagerAssumption DEF Typed, Records
<1>2. total \in Int
  BY <1>1
<1>3. total \div (pos[t].qty + q) \in Int
  <2> HIDE DEF total
  <2> QED
    BY <1>1, <1>2, QuotientInt
<1>4. pos' = [pos EXCEPT ![t] = r]
  <2>1. pos' = [pos EXCEPT ![t].qty = @ + q, ![t].avg = total \div (pos[t].qty + q)]
    BY <1>1 DEF Fill, UpdateFill
  <2> HIDE DEF total
  <2> QED
    BY <2>1
<1>5. r \in Records /\ r.status = pos[t].status /\ r.direction = pos[t].direction
  <2> DEFINE n == pos[t].qty + q
             a == total \div (pos[t].qty + q)
  <2>1. n \in Nat /\ a \in Int
    BY <1>1, <1>3
  <2> HIDE DEF total, n, a
  <2> DEFINE e == [pos[t] EXCEPT !.qty = n, !.avg = a]
  <2>2. e \in Records /\ e.status = pos[t].status /\ e.direction = pos[t].direction
    <3> DEFINE x == pos[t]
    <3>1. x \in Records
      BY <1>1
    <3> HIDE DEF r, x
    <3>2. [x EXCEPT !.qty = n, !.avg = a] \in Records
      BY <2>1, <3>1 DEF Records
    <3>3. /\ [x EXCEPT !.qty = n, !.avg = a].status = x.status
          /\ [x EXCEPT !.qty = n, !.avg = a].direction = x.direction
      BY <3>1 DEF Records
    <3> QED BY <3>2, <3>3 DEF x
  <2>3. r = e
    BY DEF n, a
  <2> HIDE DEF r, e
  <2> QED
    BY <2>2, <2>3
<1>6. Exists(pos, t)
  BY DEF Fill
<1> HIDE DEF r
<1> QED
  BY <1>4, <1>5, <1>6, Replaced DEF Exists

\* An exit, in part or for good.
LEMMA ExitKeeps ==
  ASSUME Typed, NEW t \in Trades, NEW q \in 1..MaxUnits, NEW price \in Prices,
         NEW status \in {"PARTIALLY_CLOSED", "CLOSED"}, q <= pos[t].qty, Exists(pos, t),
         pos' = [pos EXCEPT ![t].qty = @ - q, ![t].status = status,
                            ![t].pnl = @ + Pnl(pos[t].direction, pos[t].avg, price, q)]
  PROVE  KeepsPositions
<1> DEFINE profit == Pnl(pos[t].direction, pos[t].avg, price, q)
           r == [pos[t] EXCEPT !.qty = @ - q, !.status = status, !.pnl = @ + profit]
<1>1. q \in Nat /\ price \in Int /\ pos[t] \in Records
  BY ManagerAssumption DEF Typed
<1>2. profit \in Int
  BY <1>1, PnlInt DEF Records
<1> HIDE DEF profit
<1>3. pos' = [pos EXCEPT ![t] = r]
  BY DEF Typed, profit
<1>4. r \in Records /\ r.status # "none" /\ r.direction = pos[t].direction
  <2> DEFINE n == pos[t].qty - q
             m == pos[t].pnl + profit
  <2>1. n \in Nat /\ m \in Int /\ status \in PositionStatuses /\ status # "none"
    BY <1>1, <1>2 DEF Records, PositionStatuses
  <2> HIDE DEF n, m
  <2> DEFINE e == [pos[t] EXCEPT !.qty = n, !.status = status, !.pnl = m]
  <2>2. e \in Records
    BY <1>1, <2>1 DEF Records
  <2>3. e.status = status /\ e.direction = pos[t].direction
    BY <1>1, <2>2 DEF Records
  <2> QED
    BY <2>1, <2>2, <2>3 DEF n, m
<1> HIDE DEF r
<1> QED
  BY <1>3, <1>4, Replaced

\* A change of stop-loss or of profit.
LEMMA FieldKeeps ==
  ASSUME Typed, NEW t \in Trades, Exists(pos, t), NEW n \in Int,
         pos' = [pos EXCEPT ![t].sl = n] \/ pos' = [pos EXCEPT ![t].pnl = n]
  PROVE  KeepsPositions
<1>1. pos[t] \in Records
  BY DEF Typed
<1>2. CASE pos' = [pos EXCEPT ![t].sl = n]
  <2> DEFINE r == [pos[t] EXCEPT !.sl = n]
  <2>1. r \in Records /\ r.status = pos[t].status /\ r.direction = pos[t].direction
    BY <1>1 DEF Records
  <2>2. pos' = [pos EXCEPT ![t] = r]
    BY <1>2
  <2> HIDE DEF r
  <2> QED
    BY <2>1, <2>2, Replaced DEF Exists
<1>3. CASE pos' = [pos EXCEPT ![t].pnl = n]
  <2> DEFINE r == [pos[t] EXCEPT !.pnl = n]
  <2>1. r \in Records /\ r.status = pos[t].status /\ r.direction = pos[t].direction
    BY <1>1 DEF Records
  <2>2. pos' = [pos EXCEPT ![t] = r]
    BY <1>3
  <2> HIDE DEF r
  <2> QED
    BY <2>1, <2>2, Replaced DEF Exists
<1> QED
  BY <1>2, <1>3

\* What update_trail makes of a trail: its stop is behind its best price again, and
\* no further from the market than it was.
LEMMA TrailUpdated ==
  ASSUME Inv, NEW t \in Trades, NEW price \in Prices, UpdateTrail(t, price)
  PROVE  \E tr \in Trails :
           /\ trail' = [trail EXCEPT ![t] = tr]
           /\ tr.set = trail[t].set
           /\ Behind(t, tr)
           /\ SideOf(t) * (tr.stop - trail[t].stop) >= 0
           /\ pos' = pos \/ pos' = [pos EXCEPT ![t].sl = tr.stop]
<1> DEFINE active == trail[t].active \/ ~Better(t, trail[t].from, price)
           best == Best(t, price)
           stop == IF active THEN Stop(t, price) ELSE trail[t].stop
           tr == [trail[t] EXCEPT !.active = active, !.best = best, !.stop = stop]
<1>1. /\ trail[t] \in Trails /\ trail[t].set /\ price \in Int /\ Exists(pos, t)
      /\ trail[t].stop = trail[t].best - SideOf(t) * trail[t].dist
      /\ ~trail[t].active => trail[t].best = trail[t].from
  BY ManagerAssumption DEF Inv, Typed, UpdateTrail, Behind
<1>2. /\ trail[t].stop \in Int /\ trail[t].best \in Int /\ trail[t].from \in Int
      /\ trail[t].dist \in Int /\ trail[t].active \in BOOLEAN
  BY <1>1 DEF Trails
<1>3. SideOf(t) = 1 \/ SideOf(t) = -1
  BY SideIsSign DEF Inv
<1>4. /\ active \in BOOLEAN /\ best \in Int /\ stop \in Int
      /\ stop = best - SideOf(t) * trail[t].dist
      /\ ~active => best = trail[t].from
      /\ SideOf(t) * (stop - trail[t].stop) >= 0
  <2>1. CASE SideOf(t) = 1
    BY <1>1, <1>2, <2>1 DEF Better, Best, Stop
  <2>2. CASE SideOf(t) = -1
    BY <1>1, <1>2, <2>2 DEF Better, Best, Stop
  <2> QED
    BY <1>3, <2>1, <2>2
<1>5. /\ trail' = [trail EXCEPT ![t] = tr]
      /\ pos' = pos \/ pos' = [pos EXCEPT ![t].sl = stop]
  BY DEF UpdateTrail
<1> HIDE DEF active, best, stop
<1>6. tr \in Trails
  BY <1>1, <1>4 DEF Trails
<1>7. /\ tr.set = trail[t].set /\ tr.active = active /\ tr.best = best /\ tr.stop = stop
      /\ tr.from = trail[t].from /\ tr.dist = trail[t].dist
  BY <1>1, <1>6 DEF Trails
<1>8. Behind(t, tr)
  BY <1>1, <1>4, <1>7 DEF Behind
<1> HIDE DEF tr
<1> QED
  BY <1>4, <1>5, <1>6, <1>7, <1>8

-----------------------------------------------------------------------------

\* Marks are whole amounts, and a breakeven stop belongs to a position.
Cached == cache \in [Trades -> Int]

Guarded ==
  /\ breakeven \in [Trades -> Int]
  /\ \A t \in Trades : breakeven[t] # Unset => Exists(pos, t)

IInv == Inv /\ Cached /\ Guarded

\* A breakeven stop stays, goes, or is set on a position.
LEMMA GuardedKept ==
  ASSUME Guarded, KeepsPositions, NEW t \in Trades, NEW b \in Int,
         breakeven' = breakeven \/ breakeven' = [breakeven EXCEPT ![t] = b],
         b # Unset => Exists(pos, t)
  PROVE  Guarded'
<1>1. \A u \in Trades : Exists(pos, u) => Exists(pos, u)'
  BY DEF KeepsPositions, Exists
<1> QED
  BY <1>1 DEF Guarded

\* A call that leaves the stops alone.
LEMMA SameStops ==
  ASSUME IInv, KeepsPositions, trail' = trail, breakeven' = breakeven, Cached'
  PROVE  IInv'
<1>1. Inv'
  BY SameTrail DEF IInv
<1>2. \A u \in Trades : Exists(pos, u) => Exists(pos, u)'
  BY DEF KeepsPositions, Exists
<1>3. Guarded'
  BY <1>2 DEF Guarded, IInv
<1> QED
  BY <1>1, <1>3 DEF IInv

\* A profit or loss of the manager is an integer.
LEMMA UnrealisedInt ==
  ASSUME Typed, NEW t \in Trades, NEW price \in Prices
  PROVE  Unrealised(t, price) \in Int
<1>1. pos[t] \in Records /\ price \in Int
  BY ManagerAssumption DEF Typed
<1>2. /\ pos[t].direction \in {"BUY", "SELL"} /\ pos[t].avg \in Int /\ pos[t].qty \in Int
  BY <1>1 DEF Records
<1> QED
  BY <1>1, <1>2, PnlInt DEF Unrealised

\* Fills and exits.
LEMMA TradedKeeps ==
  ASSUME IInv, NEW t \in Trades, NEW q \in 1..MaxUnits, NEW price \in Prices,
         Traded(t, q, price)
  PROVE  IInv'
<1>1. Typed /\ Inv
  BY DEF IInv, Inv
<1>2. q > 0 /\ q \in Nat /\ price \in Int /\ price > 0
  BY ManagerAssumption
<1>3. Cached'
  <2>1. cache' = cache
    BY DEF Traded, Open, Fill, ExitPart, Close
  <2> QED
    BY <2>1 DEF IInv, Cached
<1>4. ASSUME NEW d \in {"BUY", "SELL"}, Open(t, d, q, price) PROVE IInv'
  <2>1. KeepsPositions
    BY <1>1, <1>4, OpenKeeps
  <2>2. trail' = trail /\ breakeven' = breakeven
    BY <1>4 DEF Open
  <2> QED
    BY <1>3, <2>1, <2>2, SameStops
<1>5. CASE Fill(t, q, price)
  <2>1. KeepsPositions
    BY <1>1, <1>5, FillKeeps
  <2>2. trail' = trail /\ breakeven' = breakeven
    BY <1>5 DEF Fill
  <2> QED
    BY <1>3, <2>1, <2>2, SameStops
<1>6. CASE ExitPart(t, q, price)
  <2>1. pos' = [pos EXCEPT ![t].qty = @ - q, ![t].status = "PARTIALLY_CLOSED",
                           ![t].pnl = @ + Pnl(pos[t].direction, pos[t].avg, price, q)]
    <3>1. ~(~Exists(pos, t) \/ q <= 0 \/ price <= 0 \/ q > pos[t].qty)
      BY <1>1, <1>2, <1>6 DEF ExitPart, Typed, Records
    <3> QED
      BY <1>6, <3>1 DEF ExitPart, PartialExit
  <2>2. KeepsPositions
    BY <1>1, <1>6, <2>1, ExitKeeps DEF ExitPart
  <2>3. trail' = trail /\ breakeven' = breakeven
    BY <1>6 DEF ExitPart
  <2> QED
    BY <1>3, <2>2, <2>3, SameStops
<1>7. CASE Close(t, q, price)
  <2>1. pos' = [pos EXCEPT ![t].qty = @ - q, ![t].status = "CLOSED",
                           ![t].pnl = @ + Pnl(pos[t].direction, pos[t].avg, price, q)]
    <3>1. ~(~Exists(pos, t) \/ q <= 0 \/ price <= 0 \/ q > pos[t].qty)
      BY <1>1, <1>2, <1>7 DEF Close, Typed, Records
    <3> QED
      BY <1>7, <3>1 DEF Close, ClosePosition
  <2>2. KeepsPositions
    BY <1>1, <1>7, <2>1, ExitKeeps DEF Close
  <2>3. NoTrail \in Trails /\ Behind(t, NoTrail)
    BY DEF NoTrail, Trails, Behind
  <2>4. /\ trail' = [trail EXCEPT ![t] = NoTrail]
        /\ breakeven' = [breakeven EXCEPT ![t] = Unset]
    BY <1>7 DEF Close
  <2>5. Inv'
    BY <1>1, <2>2, <2>3, <2>4, OneTrail
  <2>6. Guarded'
    <3>1. Unset \in Int
      BY DEF Unset
    <3> QED
      BY <2>2, <2>4, <3>1, GuardedKept DEF IInv
  <2> QED
    BY <1>3, <2>5, <2>6 DEF IInv
<1> QED
  BY <1>4, <1>5, <1>6, <1>7 DEF Traded

\* Marks and stops.
LEMMA WatchedKeeps ==
  ASSUME IInv, NEW t \in Trades, NEW price \in Prices, Watched(t, price)
  PROVE  IInv'
<1>1. Typed /\ Inv /\ Cached /\ Guarded
  BY DEF IInv, Inv
<1>2. price \in Int /\ price > 0 /\ pos[t] \in Records /\ pos[t].pnl \in Int /\ pos[t].avg \in Int
  BY <1>1, ManagerAssumption DEF Typed, Records
<1>3. CASE Mark(t, price)
  <2> DEFINE profit == pos[t].pnl + (Unrealised(t, price) - cache[t])
  <2>1. Unrealised(t, price) \in Int /\ cache[t] \in Int
    BY <1>1, UnrealisedInt DEF Cached
  <2>2. profit \in Int
    BY <1>2, <2>1
  <2>3. pos' = [pos EXCEPT ![t].pnl = profit]
    BY <1>3 DEF Mark
  <2> HIDE DEF profit
  <2>4. Exists(pos, t) /\ trail' = trail /\ breakeven' = breakeven
    BY <1>3 DEF Mark
  <2>5. KeepsPositions
    BY <1>1, <2>2, <2>3, <2>4, FieldKeeps
  <2>6. Cached'
    BY <1>1, <1>3, <2>1 DEF Mark, Cached
  <2> QED
    BY <2>4, <2>5, <2>6, SameStops
<1>4. CASE MoveStop(t, price)
  <2>1. /\ Exists(pos, t) /\ trail' = trail /\ breakeven' = breakeven /\ cache' = cache
        /\ pos' = [pos EXCEPT ![t].sl = price]
    BY <1>2, <1>4 DEF MoveStop, SetSl
  <2>2. KeepsPositions
    BY <1>1, <1>2, <2>1, FieldKeeps
  <2>3. Cached'
    BY <1>1, <2>1 DEF Cached
  <2> QED
    BY <2>1, <2>2, <2>3, SameStops
<1>5. CASE UpdateTrail(t, price)
  <2>1. PICK tr \in Trails :
          /\ trail' = [trail EXCEPT ![t] = tr]
          /\ Behind(t, tr)
          /\ pos' = pos \/ pos' = [pos EXCEPT ![t].sl = tr.stop]
    BY <1>1, <1>5, TrailUpdated
  <2>2. trail[t].set /\ breakeven' = breakeven /\ cache' = cache
    BY <1>5 DEF UpdateTrail
  <2>3. Exists(pos, t) /\ tr.stop \in Int
    BY <1>1, <2>2 DEF Inv, Behind, Trails
  <2>4. KeepsPositions
    <3>1. CASE pos' = pos
      BY <1>1, <3>1 DEF KeepsPositions, Typed
    <3> QED
      BY <1>1, <2>1, <2>3, <3>1, FieldKeeps
  <2>5. Inv'
    BY <1>1, <2>1, <2>4, OneTrail
  <2>6. Guarded'
    BY <1>1, <2>2, <2>4, GuardedKept DEF Unset
  <2> QED
    BY <1>1, <2>2, <2>5, <2>6 DEF IInv, Cached
<1>6. CASE CheckBreakeven(t, price)
  <2>1. /\ pos' = [pos EXCEPT ![t].sl = pos[t].avg]
        /\ breakeven' = [breakeven EXCEPT ![t] = Triggered]
        /\ breakeven[t] # Unset /\ trail' = trail /\ cache' = cache
    BY <1>6 DEF CheckBreakeven, Unset
  <2>2. Exists(pos, t)
    BY <1>1, <2>1 DEF Guarded
  <2>3. KeepsPositions
    BY <1>1, <1>2, <2>1, <2>2, FieldKeeps
  <2>4. Inv'
    BY <1>1, <2>1, <2>3, SameTrail
  <2>5. Triggered \in Int
    BY DEF Triggered
  <2>6. Guarded'
    BY <1>1, <2>1, <2>2, <2>3, <2>5, GuardedKept
  <2> QED
    BY <1>1, <2>1, <2>4, <2>6 DEF IInv, Cached
<1>7. ASSUME NEW n \in Ticks, ActivateTrail(t, price, n) PROVE IInv'
  <2> DEFINE tr == [set |-> TRUE, active |-> FALSE, from |-> price, dist |-> n,
                    best |-> price, stop |-> price - SideOf(t) * n]
  <2>1. n \in Int /\ SideOf(t) \in Int /\ price - SideOf(t) * n \in Int
    BY <1>1, <1>2, SideIsSign, ManagerAssumption
  <2>2. tr \in Trails /\ Behind(t, tr)
    BY <1>2, <1>7, <2>1 DEF Trails, Behind, ActivateTrail
  <2>3. /\ trail' = [trail EXCEPT ![t] = tr]
        /\ pos' = pos /\ breakeven' = breakeven /\ cache' = cache
    BY <1>7 DEF ActivateTrail
  <2> HIDE DEF tr
  <2>4. KeepsPositions
    BY <1>1, <2>3 DEF KeepsPositions, Typed
  <2>5. Inv'
    BY <1>1, <2>2, <2>3, <2>4, OneTrail
  <2> QED
    BY <1>1, <2>3, <2>5 DEF IInv, Cached, Guarded
<1>8. ASSUME NEW n \in Ticks, ActivateBreakeven(t, n) PROVE IInv'
  <2>1. /\ pos' = pos /\ trail' = trail /\ cache' = cache /\ Exists(pos, t)
        /\ breakeven' = [breakeven EXCEPT ![t] = n]
    BY <1>8 DEF ActivateBreakeven
  <2>2. KeepsPositions
    BY <1>1, <2>1 DEF KeepsPositions, Typed
  <2>3. Inv'
    BY <1>1, <2>1, <2>2, SameTrail
  <2>4. n \in Int
    BY ManagerAssumption
  <2>5. Guarded'
    BY <1>1, <2>1, <2>2, <2>4, GuardedKept
  <2> QED
    BY <1>1, <2>1, <2>3, <2>5 DEF IInv, Cached
<1> QED
  BY <1>3, <1>4, <1>5, <1>6, <1>7, <1>8 DEF Watched

\* The invariant is inductive.
LEMMA StepIInv == IInv /\ [Next]_vars => IInv'
<1> SUFFICES ASSUME IInv, [Next]_vars PROVE IInv'
  OBVIOUS
<1>1. CASE Next
  BY <1>1, TradedKeeps, WatchedKeeps DEF Next
<1>2. CASE UNCHANGED vars
  <2>1. pos' = pos /\ trail' = trail /\ breakeven' = breakeven /\ cache' = cache
    BY <1>2 DEF vars
  <2> QED
    BY <2>1 DEF IInv, Inv, Typed, Behind, SideOf, Exists, Cached, Guarded
<1> QED
  BY <1>1, <1>2

LEMMA InitIInv == Init => IInv
BY InitInv DEF Init, IInv, Cached, Guarded, Unset

THEOREM Inductive == Spec => []IInv
BY InitIInv, StepIInv, PTL DEF Spec

-----------------------------------------------------------------------------

\* A trailing stop is its distance behind the best price seen, for every trade,
\* side and order of calls (update_trail).
THEOREM TrailBehind == Spec => []TrailBehindBest
<1>1. IInv => TrailBehindBest
  BY DEF IInv, Inv, Behind, TrailBehindBest
<1> QED
  BY Inductive, <1>1, PTL

\* A trailing stop never moves away from the market (update_trail).
THEOREM TrailNeverLoosens == Spec => TrailTightens
<1> DEFINE Tight == \A t \in Trades : trail[t].set /\ trail'[t].set =>
                      SideOf(t) * (trail'[t].stop - trail[t].stop) >= 0
<1>1. ASSUME IInv, Next PROVE Tight
  <2> SUFFICES ASSUME NEW u \in Trades, trail[u].set, trail'[u].set
               PROVE  SideOf(u) * (trail'[u].stop - trail[u].stop) >= 0
    OBVIOUS
  <2>1. Typed /\ Inv /\ SideOf(u) \in Int /\ trail[u].stop \in Int
    <3>1. Typed /\ Inv
      BY <1>1 DEF IInv, Inv
    <3> QED
      BY <3>1, SideIsSign DEF Typed, Trails
  <2>2. CASE trail'[u] = trail[u]
    BY <2>1, <2>2
  <2>3. PICK t \in Trades, price \in Prices :
          Watched(t, price) \/ \E q \in 1..MaxUnits : Traded(t, q, price)
    BY <1>1 DEF Next
  <2>4. CASE \E q \in 1..MaxUnits : Traded(t, q, price)
    <3>1. trail' = trail \/ trail' = [trail EXCEPT ![t] = NoTrail]
      BY <2>4 DEF Traded, Open, Fill, ExitPart, Close
    <3> QED
      BY <2>1, <2>2, <3>1 DEF Typed, NoTrail
  <2>5. CASE Watched(t, price)
    <3>1. CASE UpdateTrail(t, price)
      <4>1. PICK tr \in Trails :
              /\ trail' = [trail EXCEPT ![t] = tr]
              /\ SideOf(t) * (tr.stop - trail[t].stop) >= 0
        BY <2>1, <3>1, TrailUpdated
      <4> QED
        BY <2>1, <2>2, <4>1 DEF Typed
    <3>2. CASE \E n \in Ticks : ActivateTrail(t, price, n)
      <4>1. ~trail[t].set /\ \A v \in Trades : v # t => trail'[v] = trail[v]
        BY <2>1, <3>2 DEF ActivateTrail, Typed
      <4> QED
        BY <2>2, <4>1
    <3>3. CASE ~UpdateTrail(t, price) /\ ~(\E n \in Ticks : ActivateTrail(t, price, n))
      <4>1. trail' = trail
        BY <2>5, <3>3 DEF Watched, Mark, MoveStop, CheckBreakeven, ActivateBreakeven
      <4> QED
        BY <2>2, <4>1
    <3> QED
      BY <3>1, <3>2, <3>3
  <2> QED
    BY <2>3, <2>4, <2>5
<1>2. IInv /\ [Next]_vars => [Tight]_vars
  BY <1>1
<1> QED
  BY Inductive, <1>2, PTL DEF Spec, TrailTightens

-----------------------------------------------------------------------------

\* The accounting identity of one trade, and nothing booked for one without a
\* position.
Book(t) == pos[t].pnl - cache[t] = cash[t] + SideOf(t) * pos[t].qty * pos[t].avg

Balanced ==
  /\ cash \in [Trades -> Int]
  /\ \A t \in Trades : Book(t)
  /\ \A t \in Trades : ~Exists(pos, t) => pos[t].pnl = 0 /\ cache[t] = 0 /\ cash[t] = 0

\* An exact average times the quantity is the sum it was taken of.
LEMMA ExactQuotient ==
  ASSUME NEW a \in Int, NEW n \in Nat, n > 0, a % n = 0
  PROVE  n * (a \div n) = a
OBVIOUS

\* Products with a sign.
LEMMA Signed ==
  ASSUME NEW s \in {1, -1}, NEW a \in Int, NEW b \in Int
  PROVE  s * a * b = IF s = 1 THEN a * b ELSE -(a * b)
<1>1. CASE s = 1
  BY <1>1
<1>2. CASE s = -1
  <2>1. (-a) * b = -(a * b)
    OBVIOUS
  <2>2. s * a = -a
    BY <1>2
  <2> QED
    BY <1>2, <2>1, <2>2
<1> QED
  BY <1>1, <1>2

\* What a fill adds to the position it takes from the cash.
LEMMA FillBalances ==
  ASSUME NEW s \in {1, -1}, NEW qty \in Nat, NEW avg \in Int, NEW q \in Nat, q > 0,
         NEW price \in Int, (qty * avg + q * price) % (qty + q) = 0,
         NEW profit \in Int, NEW money \in Int, profit = money + s * qty * avg
  PROVE  profit = (money - s * q * price)
                  + s * (qty + q) * ((qty * avg + q * price) \div (qty + q))
<1> DEFINE held == qty * avg
           spent == q * price
           n == qty + q
           new == (held + spent) \div n
<1>1. held \in Int /\ spent \in Int /\ n \in Nat /\ n > 0
  OBVIOUS
<1>2. (held + spent) % n = 0
  OBVIOUS
<1>3. /\ s * qty * avg = IF s = 1 THEN held ELSE -held
      /\ s * q * price = IF s = 1 THEN spent ELSE -spent
  BY Signed
<1>4. new \in Int /\ n * new = held + spent
  <2> HIDE DEF held, spent, n
  <2> QED
    BY <1>1, <1>2, ExactQuotient, QuotientInt
<1>5. s * n * new = IF s = 1 THEN held + spent ELSE -(held + spent)
  <2> HIDE DEF held, spent, n, new
  <2> QED
    BY <1>1, <1>4, Signed
<1>6. profit = (money - s * q * price) + s * n * new
  <2> HIDE DEF held, spent, n, new
  <2> QED
    BY <1>1, <1>3, <1>5
<1> QED
  BY <1>6

\* What an exit takes from the position it adds to cash and profit.
LEMMA ExitBalances ==
  ASSUME NEW s \in {1, -1}, NEW qty \in Nat, NEW avg \in Int, NEW q \in Nat,
         NEW price \in Int, NEW profit \in Int, NEW money \in Int,
         profit = money + s * qty * avg
  PROVE  profit + (price - avg) * q * s
           = (money + s * q * price) + s * (qty - q) * avg
<1> DEFINE held == qty * avg
           left == q * avg
           paid == q * price
<1>1. held \in Int /\ left \in Int /\ paid \in Int
  OBVIOUS
<1>2. (price - avg) * q = paid - left /\ (qty - q) * avg = held - left
  OBVIOUS
<1>3. /\ s * qty * avg = IF s = 1 THEN held ELSE -held
      /\ s * q * price = IF s = 1 THEN paid ELSE -paid
      /\ s * (qty - q) * avg = IF s = 1 THEN held - left ELSE -(held - left)
  BY <1>2, Signed
<1>4. (price - avg) * q * s = IF s = 1 THEN paid - left ELSE -(paid - left)
  <2> HIDE DEF left, paid
  <2> QED
    BY <1>1, <1>2
<1> HIDE DEF held, left, paid
<1> QED
  BY <1>1, <1>3, <1>4

\* A call about one trade that balances its book.
LEMMA OneBook ==
  ASSUME Balanced, NEW t \in Trades, cash' \in [Trades -> Int], Book(t)', Exists(pos', t),
         \A u \in Trades \ {t} :
           pos'[u] = pos[u] /\ cache'[u] = cache[u] /\ cash'[u] = cash[u]
  PROVE  Balanced'
<1>1. \A u \in Trades \ {t} : Book(u)'
  BY DEF Balanced, Book, SideOf
<1> QED
  BY <1>1 DEF Balanced, Exists

\* The side of a trade, and the numbers in its record.
LEMMA Numbers ==
  ASSUME Typed, NEW t \in Trades
  PROVE  /\ SideOf(t) \in {1, -1}
         /\ pos[t].qty \in Nat /\ pos[t].avg \in Int /\ pos[t].pnl \in Int
         /\ pos[t].direction \in {"BUY", "SELL"}
BY SideIsSign DEF Typed, Records

\* Opening a position.
LEMMA OpenBalances ==
  ASSUME IInv, Balanced, NEW t \in Trades, NEW d \in {"BUY", "SELL"}, NEW q \in 1..MaxUnits,
         NEW price \in Prices, Open(t, d, q, price)
  PROVE  Balanced'
<1> DEFINE r == Opened(d, q, price)
           paid == Sign(d) * q * price
<1>1. q > 0 /\ q \in Nat /\ price \in Int /\ price > 0 /\ Sign(d) \in {1, -1}
  BY ManagerAssumption DEF Sign
<1>2. /\ pos' = [pos EXCEPT ![t] = r] /\ cache' = cache
      /\ cash' = [cash EXCEPT ![t] = @ - paid] /\ ~Exists(pos, t)
  BY <1>1 DEF Open, OpenPosition, Pays
<1>3. /\ r.status = "OPEN" /\ r.direction = d /\ r.qty = q /\ r.avg = price /\ r.pnl = 0
  BY DEF Opened
<1>4. paid \in Int
  BY <1>1
<1> HIDE DEF r
<1>5. pos'[t] = r /\ cash'[t] = cash[t] - paid /\ cash' \in [Trades -> Int]
  <2> HIDE DEF paid
  <2> QED
    BY <1>2, <1>4 DEF IInv, Inv, Typed, Balanced
<1>6. cash[t] = 0 /\ cache[t] = 0
  BY <1>2 DEF Balanced
<1>7. SideOf(t)' * pos'[t].qty * pos'[t].avg = paid
  BY <1>3, <1>5 DEF SideOf
<1>8. Book(t)'
  <2>1. cash'[t] + SideOf(t)' * pos'[t].qty * pos'[t].avg = 0
    <3> HIDE DEF paid
    <3> QED
      BY <1>4, <1>5, <1>6, <1>7
  <2>2. pos'[t].pnl - cache'[t] = 0
    BY <1>2, <1>3, <1>5, <1>6
  <2> QED
    BY <2>1, <2>2 DEF Book
<1> QED
  BY <1>2, <1>3, <1>5, <1>8, OneBook DEF IInv, Inv, Typed, Balanced, Exists

\* A fill.
LEMMA FillKeepsBook ==
  ASSUME IInv, Balanced, NEW t \in Trades, NEW q \in 1..MaxUnits, NEW price \in Prices,
         Fill(t, q, price)
  PROVE  Balanced'
<1> DEFINE x == pos[t]
           new == (x.qty * x.avg + q * price) \div (x.qty + q)
           spent == SideOf(t) * q * price
<1>1. q > 0 /\ q \in Nat /\ price \in Int /\ Typed
  BY ManagerAssumption DEF IInv, Inv
<1>2. /\ SideOf(t) \in {1, -1} /\ x.qty \in Nat /\ x.avg \in Int /\ x.pnl \in Int
      /\ cash[t] \in Int /\ cache[t] \in Int
  BY <1>1, Numbers DEF Balanced, IInv, Cached
<1>3. /\ pos' = [pos EXCEPT ![t].qty = @ + q, ![t].avg = new]
      /\ cash' = [cash EXCEPT ![t] = @ - spent] /\ cache' = cache
      /\ (x.qty * x.avg + q * price) % (x.qty + q) = 0 /\ Exists(pos, t)
  BY <1>1 DEF Fill, UpdateFill, Pays, ExactAverage
<1>4. x.pnl - cache[t] = (cash[t] - spent) + SideOf(t) * (x.qty + q) * new
  <2>1. x.pnl - cache[t] = cash[t] + SideOf(t) * x.qty * x.avg
    BY DEF Balanced, Book
  <2>2. x.pnl - cache[t] \in Int
    BY <1>2
  <2> QED
    BY <1>1, <1>2, <1>3, <2>1, <2>2, FillBalances
<1>5. spent \in Int
  BY <1>1, <1>2
<1> HIDE DEF new, spent
<1>6. /\ pos'[t].qty = x.qty + q /\ pos'[t].avg = new /\ pos'[t].pnl = x.pnl
      /\ pos'[t].direction = x.direction /\ pos'[t].status = x.status
      /\ \A u \in Trades \ {t} : pos'[u] = pos[u]
  <2>1. x \in Records
    BY <1>1 DEF Typed
  <2> QED
    BY <1>1, <1>3, <2>1 DEF Typed, Records
<1>7. /\ cash'[t] = cash[t] - spent /\ cash' \in [Trades -> Int]
      /\ \A u \in Trades \ {t} : cash'[u] = cash[u]
  BY <1>2, <1>3, <1>5 DEF Balanced
<1>8. Book(t)'
  BY <1>3, <1>4, <1>6, <1>7 DEF Book, SideOf
<1> QED
  BY <1>3, <1>6, <1>7, <1>8, OneBook DEF Exists

\* An exit, in part or for good.
LEMMA ExitKeepsBook ==
  ASSUME IInv, Balanced, NEW t \in Trades, NEW q \in 1..MaxUnits, NEW price \in Prices,
         NEW status \in {"PARTIALLY_CLOSED", "CLOSED"}, q <= pos[t].qty, Exists(pos, t),
         pos' = [pos EXCEPT ![t].qty = @ - q, ![t].status = status,
                            ![t].pnl = @ + Pnl(pos[t].direction, pos[t].avg, price, q)],
         Pays(t, -(SideOf(t) * q * price)), cache' = cache
  PROVE  Balanced'
<1> DEFINE x == pos[t]
           profit == Pnl(x.direction, x.avg, price, q)
           paid == SideOf(t) * q * price
<1>1. q > 0 /\ q \in Nat /\ price \in Int /\ Typed
  BY ManagerAssumption DEF IInv, Inv
<1>2. /\ SideOf(t) \in {1, -1} /\ x.qty \in Nat /\ x.avg \in Int /\ x.pnl \in Int
      /\ cash[t] \in Int /\ cache[t] \in Int /\ x.direction \in {"BUY", "SELL"}
  BY <1>1, Numbers DEF Balanced, IInv, Cached
<1>3. (x.pnl - cache[t]) + profit = (cash[t] + paid) + SideOf(t) * (x.qty - q) * x.avg
  <2>1. x.pnl - cache[t] = cash[t] + SideOf(t) * x.qty * x.avg
    BY DEF Balanced, Book
  <2>2. x.pnl - cache[t] \in Int
    BY <1>2
  <2>3. profit = (price - x.avg) * q * SideOf(t)
    BY DEF Pnl, SideOf
  <2>4. (x.pnl - cache[t]) + (price - x.avg) * q * SideOf(t)
          = (cash[t] + SideOf(t) * q * price) + SideOf(t) * (x.qty - q) * x.avg
    <3> DEFINE before == x.pnl - cache[t]
               qty == x.qty
               avg == x.avg
               s == SideOf(t)
               money == cash[t]
    <3>1. /\ before \in Int /\ qty \in Nat /\ avg \in Int /\ s \in {1, -1} /\ money \in Int
          /\ before = money + s * qty * avg
      BY <1>2, <2>1, <2>2
    <3> HIDE DEF before, qty, avg, s, money
    <3>2. before + (price - avg) * q * s = (money + s * q * price) + s * (qty - q) * avg
      BY <1>1, <3>1, ExitBalances
    <3> QED
      BY <3>2 DEF before, qty, avg, s, money
  <2> QED
    BY <2>3, <2>4
<1>4. paid \in Int /\ profit \in Int
  BY <1>1, <1>2, PnlInt
<1>5. cash' = [cash EXCEPT ![t] = @ - (-paid)]
  BY DEF Pays
<1>6. pos' = [pos EXCEPT ![t].qty = @ - q, ![t].status = status, ![t].pnl = @ + profit]
  OBVIOUS
<1> HIDE DEF profit, paid
<1>7. /\ pos'[t].qty = x.qty - q /\ pos'[t].avg = x.avg /\ pos'[t].pnl = x.pnl + profit
      /\ pos'[t].direction = x.direction /\ pos'[t].status = status
      /\ \A u \in Trades \ {t} : pos'[u] = pos[u]
  <2> DEFINE n == x.qty - q
             m == x.pnl + profit
             r == [x EXCEPT !.qty = n, !.status = status, !.pnl = m]
  <2>1. x \in Records /\ n \in Nat /\ m \in Int
    BY <1>1, <1>2, <1>4 DEF Typed
  <2>2. pos'[t] = r /\ \A u \in Trades \ {t} : pos'[u] = pos[u]
    BY <1>1, <1>6 DEF Typed
  <2> HIDE DEF n, m
  <2>3. /\ r.qty = n /\ r.avg = x.avg /\ r.pnl = m
        /\ r.direction = x.direction /\ r.status = status
    BY <2>1 DEF Records
  <2> QED
    BY <2>2, <2>3 DEF n, m
<1>8. /\ cash'[t] = cash[t] + paid /\ cash' \in [Trades -> Int]
      /\ \A u \in Trades \ {t} : cash'[u] = cash[u]
  BY <1>2, <1>4, <1>5 DEF Balanced
<1>9. pos'[t].pnl - cache'[t] = (x.pnl - cache[t]) + profit
  BY <1>2, <1>4, <1>7
<1>10. Book(t)'
  BY <1>3, <1>7, <1>8, <1>9 DEF Book, SideOf
<1> QED
  BY <1>7, <1>8, <1>10, OneBook DEF Exists

\* A mark changes profit and cache by the same amount.
LEMMA MarkBalances ==
  ASSUME IInv, Balanced, NEW t \in Trades, NEW price \in Prices, Mark(t, price)
  PROVE  Balanced'
<1> DEFINE new == Unrealised(t, price)
<1>1. /\ pos' = [pos EXCEPT ![t].pnl = @ + (new - cache[t])]
      /\ cache' = [cache EXCEPT ![t] = new]
      /\ cash' = cash /\ Exists(pos, t)
  BY DEF Mark
<1>2. Typed /\ new \in Int /\ cache[t] \in Int /\ pos[t].pnl \in Int /\ pos[t] \in Records
  BY UnrealisedInt, Numbers DEF IInv, Inv, Typed, Cached
<1> HIDE DEF new
<1>3. /\ pos'[t].pnl = pos[t].pnl + (new - cache[t])
      /\ pos'[t].qty = pos[t].qty /\ pos'[t].avg = pos[t].avg
      /\ pos'[t].direction = pos[t].direction /\ pos'[t].status = pos[t].status
      /\ \A u \in Trades \ {t} : pos'[u] = pos[u]
  BY <1>1, <1>2 DEF Typed, Records
<1>4. cache'[t] = new /\ \A u \in Trades \ {t} : cache'[u] = cache[u]
  BY <1>1 DEF IInv, Cached
<1>5. pos'[t].pnl - cache'[t] = pos[t].pnl - cache[t]
  BY <1>2, <1>3, <1>4
<1>6. Book(t)'
  BY <1>1, <1>3, <1>5 DEF Balanced, Book, SideOf
<1> QED
  BY <1>1, <1>3, <1>4, <1>6, OneBook DEF Exists, Balanced

\* A call that touches neither quantity, average, profit nor cash.
LEMMA NothingBooked ==
  ASSUME Balanced, cash' = cash, cache' = cache,
         \A t \in Trades : /\ pos'[t].qty = pos[t].qty /\ pos'[t].avg = pos[t].avg
                           /\ pos'[t].pnl = pos[t].pnl /\ pos'[t].status = pos[t].status
                           /\ pos'[t].direction = pos[t].direction
  PROVE  Balanced'
BY DEF Balanced, Book, SideOf, Exists

\* Moving a stop-loss is such a call.
LEMMA StopBooksNothing ==
  ASSUME Typed, Balanced, NEW t \in Trades, NEW n, pos' = [pos EXCEPT ![t].sl = n],
         cash' = cash, cache' = cache
  PROVE  Balanced'
<1>1. \A u \in Trades : /\ pos'[u].qty = pos[u].qty /\ pos'[u].avg = pos[u].avg
                        /\ pos'[u].pnl = pos[u].pnl /\ pos'[u].status = pos[u].status
                        /\ pos'[u].direction = pos[u].direction
  BY DEF Typed, Records
<1> QED
  BY <1>1, NothingBooked

\* The accounting identity is inductive.
LEMMA StepBalanced == IInv /\ Balanced /\ [Next]_vars => Balanced'
<1> SUFFICES ASSUME IInv, Balanced, [Next]_vars PROVE Balanced'
  OBVIOUS
<1>1. Typed /\ Inv
  BY DEF IInv, Inv
<1>2. ASSUME cash' = cash, cache' = cache, pos' = pos PROVE Balanced'
  BY <1>2, NothingBooked
<1>3. ASSUME NEW t \in Trades, NEW price \in Prices, NEW q \in 1..MaxUnits, Traded(t, q, price)
      PROVE  Balanced'
  <2>1. price > 0 /\ q > 0
    BY ManagerAssumption
  <2>2. ASSUME NEW d \in {"BUY", "SELL"}, Open(t, d, q, price) PROVE Balanced'
    BY <2>2, OpenBalances
  <2>3. CASE Fill(t, q, price)
    BY <2>3, FillKeepsBook
  <2>4. CASE ExitPart(t, q, price)
    <3>1. /\ q <= pos[t].qty /\ Exists(pos, t) /\ cache' = cache
          /\ Pays(t, -(SideOf(t) * q * price)) /\ pos' = PartialExit(pos, t, q, price)
      BY <2>4 DEF ExitPart
    <3>2. ~(~Exists(pos, t) \/ q <= 0 \/ price <= 0 \/ q > pos[t].qty)
      BY <1>1, <2>1, <3>1, ManagerAssumption DEF Typed, Records
    <3> QED
      BY <3>1, <3>2, ExitKeepsBook DEF PartialExit
  <2>5. CASE Close(t, q, price)
    <3>1. /\ q <= pos[t].qty /\ Exists(pos, t) /\ cache' = cache
          /\ Pays(t, -(SideOf(t) * q * price)) /\ pos' = ClosePosition(pos, t, q, price)
      BY <2>5 DEF Close
    <3>2. ~(~Exists(pos, t) \/ q <= 0 \/ price <= 0 \/ q > pos[t].qty)
      BY <1>1, <2>1, <3>1, ManagerAssumption DEF Typed, Records
    <3> QED
      BY <3>1, <3>2, ExitKeepsBook DEF ClosePosition
  <2> QED
    BY <1>3, <2>2, <2>3, <2>4, <2>5 DEF Traded
<1>4. ASSUME NEW t \in Trades, NEW price \in Prices, Watched(t, price) PROVE Balanced'
  <2>1. CASE Mark(t, price)
    BY <2>1, MarkBalances
  <2>2. CASE MoveStop(t, price)
    <3>1. cash' = cash /\ cache' = cache
      BY <2>2 DEF MoveStop
    <3>2. pos' = pos \/ pos' = [pos EXCEPT ![t].sl = price]
      BY <2>2 DEF MoveStop, SetSl
    <3> QED
      BY <1>1, <1>2, <3>1, <3>2, StopBooksNothing
  <2>3. CASE UpdateTrail(t, price)
    <3>1. cash' = cash /\ cache' = cache
      BY <2>3 DEF UpdateTrail
    <3>2. pos' = pos \/ \E n \in Int : pos' = [pos EXCEPT ![t].sl = n]
      BY <1>1, <2>3, TrailUpdated DEF Trails
    <3> QED
      BY <1>1, <1>2, <3>1, <3>2, StopBooksNothing
  <2>4. CASE CheckBreakeven(t, price)
    BY <1>1, <2>4, StopBooksNothing DEF CheckBreakeven
  <2>5. CASE \E n \in Ticks : ActivateTrail(t, price, n) \/ ActivateBreakeven(t, n)
    BY <1>2, <2>5 DEF ActivateTrail, ActivateBreakeven
  <2> QED
    BY <1>4, <2>1, <2>2, <2>3, <2>4, <2>5 DEF Watched
<1>5. CASE UNCHANGED vars
  BY <1>2, <1>5 DEF vars
<1> QED
  BY <1>3, <1>4, <1>5 DEF Next

\* Profit, marks, cash and position agree, for any number of trades and calls.
THEOREM Balance == Spec => []BooksBalance
<1>1. Init => Balanced
  BY DEF Init, Balanced, Book, Exists, InitPositions, NoPosition, NoPrice, SideOf, Sign
<1>2. Balanced => BooksBalance
  BY DEF Balanced, Book, BooksBalance
<1> QED
  BY Inductive, StepBalanced, <1>1, <1>2, PTL DEF Spec

\* The money of a trade is a number, its units stay in their bound.
Accounts == cash \in [Trades -> Int] /\ units \in [Trades -> 0..MaxUnits]

\* Every step keeps the accounts.
LEMMA StepAccounts ==
  ASSUME IInv, Accounts, [Next]_vars
  PROVE  Accounts'
<1>1. CASE UNCHANGED vars
  BY <1>1 DEF vars, Accounts
<1>2. ASSUME NEW t \in Trades, NEW price \in Prices, Watched(t, price) PROVE Accounts'
  BY <1>2 DEF Watched, Mark, MoveStop, UpdateTrail, CheckBreakeven, ActivateTrail,
              ActivateBreakeven, Accounts
<1>3. ASSUME NEW t \in Trades, NEW price \in Prices, NEW q \in 1..MaxUnits, Traded(t, q, price)
      PROVE  Accounts'
  <2>1. /\ q \in Int /\ price \in Int /\ q <= MaxUnits /\ q > 0 /\ MaxUnits \in Nat
        /\ SideOf(t) \in Int /\ units[t] \in 0..MaxUnits /\ cash[t] \in Int
    BY ManagerAssumption, SideIsSign DEF IInv, Inv, Accounts
  <2>2. ASSUME NEW s \in Int PROVE s * q * price \in Int
    BY <2>1
  <2>3. ASSUME NEW amount \in Int, Pays(t, amount) PROVE cash' \in [Trades -> Int]
    BY <2>1, <2>3 DEF Pays, Accounts
  <2>4. ASSUME NEW d \in {"BUY", "SELL"}, Open(t, d, q, price) PROVE Accounts'
    <3>1. Sign(d) \in Int
      BY DEF Sign
    <3>2. Pays(t, Sign(d) * q * price) /\ units' = [units EXCEPT ![t] = q]
      BY <2>4 DEF Open
    <3>3. cash' \in [Trades -> Int]
      BY <2>2, <2>3, <3>1, <3>2
    <3>4. q \in 0..MaxUnits
      BY <2>1
    <3>5. units' \in [Trades -> 0..MaxUnits]
      BY <3>2, <3>4 DEF Accounts
    <3> QED BY <3>3, <3>5 DEF Accounts
  <2>5. CASE Fill(t, q, price)
    <3>1. /\ Pays(t, SideOf(t) * q * price)
          /\ units' = [units EXCEPT ![t] = @ + q] /\ units[t] + q <= MaxUnits
      BY <2>5 DEF Fill
    <3>2. cash' \in [Trades -> Int]
      BY <2>1, <2>2, <2>3, <3>1
    <3>3. units' = [units EXCEPT ![t] = units[t] + q] /\ units[t] + q \in 0..MaxUnits
      BY <2>1, <3>1 DEF Accounts
    <3> QED BY <3>2, <3>3 DEF Accounts
  <2>6. CASE ExitPart(t, q, price) \/ Close(t, q, price)
    <3>1. Pays(t, -(SideOf(t) * q * price)) /\ units' = units
      BY <2>6 DEF ExitPart, Close
    <3>2. -(SideOf(t) * q * price) \in Int
      BY <2>1, <2>2
    <3>3. cash' \in [Trades -> Int]
      BY <2>3, <3>1, <3>2
    <3> QED BY <3>1, <3>3 DEF Accounts
  <2> QED BY <1>3, <2>4, <2>5, <2>6 DEF Traded
<1> QED BY <1>1, <1>2, <1>3 DEF Next

\* Type correctness: no trade is filled beyond the bound.
THEOREM PositionTypes == Spec => []TypeOK
<1>1. Init => Accounts
  BY ManagerAssumption DEF Init, Accounts
<1>2. IInv /\ Accounts => TypeOK
  BY DEF IInv, Inv, Typed, Records, Trails, Cached, Guarded, Accounts, TypeOK
<1>3. IInv /\ Accounts /\ [Next]_vars => Accounts'
  BY StepAccounts
<1> QED BY Inductive, <1>1, <1>2, <1>3, PTL DEF Spec

=============================================================================
