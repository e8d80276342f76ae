------------------------- MODULE OrchestratorProofs -------------------------
(***************************************************************************)
(* The orchestrator for any trades, orders, prices, lots and disturbances: *)
(* its state keeps its types, every step of it is a step of TradeLedger or *)
(* none, whose books are backed, and what holds only while certain         *)
(* disturbances stay away.                                                 *)
(***************************************************************************)
EXTENDS ExecutionOrchestrator, Integers, TLAPS

-----------------------------------------------------------------------------
(* The execution core's operators keep its type. *)

LEMMA AfterType ==
  ASSUME NEW s \in States, NEW e \in Events
  PROVE  After(s, e) \in States
  BY DEF After, Events, Destination, States, ActiveStates

LEMMA CountFailureType ==
  ASSUME NEW c \in CoreStates
  PROVE  CountFailure(c) \in CoreStates
<1> DEFINE b == IF c.breaker = "closed" /\ c.failures + 1 >= Threshold
                  THEN "open" ELSE c.breaker
<1>1. b \in Breaker /\ c.failures + 1 \in Nat
  BY DEF CoreStates, Breaker
<1>2. CountFailure(c) = [c EXCEPT !.failures = c.failures + 1, !.breaker = b]
  BY DEF CountFailure
<1> HIDE DEF b
<1> QED BY <1>1, <1>2 DEF CoreStates

LEMMA CircuitCheckedType ==
  ASSUME NEW c \in CoreStates
  PROVE  CircuitChecked(c) \in CoreStates
  BY DEF CircuitChecked, CoreStates, Breaker

LEMMA TrackType ==
  ASSUME NEW c \in CoreStates, NEW n \in OrderIds, NEW a \in Statuses
  PROVE  Track(c, n, a) \in CoreStates
  BY DEF Track, CoreStates

LEMMA MarkType ==
  ASSUME NEW c \in CoreStates, NEW o \in OrderIds, NEW a \in Statuses
  PROVE  /\ [c EXCEPT !.status[o] = a] \in CoreStates
         /\ [c EXCEPT !.status[o] = a].breaker = c.breaker
  BY DEF CoreStates

LEMMA CountRetryType ==
  ASSUME NEW c \in CoreStates, NEW o \in OrderIds
  PROVE  [c EXCEPT !.retries[o] = @ + 1] \in CoreStates
  BY DEF CoreStates

\* An answer that has an order has an id, one of the broker's.
Numbered(answer, n) ==
  /\ answer \in Answers
  /\ n \in OrderIds \cup {NoOrder}
  /\ answer \in {"ACKNOWLEDGED", "REJECTED"} => n \in OrderIds

\* A rejection moves the machine to where REJECTED leads, or not at all.
LEMMA RejectionType ==
  ASSUME NEW c \in CoreStates, NEW s \in States, NEW o \in OrderIds, NEW rec,
         NEW answer, NEW n, Numbered(answer, n)
  PROVE  LET r == Rejection(c, s, o, rec, answer, n) IN
         r.core \in CoreStates /\ r.sm \in {s, After(s, "REJECTED")}
<1> DEFINE m == [c EXCEPT !.status[o] = "REJECTED"]
           d == CountFailure(m)
           e == CircuitChecked(d)
           f == [e EXCEPT !.retries[o] = @ + 1]
           r == Rejection(c, s, o, rec, answer, n)
<1>1. m \in CoreStates
  BY MarkType DEF Statuses
<1>2. d \in CoreStates
  <2> HIDE DEF m
  <2> QED BY <1>1, CountFailureType
<1>3. e \in CoreStates
  <2> HIDE DEF d
  <2> QED BY <1>2, CircuitCheckedType
<1>4. f \in CoreStates
  <2> HIDE DEF e
  <2> QED BY <1>3, CountRetryType
<1>5. r \in {Retry(e, s, o, answer, n), FailOrder(e, s), FailOrder(d, s)}
  BY DEF Rejection
<1>6. CASE r = FailOrder(e, s) \/ r = FailOrder(d, s)
  <2> HIDE DEF d, e, r
  <2>1. CircuitChecked(e) \in CoreStates /\ CircuitChecked(d) \in CoreStates
    BY <1>2, <1>3, CircuitCheckedType
  <2> QED BY <1>6, <2>1 DEF FailOrder, r
<1>7. CASE r = Retry(e, s, o, answer, n)
  <2>1. CASE answer = "raises"
    <3> HIDE DEF f, r
    <3>1. r.core = CountFailure(f) /\ r.sm = s
      BY <1>7, <2>1 DEF Retry, f
    <3> QED BY <1>4, <3>1, CountFailureType DEF r
  <2>2. CASE answer = "empty"
    <3> HIDE DEF f, r
    <3>1. r.core = f /\ r.sm = s
      BY <1>7, <2>2 DEF Retry, f
    <3> QED BY <1>4, <3>1 DEF r
  <2>3. CASE answer \in {"ACKNOWLEDGED", "REJECTED"}
    <3> HIDE DEF f, r
    <3>1. r.core = Track(f, n, answer) /\ r.sm = s
      BY <1>7, <2>3 DEF Retry, f
    <3>2. answer \in Statuses /\ n \in OrderIds
      BY <2>3 DEF Statuses, Numbered
    <3> QED BY <1>4, <3>1, <3>2, TrackType DEF r
  <2> QED BY <2>1, <2>2, <2>3 DEF Numbered, Answers
<1> QED BY <1>5, <1>6, <1>7

\* A submission from RISK_PASSED gets to ORDER_PENDING, and to FAILED when its
\* order is rejected and not retried; a submission that raises leaves
\* RISK_PASSED, or ORDER_PENDING when it was the retry that raised.
LEMMA SubmitType ==
  ASSUME NEW c \in CoreStates, NEW rec, NEW answer, NEW n, NEW again, NEW m,
         Numbered(answer, n), Numbered(again, m)
  PROVE  LET r == Submit(c, "RISK_PASSED", answer, n, rec, again, m) IN
         /\ r.core \in CoreStates
         /\ r.sm \in {"RISK_PASSED", "ORDER_PENDING", "FAILED"}
         /\ ~r.raised => r.id \in OrderIds
         /\ answer = "ACKNOWLEDGED" =>
              ~r.raised /\ r.id = n /\ r.sm = "ORDER_PENDING"
<1> DEFINE r == Submit(c, "RISK_PASSED", answer, n, rec, again, m)
           s == After("RISK_PASSED", "ORDER_SUBMITTED")
<1>1. CanTransition("RISK_PASSED", "ORDER_SUBMITTED")
  BY DEF CanTransition, Sources
<1>2. s = "ORDER_PENDING" /\ s \in States
  BY <1>1 DEF After, Destination, States, ActiveStates
<1>3. CASE answer \in {"raises", "empty"}
  BY <1>3 DEF Submit
<1>4. CASE answer = "ACKNOWLEDGED"
  <2>1. n \in OrderIds /\ answer \in Statuses
    BY <1>4 DEF Numbered, Statuses
  <2>2. r = [core |-> Track(c, n, answer), sm |-> s, raised |-> FALSE, id |-> n]
    BY <1>1, <1>4 DEF Submit
  <2>3. Track(c, n, answer) \in CoreStates
    BY <2>1, TrackType
  <2> HIDE DEF r, s
  <2> QED BY <1>2, <1>4, <2>1, <2>2, <2>3 DEF r
<1>5. CASE answer = "REJECTED"
  <2> DEFINE q == Rejection(Track(c, n, answer), s, n, rec, again, m)
  <2>1. n \in OrderIds /\ answer \in Statuses
    BY <1>5 DEF Numbered, Statuses
  <2>2. r = [core |-> q.core, sm |-> q.sm, raised |-> q.raised, id |-> n]
    BY <1>1, <1>5 DEF Submit
  <2>3. Track(c, n, answer) \in CoreStates
    BY <2>1, TrackType
  <2>4. q.core \in CoreStates /\ q.sm \in {s, After(s, "REJECTED")}
    <3> HIDE DEF s
    <3> QED BY <1>2, <2>1, <2>3, RejectionType
  <2>5. After(s, "REJECTED") = "FAILED"
    BY <1>2 DEF After, CanTransition, Sources, Destination
  <2> HIDE DEF r, s, q
  <2> QED BY <1>2, <1>5, <2>1, <2>2, <2>4, <2>5 DEF r
<1> QED BY <1>3, <1>4, <1>5 DEF Numbered, Answers

-----------------------------------------------------------------------------
(* The order manager's operators keep its type. *)

LEMMA RegisterType ==
  ASSUME NEW m \in Olm!Managers, NEW o \in OrderIds, NEW t \in Trades
  PROVE  Olm!RegisterOrder(m, o, t) \in Olm!Managers
<1> DEFINE r == [trade |-> t, state |-> "PLACED", filled |-> 0]
<1>1. r \in [trade : Trades \cup {NoTrade}, state : Olm!OrderStates, filled : Nat]
  BY DEF Olm!OrderStates
<1> HIDE DEF r
<1>2. [m EXCEPT !.order[o] = r] \in Olm!Managers
  BY <1>1 DEF Olm!Managers
<1> QED BY <1>2 DEF Olm!RegisterOrder, r

LEMMA UpdateStateType ==
  ASSUME NEW m \in Olm!Managers, NEW o \in OrderIds, NEW s \in Olm!OrderStates
  PROVE  Olm!UpdateState(m, o, s) \in Olm!Managers
<1>1. [m EXCEPT !.order[o].state = s] \in Olm!Managers
  BY DEF Olm!Managers
<1> QED BY <1>1 DEF Olm!UpdateState

LEMMA PartialFillType ==
  ASSUME NEW m \in Olm!Managers, NEW o \in OrderIds, NEW n \in Nat
  PROVE  Olm!HandlePartialFill(m, o, n) \in Olm!Managers
<1> DEFINE target == IF n = 1 THEN "FILLED" ELSE "PARTIAL_FILL"
           d == [m EXCEPT !.order[o].filled = n]
           e == Olm!UpdateState(d, o, target)
<1>1. target \in Olm!OrderStates
  BY DEF Olm!OrderStates, Olm!Terminal
<1>2. d \in Olm!Managers
  BY DEF Olm!Managers
<1>3. e \in Olm!Managers
  <2> HIDE DEF target, d
  <2> QED BY <1>1, <1>2, UpdateStateType
<1>4. Olm!AdjustLink(e, o, n) \in Olm!Managers
  <2> HIDE DEF target, d, e
  <2> DEFINE l == [e.link[o] EXCEPT !.qty = n]
  <2>1. l \in [trade : Trades \cup {NoTrade}, qty : Nat]
    BY <1>3 DEF Olm!Managers
  <2>2. [e EXCEPT !.link[o].qty = n] = [e EXCEPT !.link[o] = l]
    BY <1>3 DEF Olm!Managers
  <2> HIDE DEF l
  <2>3. [e EXCEPT !.link[o] = l] \in Olm!Managers
    BY <1>3, <2>1 DEF Olm!Managers
  <2> QED BY <1>3, <2>2, <2>3 DEF Olm!AdjustLink
<1>5. Olm!HandlePartialFill(m, o, n) \in {m, d, Olm!AdjustLink(e, o, n)}
  BY DEF Olm!HandlePartialFill
<1> HIDE DEF d, e
<1> QED BY <1>2, <1>4, <1>5

LEMMA StageType ==
  ASSUME NEW m \in Olm!Managers, NEW o \in OrderIds, NEW t \in Trades, NEW q \in Nat
  PROVE  Olm!StageProtection(m, t, o, q).book \in Olm!Managers
<1> DEFINE d == [m EXCEPT !.legs[t] = q]
           l == [trade |-> t, qty |-> q]
           e == [d EXCEPT !.link[o] = l]
<1>1. d \in Olm!Managers
  BY DEF Olm!Managers
<1>2. e \in Olm!Managers
  <2> HIDE DEF d
  <2>1. l \in [trade : Trades \cup {NoTrade}, qty : Nat]
    OBVIOUS
  <2> HIDE DEF l
  <2> QED BY <1>1, <2>1 DEF Olm!Managers
<1> DEFINE x == Olm!StageProtection(m, t, o, q)
<1>3. \/ x = [book |-> m, raised |-> TRUE]
      \/ x = [book |-> d, raised |-> TRUE]
      \/ x = [book |-> e, raised |-> FALSE]
  BY DEF Olm!StageProtection
<1> HIDE DEF d, e, x, l
<1>4. x.book \in Olm!Managers
  BY <1>1, <1>2, <1>3
<1> QED BY <1>4 DEF x

-----------------------------------------------------------------------------
(* What the position manager's operators do to the books: at most the       *)
(* position of trade t changes, in the way each lemma says.                  *)

Books == Pm!PositionBooks

PositionRecords ==
  [status : Pm!PositionStatuses, direction : {"BUY", "SELL"}, qty : Nat, avg : Int, sl : Nat,
   pnl : Int]

\* Only the position of trade t differs between the books p and d.
OnlyAt(p, d, t) == d \in Books /\ \A u \in Trades \ {t} : d[u] = p[u]

LEMMA Replaced ==
  ASSUME NEW p \in Books, NEW t \in Trades, NEW r \in PositionRecords
  PROVE  LET d == [p EXCEPT ![t] = r] IN OnlyAt(p, d, t) /\ d[t] = r
  BY DEF Books, Pm!PositionBooks, PositionRecords, OnlyAt

LEMMA OpenFact ==
  ASSUME NEW p \in Books, NEW t \in Trades, NEW side \in {"BUY", "SELL"}, NEW q \in Nat,
         NEW price \in Nat
  PROVE  LET d == Pm!OpenPosition(p, t, side, q, price) IN
         /\ OnlyAt(p, d, t)
         /\ \/ d = p
            \/ /\ p[t].status = "none" /\ \A u \in Trades : ~Pm!IsOpen(p[u])
               /\ d[t].status = "OPEN" /\ d[t].qty = q /\ q > 0 /\ d[t].avg = price
         /\ p[t].status = "none" /\ (\A u \in Trades : ~Pm!IsOpen(p[u])) /\ q > 0 /\ price > 0
              => d[t].status = "OPEN"
<1> DEFINE r == Pm!Opened(side, q, price)
           d == Pm!OpenPosition(p, t, side, q, price)
           e == [p EXCEPT ![t] = r]
<1>1. d = IF Pm!Exists(p, t) \/ Pm!ActivePositions(p) # {} \/ q <= 0 \/ price <= 0 THEN p ELSE e
  BY DEF Pm!OpenPosition
<1>2. r \in PositionRecords /\ r.status = "OPEN" /\ r.qty = q /\ r.avg = price
  BY DEF Pm!Opened, Pm!NoPrice, PositionRecords, Pm!PositionStatuses
<1> HIDE DEF d
<1>3. OnlyAt(p, e, t) /\ e[t].status = "OPEN" /\ e[t].qty = q /\ e[t].avg = price
  <2> HIDE DEF r
  <2> QED BY <1>2, Replaced
<1>4. Pm!ActivePositions(p) = {} <=> \A u \in Trades : ~Pm!IsOpen(p[u])
  BY DEF Pm!ActivePositions
<1>5. OnlyAt(p, p, t)
  BY DEF OnlyAt
<1> HIDE DEF e
<1> QED BY <1>1, <1>3, <1>4, <1>5 DEF Pm!Exists, d

\* Quotients, products and sums of integers are integers.
LEMMA AverageType ==
  ASSUME NEW a \in Int, NEW b \in Int, NEW c \in Nat \ {0}
  PROVE  (a + b) \div c \in Int
  OBVIOUS

LEMMA ProductType ==
  ASSUME NEW a \in Int, NEW b \in Int
  PROVE  a * b \in Int
  OBVIOUS

LEMMA UpdateFillFact ==
  ASSUME NEW p \in Books, NEW t \in Trades, NEW q \in Nat \ {0}, NEW price \in Nat
  PROVE  LET d == Pm!UpdateFill(p, t, q, price) IN
         /\ OnlyAt(p, d, t)
         /\ d[t].status = p[t].status
         /\ d[t].qty = IF p[t].status # "none" THEN p[t].qty + q ELSE p[t].qty
<1> DEFINE a == (p[t].qty * p[t].avg + q * price) \div (p[t].qty + q)
           n == p[t].qty + q
           r == [p[t] EXCEPT !.qty = n, !.avg = a]
           e == [p EXCEPT ![t] = r]
           d == Pm!UpdateFill(p, t, q, price)
<1>1. p[t] \in PositionRecords /\ p[t].qty \in Nat /\ p[t].avg \in Int
  BY DEF Books, Pm!PositionBooks, PositionRecords
<1>2. n \in Nat \ {0}
  BY <1>1
<1>3. a \in Int
  BY <1>1, <1>2, AverageType, ProductType
<1>4. d = IF Pm!Exists(p, t) THEN e ELSE p
  <2> HIDE DEF a, n
  <2>1. [p EXCEPT ![t].qty = n, ![t].avg = a] = e
    BY <1>1 DEF Books, Pm!PositionBooks
  <2> QED BY <2>1 DEF Pm!UpdateFill, n, a
<1> HIDE DEF a, d
<1>5. n = p[t].qty + q
  OBVIOUS
<1> HIDE DEF n
<1>6. r \in PositionRecords /\ r.status = p[t].status /\ r.qty = n
  BY <1>1, <1>2, <1>3 DEF PositionRecords
<1> HIDE DEF r
<1>7. OnlyAt(p, e, t) /\ e[t].status = p[t].status /\ e[t].qty = n
  BY <1>6, Replaced
<1>8. OnlyAt(p, p, t)
  BY DEF OnlyAt
<1> HIDE DEF e
<1> QED BY <1>4, <1>5, <1>7, <1>8 DEF Pm!Exists, d

LEMMA SetSlFact ==
  ASSUME NEW p \in Books, NEW t \in Trades, NEW price \in Nat
  PROVE  LET d == Pm!SetSl(p, t, price) IN
         /\ OnlyAt(p, d, t)
         /\ d[t].status = p[t].status /\ d[t].qty = p[t].qty /\ d[t].avg = p[t].avg
<1> DEFINE e == [p EXCEPT ![t].sl = price]
<1>1. Pm!SetSl(p, t, price) \in {p, e}
  BY DEF Pm!SetSl
<1>2. /\ e \in Books /\ \A u \in Trades \ {t} : e[u] = p[u]
      /\ e[t].status = p[t].status /\ e[t].qty = p[t].qty /\ e[t].avg = p[t].avg
  BY DEF Books, Pm!PositionBooks
<1> HIDE DEF e
<1> QED BY <1>1, <1>2 DEF OnlyAt

\* Profits are integers.
LEMMA PnlType ==
  ASSUME NEW side, NEW entry \in Int, NEW exit \in Int, NEW q \in Int
  PROVE  Pm!Pnl(side, entry, exit, q) \in Int
<1>1. Pm!Sign(side) \in Int
  BY DEF Pm!Sign
<1>2. exit - entry \in Int
  OBVIOUS
<1> QED BY <1>1, <1>2, ProductType DEF Pm!Pnl

LEMMA ProfitType ==
  ASSUME NEW p \in Books, NEW t \in Trades, NEW q \in Nat, NEW price \in Int
  PROVE  p[t].pnl + Pm!Pnl(p[t].direction, p[t].avg, price, q) \in Int
<1>1. p[t].avg \in Int /\ p[t].pnl \in Int
  BY DEF Books, Pm!PositionBooks
<1>2. Pm!Pnl(p[t].direction, p[t].avg, price, q) \in Int
  BY <1>1, PnlType
<1> QED BY <1>1, <1>2

\* The books after an exit that leaves n units and a profit of w.
Exited(p, t, n, w, kind) == [p EXCEPT ![t].qty = n, ![t].status = kind, ![t].pnl = w]

LEMMA ReducedType ==
  ASSUME NEW p \in Books, NEW t \in Trades, NEW n \in Nat, NEW w \in Int,
         NEW kind \in {"PARTIALLY_CLOSED", "CLOSED"}
  PROVE  /\ OnlyAt(p, Exited(p, t, n, w, kind), t)
         /\ Exited(p, t, n, w, kind)[t].status = kind
         /\ Exited(p, t, n, w, kind)[t].qty = n
<1> DEFINE r == [p[t] EXCEPT !.qty = n, !.status = kind, !.pnl = w]
           e == Exited(p, t, n, w, kind)
<1>1. p[t] \in PositionRecords
  BY DEF Books, Pm!PositionBooks, PositionRecords
<1>2. e = [p EXCEPT ![t] = r]
  BY DEF Books, Pm!PositionBooks, Exited
<1>3. r \in PositionRecords /\ r.status = kind /\ r.qty = n
  <2>1. kind \in Pm!PositionStatuses
    BY DEF Pm!PositionStatuses
  <2>2. r \in PositionRecords
    BY <1>1, <2>1 DEF PositionRecords
  <2> QED BY <1>1, <2>2 DEF PositionRecords
<1> HIDE DEF r, e
<1>4. OnlyAt(p, e, t) /\ e[t].status = kind /\ e[t].qty = n
  BY <1>2, <1>3, Replaced
<1> QED BY <1>4 DEF e

\* An exit takes q units off and leaves the status it names, or is refused.
Reduced(p, d, t, q, kind) ==
  p[t].status # "none" /\ 0 < q /\ q <= p[t].qty /\ d[t].status = kind /\ d[t].qty = p[t].qty - q

LEMMA CloseFact ==
  ASSUME NEW p \in Books, NEW t \in Trades, NEW q \in Nat, NEW price \in Int
  PROVE  LET d == Pm!ClosePosition(p, t, q, price) IN
         /\ OnlyAt(p, d, t)
         /\ d = p \/ Reduced(p, d, t, q, "CLOSED")
         /\ p[t].status # "none" /\ 0 < q /\ q <= p[t].qty /\ price > 0
              => Reduced(p, d, t, q, "CLOSED")
<1> DEFINE d == Pm!ClosePosition(p, t, q, price)
           n == p[t].qty - q
           w == p[t].pnl + Pm!Pnl(p[t].direction, p[t].avg, price, q)
           e == Exited(p, t, n, w, "CLOSED")
<1>1. d = IF p[t].status = "none" \/ q <= 0 \/ price <= 0 \/ q > p[t].qty THEN p ELSE e
  BY DEF Pm!ClosePosition, Pm!Exists, Exited
<1>2. p[t].qty \in Nat /\ w \in Int /\ OnlyAt(p, p, t)
  BY ProfitType DEF Books, Pm!PositionBooks, OnlyAt
<1>3. q <= p[t].qty => OnlyAt(p, e, t) /\ e[t].status = "CLOSED" /\ e[t].qty = n
  <2> HIDE DEF w
  <2>1. q <= p[t].qty => n \in Nat
    BY <1>2
  <2> HIDE DEF n
  <2> QED BY <1>2, <2>1, ReducedType
<1> HIDE DEF d, e
<1> QED BY <1>1, <1>2, <1>3 DEF Reduced, d

LEMMA PartialExitFact ==
  ASSUME NEW p \in Books, NEW t \in Trades, NEW q \in Nat, NEW price \in Int
  PROVE  LET d == Pm!PartialExit(p, t, q, price) IN
         OnlyAt(p, d, t) /\ (d = p \/ Reduced(p, d, t, q, "PARTIALLY_CLOSED"))
<1> DEFINE d == Pm!PartialExit(p, t, q, price)
           n == p[t].qty - q
           w == p[t].pnl + Pm!Pnl(p[t].direction, p[t].avg, price, q)
           e == Exited(p, t, n, w, "PARTIALLY_CLOSED")
<1>1. d = IF p[t].status = "none" \/ q <= 0 \/ price <= 0 \/ q > p[t].qty THEN p ELSE e
  BY DEF Pm!PartialExit, Pm!Exists, Exited
<1>2. p[t].qty \in Nat /\ w \in Int /\ OnlyAt(p, p, t)
  BY ProfitType DEF Books, Pm!PositionBooks, OnlyAt
<1>3. q <= p[t].qty => OnlyAt(p, e, t) /\ e[t].status = "PARTIALLY_CLOSED" /\ e[t].qty = n
  <2> HIDE DEF w
  <2>1. q <= p[t].qty => n \in Nat
    BY <1>2
  <2> HIDE DEF n
  <2> QED BY <1>2, <2>1, ReducedType
<1> HIDE DEF d, e
<1> QED BY <1>1, <1>2, <1>3 DEF Reduced, d

-----------------------------------------------------------------------------
(* The type invariant, with what it takes to keep it: a trade without a      *)
(* position has no units, and the broker works only on orders of decisions   *)
(* that have come to the gate.                                               *)

NoneIsEmpty == \A t \in Trades : pos[t].status = "none" => pos[t].qty = 0

OpenDecided == \A o \in OrderIds : broker[o].open => orderTrade[o] \in seen

IInv == TypeOK /\ NoneIsEmpty /\ OpenDecided

LEMMA InitHolds == Init => IInv
<1> SUFFICES ASSUME Init
             PROVE  IInv
  OBVIOUS
<1>1. sm \in States /\ core \in CoreStates
  BY DEF Init, States, InitCore, CoreStates, Statuses, Breaker
<1>2. olm \in Olm!Managers
  BY DEF Init, Olm!InitManager, Olm!Managers, Olm!NoLink, Olm!OrderStates
<1>3. pos \in Pm!PositionBooks /\ NoneIsEmpty
  BY DEF Init, Pm!InitPositions, Pm!NoPosition, Pm!NoPrice, Pm!PositionBooks,
     Pm!PositionStatuses, NoneIsEmpty
<1>4. broker \in [OrderIds -> [open : BOOLEAN, filled : 0..LotUnits]] /\ OpenDecided
  BY OrchestratorAssumption DEF Init, NotAnOrder, OpenDecided
<1>5. cur \in [trade : Trades \cup {NoTrade}, intent : Trades \cup {NoTrade},
               order : OrderIds \cup {NoOrder}, staged : BOOLEAN]
  BY DEF Init, NoTracking
<1>6. TypeOK
  BY <1>1, <1>2, <1>3, <1>4, <1>5 DEF Init, TypeOK
<1> QED
  BY <1>3, <1>4, <1>6 DEF IInv

\* The answers the actions choose are numbered as the broker numbers its orders.
LEMMA AnswerNumbered ==
  ASSUME NEW c, NEW answer \in Answers, NEW n \in OrderIds \cup {NoOrder},
         AnswerId(c, answer, n)
  PROVE  Numbered(answer, n)
  BY DEF AnswerId, IsNextId, Numbered

LEMMA RetryNumbered ==
  ASSUME NEW c, NEW o, NEW rec, NEW answer \in Answers, NEW n \in OrderIds \cup {NoOrder},
         RetryAnswer(c, o, rec, answer, n)
  PROVE  Numbered(answer, n)
<1>1. CASE AnswerId(CircuitChecked(CountFailure(c)), answer, n) \/ AnswerId(c, answer, n)
  BY <1>1, AnswerNumbered
<1>2. CASE answer = "empty" /\ n = NoOrder
  BY <1>2 DEF Numbered
<1> QED BY <1>1, <1>2 DEF RetryAnswer

LEMMA SwitchType ==
  ASSUME TypeOK, NEW d, TripSwitch(d)
  PROVE  ks' \in {"NORMAL", "SOFT_ACTIVE", "CRITICAL_ACTIVE"}
  BY DEF TripSwitch, TypeOK

LEMMA SubmittedKeeps ==
  ASSUME IInv, UNCHANGED weather, NEW t \in Trades, DecisionSubmitted(t)
  PROVE  IInv'
<1>1. PICK answer \in Answers, again \in Answers, n \in OrderIds \cup {NoOrder},
           m \in OrderIds \cup {NoOrder}, rec \in BOOLEAN :
        /\ AnswerId(core, answer, n)
        /\ IF answer = "REJECTED"
             THEN RetryAnswer(Track(core, n, answer), n, rec, again, m)
             ELSE again = "empty" /\ m = NoOrder /\ ~rec
        /\ Submitted(t, answer, n, rec, again, m)
  BY DEF DecisionSubmitted
<1> DEFINE r == Submit(core, "RISK_PASSED", answer, n, rec, again, m)
<1>2. Numbered(answer, n) /\ Numbered(again, m)
  BY <1>1, AnswerNumbered, RetryNumbered DEF Numbered
<1>3. /\ r.core \in CoreStates /\ r.sm \in {"RISK_PASSED", "ORDER_PENDING", "FAILED"}
      /\ ~r.raised => r.id \in OrderIds
  BY <1>2, SubmitType DEF IInv, TypeOK
<1>4. /\ core' = r.core /\ sm' = r.sm /\ TripSwitch(r.core)
      /\ IF r.raised THEN cur' = [cur EXCEPT !.intent = t] /\ olm' = olm
         ELSE /\ cur' = [cur EXCEPT !.trade = t, !.intent = t, !.order = r.id]
              /\ olm' = Olm!RegisterOrder(olm, r.id, t)
  BY <1>1 DEF Submitted
<1> HIDE DEF r
<1>5. seen' = seen \cup {t} /\ UNCHANGED <<pos, esc, mode, held>>
  BY DEF DecisionSubmitted
<1>6. core' \in CoreStates /\ sm' \in States
  BY <1>3, <1>4 DEF States, ActiveStates
<1>7. ks' \in {"NORMAL", "SOFT_ACTIVE", "CRITICAL_ACTIVE"}
  BY <1>4, SwitchType DEF IInv
<1>8. cur' \in [trade : Trades \cup {NoTrade}, intent : Trades \cup {NoTrade},
                order : OrderIds \cup {NoOrder}, staged : BOOLEAN]
  BY <1>3, <1>4 DEF IInv, TypeOK
<1>9. olm' \in Olm!Managers
  BY <1>3, <1>4, RegisterType DEF IInv, TypeOK
<1>10. orderTrade' \in [OrderIds -> Trades \cup {NoTrade}]
  BY <1>1 DEF Submitted, IInv, TypeOK
<1>11. broker' \in [OrderIds -> [open : BOOLEAN, filled : 0..LotUnits]]
  BY <1>1, OrchestratorAssumption DEF Submitted, IInv, TypeOK, Accepts
<1>12. OpenDecided'
  <2> SUFFICES ASSUME NEW o \in OrderIds, broker'[o].open
               PROVE  orderTrade'[o] \in seen'
    BY DEF OpenDecided
  <2>1. CASE o \in {n, m}
    BY <1>1, <1>5, <2>1 DEF Submitted
  <2>2. CASE o \notin {n, m}
    <3>1. broker'[o] = broker[o] /\ orderTrade'[o] = orderTrade[o]
      BY <1>1, <2>2 DEF Submitted, Accepts
    <3> QED BY <1>5, <3>1 DEF IInv, OpenDecided
  <2> QED BY <2>1, <2>2
<1>13. TypeOK'
  BY <1>5, <1>6, <1>7, <1>8, <1>9, <1>10, <1>11 DEF IInv, TypeOK
<1> QED BY <1>5, <1>12, <1>13 DEF IInv, NoneIsEmpty

LEMMA AcknowledgedKeeps ==
  ASSUME IInv, UNCHANGED weather, NEW o \in OrderIds, HandleAcknowledgement(o)
  PROVE  IInv'
<1>1. core' \in CoreStates
  BY MarkType DEF HandleAcknowledgement, Acknowledge, IInv, TypeOK, Statuses
<1>2. olm' \in Olm!Managers
  BY UpdateStateType DEF HandleAcknowledgement, IInv, TypeOK, Olm!OrderStates
<1> QED
  BY <1>1, <1>2 DEF HandleAcknowledgement, IInv, TypeOK, NoneIsEmpty, OpenDecided

\* What the broker executes, it executes for a trade whose decision has come to
\* the gate.
LEMMA ExecuteFact ==
  ASSUME IInv, NEW o \in OrderIds, NEW n \in 1..LotUnits, Execute(o, n)
  PROVE  /\ orderTrade[o] \in seen /\ orderTrade[o] \in Trades
         /\ broker' \in [OrderIds -> [open : BOOLEAN, filled : 0..LotUnits]]
         /\ \A p \in OrderIds : broker'[p].open => broker[p].open
         /\ held' \in [Trades -> Nat]
         /\ held' = [held EXCEPT ![orderTrade[o]] = @ + n]
<1> DEFINE b == [open |-> broker[o].filled + n < LotUnits, filled |-> broker[o].filled + n]
<1>1. orderTrade[o] \in seen /\ orderTrade[o] \in Trades
  BY DEF Execute, Open, IInv, OpenDecided, TypeOK
<1>2. broker[o].filled \in 0..LotUnits /\ LotUnits \in Nat /\ n \in Nat
  BY OrchestratorAssumption DEF IInv, TypeOK
<1>3. broker[o].filled + n \in 0..LotUnits
  BY <1>2 DEF Execute
<1>4. broker' = [broker EXCEPT ![o] = b]
  BY DEF Execute, IInv, TypeOK
<1>5. b \in [open : BOOLEAN, filled : 0..LotUnits]
  BY <1>3
<1> HIDE DEF b
<1>6. broker' \in [OrderIds -> [open : BOOLEAN, filled : 0..LotUnits]]
  BY <1>4, <1>5 DEF IInv, TypeOK
<1>7. \A p \in OrderIds : broker'[p].open => broker[p].open
  BY <1>4 DEF Execute, Open, IInv, TypeOK
<1>8. held' \in [Trades -> Nat] /\ held' = [held EXCEPT ![orderTrade[o]] = @ + n]
  BY <1>1, <1>2 DEF Execute, IInv, TypeOK
<1> QED BY <1>1, <1>6, <1>7, <1>8

\* A fill adds its units to the position of its order's trade, or is refused: a
\* first one opens a position where no other is active.
Booked(p, d, t, n) ==
  \/ d[t].status = p[t].status /\ d[t].qty = p[t].qty
  \/ p[t].status # "none" /\ d[t].status = p[t].status /\ d[t].qty = p[t].qty + n
  \/ /\ p[t].status = "none" /\ \A u \in Trades : ~Pm!IsOpen(p[u])
     /\ d[t].status = "OPEN" /\ d[t].qty = n

LEMMA BookFillFact ==
  ASSUME IInv, NEW t \in Trades, NEW n \in 1..LotUnits
  PROVE  OnlyAt(pos, BookFill(t, n), t) /\ Booked(pos, BookFill(t, n), t, n)
<1> DEFINE side == IF cur.intent = NoTrade THEN "BUY" ELSE Action[cur.intent]
           d == IF Pm!Exists(pos, t) THEN Pm!UpdateFill(pos, t, n, FillPrice)
                ELSE Pm!OpenPosition(pos, t, side, n, FillPrice)
           e == Pm!SetSl(d, t, PlanSl[cur.intent])
<1>1. BookFill(t, n) = IF cur.intent = NoTrade THEN d ELSE e
  BY DEF BookFill
<1>2. /\ pos \in Books /\ cur.intent \in Trades \cup {NoTrade}
      /\ FillPrice \in Nat /\ n \in Nat \ {0}
  BY OrchestratorAssumption DEF IInv, TypeOK, Books
<1>3. side \in {"BUY", "SELL"}
  BY <1>2, OrchestratorAssumption
<1> HIDE DEF side
<1>4. OnlyAt(pos, d, t) /\ Booked(pos, d, t, n)
  <2>1. CASE Pm!Exists(pos, t)
    <3>1. d = Pm!UpdateFill(pos, t, n, FillPrice)
      BY <2>1
    <3> HIDE DEF d
    <3> QED BY <1>2, <2>1, <3>1, UpdateFillFact DEF Booked, Pm!Exists
  <2>2. CASE ~Pm!Exists(pos, t)
    <3>1. d = Pm!OpenPosition(pos, t, side, n, FillPrice)
      BY <2>2
    <3> HIDE DEF d
    <3> QED BY <1>2, <1>3, <3>1, OpenFact DEF Booked
  <2> QED BY <2>1, <2>2
<1> HIDE DEF d
<1>5. CASE cur.intent = NoTrade
  BY <1>1, <1>4, <1>5
<1>6. CASE cur.intent # NoTrade
  <2>1. d \in Books /\ PlanSl[cur.intent] \in Nat
    BY <1>2, <1>4, <1>6, OrchestratorAssumption DEF OnlyAt
  <2>2. OnlyAt(d, e, t) /\ e[t].status = d[t].status /\ e[t].qty = d[t].qty
    BY <2>1, SetSlFact
  <2> HIDE DEF e
  <2>3. OnlyAt(pos, e, t)
    BY <1>4, <2>2 DEF OnlyAt
  <2>4. Booked(pos, e, t, n)
    BY <1>4, <2>2 DEF Booked
  <2> QED BY <1>1, <1>6, <2>3, <2>4
<1> QED BY <1>5, <1>6

\* A position that is filled or reduced keeps NoneIsEmpty.
LEMMA BookedKeeps ==
  ASSUME IInv, NEW t \in Trades, NEW n \in 1..LotUnits, NEW d,
         OnlyAt(pos, d, t), Booked(pos, d, t, n)
  PROVE  d \in Pm!PositionBooks /\ \A u \in Trades : d[u].status = "none" => d[u].qty = 0
<1>1. d \in Pm!PositionBooks
  BY DEF OnlyAt, Books
<1>2. d[t].status = "none" => d[t].qty = 0
  BY DEF Booked, IInv, NoneIsEmpty
<1> QED BY <1>1, <1>2 DEF OnlyAt, IInv, NoneIsEmpty


LEMMA CurType ==
  ASSUME TypeOK, NEW b \in BOOLEAN
  PROVE  [cur EXCEPT !.staged = b] \in
           [trade : Trades \cup {NoTrade}, intent : Trades \cup {NoTrade},
            order : OrderIds \cup {NoOrder}, staged : BOOLEAN]
  BY DEF TypeOK

LEMMA FillKeeps ==
  ASSUME IInv, UNCHANGED weather, NEW o \in OrderIds, NEW n \in 1..LotUnits, HandleFill(o, n)
  PROVE  IInv'
<1> DEFINE t == orderTrade[o]
           last == broker[o].filled + n < LotUnits
           r == Fill(core, sm, o, last)
           book == BookFill(t, n)
           staged == Stage(book, t)
<1>1. Execute(o, n) /\ UNCHANGED <<orderTrade, seen, esc, ks, mode>>
  BY DEF HandleFill
<1>2. /\ core' = r.core
      /\ IF r.raised THEN UNCHANGED <<sm, olm, pos, cur>>
         ELSE /\ pos' = book
              /\ IF ~WantsProtection(book, t)
                   THEN /\ sm' = r.sm
                        /\ cur' = cur
                        /\ olm' = Olm!HandlePartialFill(olm, o, n)
                   ELSE /\ sm' = Staged(r.sm, staged.raised)
                        /\ cur' = [cur EXCEPT !.staged = ~staged.raised]
                        /\ olm' = Olm!HandlePartialFill(staged.book, o, n)
  BY DEF HandleFill
<1>3. /\ t \in seen /\ t \in Trades
      /\ broker' \in [OrderIds -> [open : BOOLEAN, filled : 0..LotUnits]]
      /\ \A p \in OrderIds : broker'[p].open => broker[p].open
      /\ held' \in [Trades -> Nat]
  BY <1>1, ExecuteFact
<1> HIDE DEF t
<1>4. r.core \in CoreStates /\ r.sm \in States
  <2> DEFINE a == IF last THEN "PARTIAL_FILL" ELSE "FILLED"
  <2>1. a \in Statuses /\ core \in CoreStates /\ sm \in States
    BY DEF Statuses, IInv, TypeOK
  <2>2. r.core = [core EXCEPT !.status[o] = a] /\ r.sm = After(sm, FillEvent(last))
    BY DEF Fill
  <2>3. FillEvent(last) \in Events
    BY DEF FillEvent, Events, Destination
  <2> HIDE DEF a, r, last
  <2> QED BY <2>1, <2>2, <2>3, MarkType, AfterType
<1>5. OnlyAt(pos, book, t) /\ Booked(pos, book, t, n)
  BY <1>3, BookFillFact
<1>6. /\ book \in Pm!PositionBooks /\ book[t].qty \in Nat
      /\ \A u \in Trades : book[u].status = "none" => book[u].qty = 0
  <2> HIDE DEF book
  <2> QED BY <1>3, <1>5, BookedKeeps DEF Pm!PositionBooks
<1> HIDE DEF r, book
<1>7. /\ pos' \in Pm!PositionBooks
      /\ \A u \in Trades : pos'[u].status = "none" => pos'[u].qty = 0
  BY <1>2, <1>6 DEF IInv, TypeOK, NoneIsEmpty
<1>8. staged.book \in Olm!Managers \/ ~WantsProtection(book, t)
  <2>1. cur.order \in OrderIds \/ ~WantsProtection(book, t)
    BY DEF WantsProtection, IInv, TypeOK
  <2> QED BY <1>3, <1>6, <2>1, StageType DEF Stage, IInv, TypeOK
<1> DEFINE b == ~staged.raised
<1>9. cur' \in [trade : Trades \cup {NoTrade}, intent : Trades \cup {NoTrade},
                order : OrderIds \cup {NoOrder}, staged : BOOLEAN]
  <2>1. b \in BOOLEAN
    OBVIOUS
  <2>2. cur' \in {cur, [cur EXCEPT !.staged = b]}
    BY <1>2
  <2>3. cur \in [trade : Trades \cup {NoTrade}, intent : Trades \cup {NoTrade},
                 order : OrderIds \cup {NoOrder}, staged : BOOLEAN]
    BY DEF IInv, TypeOK
  <2> HIDE DEF b
  <2> QED BY <2>1, <2>2, <2>3, CurType DEF IInv
<1> HIDE DEF b, staged
<1>10. sm' \in States
  <2>1. Staged(r.sm, staged.raised) \in States
    BY <1>4, AfterType DEF Staged, Events, Destination
  <2> QED BY <1>2, <1>4, <2>1 DEF IInv, TypeOK
<1>11. olm' \in Olm!Managers
  BY <1>2, <1>8, PartialFillType DEF IInv, TypeOK
<1>12. OpenDecided'
  BY <1>1, <1>3 DEF IInv, OpenDecided
<1>13. TypeOK'
  BY <1>1, <1>2, <1>3, <1>4, <1>7, <1>9, <1>10, <1>11 DEF IInv, TypeOK
<1> QED BY <1>7, <1>12, <1>13 DEF IInv, NoneIsEmpty

LEMMA UnreportedKeeps ==
  ASSUME IInv, UNCHANGED weather, NEW o \in OrderIds, NEW n \in 1..LotUnits, FillUnreported(o, n)
  PROVE  IInv'
<1>1. /\ broker' \in [OrderIds -> [open : BOOLEAN, filled : 0..LotUnits]]
      /\ \A p \in OrderIds : broker'[p].open => broker[p].open
      /\ held' \in [Trades -> Nat]
  BY ExecuteFact DEF FillUnreported
<1>2. TypeOK' /\ NoneIsEmpty'
  BY <1>1 DEF FillUnreported, IInv, TypeOK, NoneIsEmpty
<1>3. OpenDecided'
  BY <1>1 DEF FillUnreported, IInv, OpenDecided
<1> QED BY <1>2, <1>3 DEF IInv

LEMMA RejectedKeeps ==
  ASSUME IInv, UNCHANGED weather, NEW o \in OrderIds, HandleRejection(o)
  PROVE  IInv'
<1>1. PICK again \in Answers, m \in OrderIds \cup {NoOrder}, rec \in BOOLEAN :
        RetryAnswer(core, o, rec, again, m) /\ Rejected(o, rec, again, m)
  BY DEF HandleRejection
<1> DEFINE r == Rejection(core, sm, o, rec, again, m)
<1>2. Numbered(again, m) /\ core \in CoreStates /\ sm \in States /\ orderTrade[o] \in seen
  BY <1>1, RetryNumbered DEF HandleRejection, Open, IInv, TypeOK, OpenDecided
<1>3. r.core \in CoreStates /\ r.sm \in {sm, After(sm, "REJECTED")}
  BY <1>2, RejectionType
<1>4. /\ core' = r.core /\ sm' = r.sm /\ TripSwitch(r.core)
      /\ olm' = IF r.raised THEN olm ELSE Olm!UpdateState(olm, o, "REJECTED")
  BY <1>1 DEF Rejected
<1> HIDE DEF r
<1>5. sm' \in States
  <2>1. "REJECTED" \in Events
    BY DEF Events, Destination
  <2> QED BY <1>2, <1>3, <1>4, <2>1, AfterType
<1>6. ks' \in {"NORMAL", "SOFT_ACTIVE", "CRITICAL_ACTIVE"}
  BY <1>4, SwitchType DEF IInv
<1>7. olm' \in Olm!Managers
  BY <1>4, UpdateStateType DEF IInv, TypeOK, Olm!OrderStates, Olm!Terminal
<1>8. orderTrade' \in [OrderIds -> Trades \cup {NoTrade}]
  BY <1>1 DEF Rejected, IInv, TypeOK
<1>9. broker' \in [OrderIds -> [open : BOOLEAN, filled : 0..LotUnits]]
  <2>1. 0 \in 0..LotUnits
    BY OrchestratorAssumption
  <2>2. /\ [broker[o] EXCEPT !.open = FALSE] \in [open : BOOLEAN, filled : 0..LotUnits]
        /\ [open |-> TRUE, filled |-> 0] \in [open : BOOLEAN, filled : 0..LotUnits]
    BY <2>1 DEF IInv, TypeOK
  <2> QED BY <1>1, <2>2 DEF Rejected, IInv, TypeOK
<1>10. UNCHANGED <<pos, cur, seen, esc, mode, held>>
  BY DEF HandleRejection
<1>11. OpenDecided'
  <2> SUFFICES ASSUME NEW p \in OrderIds, broker'[p].open
               PROVE  orderTrade'[p] \in seen
    BY <1>10 DEF OpenDecided
  <2>1. orderTrade'[p] = IF p = m THEN orderTrade[o] ELSE orderTrade[p]
    BY <1>1 DEF Rejected
  <2>2. CASE p = m
    BY <1>2, <2>1, <2>2
  <2>3. CASE p # m
    <3>1. p = o \/ broker'[p] = broker[p]
      BY <1>1, <2>3 DEF Rejected
    <3>2. broker[p].open
      BY <3>1 DEF HandleRejection, Open
    <3> QED BY <2>1, <2>3, <3>2 DEF IInv, OpenDecided
  <2> QED BY <2>2, <2>3
<1>12. TypeOK'
  BY <1>3, <1>4, <1>5, <1>6, <1>7, <1>8, <1>9, <1>10 DEF IInv, TypeOK
<1> QED BY <1>10, <1>11, <1>12 DEF IInv, NoneIsEmpty

LEMMA CoolKeeps ==
  ASSUME IInv, UNCHANGED weather, CoolDown
  PROVE  IInv'
<1>1. core' \in CoreStates
  BY DEF CoolDown, IInv, TypeOK, CoreStates, Breaker
<1> QED BY <1>1 DEF CoolDown, IInv, TypeOK, NoneIsEmpty, OpenDecided

\* What any exit or override does to the books: it closes the position of its
\* trade with all its units, takes some of them off, or leaves it as it was but
\* for its stop-loss.
Touched(p, d, t) ==
  /\ OnlyAt(p, d, t)
  /\ \/ d[t].status = p[t].status /\ d[t].qty = p[t].qty
     \/ Reduced(p, d, t, p[t].qty, "CLOSED")
     \/ \E q \in Nat : Reduced(p, d, t, q, "PARTIALLY_CLOSED")

LEMMA TouchedKeeps ==
  ASSUME IInv, NEW t \in Trades, NEW d, Touched(pos, d, t)
  PROVE  d \in Pm!PositionBooks /\ \A u \in Trades : d[u].status = "none" => d[u].qty = 0
<1>1. d \in Pm!PositionBooks /\ \A u \in Trades \ {t} : d[u] = pos[u]
  BY DEF Touched, OnlyAt, Books
<1>2. d[t].status = "none" => d[t].qty = 0
  <2>1. CASE d[t].status = pos[t].status /\ d[t].qty = pos[t].qty
    BY <2>1 DEF IInv, NoneIsEmpty
  <2>2. CASE \/ Reduced(pos, d, t, pos[t].qty, "CLOSED")
             \/ \E q \in Nat : Reduced(pos, d, t, q, "PARTIALLY_CLOSED")
    BY <2>2 DEF Reduced
  <2> QED BY <2>1, <2>2 DEF Touched
<1> QED BY <1>1, <1>2 DEF IInv, NoneIsEmpty

\* An exit that EXITING can be reached for ends the trade; its position is closed
\* with all its units, if it has any and a price.
LEMMA ExitFact ==
  ASSUME IInv, NEW t \in Trades, NEW price \in Int, ExitTrade(t, price)
  PROVE  /\ Touched(pos, pos', t)
         /\ \/ UNCHANGED <<sm, pos, cur>>
            \/ Exits(sm) /\ sm' = "CLOSED" /\ cur' = NoTracking
<1>1. CASE ~Exits(sm)
  <2>1. OnlyAt(pos, pos, t)
    BY DEF OnlyAt, Books, IInv, TypeOK
  <2> QED BY <1>1, <2>1 DEF ExitTrade, Touched
<1>2. CASE Exits(sm)
  <2> DEFINE at == IF price > 0 THEN price ELSE pos[t].avg
             d == Pm!ClosePosition(pos, t, pos[t].qty, at)
  <2>1. pos \in Books /\ pos[t].qty \in Nat /\ at \in Int
    BY DEF IInv, TypeOK, Books, Pm!PositionBooks
  <2>2. /\ sm' = After(After(ReadyToExit(sm), "EXIT_TRIGGERED"), "CLOSE_COMPLETE")
        /\ pos' = d /\ cur' = NoTracking
    BY <1>2 DEF ExitTrade
  <2>3. sm' = "CLOSED"
    BY <1>2, <2>2 DEF Exits, CanTransition, After, Destination, Sources
  <2> HIDE DEF at
  <2>4. OnlyAt(pos, d, t) /\ (d = pos \/ Reduced(pos, d, t, pos[t].qty, "CLOSED"))
    BY <2>1, CloseFact
  <2> HIDE DEF d
  <2>5. Touched(pos, d, t)
    BY <2>1, <2>4 DEF Touched
  <2> QED BY <1>2, <2>2, <2>3, <2>5
<1> QED BY <1>1, <1>2

\* What keeps the type when only sm, pos, cur and esc change.
LEMMA ManagedKeeps ==
  ASSUME IInv, UNCHANGED weather, NEW t \in Trades, Touched(pos, pos', t), sm' \in States,
         esc' \in {"NORMAL", "CAUTION", "SEVERE", "EMERGENCY"},
         cur' \in [trade : Trades \cup {NoTrade}, intent : Trades \cup {NoTrade},
                   order : OrderIds \cup {NoOrder}, staged : BOOLEAN],
         UNCHANGED <<core, orderTrade, olm, seen, ks, mode, broker, held>>
  PROVE  IInv'
<1>1. pos' \in Pm!PositionBooks /\ \A u \in Trades : pos'[u].status = "none" => pos'[u].qty = 0
  BY TouchedKeeps
<1> QED BY <1>1 DEF IInv, TypeOK, NoneIsEmpty, OpenDecided

LEMMA TrackingType ==
  /\ NoTracking \in [trade : Trades \cup {NoTrade}, intent : Trades \cup {NoTrade},
                     order : OrderIds \cup {NoOrder}, staged : BOOLEAN]
  /\ "CLOSED" \in States
  BY DEF NoTracking, States

LEMMA ExitKeeps ==
  ASSUME IInv, UNCHANGED weather, NEW t \in Trades, NEW price \in Int, ExitTrade(t, price),
         esc' \in {"NORMAL", "CAUTION", "SEVERE", "EMERGENCY"},
         UNCHANGED <<core, orderTrade, olm, seen, ks, mode, broker, held>>
  PROVE  IInv'
<1>1. /\ Touched(pos, pos', t)
      /\ UNCHANGED <<sm, pos, cur>> \/ (sm' = "CLOSED" /\ cur' = NoTracking)
  BY ExitFact
<1>2. /\ sm' \in States
      /\ cur' \in [trade : Trades \cup {NoTrade}, intent : Trades \cup {NoTrade},
                   order : OrderIds \cup {NoOrder}, staged : BOOLEAN]
  BY <1>1, TrackingType DEF IInv, TypeOK
<1> QED BY <1>1, <1>2, ManagedKeeps

\* The books are untouched, or changed in their stop-loss at most.
LEMMA SameIsTouched ==
  ASSUME IInv, NEW t \in Trades
  PROVE  /\ Touched(pos, pos, t)
         /\ \A price \in Nat : Touched(pos, Pm!SetSl(pos, t, price), t)
<1>1. pos \in Books
  BY DEF IInv, TypeOK, Books
<1> QED BY <1>1, SetSlFact DEF Touched, OnlyAt

\* The overrides, the two exits, the emergencies and the reconciliation touch at
\* most one position.
LEMMA ReduceSizeTouches ==
  ASSUME IInv, NEW t \in Trades, ReduceSize(t) \/ ReduceRisk(t)
  PROVE  Touched(pos, pos', t)
<1>1. PICK q \in 1..pos[t].qty :
        \/ q = pos[t].qty /\ pos' = Pm!ClosePosition(pos, t, q, pos[t].avg)
        \/ pos' = Pm!PartialExit(pos, t, q, pos[t].avg)
  BY DEF ReduceSize, ReduceRisk
<1>2. pos \in Books /\ q \in Nat /\ pos[t].avg \in Int
  BY DEF IInv, TypeOK, Books, Pm!PositionBooks
<1>3. CASE q = pos[t].qty /\ pos' = Pm!ClosePosition(pos, t, q, pos[t].avg)
  <2>1. OnlyAt(pos, pos', t) /\ (pos' = pos \/ Reduced(pos, pos', t, q, "CLOSED"))
    BY <1>2, <1>3, CloseFact
  <2> QED BY <1>3, <2>1 DEF Touched
<1>4. CASE pos' = Pm!PartialExit(pos, t, q, pos[t].avg)
  <2>1. OnlyAt(pos, pos', t) /\ (pos' = pos \/ Reduced(pos, pos', t, q, "PARTIALLY_CLOSED"))
    BY <1>2, <1>4, PartialExitFact
  <2> QED BY <1>2, <2>1 DEF Touched
<1> QED BY <1>1, <1>3, <1>4

LEMMA TightenTouches ==
  ASSUME IInv, NEW t \in Trades, TightenSl(t)
  PROVE  Touched(pos, pos', t)
<1>1. PICK price \in Sls : pos' = Pm!SetSl(pos, t, price)
  BY DEF TightenSl
<1>2. price \in Nat
  BY OrchestratorAssumption
<1> QED BY <1>1, <1>2, SameIsTouched

LEMMA OverriddenKeeps ==
  ASSUME IInv, UNCHANGED weather, NEW t \in Trades, Overridden(t)
  PROVE  IInv'
<1>1. CASE ReduceSize(t) \/ ReduceRisk(t)
  BY <1>1, ReduceSizeTouches, ManagedKeeps DEF ReduceSize, ReduceRisk, Override, IInv, TypeOK
<1>2. CASE TightenSl(t)
  BY <1>2, TightenTouches, ManagedKeeps DEF TightenSl, Override, IInv, TypeOK
<1>3. CASE OverrideExit(t)
  <2>1. pos[t].avg \in Int
    BY DEF IInv, TypeOK, Pm!PositionBooks
  <2> QED BY <1>3, <2>1, ExitKeeps DEF OverrideExit, Override
<1> QED BY <1>1, <1>2, <1>3 DEF Overridden

LEMMA TriggerExitKeeps ==
  ASSUME IInv, UNCHANGED weather, NEW t \in Trades, TriggerExit(t)
  PROVE  IInv'
  BY ExitKeeps DEF TriggerExit, IInv, TypeOK

LEMMA EodKeeps ==
  ASSUME IInv, UNCHANGED weather, CheckEod
  PROVE  IInv'
<1>1. cur.trade \in Trades /\ esc' = esc
      /\ UNCHANGED <<core, orderTrade, olm, seen, ks, mode, broker, held>>
  BY DEF CheckEod, IInv, TypeOK
<1>2. CASE ExitTrade(cur.trade, pos[cur.trade].avg)
  <2>1. pos[cur.trade].avg \in Int
    BY <1>1 DEF IInv, TypeOK, Pm!PositionBooks
  <2> QED BY <1>1, <1>2, <2>1, ExitKeeps DEF IInv, TypeOK
<1>3. CASE cur' = [cur EXCEPT !.trade = NoTrade] /\ UNCHANGED <<sm, pos>>
  <2>1. cur' \in [trade : Trades \cup {NoTrade}, intent : Trades \cup {NoTrade},
                  order : OrderIds \cup {NoOrder}, staged : BOOLEAN]
    BY <1>3 DEF IInv, TypeOK
  <2> QED BY <1>1, <1>3, <2>1, SameIsTouched, ManagedKeeps DEF IInv, TypeOK
<1> QED BY <1>2, <1>3 DEF CheckEod

\* The price of an emergency, 0, closes nothing.
LEMMA FlattenFact ==
  ASSUME IInv, Flatten
  PROVE  sm' = "CLOSED" /\ pos' = pos
<1>1. sm' = "CLOSED"
  BY DEF Flatten, After, Destination
<1>2. pos' = pos
  BY DEF Flatten, Pm!ClosePosition
<1> QED BY <1>1, <1>2

LEMMA EmergencyKeeps ==
  ASSUME IInv, UNCHANGED weather, Flatten \/ Lock
  PROVE  IInv'
<1>1. sm' \in States
  BY FlattenFact, AfterType, TrackingType DEF Lock, Events, Destination, IInv, TypeOK
<1>2. pos' = pos
  BY FlattenFact DEF Lock
<1> QED BY <1>1, <1>2 DEF Flatten, Lock, IInv, TypeOK, NoneIsEmpty, OpenDecided

LEMMA ReconnectFact ==
  ASSUME IInv, HandleReconnect
  PROVE  \E t \in Trades :
           /\ Touched(pos, pos', t)
           /\ pos'[t].status = pos[t].status /\ pos'[t].qty = pos[t].qty
           /\ pos'[t].avg = pos[t].avg
<1>1. PICK t \in Trades, sl \in Sls \cup {Pm!NoPrice} : pos' = Resolved(t, sl)
  BY DEF HandleReconnect
<1>2. sl \in Nat /\ pos \in Books
  BY OrchestratorAssumption DEF Pm!NoPrice, IInv, TypeOK, Books
<1>3. pos' \in {pos, Pm!SetSl(pos, t, sl)}
  BY <1>1 DEF Resolved
<1> QED BY <1>2, <1>3, SameIsTouched, SetSlFact

LEMMA ReconnectKeeps ==
  ASSUME IInv, UNCHANGED weather, HandleReconnect
  PROVE  IInv'
<1>1. PICK t \in Trades : Touched(pos, pos', t)
  BY ReconnectFact
<1> QED BY <1>1, ManagedKeeps DEF HandleReconnect, IInv, TypeOK

LEMMA DecisionKeeps ==
  ASSUME IInv, UNCHANGED weather, NEW t \in Trades, DecisionAlerted(t) \/ DecisionStopped(t)
  PROVE  IInv'
<1>1. cur' \in [trade : Trades \cup {NoTrade}, intent : Trades \cup {NoTrade},
                order : OrderIds \cup {NoOrder}, staged : BOOLEAN]
  BY DEF DecisionAlerted, DecisionStopped, IInv, TypeOK
<1>2. CASE DecisionAlerted(t)
  BY <1>1, <1>2 DEF DecisionAlerted, IInv, TypeOK, NoneIsEmpty, OpenDecided
<1>3. CASE DecisionStopped(t)
  BY <1>1, <1>3 DEF DecisionStopped, IInv, TypeOK, NoneIsEmpty, OpenDecided
<1> QED BY <1>2, <1>3

LEMMA OperatedKeeps ==
  ASSUME IInv, UNCHANGED weather, Operated
  PROVE  IInv'
<1>1. CASE Reset
  BY <1>1 DEF Reset, IInv, TypeOK, NoneIsEmpty, OpenDecided, States
<1>2. CASE \E m \in Modes : SetExecutionMode(m)
  BY <1>2 DEF SetExecutionMode, IInv, TypeOK, NoneIsEmpty, OpenDecided
<1>3. CASE \E level \in {"NORMAL", "SOFT_ACTIVE", "CRITICAL_ACTIVE"} : ActivateKillSwitch(level)
  BY <1>3 DEF ActivateKillSwitch, IInv, TypeOK, NoneIsEmpty, OpenDecided
<1> QED BY <1>1, <1>2, <1>3 DEF Operated

LEMMA StutterKeeps ==
  ASSUME IInv, UNCHANGED vars
  PROVE  IInv'
  BY DEF vars, IInv, TypeOK, NoneIsEmpty, OpenDecided

LEMMA NextKeeps ==
  ASSUME IInv, [Next]_vars
  PROVE  IInv'
<1> SUFFICES ASSUME Next
             PROVE  IInv'
  BY StutterKeeps
<1>0. UNCHANGED weather
  BY DEF Next
<1>1. CASE \E t \in Trades : Decision(t) \/ TriggerExit(t) \/ Overridden(t)
  BY <1>0, <1>1, DecisionKeeps, SubmittedKeeps, TriggerExitKeeps, OverriddenKeeps DEF Decision
<1>2. CASE \E o \in OrderIds : Report(o)
  BY <1>0, <1>2, AcknowledgedKeeps, RejectedKeeps, FillKeeps, UnreportedKeeps DEF Report
<1>3. CASE CoolDown \/ CheckEod \/ Flatten \/ Lock \/ HandleReconnect \/ Operated
  BY <1>0, <1>3, CoolKeeps, EodKeeps, EmergencyKeeps, ReconnectKeeps, OperatedKeeps
<1> QED BY <1>1, <1>2, <1>3 DEF Next

\* Every state of the orchestrator has its type: the six modules it calls keep
\* theirs, through every operation and every report.
THEOREM Inductive == Spec => []IInv
<1>1. IInv /\ [Next]_vars => IInv'
  BY NextKeeps
<1> QED BY InitHolds, <1>1, PTL DEF Spec

THEOREM TypeCorrect == Spec => []TypeOK
<1>1. IInv => TypeOK
  BY DEF IInv
<1> QED BY Inductive, <1>1, PTL

-----------------------------------------------------------------------------
(* The orchestrator implements TradeLedger: each of its steps decides,       *)
(* executes or releases units, or does nothing the ledger sees.              *)

LedgerStep == Ledger!Next \/ UNCHANGED Ledger!vars

LEMMA QuantityType ==
  ASSUME IInv, NEW t \in Trades
  PROVE  pos[t].qty \in Nat
  BY DEF IInv, TypeOK, Pm!PositionBooks

LEMMA SameUnits ==
  ASSUME UNCHANGED <<seen, held>>, \A t \in Trades : pos'[t].qty = pos[t].qty
  PROVE  LedgerStep
  BY DEF LedgerStep, Ledger!vars

LEMMA TouchedReleases ==
  ASSUME IInv, NEW t \in Trades, Touched(pos, pos', t), UNCHANGED <<seen, held>>
  PROVE  LedgerStep
<1>1. \A u \in Trades \ {t} : pos'[u].qty = pos[u].qty
  BY DEF Touched, OnlyAt
<1>2. CASE pos'[t].qty = pos[t].qty
  BY <1>1, <1>2, SameUnits
<1>3. CASE \/ Reduced(pos, pos', t, pos[t].qty, "CLOSED")
           \/ \E q \in Nat : Reduced(pos, pos', t, q, "PARTIALLY_CLOSED")
  <2>1. PICK q \in Nat : 0 < q /\ q <= pos[t].qty /\ pos'[t].qty = pos[t].qty - q
    BY <1>3, QuantityType DEF Reduced
  <2>2. q \in 1..[u \in Trades |-> pos[u].qty][t]
    BY <2>1, QuantityType
  <2>3. [u \in Trades |-> pos'[u].qty]
          = [[u \in Trades |-> pos[u].qty] EXCEPT ![t] = @ - q]
    BY <1>1, <2>1
  <2>4. Ledger!Release(t, q)
    BY <2>3 DEF Ledger!Release
  <2> QED BY <2>2, <2>4 DEF LedgerStep, Ledger!Next
<1> QED BY <1>2, <1>3 DEF Touched

LEMMA ExecutedIsLedger ==
  ASSUME IInv, NEW o \in OrderIds, NEW n \in 1..LotUnits, Execute(o, n), UNCHANGED seen,
         \/ pos' = pos
         \/ OnlyAt(pos, pos', orderTrade[o]) /\ Booked(pos, pos', orderTrade[o], n)
  PROVE  LedgerStep
<1> DEFINE t == orderTrade[o]
           booked == [u \in Trades |-> pos[u].qty]
           after == [u \in Trades |-> pos'[u].qty]
<1>1. t \in seen /\ t \in Trades /\ held' = [held EXCEPT ![t] = @ + n]
  BY ExecuteFact
<1> HIDE DEF t
<1>2. after \in {booked, [booked EXCEPT ![t] = @ + n]}
  <2>1. CASE pos' = pos
    BY <2>1
  <2>2. CASE OnlyAt(pos, pos', t) /\ Booked(pos, pos', t, n)
    <3>1. \A u \in Trades \ {t} : pos'[u].qty = pos[u].qty
      BY <2>2 DEF OnlyAt
    <3>2. pos'[t].qty = pos[t].qty \/ pos'[t].qty = pos[t].qty + n
      BY <1>1, <2>2, QuantityType DEF Booked, IInv, NoneIsEmpty
    <3> QED BY <1>1, <3>1, <3>2
  <2> QED BY <2>1, <2>2 DEF t
<1>3. Ledger!Execute(t, n)
  BY <1>1, <1>2 DEF Ledger!Execute
<1> QED BY <1>1, <1>3 DEF LedgerStep, Ledger!Next

LEMMA DecidedIsLedger ==
  ASSUME NEW t \in Trades, seen' = seen \cup {t}, UNCHANGED <<held, pos>>
  PROVE  LedgerStep
<1>1. Ledger!Decide(t)
  BY DEF Ledger!Decide
<1> QED BY <1>1 DEF LedgerStep, Ledger!Next

\* How a report of a fill changes the books.
LEMMA FillFact ==
  ASSUME IInv, NEW o \in OrderIds, NEW n \in 1..LotUnits, HandleFill(o, n)
  PROVE  \/ pos' = pos
         \/ OnlyAt(pos, pos', orderTrade[o]) /\ Booked(pos, pos', orderTrade[o], n)
<1>1. orderTrade[o] \in Trades
  BY ExecuteFact DEF HandleFill
<1>2. pos' = pos \/ pos' = BookFill(orderTrade[o], n)
  BY DEF HandleFill
<1> QED BY <1>1, <1>2, BookFillFact

LEMMA NextIsLedger ==
  ASSUME IInv, [Next]_vars
  PROVE  LedgerStep
<1>1. CASE \E t \in Trades : Decision(t)
  <2>1. PICK t \in Trades : Decision(t)
    BY <1>1
  <2>2. CASE DecisionAlerted(t)
    BY <2>2, SameUnits DEF DecisionAlerted
  <2>3. CASE DecisionStopped(t) \/ DecisionSubmitted(t)
    BY <2>3, DecidedIsLedger DEF DecisionStopped, DecisionSubmitted
  <2> QED BY <2>1, <2>2, <2>3 DEF Decision
<1>2. CASE \E t \in Trades : TriggerExit(t) \/ Overridden(t)
  <2>1. PICK t \in Trades : TriggerExit(t) \/ Overridden(t)
    BY <1>2
  <2>2. pos[t].avg \in Int
    BY DEF IInv, TypeOK, Pm!PositionBooks
  <2>3. CASE TriggerExit(t) \/ OverrideExit(t)
    <3>1. Touched(pos, pos', t)
      BY <2>2, <2>3, ExitFact DEF TriggerExit, OverrideExit
    <3> QED BY <2>3, <3>1, TouchedReleases DEF TriggerExit, OverrideExit, Override
  <2>4. CASE ReduceSize(t) \/ ReduceRisk(t) \/ TightenSl(t)
    BY <2>4, ReduceSizeTouches, TightenTouches, TouchedReleases
    DEF ReduceSize, ReduceRisk, TightenSl, Override
  <2> QED BY <2>1, <2>3, <2>4 DEF Overridden
<1>3. CASE \E o \in OrderIds : Report(o)
  <2>1. PICK o \in OrderIds : Report(o)
    BY <1>3
  <2>2. CASE HandleAcknowledgement(o) \/ HandleRejection(o)
    BY <2>2, SameUnits DEF HandleAcknowledgement, HandleRejection
  <2>3. CASE \E n \in 1..LotUnits : HandleFill(o, n)
    <3>1. PICK n \in 1..LotUnits : HandleFill(o, n)
      BY <2>3
    <3>2. Execute(o, n) /\ UNCHANGED seen
      BY <3>1 DEF HandleFill
    <3> QED BY <3>1, <3>2, FillFact, ExecutedIsLedger
  <2>4. CASE \E n \in 1..LotUnits : FillUnreported(o, n)
    BY <2>4, ExecutedIsLedger DEF FillUnreported
  <2> QED BY <2>1, <2>2, <2>3, <2>4 DEF Report
<1>4. CASE CheckEod
  <2>1. cur.trade \in Trades /\ UNCHANGED <<seen, held>>
    BY <1>4 DEF CheckEod, IInv, TypeOK
  <2>2. pos[cur.trade].avg \in Int
    BY <2>1 DEF IInv, TypeOK, Pm!PositionBooks
  <2>3. CASE ExitTrade(cur.trade, pos[cur.trade].avg)
    BY <2>1, <2>2, <2>3, ExitFact, TouchedReleases
  <2>4. CASE UNCHANGED pos
    BY <2>1, <2>4, SameUnits
  <2> QED BY <1>4, <2>3, <2>4 DEF CheckEod
<1>5. CASE Flatten \/ Lock
  BY <1>5, FlattenFact, SameUnits DEF Flatten, Lock
<1>6. CASE HandleReconnect
  BY <1>6, ReconnectFact, TouchedReleases DEF HandleReconnect
<1>7. CASE CoolDown \/ Operated
  BY <1>7, SameUnits DEF CoolDown, Operated, Reset, SetExecutionMode, ActivateKillSwitch
<1>8. CASE UNCHANGED vars
  BY <1>8, SameUnits DEF vars
<1> QED BY <1>1, <1>2, <1>3, <1>4, <1>5, <1>6, <1>7, <1>8 DEF Next

\* The orchestrator implements the ledger: what it books was executed by the
\* broker for a decision that came to the gate, whatever happens to the trade.
THEOREM LedgerImplemented == Spec => LedgerSpec
<1>1. Init => Ledger!Init
  BY DEF Init, Ledger!Init, Pm!InitPositions, Pm!NoPosition
<1>2. IInv /\ [Next]_vars => [Ledger!Next]_(Ledger!vars)
  BY NextIsLedger DEF LedgerStep
<1> QED BY Inductive, <1>1, <1>2, PTL DEF Spec, LedgerSpec, Ledger!Spec

\* What the ledger promises: no position is larger than what the broker executed
\* for its trade, and nothing is executed for a trade that never came to the gate.
BooksAreBacked == Ledger!BooksAreBacked

LEMMA BackedKeeps ==
  ASSUME IInv, BooksAreBacked, [Next]_vars
  PROVE  BooksAreBacked'
<1> DEFINE booked == [u \in Trades |-> pos[u].qty]
<1>1. /\ \A t \in Trades : pos[t].qty \in Nat /\ held[t] \in Nat
      /\ held \in [Trades -> Nat] /\ booked \in [Trades -> Nat]
  BY QuantityType DEF IInv, TypeOK
<1>2. \A t \in Trades : pos[t].qty <= held[t] /\ (held[t] > 0 => t \in seen)
  BY DEF BooksAreBacked, Ledger!BooksAreBacked
<1> SUFFICES ASSUME NEW t \in Trades
             PROVE  pos'[t].qty <= held'[t] /\ (held'[t] > 0 => t \in seen')
  BY DEF BooksAreBacked, Ledger!BooksAreBacked
<1>3. CASE UNCHANGED Ledger!vars
  <2>1. seen' = seen /\ held' = held /\ [u \in Trades |-> pos'[u].qty] = booked
    BY <1>3 DEF Ledger!vars
  <2>2. pos'[t].qty = [u \in Trades |-> pos'[u].qty][t]
    OBVIOUS
  <2> QED BY <1>2, <2>1, <2>2
<1>4. CASE Ledger!Next
  <2>1. PICK u \in Trades :
          \/ Ledger!Decide(u)
          \/ \E n \in 1..LotUnits : Ledger!Execute(u, n)
          \/ \E n \in 1..booked[u] : Ledger!Release(u, n)
    BY <1>4 DEF Ledger!Next
  <2>2. pos'[t].qty = [v \in Trades |-> pos'[v].qty][t]
    OBVIOUS
  <2>3. CASE Ledger!Decide(u)
    <3>1. seen' = seen \cup {u} /\ held' = held /\ [v \in Trades |-> pos'[v].qty] = booked
      BY <2>3 DEF Ledger!Decide
    <3> QED BY <1>2, <2>2, <3>1
  <2>4. CASE \E n \in 1..LotUnits : Ledger!Execute(u, n)
    <3>1. PICK n \in 1..LotUnits : Ledger!Execute(u, n)
      BY <2>4
    <3>2. /\ u \in seen /\ seen' = seen /\ held' = [held EXCEPT ![u] = @ + n]
          /\ [v \in Trades |-> pos'[v].qty] \in {booked, [booked EXCEPT ![u] = @ + n]}
      BY <3>1 DEF Ledger!Execute
    <3>3. CASE t = u
      BY <1>1, <1>2, <2>2, <3>2, <3>3, OrchestratorAssumption
    <3>4. CASE t # u
      BY <1>1, <1>2, <2>2, <3>2, <3>4
    <3> QED BY <3>3, <3>4
  <2>5. CASE \E n \in 1..booked[u] : Ledger!Release(u, n)
    <3>1. PICK n \in 1..booked[u] : Ledger!Release(u, n)
      BY <2>5
    <3>2. /\ seen' = seen /\ held' = held
          /\ [v \in Trades |-> pos'[v].qty] = [booked EXCEPT ![u] = @ - n]
      BY <3>1 DEF Ledger!Release
    <3>3. n \in Nat
      BY <1>1
    <3>4. CASE t = u
      BY <1>1, <1>2, <2>2, <3>2, <3>3, <3>4
    <3>5. CASE t # u
      BY <1>1, <1>2, <2>2, <3>2, <3>5
    <3> QED BY <3>4, <3>5
  <2> QED BY <2>1, <2>3, <2>4, <2>5
<1> QED BY <1>3, <1>4, NextIsLedger DEF LedgerStep

THEOREM Backed == Spec => []BooksAreBacked
<1>1. Init => BooksAreBacked
  BY DEF Init, BooksAreBacked, Ledger!BooksAreBacked, Pm!InitPositions, Pm!NoPosition
<1>2. IInv /\ BooksAreBacked /\ [Next]_vars => BooksAreBacked'
  BY BackedKeeps
<1> QED BY Inductive, <1>1, <1>2, PTL DEF Spec

-----------------------------------------------------------------------------
(* The circuit breaker and the kill switch. *)

LEMMA TripsBlocked ==
  ASSUME IInv, [Next]_vars, Trips(core, core')
  PROVE  ks' # "NORMAL"
<1>1. ASSUME NEW d, core' = d, TripSwitch(d)
      PROVE  ks' # "NORMAL"
  BY <1>1 DEF TripSwitch
<1>2. CASE \E t \in Trades : DecisionSubmitted(t)
  <2>1. PICK t \in Trades, answer \in Answers, again \in Answers,
             n \in OrderIds \cup {NoOrder}, m \in OrderIds \cup {NoOrder}, rec \in BOOLEAN :
               Submitted(t, answer, n, rec, again, m)
    BY <1>2 DEF DecisionSubmitted
  <2> DEFINE d == Submit(core, "RISK_PASSED", answer, n, rec, again, m).core
  <2>2. core' = d /\ TripSwitch(d)
    BY <2>1 DEF Submitted
  <2> HIDE DEF d
  <2> QED BY <1>1, <2>2
<1>3. CASE \E o \in OrderIds : HandleRejection(o)
  <2>1. PICK o \in OrderIds, again \in Answers, m \in OrderIds \cup {NoOrder}, rec \in BOOLEAN :
               Rejected(o, rec, again, m)
    BY <1>3 DEF HandleRejection
  <2> DEFINE d == Rejection(core, sm, o, rec, again, m).core
  <2>2. core' = d /\ TripSwitch(d)
    BY <2>1 DEF Rejected
  <2> HIDE DEF d
  <2> QED BY <1>1, <2>2
<1>4. CASE \E o \in OrderIds : HandleAcknowledgement(o)
  BY <1>4, MarkType DEF HandleAcknowledgement, Acknowledge, Statuses, IInv, TypeOK, Trips
<1>5. CASE \E o \in OrderIds, n \in 1..LotUnits : HandleFill(o, n)
  <2>1. PICK o \in OrderIds, n \in 1..LotUnits : HandleFill(o, n)
    BY <1>5
  <2> DEFINE last == broker[o].filled + n < LotUnits
             a == IF last THEN "PARTIAL_FILL" ELSE "FILLED"
  <2>2. core' = Fill(core, sm, o, last).core
    BY <2>1 DEF HandleFill
  <2>3. Fill(core, sm, o, last).core = [core EXCEPT !.status[o] = a]
    BY DEF Fill
  <2>4. a \in Statuses
    BY DEF Statuses
  <2> HIDE DEF last, a
  <2> QED BY <2>2, <2>3, <2>4, MarkType DEF IInv, TypeOK, Trips
<1>6. CASE core' = core
  BY <1>6 DEF Trips
<1>7. CASE CoolDown
  BY <1>7 DEF CoolDown, Trips
<1>8. \/ core' = core \/ CoolDown
      \/ \E t \in Trades : DecisionSubmitted(t)
      \/ \E o \in OrderIds : HandleRejection(o)
      \/ \E o \in OrderIds : HandleAcknowledgement(o)
      \/ \E o \in OrderIds, n \in 1..LotUnits : HandleFill(o, n)
  BY DEF Next, Decision, DecisionAlerted, DecisionStopped, TriggerExit, Overridden, Override,
     ReduceSize, TightenSl, ReduceRisk, OverrideExit, Report, FillUnreported, CheckEod, Flatten,
     Lock, HandleReconnect, Operated, Reset, SetExecutionMode, ActivateKillSwitch, vars
<1> QED BY <1>2, <1>3, <1>4, <1>5, <1>6, <1>7, <1>8

\* From the step in which the breaker trips on, the kill switch stops entries,
\* whichever call the failure came from.
THEOREM BreakerStopsEntries == Spec => TripBlocksEntries
<1>1. IInv /\ [Next]_vars => [Trips(core, core') => ks' # "NORMAL"]_vars
  BY TripsBlocked
<1> QED BY Inductive, <1>1, PTL DEF Spec, TripBlocksEntries

-----------------------------------------------------------------------------
(* The one-trade rule.  open_position enforces it, but a RISK_REDUCTION       *)
(* reopens a closed position that late fills have added units to.  That takes *)
(* a current trade which is closed and not empty, and those come only where   *)
(* overrides, rejections and emergencies come together.                       *)

AtMostOne == \A t, u \in Trades : Active(t) /\ Active(u) => t = u

\* An emergency leaves a closed trade current, and a submission that raises puts
\* the machine into ORDER_PENDING without replacing it: one of them is missing.
Apart == ~({"rejection", "emergency"} \subseteq weather)

TradesAreKnown == \A t \in Trades : pos[t].status # "none" => t \in seen

\* Without emergencies, a current trade with a position keeps the machine busy.
HeldIsBusy ==
  "emergency" \notin weather /\ cur.trade # NoTrade /\ pos[cur.trade].status # "none"
    => sm \in {"PARTIAL_FILL", "FILLED", "PROTECTED"}

\* While an order is pending the current trade has had no fill.
PendingIsNew ==
  cur.trade # NoTrade /\ sm = "ORDER_PENDING" => pos[cur.trade].status = "none"

ClosedIsEmpty ==
  cur.trade # NoTrade /\ pos[cur.trade].status = "CLOSED" => pos[cur.trade].qty = 0

OInv ==
  /\ AtMostOne
  /\ TradesAreKnown
  /\ HeldIsBusy
  /\ Apart => PendingIsNew /\ ClosedIsEmpty

\* Positions keep status and units, the machine its state; the current trade is
\* kept or forgotten.
LEMMA QuietOne ==
  ASSUME IInv, OInv, UNCHANGED weather, seen \subseteq seen',
         sm' = sm \/ (sm' # "ORDER_PENDING" /\ "emergency" \in weather),
         cur'.trade \in {cur.trade, NoTrade},
         \A t \in Trades : pos'[t].status = pos[t].status /\ pos'[t].qty = pos[t].qty
  PROVE  OInv'
<1>1. AtMostOne'
  BY DEF OInv, AtMostOne, Active, Pm!IsOpen
<1>2. TradesAreKnown'
  BY DEF OInv, TradesAreKnown
<1>3. cur'.trade # NoTrade => cur'.trade = cur.trade /\ cur.trade \in Trades
  BY DEF IInv, TypeOK
<1>4. HeldIsBusy'
  BY <1>3 DEF OInv, HeldIsBusy
<1>5. Apart' => PendingIsNew' /\ ClosedIsEmpty'
  BY <1>3 DEF Apart, OInv, PendingIsNew, ClosedIsEmpty
<1> QED BY <1>1, <1>2, <1>4, <1>5 DEF OInv

\* An exit or a reduction, which ends the trade or leaves it current.
LEMMA TouchedOne ==
  ASSUME IInv, OInv, UNCHANGED weather, NEW t \in Trades, Touched(pos, pos', t),
         pos[t].status = "CLOSED" => pos[t].qty = 0,
         seen' = seen,
         \/ cur' = NoTracking /\ sm' = "CLOSED"
         \/ cur' = cur /\ sm' = sm
  PROVE  OInv'
<1>1. \A u \in Trades \ {t} : pos'[u] = pos[u]
  BY DEF Touched, OnlyAt
<1>2. pos'[t].status # "none" <=> pos[t].status # "none"
  BY DEF Touched, Reduced
<1>3. Active(t)' => Active(t)
  <2>1. CASE pos'[t].status = pos[t].status
    BY <2>1 DEF Active, Pm!IsOpen
  <2>2. CASE Reduced(pos, pos', t, pos[t].qty, "CLOSED")
    BY <2>2 DEF Reduced, Active, Pm!IsOpen
  <2>3. CASE \E q \in Nat : Reduced(pos, pos', t, q, "PARTIALLY_CLOSED")
    <3>1. pos[t].status # "none" /\ pos[t].qty # 0
      BY <2>3, QuantityType DEF Reduced
    <3>2. pos[t].status \in Pm!PositionStatuses
      BY DEF IInv, TypeOK, Pm!PositionBooks
    <3> QED BY <3>1, <3>2 DEF Active, Pm!IsOpen, Pm!PositionStatuses
  <2> QED BY <2>1, <2>2, <2>3 DEF Touched
<1>4. AtMostOne'
  BY <1>1, <1>3 DEF OInv, AtMostOne, Active
<1>5. TradesAreKnown'
  BY <1>1, <1>2 DEF OInv, TradesAreKnown
<1>6. HeldIsBusy' /\ (Apart' => PendingIsNew' /\ ClosedIsEmpty')
  <2>1. CASE cur' = NoTracking /\ sm' = "CLOSED"
    BY <2>1 DEF NoTracking, HeldIsBusy, PendingIsNew, ClosedIsEmpty
  <2>2. CASE cur' = cur /\ sm' = sm
    <3>1. cur.trade # NoTrade => cur.trade \in Trades
      BY DEF IInv, TypeOK
    <3>2. cur.trade # NoTrade =>
            (pos'[cur.trade].status = "none" <=> pos[cur.trade].status = "none")
      BY <1>1, <1>2, <3>1
    <3>3. HeldIsBusy' /\ (Apart' => PendingIsNew')
      BY <2>2, <3>2 DEF Apart, OInv, HeldIsBusy, PendingIsNew
    <3>4. pos'[t].status = "CLOSED" => pos'[t].qty = 0
      BY QuantityType DEF Touched, Reduced
    <3>5. Apart' => ClosedIsEmpty'
      BY <1>1, <2>2, <3>1, <3>4 DEF Apart, OInv, ClosedIsEmpty
    <3> QED BY <3>3, <3>5
  <2> QED BY <2>1, <2>2
<1> QED BY <1>4, <1>5, <1>6 DEF OInv

LEMMA FillOne ==
  ASSUME IInv, OInv, UNCHANGED weather, NEW o \in OrderIds, NEW n \in 1..LotUnits, HandleFill(o, n)
  PROVE  OInv'
<1> DEFINE t == orderTrade[o]
           e == FillEvent(broker[o].filled + n < LotUnits)
<1>1. t \in seen /\ t \in Trades /\ seen' = seen
  BY ExecuteFact DEF HandleFill
<1>2. CASE ~CanTransition(sm, e)
  <2>1. UNCHANGED <<sm, pos, cur>>
    BY <1>2 DEF HandleFill, Fill
  <2> QED BY <1>1, <2>1, QuietOne
<1>3. CASE CanTransition(sm, e)
  <2>1. e \in {"PARTIAL_FILL_RECEIVED", "FULL_FILL"}
    BY DEF FillEvent
  <2>2. sm = "ORDER_PENDING"
    BY <1>3, <2>1 DEF CanTransition, Sources
  <2>3. After(sm, e) \in {"PARTIAL_FILL", "FILLED"}
    BY <1>3, <2>1 DEF After, Destination
  <2> DEFINE book == BookFill(t, n)
             raised == Stage(book, t).raised
  <2>4. /\ pos' = book
        /\ sm' \in {After(sm, e), Staged(After(sm, e), raised)}
        /\ cur' \in {cur, [cur EXCEPT !.staged = ~raised]}
    BY <1>3 DEF HandleFill, Fill
  <2>5. OnlyAt(pos, book, t) /\ Booked(pos, book, t, n)
    BY <1>1, BookFillFact
  <2> HIDE DEF book
  <2>6. sm' \in {"PARTIAL_FILL", "FILLED", "PROTECTED"}
    BY <2>3, <2>4 DEF Staged, After, Destination
  <2>7. cur'.trade = cur.trade /\ (cur.trade # NoTrade => cur.trade \in Trades)
    BY <2>4 DEF IInv, TypeOK
  <2>8. \A u \in Trades \ {t} : pos'[u] = pos[u]
    BY <2>4, <2>5 DEF OnlyAt
  <2>9. AtMostOne'
    BY <2>4, <2>5, <2>8 DEF OInv, AtMostOne, Active, Booked, Pm!IsOpen
  <2>10. TradesAreKnown'
    BY <1>1, <2>8 DEF OInv, TradesAreKnown
  <2>11. HeldIsBusy' /\ PendingIsNew'
    BY <2>6 DEF HeldIsBusy, PendingIsNew
  <2>12. Apart' => ClosedIsEmpty'
    <3> SUFFICES ASSUME Apart, cur.trade # NoTrade
                 PROVE  pos'[cur.trade].status # "CLOSED"
      BY <2>7 DEF Apart, ClosedIsEmpty
    <3>1. pos[cur.trade].status = "none"
      BY <2>2 DEF OInv, PendingIsNew
    <3>2. CASE cur.trade = t
      BY <2>4, <2>5, <3>1, <3>2 DEF Booked
    <3>3. CASE cur.trade # t
      BY <2>7, <2>8, <3>1, <3>3
    <3> QED BY <3>2, <3>3
  <2> QED BY <2>9, <2>10, <2>11, <2>12 DEF OInv
<1> QED BY <1>2, <1>3

LEMMA SubmittedOne ==
  ASSUME IInv, OInv, UNCHANGED weather, NEW t \in Trades, DecisionSubmitted(t)
  PROVE  OInv'
<1>1. PICK answer \in Answers, again \in Answers, n \in OrderIds \cup {NoOrder},
           m \in OrderIds \cup {NoOrder}, rec \in BOOLEAN :
        /\ answer # "ACKNOWLEDGED" => "rejection" \in weather
        /\ AnswerId(core, answer, n)
        /\ IF answer = "REJECTED"
             THEN RetryAnswer(Track(core, n, answer), n, rec, again, m)
             ELSE again = "empty" /\ m = NoOrder /\ ~rec
        /\ Submitted(t, answer, n, rec, again, m)
  BY DEF DecisionSubmitted
<1> DEFINE r == Submit(core, "RISK_PASSED", answer, n, rec, again, m)
<1>2. Numbered(answer, n) /\ Numbered(again, m)
  BY <1>1, AnswerNumbered, RetryNumbered DEF Numbered
<1>3. answer = "ACKNOWLEDGED" => ~r.raised
  BY <1>2, SubmitType DEF IInv, TypeOK
<1>4. IF r.raised THEN cur' = [cur EXCEPT !.intent = t]
      ELSE cur' = [cur EXCEPT !.trade = t, !.intent = t, !.order = r.id]
  BY <1>1 DEF Submitted
<1> HIDE DEF r
<1>5. pos' = pos /\ t \notin seen /\ seen \subseteq seen' /\ sm = "IDLE"
  BY DEF DecisionSubmitted, Passes, CanTransition, Sources
<1>6. AtMostOne' /\ TradesAreKnown'
  BY <1>5 DEF OInv, AtMostOne, Active, TradesAreKnown
<1>7. CASE ~r.raised
  <2>1. cur'.trade = t /\ pos'[t].status = "none"
    BY <1>4, <1>5, <1>7 DEF OInv, TradesAreKnown, IInv, TypeOK
  <2> QED BY <1>6, <2>1 DEF OInv, HeldIsBusy, PendingIsNew, ClosedIsEmpty
<1>8. CASE r.raised
  <2>1. cur'.trade = cur.trade /\ "rejection" \in weather
    BY <1>1, <1>3, <1>4, <1>8 DEF IInv, TypeOK
  <2>2. "emergency" \notin weather /\ cur.trade # NoTrade => pos'[cur.trade].status = "none"
    BY <1>5 DEF OInv, HeldIsBusy
  <2>3. HeldIsBusy' /\ (Apart' => PendingIsNew' /\ ClosedIsEmpty')
    BY <2>1, <2>2 DEF HeldIsBusy, PendingIsNew, ClosedIsEmpty, Apart
  <2> QED BY <1>6, <2>3 DEF OInv
<1> QED BY <1>7, <1>8

LEMMA RejectedOne ==
  ASSUME IInv, OInv, UNCHANGED weather, NEW o \in OrderIds, HandleRejection(o)
  PROVE  OInv'
<1>1. PICK again \in Answers, m \in OrderIds \cup {NoOrder}, rec \in BOOLEAN :
        RetryAnswer(core, o, rec, again, m) /\ Rejected(o, rec, again, m)
  BY DEF HandleRejection
<1>2. Numbered(again, m) /\ core \in CoreStates /\ sm \in States
  BY <1>1, RetryNumbered DEF IInv, TypeOK
<1>3. sm' \in {sm, After(sm, "REJECTED")}
  BY <1>1, <1>2, RejectionType DEF Rejected
<1>4. UNCHANGED <<pos, cur, seen>>
  BY DEF HandleRejection
<1>5. CASE sm' = sm
  BY <1>4, <1>5, QuietOne
<1>6. CASE sm' # sm
  <2>1. sm = "ORDER_PENDING" /\ sm' = "FAILED"
    BY <1>3, <1>6 DEF After, CanTransition, Sources, Destination
  <2>2. AtMostOne' /\ TradesAreKnown'
    BY <1>4 DEF OInv, AtMostOne, Active, TradesAreKnown
  <2>3. HeldIsBusy' /\ PendingIsNew'
    BY <1>4, <2>1 DEF OInv, HeldIsBusy, PendingIsNew
  <2>4. Apart' => ClosedIsEmpty'
    BY <1>4 DEF Apart, OInv, ClosedIsEmpty
  <2> QED BY <2>2, <2>3, <2>4 DEF OInv
<1> QED BY <1>5, <1>6

LEMMA ResetOne ==
  ASSUME IInv, OInv, UNCHANGED weather, Reset
  PROVE  OInv'
<1>1. UNCHANGED <<pos, cur, seen>> /\ sm \in {"CLOSED", "FAILED"} /\ sm' = "IDLE"
  BY DEF Reset
<1>2. AtMostOne' /\ TradesAreKnown' /\ (Apart' => ClosedIsEmpty')
  BY <1>1 DEF Apart, OInv, AtMostOne, Active, TradesAreKnown, ClosedIsEmpty
<1>3. HeldIsBusy' /\ PendingIsNew'
  BY <1>1 DEF OInv, HeldIsBusy, PendingIsNew
<1> QED BY <1>2, <1>3 DEF OInv

LEMMA NextOne ==
  ASSUME ~Storm, IInv, OInv, [Next]_vars
  PROVE  OInv'
<1>0. UNCHANGED weather
  BY DEF Next, vars
<1>1. CASE \E t \in Trades : Decision(t)
  <2>1. PICK t \in Trades : Decision(t)
    BY <1>1
  <2>2. CASE DecisionAlerted(t) \/ DecisionStopped(t)
    <3>1. /\ cur' = [cur EXCEPT !.intent = t] /\ sm' = sm /\ pos' = pos
          /\ seen \subseteq seen'
      BY <2>2 DEF DecisionAlerted, DecisionStopped
    <3>2. cur'.trade = cur.trade
      BY <3>1 DEF IInv, TypeOK
    <3> QED BY <1>0, <3>1, <3>2, QuietOne
  <2> QED BY <1>0, <2>1, <2>2, SubmittedOne DEF Decision
<1>2. CASE \E t \in Trades : TriggerExit(t)
  <2>1. PICK t \in Trades : TriggerExit(t)
    BY <1>2
  <2>2. Touched(pos, pos', t) /\ Exits(sm) /\ pos[t].status # "CLOSED" /\ seen' = seen
    BY <2>1, ExitFact DEF TriggerExit, Pm!IsOpen
  <2>3. (cur' = NoTracking /\ sm' = "CLOSED") \/ (cur' = cur /\ sm' = sm)
    BY <2>1, ExitFact DEF TriggerExit
  <2> QED BY <1>0, <2>2, <2>3, TouchedOne
<1>3. CASE \E t \in Trades : Overridden(t)
  <2>1. PICK t \in Trades : Overridden(t)
    BY <1>3
  <2>2. Override(t) /\ seen' = seen
    BY <2>1 DEF Overridden, ReduceSize, TightenSl, ReduceRisk, OverrideExit, Override
  <2>3. pos[t].status = "CLOSED" => pos[t].qty = 0
    <3>1. "override" \in weather /\ cur.trade = t /\ t # NoTrade
      BY <2>2, OrchestratorAssumption DEF Override
    <3>2. Apart
      BY <3>1 DEF Apart, Storm
    <3> QED BY <3>1, <3>2 DEF OInv, ClosedIsEmpty
  <2>4. Touched(pos, pos', t) /\ ((cur' = NoTracking /\ sm' = "CLOSED") \/ (cur' = cur /\ sm' = sm))
    <3>1. CASE OverrideExit(t)
      <4>1. pos[t].avg \in Int
        BY DEF IInv, TypeOK, Pm!PositionBooks
      <4> QED BY <3>1, <4>1, ExitFact DEF OverrideExit
    <3>2. CASE ReduceSize(t) \/ ReduceRisk(t) \/ TightenSl(t)
      BY <3>2, ReduceSizeTouches, TightenTouches DEF ReduceSize, ReduceRisk, TightenSl
    <3> QED BY <2>1, <3>1, <3>2 DEF Overridden
  <2> QED BY <1>0, <2>2, <2>3, <2>4, TouchedOne
<1>4. CASE \E o \in OrderIds : Report(o)
  <2>1. PICK o \in OrderIds : Report(o)
    BY <1>4
  <2>2. CASE HandleAcknowledgement(o) \/ \E n \in 1..LotUnits : FillUnreported(o, n)
    <3>1. UNCHANGED <<sm, pos, cur, seen>>
      BY <2>2 DEF HandleAcknowledgement, FillUnreported
    <3> QED BY <1>0, <3>1, QuietOne
  <2> QED BY <1>0, <2>1, <2>2, RejectedOne, FillOne DEF Report
<1>5. CASE CheckEod
  <2>1. cur.trade \in Trades /\ seen' = seen
    BY <1>5 DEF CheckEod, IInv, TypeOK
  <2>2. CASE cur' = [cur EXCEPT !.trade = NoTrade] /\ UNCHANGED <<sm, pos>>
    <3>1. cur'.trade = NoTrade
      BY <2>2 DEF IInv, TypeOK
    <3> QED BY <1>0, <2>1, <2>2, <3>1, QuietOne
  <2>3. CASE Pm!IsOpen(pos[cur.trade]) /\ ExitTrade(cur.trade, pos[cur.trade].avg)
    <3>1. pos[cur.trade].avg \in Int /\ pos[cur.trade].status # "CLOSED"
      BY <2>1, <2>3 DEF IInv, TypeOK, Pm!PositionBooks, Pm!IsOpen
    <3>2. /\ Touched(pos, pos', cur.trade)
          /\ (cur' = NoTracking /\ sm' = "CLOSED") \/ (cur' = cur /\ sm' = sm)
      BY <2>1, <2>3, <3>1, ExitFact
    <3> QED BY <1>0, <2>1, <3>1, <3>2, TouchedOne
  <2> QED BY <1>5, <2>2, <2>3 DEF CheckEod
<1>6. CASE Flatten \/ Lock
  <2>1. sm' \in {"CLOSED", "LOCKED"} /\ pos' = pos
    BY <1>6, FlattenFact DEF Lock, After, Destination
  <2>2. UNCHANGED <<cur, seen>> /\ "emergency" \in weather
    BY <1>6 DEF Flatten, Lock
  <2> QED BY <1>0, <2>1, <2>2, QuietOne
<1>7. CASE HandleReconnect
  <2>1. PICK t \in Trades : /\ Touched(pos, pos', t)
                            /\ pos'[t].status = pos[t].status /\ pos'[t].qty = pos[t].qty
    BY <1>7, ReconnectFact
  <2>2. \A u \in Trades : pos'[u].status = pos[u].status /\ pos'[u].qty = pos[u].qty
    BY <2>1 DEF Touched, OnlyAt
  <2>3. UNCHANGED <<sm, cur, seen>>
    BY <1>7 DEF HandleReconnect
  <2> QED BY <1>0, <2>2, <2>3, QuietOne
<1>8. CASE \/ CoolDown \/ UNCHANGED vars
           \/ \E m \in Modes : SetExecutionMode(m)
           \/ \E level \in {"NORMAL", "SOFT_ACTIVE", "CRITICAL_ACTIVE"} : ActivateKillSwitch(level)
  <2>1. UNCHANGED <<sm, pos, cur, seen>>
    BY <1>8 DEF CoolDown, vars, SetExecutionMode, ActivateKillSwitch
  <2> QED BY <1>0, <2>1, QuietOne
<1> QED BY <1>0, <1>1, <1>2, <1>3, <1>4, <1>5, <1>6, <1>7, <1>8, ResetOne DEF Next, Operated

\* At most one position is active, unless overrides, rejections and emergencies
\* come together.
THEOREM OneTradeRule == Spec => []OneActivePosition
<1> DEFINE J == ~Storm => OInv
<1>1. Init => J
  BY DEF Init, OInv, AtMostOne, Active, TradesAreKnown, HeldIsBusy, PendingIsNew,
     ClosedIsEmpty, Pm!IsOpen, Pm!InitPositions, Pm!NoPosition, NoTracking
<1>2. IInv /\ J /\ [Next]_vars => J'
  <2>1. [Next]_vars => (Storm' <=> Storm)
    BY DEF Next, vars, Storm
  <2> QED BY <2>1, NextOne
<1>3. J => OneActivePosition
  BY DEF OInv, AtMostOne, OneActivePosition
<1> HIDE DEF J
<1> QED BY Inductive, <1>1, <1>2, <1>3, PTL DEF Spec

-----------------------------------------------------------------------------
(* While only the broker acts on trades, every active position is current,   *)
(* protected, and has legs of its size.  First what the core and the order    *)
(* manager leave alone.                                                       *)

KeepsTracked(c, d) == \A p \in OrderIds : Tracked(c, p) => Tracked(d, p)

LEMMA CountingFact ==
  ASSUME NEW c \in CoreStates
  PROVE  /\ CountFailure(c).status = c.status /\ CountFailure(c).retries = c.retries
         /\ CircuitChecked(c).status = c.status /\ CircuitChecked(c).retries = c.retries
  BY DEF CountFailure, CircuitChecked, CoreStates

LEMMA TrackFact ==
  ASSUME NEW c \in CoreStates, NEW n \in OrderIds, NEW a \in Statuses \ {"none"}
  PROVE  KeepsTracked(c, Track(c, n, a)) /\ Tracked(Track(c, n, a), n)
  BY DEF KeepsTracked, Tracked, Track, CoreStates

LEMMA MarkFact ==
  ASSUME NEW c \in CoreStates, NEW o \in OrderIds, NEW a \in Statuses \ {"none"}
  PROVE  KeepsTracked(c, [c EXCEPT !.status[o] = a])
  BY DEF KeepsTracked, Tracked, CoreStates

\* The order that replaces a rejected one works in the state the rejection came in.
LEMMA RejectionFact ==
  ASSUME NEW c \in CoreStates, NEW s \in States, NEW o \in OrderIds, NEW rec,
         NEW answer, NEW n, Numbered(answer, n)
  PROVE  LET r == Rejection(c, s, o, rec, answer, n) IN
         /\ KeepsTracked(c, r.core)
         /\ answer = "ACKNOWLEDGED" /\ RejectionRetries(c, o, rec)
              => ~r.raised /\ r.sm = s /\ Tracked(r.core, n)
<1> DEFINE m == [c EXCEPT !.status[o] = "REJECTED"]
           d == CountFailure(m)
           e == CircuitChecked(d)
           f == [e EXCEPT !.retries[o] = @ + 1]
           r == Rejection(c, s, o, rec, answer, n)
<1>1. m \in CoreStates /\ KeepsTracked(c, m)
  BY MarkType, MarkFact DEF Statuses
<1>2. d \in CoreStates /\ d.status = m.status
  <2> HIDE DEF m
  <2> QED BY <1>1, CountFailureType, CountingFact
<1>3. e \in CoreStates /\ e.status = m.status
  <2> HIDE DEF d
  <2> QED BY <1>2, CircuitCheckedType, CountingFact
<1>4. f \in CoreStates /\ f.status = m.status
  <2> HIDE DEF e
  <2>1. f.status = e.status
    BY <1>3 DEF CoreStates
  <2> QED BY <1>3, <2>1, CountRetryType
<1>5. RejectionRetries(c, o, rec) <=> rec /\ RetryAllowed(e, o)
  BY DEF RejectionRetries, RetryAllowed, CircuitChecked, CountFailure, CoreStates
<1>6. r = IF rec /\ RetryAllowed(e, o) THEN Retry(e, s, o, answer, n)
          ELSE IF rec THEN FailOrder(e, s) ELSE FailOrder(d, s)
  BY DEF Rejection
<1>7. CASE ~(rec /\ RetryAllowed(e, o))
  <2> HIDE DEF d, e, r
  <2>1. CircuitChecked(e).status = m.status /\ CircuitChecked(d).status = m.status
    BY <1>2, <1>3, CountingFact
  <2>2. r.core.status = m.status
    BY <1>6, <1>7, <2>1 DEF FailOrder
  <2> QED BY <1>1, <1>5, <1>7, <2>2 DEF KeepsTracked, Tracked, r
<1>8. CASE rec /\ RetryAllowed(e, o)
  <2>1. r = Retry(e, s, o, answer, n)
    BY <1>6, <1>8
  <2>2. CASE answer = "raises"
    <3> HIDE DEF f, r, m
    <3>1. r.core = CountFailure(f)
      BY <2>1, <2>2 DEF Retry, f
    <3>2. r.core.status = m.status
      BY <1>4, <3>1, CountingFact
    <3> QED BY <1>1, <2>2, <3>2 DEF KeepsTracked, Tracked, r
  <2>3. CASE answer = "empty"
    <3> HIDE DEF f, r, m
    <3>1. r.core = f
      BY <2>1, <2>3 DEF Retry, f
    <3> QED BY <1>1, <1>4, <2>3, <3>1 DEF KeepsTracked, Tracked, r
  <2>4. CASE answer \in {"ACKNOWLEDGED", "REJECTED"}
    <3> HIDE DEF f, r, m
    <3>1. r = [core |-> Track(f, n, answer), sm |-> s, raised |-> FALSE]
      BY <2>1, <2>4 DEF Retry, f
    <3>2. answer \in Statuses \ {"none"} /\ n \in OrderIds
      BY <2>4 DEF Statuses, Numbered
    <3>3. KeepsTracked(f, Track(f, n, answer)) /\ Tracked(Track(f, n, answer), n)
      BY <1>4, <3>2, TrackFact
    <3>4. KeepsTracked(c, Track(f, n, answer))
      BY <1>1, <1>4, <3>3 DEF KeepsTracked, Tracked
    <3> QED BY <3>1, <3>3, <3>4 DEF r
  <2> QED BY <2>2, <2>3, <2>4 DEF Numbered, Answers
<1> QED BY <1>7, <1>8

\* A submission that leaves an order at work has not raised.
LEMMA SubmitFact ==
  ASSUME NEW c \in CoreStates, NEW rec, NEW answer, NEW n, NEW again, NEW m,
         Numbered(answer, n), Numbered(again, m),
         IF answer = "REJECTED"
           THEN RetryAnswer(Track(c, n, answer), n, rec, again, m)
           ELSE again = "empty"
  PROVE  LET r == Submit(c, "RISK_PASSED", answer, n, rec, again, m) IN
         /\ KeepsTracked(c, r.core)
         /\ ~r.raised => n \in OrderIds /\ r.id = n /\ Tracked(r.core, n)
         /\ answer = "ACKNOWLEDGED" \/ again = "ACKNOWLEDGED"
              => ~r.raised /\ r.sm = "ORDER_PENDING"
         /\ again = "ACKNOWLEDGED" =>
              Tracked(r.core, m) /\ answer = "REJECTED" /\ ~Tracked(c, m) /\ m # n
<1> DEFINE r == Submit(c, "RISK_PASSED", answer, n, rec, again, m)
           s == After("RISK_PASSED", "ORDER_SUBMITTED")
           k == Track(c, n, answer)
<1>1. CanTransition("RISK_PASSED", "ORDER_SUBMITTED")
  BY DEF CanTransition, Sources
<1>2. s = "ORDER_PENDING" /\ s \in States
  BY <1>1 DEF After, Destination, States, ActiveStates
<1>3. CASE answer \in {"raises", "empty"}
  BY <1>3 DEF Submit, KeepsTracked
<1>4. CASE answer = "ACKNOWLEDGED"
  <2>1. n \in OrderIds /\ answer \in Statuses \ {"none"} /\ again = "empty"
    BY <1>4 DEF Numbered, Statuses
  <2>2. r = [core |-> k, sm |-> s, raised |-> FALSE, id |-> n]
    BY <1>1, <1>4 DEF Submit
  <2>3. KeepsTracked(c, k) /\ Tracked(k, n)
    BY <2>1, TrackFact
  <2> HIDE DEF r, s, k
  <2> QED BY <1>2, <2>1, <2>2, <2>3 DEF r
<1>5. CASE answer = "REJECTED"
  <2> DEFINE q == Rejection(k, s, n, rec, again, m)
  <2>1. n \in OrderIds /\ answer \in Statuses \ {"none"}
    BY <1>5 DEF Numbered, Statuses
  <2>2. r = [core |-> q.core, sm |-> q.sm, raised |-> q.raised, id |-> n]
    BY <1>1, <1>5 DEF Submit
  <2>3. k \in CoreStates /\ KeepsTracked(c, k) /\ Tracked(k, n)
    BY <2>1, TrackType, TrackFact
  <2>4. /\ KeepsTracked(k, q.core)
        /\ again = "ACKNOWLEDGED" /\ RejectionRetries(k, n, rec)
             => ~q.raised /\ q.sm = s /\ Tracked(q.core, m)
    <3> HIDE DEF s, k
    <3> QED BY <1>2, <2>1, <2>3, RejectionFact
  <2>5. again = "ACKNOWLEDGED" => RejectionRetries(k, n, rec) /\ m \in OrderIds /\ ~Tracked(k, m)
    BY <1>5 DEF RetryAnswer, AnswerId, IsNextId
  <2> HIDE DEF r, s, q, k
  <2>6. again = "ACKNOWLEDGED" => ~Tracked(c, m) /\ m # n
    BY <2>3, <2>5 DEF KeepsTracked
  <2>7. KeepsTracked(c, q.core) /\ Tracked(q.core, n)
    BY <2>1, <2>3, <2>4 DEF KeepsTracked
  <2> QED BY <1>2, <1>5, <2>1, <2>2, <2>4, <2>5, <2>6, <2>7 DEF r
<1> QED BY <1>3, <1>4, <1>5 DEF Numbered, Answers

\* The order manager's calls keep linkages, legs and registrations, but for those
\* they make.
SameLegs(m, d) ==
  /\ d.link = m.link /\ d.legs = m.legs
  /\ \A p \in OrderIds : Olm!Registered(d, p) <=> Olm!Registered(m, p)

LEMMA UpdateStateFact ==
  ASSUME NEW m \in Olm!Managers, NEW o \in OrderIds,
         NEW s \in Olm!OrderStates \ {"unregistered"}
  PROVE  SameLegs(m, Olm!UpdateState(m, o, s))
<1> DEFINE e == [m EXCEPT !.order[o].state = s]
<1>1. CASE Olm!CanMove(m, o, s)
  <2>1. Olm!Registered(m, o)
    BY <1>1 DEF Olm!CanMove, Olm!Registered, Olm!ValidTransitions
  <2>2. e.link = m.link /\ e.legs = m.legs
    BY DEF Olm!Managers
  <2>3. \A p \in OrderIds : Olm!Registered(e, p) <=> Olm!Registered(m, p)
    BY <2>1 DEF Olm!Registered, Olm!Managers
  <2> HIDE DEF e
  <2>4. SameLegs(m, e)
    BY <2>2, <2>3 DEF SameLegs
  <2> QED BY <1>1, <2>4 DEF Olm!UpdateState, e
<1>2. CASE ~Olm!CanMove(m, o, s)
  BY <1>2 DEF Olm!UpdateState, SameLegs
<1> QED BY <1>1, <1>2

LEMMA RegisterFact ==
  ASSUME NEW m \in Olm!Managers, NEW o \in OrderIds, NEW t \in Trades
  PROVE  LET d == Olm!RegisterOrder(m, o, t) IN
         /\ d.link = m.link /\ d.legs = m.legs
         /\ \A p \in OrderIds : Olm!Registered(d, p) <=> Olm!Registered(m, p) \/ p = o
<1> DEFINE r == [trade |-> t, state |-> "PLACED", filled |-> 0]
           e == [m EXCEPT !.order[o] = r]
<1>1. r.state = "PLACED"
  OBVIOUS
<1> HIDE DEF r
<1>2. e.link = m.link /\ e.legs = m.legs
  BY DEF Olm!Managers
<1>3. \A p \in OrderIds : Olm!Registered(e, p) <=> Olm!Registered(m, p) \/ p = o
  BY <1>1 DEF Olm!Registered, Olm!Managers
<1>4. Olm!RegisterOrder(m, o, t) = IF Olm!Registered(m, o) THEN m ELSE e
  BY DEF Olm!RegisterOrder, r
<1> HIDE DEF e
<1> QED BY <1>2, <1>3, <1>4

\* A partial fill gives its quantity to the linkage of its order, if it has one.
LEMMA PartialFillFact ==
  ASSUME NEW m \in Olm!Managers, NEW o \in OrderIds, NEW n \in Nat
  PROVE  LET d == Olm!HandlePartialFill(m, o, n) IN
         /\ d.legs = m.legs
         /\ \A p \in OrderIds : Olm!Registered(d, p) <=> Olm!Registered(m, p)
         /\ \A p \in OrderIds \ {o} : d.link[p] = m.link[p]
         /\ \/ d.link[o] = m.link[o]
            \/ /\ Olm!Linked(m, o) /\ d.link[o].trade = m.link[o].trade
               /\ d.link[o].qty = n
<1> DEFINE target == IF n = 1 THEN "FILLED" ELSE "PARTIAL_FILL"
           f == [m EXCEPT !.order[o].filled = n]
           e == Olm!UpdateState(f, o, target)
           d == Olm!HandlePartialFill(m, o, n)
<1>1. target \in Olm!OrderStates \ {"unregistered"}
  BY DEF Olm!OrderStates, Olm!Terminal
<1>2. f \in Olm!Managers /\ f.link = m.link /\ f.legs = m.legs
  BY DEF Olm!Managers
<1>3. \A p \in OrderIds : Olm!Registered(f, p) <=> Olm!Registered(m, p)
  BY DEF Olm!Managers, Olm!Registered
<1>4. e \in Olm!Managers /\ SameLegs(f, e)
  <2> HIDE DEF target, f
  <2> QED BY <1>1, <1>2, UpdateStateType, UpdateStateFact
<1>5. d \in {m, f, Olm!AdjustLink(e, o, n)}
  BY DEF Olm!HandlePartialFill
<1> HIDE DEF f, e, d, target
<1>6. CASE d = m \/ d = f
  BY <1>2, <1>3, <1>6 DEF d
<1>7. CASE d = Olm!AdjustLink(e, o, n)
  <2> DEFINE g == [e EXCEPT !.link[o].qty = n]
  <2>1. /\ e.link = m.link /\ e.legs = m.legs
        /\ \A p \in OrderIds : Olm!Registered(e, p) <=> Olm!Registered(m, p)
    BY <1>2, <1>3, <1>4 DEF SameLegs
  <2>2. /\ g.legs = e.legs /\ g.order = e.order
        /\ \A p \in OrderIds \ {o} : g.link[p] = e.link[p]
        /\ g.link[o].trade = e.link[o].trade /\ g.link[o].qty = n
    BY <1>4 DEF Olm!Managers
  <2>3. d = IF Olm!Linked(e, o) THEN g ELSE e
    BY <1>7 DEF Olm!AdjustLink
  <2> HIDE DEF g
  <2> QED BY <2>1, <2>2, <2>3 DEF Olm!Linked, Olm!Registered, d
<1> QED BY <1>5, <1>6, <1>7

\* Staging raises for a trade that has legs, and gives legs to one that has none
\* if its order is known and free.
LEMMA StageFact ==
  ASSUME NEW m \in Olm!Managers, NEW o \in OrderIds, NEW t \in Trades, NEW q \in Nat
  PROVE  LET x == Olm!StageProtection(m, t, o, q) IN
         /\ m.legs[t] # 0 => x.raised /\ x.book = m
         /\ m.legs[t] = 0 /\ Olm!Registered(m, o) /\ ~Olm!Linked(m, o) =>
              /\ ~x.raised
              /\ \A p \in OrderIds : Olm!Registered(x.book, p) <=> Olm!Registered(m, p)
              /\ x.book.legs = [m.legs EXCEPT ![t] = q]
              /\ \A p \in OrderIds \ {o} : x.book.link[p] = m.link[p]
              /\ x.book.link[o].trade = t /\ x.book.link[o].qty = q
<1> DEFINE d == [m EXCEPT !.legs[t] = q]
           l == [trade |-> t, qty |-> q]
           e == [d EXCEPT !.link[o] = l]
           x == Olm!StageProtection(m, t, o, q)
<1>1. CASE m.legs[t] # 0
  BY <1>1 DEF Olm!StageProtection
<1>2. CASE m.legs[t] = 0 /\ Olm!Registered(m, o) /\ ~Olm!Linked(m, o)
  <2>1. d.order = m.order /\ d.link = m.link /\ d.legs = [m.legs EXCEPT ![t] = q]
        /\ d \in Olm!Managers
    BY DEF Olm!Managers
  <2>2. l.trade = t /\ l.qty = q
    OBVIOUS
  <2>3. x = [book |-> e, raised |-> FALSE]
    BY <1>2, <2>1 DEF Olm!StageProtection, Olm!Registered, Olm!Linked
  <2> HIDE DEF d, l, x
  <2>4. /\ e.order = d.order /\ e.legs = d.legs
        /\ \A p \in OrderIds \ {o} : e.link[p] = d.link[p]
        /\ e.link[o] = l
    BY <2>1 DEF Olm!Managers
  <2> HIDE DEF e
  <2>5. x.book = e /\ ~x.raised
    BY <2>3
  <2> QED BY <1>2, <2>1, <2>2, <2>4, <2>5 DEF x, Olm!Registered
<1> QED BY <1>1, <1>2

\* An order the broker works on and whose trade has no position.
Unfilled(o) == broker[o].open /\ pos[orderTrade[o]].status = "none"

ActiveIsWhole ==
  \A t \in Trades : Active(t) =>
    /\ cur.trade = t
    /\ sm = "PROTECTED"
    /\ \E o \in OrderIds : olm.link[o].trade = t
    /\ pos[t].qty > 0 /\ pos[t].avg > 0

LegsAreEqual ==
  \A o \in OrderIds : Olm!Linked(olm, o) /\ Active(olm.link[o].trade) =>
    /\ olm.link[o].qty = pos[olm.link[o].trade].qty
    /\ olm.legs[olm.link[o].trade] = pos[olm.link[o].trade].qty

\* There is one unfilled order at most, that of the current trade, and the
\* machine is waiting for it or was moved on by a late fill of another one.
UnfilledIsCurrent ==
  /\ \A o \in OrderIds : Unfilled(o) =>
       sm \in {"ORDER_PENDING", "PARTIAL_FILL", "FILLED"} /\ cur.trade = orderTrade[o]
  /\ \A o, p \in OrderIds : Unfilled(o) /\ Unfilled(p) => o = p
  /\ \A o \in OrderIds : broker[o].open /\ broker[o].filled = 0 => Unfilled(o)

OrdersAreTracked ==
  \A o \in OrderIds :
    /\ broker[o].open => Tracked(core, o)
    /\ Olm!Registered(olm, o) => Tracked(core, o)
    /\ Olm!Linked(olm, o) => Olm!Registered(olm, o)

\* Linkages and legs are of trades that have or had a position, and all of those
\* have them.
LegsHavePositions ==
  /\ \A o \in OrderIds : Olm!Linked(olm, o) =>
       olm.link[o].trade \in Trades /\ pos[olm.link[o].trade].status # "none"
  /\ \A t \in Trades : olm.legs[t] = 0 <=> pos[t].status = "none"

\* Staging is possible for the current trade until it is done.
CurrentIsStageable ==
  /\ cur.staged => sm = "PROTECTED"
  /\ cur.trade # NoTrade =>
       /\ cur.order \in OrderIds /\ Olm!Registered(olm, cur.order)
       /\ sm # "PROTECTED" => ~Olm!Linked(olm, cur.order)

CInv ==
  /\ ActiveIsWhole /\ LegsAreEqual /\ UnfilledIsCurrent
  /\ OrdersAreTracked /\ LegsHavePositions /\ CurrentIsStageable

\* Nothing happens to positions, legs, orders that are tracked, and the trade
\* that is current; the broker works on no more and no fresher orders.
Quiet ==
  /\ UNCHANGED <<sm, orderTrade>>
  /\ cur'.trade = cur.trade /\ cur'.order = cur.order /\ cur'.staged = cur.staged
  /\ \A t \in Trades : /\ pos'[t].status = pos[t].status /\ pos'[t].qty = pos[t].qty
                       /\ pos'[t].avg = pos[t].avg
  /\ \A o \in OrderIds : broker'[o].open =>
       broker[o].open /\ (broker'[o].filled = 0 => broker[o].filled = 0)
  /\ KeepsTracked(core, core')
  /\ SameLegs(olm, olm')

LEMMA OpenTrades ==
  ASSUME IInv, NEW o \in OrderIds, broker[o].open
  PROVE  orderTrade[o] \in Trades /\ orderTrade[o] \in seen
  BY DEF IInv, TypeOK, OpenDecided

LEMMA QuietCalm ==
  ASSUME IInv, CInv, Quiet
  PROVE  CInv'
<1>1. \A t \in Trades : Active(t)' <=> Active(t)
  BY DEF Quiet, Active, Pm!IsOpen
<1>2. \A o \in OrderIds : (Olm!Linked(olm, o))' <=> Olm!Linked(olm, o)
  BY DEF Quiet, SameLegs, Olm!Linked
<1>3. ActiveIsWhole'
  BY <1>1 DEF Quiet, SameLegs, CInv, ActiveIsWhole
<1>4. LegsAreEqual'
  <2> SUFFICES ASSUME NEW o \in OrderIds, (Olm!Linked(olm, o))', Active(olm.link[o].trade)'
               PROVE  /\ olm'.link[o].qty = pos'[olm'.link[o].trade].qty
                      /\ olm'.legs[olm'.link[o].trade] = pos'[olm'.link[o].trade].qty
    BY DEF LegsAreEqual
  <2>1. olm'.link[o].trade = olm.link[o].trade /\ olm.link[o].trade \in Trades
    BY <1>2 DEF Quiet, SameLegs, CInv, LegsHavePositions
  <2> QED BY <1>1, <1>2, <2>1 DEF Quiet, SameLegs, CInv, LegsAreEqual
<1>5. \A o \in OrderIds : Unfilled(o)' => Unfilled(o)
  BY OpenTrades DEF Quiet, Unfilled
<1>6. UnfilledIsCurrent'
  <2>1. \A o \in OrderIds : broker'[o].open /\ broker'[o].filled = 0 => Unfilled(o)'
    BY OpenTrades DEF Quiet, CInv, UnfilledIsCurrent, Unfilled
  <2> QED BY <1>5, <2>1 DEF Quiet, CInv, UnfilledIsCurrent
<1>7. OrdersAreTracked'
  BY <1>2 DEF Quiet, KeepsTracked, SameLegs, CInv, OrdersAreTracked
<1>8. LegsHavePositions'
  BY <1>2 DEF Quiet, SameLegs, CInv, LegsHavePositions
<1>9. CurrentIsStageable'
  BY <1>2 DEF Quiet, SameLegs, CInv, CurrentIsStageable
<1> QED BY <1>3, <1>4, <1>6, <1>7, <1>8, <1>9 DEF CInv

LEMMA ResetCalm ==
  ASSUME IInv, CInv, Reset
  PROVE  CInv'
<1>1. /\ UNCHANGED <<core, orderTrade, olm, pos, cur, broker>>
      /\ sm \in {"CLOSED", "FAILED"} /\ sm' = "IDLE"
  BY DEF Reset
<1>2. (\A t \in Trades : ~Active(t)) /\ (\A t \in Trades : Active(t)' <=> Active(t))
  BY <1>1 DEF CInv, ActiveIsWhole, Active
<1>3. (\A o \in OrderIds : ~Unfilled(o)) /\ (\A o \in OrderIds : Unfilled(o)' <=> Unfilled(o))
  BY <1>1 DEF CInv, UnfilledIsCurrent, Unfilled
<1>4. \A o \in OrderIds : (Olm!Linked(olm, o))' <=> Olm!Linked(olm, o)
  BY <1>1 DEF Olm!Linked
<1>5. ActiveIsWhole' /\ UnfilledIsCurrent'
  BY <1>1, <1>2, <1>3 DEF CInv, ActiveIsWhole, UnfilledIsCurrent
<1>6. LegsAreEqual' /\ LegsHavePositions'
  BY <1>1, <1>2, <1>4 DEF CInv, LegsAreEqual, LegsHavePositions
<1>7. OrdersAreTracked' /\ CurrentIsStageable'
  BY <1>1, <1>4 DEF CInv, OrdersAreTracked, CurrentIsStageable, Olm!Registered
<1> QED BY <1>5, <1>6, <1>7 DEF CInv

\* The exit of an active position closes it.
LEMMA ExitCalm ==
  ASSUME IInv, CInv, NEW t \in Trades, TriggerExit(t)
  PROVE  CInv'
<1>1. /\ cur.trade = t /\ sm = "PROTECTED" /\ pos[t].qty > 0 /\ pos[t].avg > 0
      /\ UNCHANGED <<core, orderTrade, olm, broker>>
  BY DEF TriggerExit, CInv, ActiveIsWhole, Active
<1>2. /\ pos' = Pm!ClosePosition(pos, t, pos[t].qty, pos[t].avg)
      /\ sm' = "CLOSED" /\ cur' = NoTracking
  BY <1>1 DEF TriggerExit, ExitTrade, After, CanTransition, Sources, Destination, Exits,
     ReadyToExit
<1>3. OnlyAt(pos, pos', t) /\ pos'[t].status = "CLOSED"
  <2>1. pos \in Books /\ pos[t].qty \in Nat /\ pos[t].avg \in Int
    BY DEF IInv, TypeOK, Books, Pm!PositionBooks
  <2>2. pos[t].status # "none"
    BY DEF TriggerExit, Pm!IsOpen
  <2> QED BY <1>1, <1>2, <2>1, <2>2, CloseFact DEF Reduced
<1>4. \A u \in Trades : pos'[u].status = "none" <=> pos[u].status = "none"
  BY <1>3 DEF OnlyAt, TriggerExit, Pm!IsOpen
<1>5. \A u \in Trades : ~Active(u)'
  BY <1>1, <1>3 DEF OnlyAt, CInv, ActiveIsWhole, Active, Pm!IsOpen
<1>6. (\A o \in OrderIds : ~Unfilled(o)) /\ (\A o \in OrderIds : Unfilled(o)' <=> Unfilled(o))
  BY <1>1, <1>4, OpenTrades DEF CInv, UnfilledIsCurrent, Unfilled
<1>7. \A o \in OrderIds : (Olm!Linked(olm, o))' <=> Olm!Linked(olm, o)
  BY <1>1 DEF Olm!Linked
<1>8. ActiveIsWhole' /\ UnfilledIsCurrent'
  BY <1>1, <1>5, <1>6 DEF CInv, ActiveIsWhole, UnfilledIsCurrent
<1>9. LegsAreEqual' /\ LegsHavePositions'
  <2>1. LegsHavePositions'
    BY <1>1, <1>4, <1>7 DEF CInv, LegsHavePositions
  <2> QED BY <1>5, <2>1 DEF LegsAreEqual, LegsHavePositions
<1>10. OrdersAreTracked' /\ CurrentIsStageable'
  BY <1>1, <1>2, <1>7 DEF CInv, OrdersAreTracked, CurrentIsStageable, Olm!Registered, NoTracking
<1> QED BY <1>8, <1>9, <1>10 DEF CInv

LEMMA SubmittedCalm ==
  ASSUME IInv, CInv, TradesAreKnown, NEW t \in Trades, DecisionSubmitted(t)
  PROVE  CInv'
<1>1. PICK answer \in Answers, again \in Answers, n \in OrderIds \cup {NoOrder},
           m \in OrderIds \cup {NoOrder}, rec \in BOOLEAN :
        /\ AnswerId(core, answer, n)
        /\ IF answer = "REJECTED"
             THEN RetryAnswer(Track(core, n, answer), n, rec, again, m)
             ELSE again = "empty" /\ m = NoOrder /\ ~rec
        /\ Submitted(t, answer, n, rec, again, m)
  BY DEF DecisionSubmitted
<1> DEFINE r == Submit(core, "RISK_PASSED", answer, n, rec, again, m)
<1>2. Numbered(answer, n) /\ Numbered(again, m)
  BY <1>1, AnswerNumbered, RetryNumbered DEF Numbered
<1>3. /\ KeepsTracked(core, r.core)
      /\ ~r.raised => n \in OrderIds /\ r.id = n /\ Tracked(r.core, n)
      /\ answer = "ACKNOWLEDGED" \/ again = "ACKNOWLEDGED"
           => ~r.raised /\ r.sm = "ORDER_PENDING"
      /\ again = "ACKNOWLEDGED" =>
           Tracked(r.core, m) /\ answer = "REJECTED" /\ ~Tracked(core, m) /\ m # n
  BY <1>1, <1>2, SubmitFact DEF IInv, TypeOK
<1>4. r.sm \in {"RISK_PASSED", "ORDER_PENDING", "FAILED"}
  BY <1>2, SubmitType DEF IInv, TypeOK
<1>5. /\ core' = r.core /\ sm' = r.sm
      /\ IF r.raised THEN cur' = [cur EXCEPT !.intent = t] /\ olm' = olm
         ELSE /\ cur' = [cur EXCEPT !.trade = t, !.intent = t, !.order = r.id]
              /\ olm' = Olm!RegisterOrder(olm, r.id, t)
      /\ orderTrade' = [o \in OrderIds |-> IF o \in {n, m} THEN t ELSE orderTrade[o]]
      /\ Accepts(n, answer, m, again)
  BY <1>1 DEF Submitted
<1>6. n \in OrderIds => ~Tracked(core, n)
  BY <1>1 DEF AnswerId, IsNextId, NoOrder, OrderIds
<1>7. m \in OrderIds => ~Tracked(core, m)
  <2> SUFFICES ASSUME m \in OrderIds
               PROVE  ~Tracked(core, m)
    OBVIOUS
  <2>1. NoOrder \notin OrderIds
    BY DEF NoOrder, OrderIds
  <2>2. answer = "REJECTED" /\ n \in OrderIds /\ ~Tracked(Track(core, n, answer), m)
    BY <1>1, <1>2, <2>1 DEF RetryAnswer, AnswerId, IsNextId, Numbered
  <2>3. KeepsTracked(core, Track(core, n, answer))
    BY <2>2, TrackFact DEF Statuses, IInv, TypeOK
  <2> QED BY <2>2, <2>3 DEF KeepsTracked
<1> HIDE DEF r
<1>8. pos' = pos /\ t \notin seen /\ sm = "IDLE" /\ pos[t].status = "none"
  BY DEF DecisionSubmitted, Passes, CanTransition, Sources, TradesAreKnown
<1>9. (\A u \in Trades : ~Active(u)) /\ (\A u \in Trades : ~Active(u)')
  BY <1>8 DEF CInv, ActiveIsWhole, Active
\* The orders at work: those from before, whose trades have positions, and the
\* new one.
<1>10. ASSUME NEW o \in OrderIds, broker'[o].open
       PROVE  \/ /\ broker[o].open /\ broker'[o] = broker[o] /\ orderTrade'[o] = orderTrade[o]
                 /\ ~Unfilled(o) /\ ~Unfilled(o)' /\ Tracked(core, o)
              \/ /\ o = IF answer = "ACKNOWLEDGED" THEN n ELSE m
                 /\ answer = "ACKNOWLEDGED" \/ again = "ACKNOWLEDGED"
                 /\ orderTrade'[o] = t
  <2>1. CASE (o = n /\ answer = "ACKNOWLEDGED") \/ (o = m /\ again = "ACKNOWLEDGED")
    BY <1>3, <1>5, <2>1
  <2>2. CASE ~((o = n /\ answer = "ACKNOWLEDGED") \/ (o = m /\ again = "ACKNOWLEDGED"))
    <3>1. broker'[o] = broker[o]
      BY <1>5, <2>2 DEF Accepts
    <3>2. Tracked(core, o)
      BY <1>10, <3>1 DEF CInv, OrdersAreTracked
    <3>3. orderTrade'[o] = orderTrade[o]
      BY <1>5, <1>6, <1>7, <3>2
    <3>4. ~Unfilled(o)
      BY <1>8 DEF CInv, UnfilledIsCurrent
    <3> QED BY <1>8, <1>10, <3>1, <3>2, <3>3, <3>4 DEF Unfilled
  <2> QED BY <2>1, <2>2
<1>11. r.raised => cur'.trade = cur.trade /\ cur'.order = cur.order /\ cur'.staged = cur.staged
  BY <1>5 DEF IInv, TypeOK
<1>12. ~r.raised => cur'.trade = t /\ cur'.order = n /\ cur'.staged = cur.staged
  BY <1>3, <1>5 DEF IInv, TypeOK
<1>13. /\ olm'.link = olm.link /\ olm'.legs = olm.legs
       /\ \A p \in OrderIds : (Olm!Registered(olm, p))' <=>
            Olm!Registered(olm, p) \/ (~r.raised /\ p = n)
  <2>1. CASE r.raised
    BY <1>5, <2>1 DEF Olm!Registered
  <2>2. CASE ~r.raised
    <3>1. n \in OrderIds /\ r.id = n /\ olm \in Olm!Managers
      BY <1>3, <2>2 DEF IInv, TypeOK
    <3>2. olm' = Olm!RegisterOrder(olm, n, t)
      BY <1>5, <2>2, <3>1
    <3> QED BY <2>2, <3>1, <3>2, RegisterFact
  <2> QED BY <2>1, <2>2
<1>14. \A o \in OrderIds : (Olm!Linked(olm, o))' <=> Olm!Linked(olm, o)
  BY <1>13 DEF Olm!Linked
<1>15. \A o \in OrderIds : broker'[o].open => Tracked(core', o)
  <2> SUFFICES ASSUME NEW o \in OrderIds, broker'[o].open
               PROVE  Tracked(core', o)
    OBVIOUS
  <2>1. Tracked(core, o) => Tracked(core', o)
    BY <1>3, <1>5 DEF KeepsTracked
  <2> QED BY <1>3, <1>5, <1>10, <2>1
<1>16. ActiveIsWhole' /\ LegsAreEqual' /\ LegsHavePositions'
  <2>1. LegsHavePositions'
    BY <1>8, <1>13, <1>14 DEF CInv, LegsHavePositions
  <2> QED BY <1>9, <2>1 DEF ActiveIsWhole, LegsAreEqual, LegsHavePositions
<1>17. UnfilledIsCurrent'
  <2>1. ASSUME NEW o \in OrderIds, Unfilled(o)'
        PROVE  /\ sm' = "ORDER_PENDING" /\ cur'.trade = orderTrade'[o]
               /\ o = IF answer = "ACKNOWLEDGED" THEN n ELSE m
    <3>1. broker'[o].open
      BY <2>1 DEF Unfilled
    <3> QED BY <1>3, <1>5, <1>10, <1>12, <2>1, <3>1
  <2>2. ASSUME NEW o \in OrderIds, broker'[o].open, broker'[o].filled = 0
        PROVE  Unfilled(o)'
    <3>1. CASE ~Unfilled(o) /\ broker[o].open /\ broker'[o] = broker[o]
      BY <2>2, <3>1 DEF CInv, UnfilledIsCurrent
    <3>2. CASE orderTrade'[o] = t
      BY <1>8, <2>2, <3>2 DEF Unfilled
    <3> QED BY <1>10, <2>2, <3>1, <3>2
  <2> QED BY <2>1, <2>2 DEF UnfilledIsCurrent
<1>18. OrdersAreTracked'
  BY <1>3, <1>5, <1>13, <1>14, <1>15 DEF KeepsTracked, CInv, OrdersAreTracked
<1>19. CurrentIsStageable'
  <2>1. ~cur.staged /\ ~cur'.staged
    BY <1>8, <1>11, <1>12 DEF CInv, CurrentIsStageable
  <2>2. CASE r.raised
    BY <1>8, <1>11, <1>13, <1>14, <2>1, <2>2 DEF CInv, CurrentIsStageable
  <2>3. CASE ~r.raised
    <3>1. n \in OrderIds /\ ~Olm!Linked(olm, n)
      BY <1>3, <1>6, <2>3 DEF CInv, OrdersAreTracked
    <3> QED BY <1>12, <1>13, <1>14, <2>1, <2>3, <3>1 DEF CurrentIsStageable
  <2> QED BY <2>2, <2>3
<1> QED BY <1>16, <1>17, <1>18, <1>19 DEF CInv

\* What is rejected is the whole of the unfilled order; the order of a retry
\* takes its place, and works in the state the machine is in.
LEMMA RejectedCalm ==
  ASSUME IInv, CInv, Calm, NEW o \in OrderIds, HandleRejection(o)
  PROVE  CInv'
<1>1. PICK again \in Answers, m \in OrderIds \cup {NoOrder}, rec \in BOOLEAN :
        RetryAnswer(core, o, rec, again, m) /\ Rejected(o, rec, again, m)
  BY DEF HandleRejection
<1> DEFINE r == Rejection(core, sm, o, rec, again, m)
           t == orderTrade[o]
<1>2. /\ Numbered(again, m) /\ core \in CoreStates /\ sm \in States
      /\ broker[o].open /\ t \in Trades
  BY <1>1, RetryNumbered, OpenTrades DEF HandleRejection, Open, IInv, TypeOK
<1>3. Unfilled(o)
  <2>1. broker[o].filled \in Nat /\ ~(broker[o].filled > 0)
    BY OrchestratorAssumption DEF HandleRejection, Calm, IInv, TypeOK
  <2> QED BY <1>2, <2>1 DEF CInv, UnfilledIsCurrent
<1>4. sm \in {"ORDER_PENDING", "PARTIAL_FILL", "FILLED"} /\ cur.trade = t
  BY <1>3 DEF CInv, UnfilledIsCurrent
<1>5. /\ KeepsTracked(core, r.core)
      /\ again = "ACKNOWLEDGED" /\ RejectionRetries(core, o, rec)
           => ~r.raised /\ r.sm = sm /\ Tracked(r.core, m)
  BY <1>2, RejectionFact
<1>6. r.sm \in {sm, "FAILED"}
  <2>1. r.sm \in {sm, After(sm, "REJECTED")}
    BY <1>2, RejectionType
  <2> HIDE DEF r
  <2> QED BY <2>1 DEF After, Destination
<1>7. m \in OrderIds => ~Tracked(core, m)
  BY <1>1 DEF RetryAnswer, AnswerId, IsNextId, NoOrder, OrderIds
<1>8. /\ core' = r.core /\ sm' = r.sm
      /\ olm' = IF r.raised THEN olm ELSE Olm!UpdateState(olm, o, "REJECTED")
      /\ \A p \in OrderIds : orderTrade'[p] = IF p = m THEN t ELSE orderTrade[p]
      /\ broker'[o] = [broker[o] EXCEPT !.open = FALSE]
      /\ \A p \in OrderIds \ {o} : (p = m /\ again = "ACKNOWLEDGED") \/ broker'[p] = broker[p]
      /\ UNCHANGED <<pos, cur>>
  <2>1. broker' = [p \in OrderIds |->
                    CASE p = o -> [broker[o] EXCEPT !.open = FALSE]
                      [] p = m /\ again = "ACKNOWLEDGED" -> [open |-> TRUE, filled |-> 0]
                      [] OTHER -> broker[p]]
    BY <1>1 DEF Rejected
  <2>2. broker'[o] = CASE o = o -> [broker[o] EXCEPT !.open = FALSE]
                       [] o = m /\ again = "ACKNOWLEDGED" -> [open |-> TRUE, filled |-> 0]
                       [] OTHER -> broker[o]
    BY <2>1
  <2>3. broker'[o] = [broker[o] EXCEPT !.open = FALSE]
    BY <1>2, <1>7, <2>2 DEF CInv, OrdersAreTracked
  <2>4. \A p \in OrderIds \ {o} : (p = m /\ again = "ACKNOWLEDGED") \/ broker'[p] = broker[p]
    BY <2>1
  <2> QED BY <1>1, <2>3, <2>4 DEF Rejected, HandleRejection
<1>9. again = "ACKNOWLEDGED" => RejectionRetries(core, o, rec) /\ m \in OrderIds
  BY <1>1, <1>2 DEF RetryAnswer, Numbered
<1> HIDE DEF r, t
<1>10. SameLegs(olm, olm')
  <2>1. "REJECTED" \in Olm!OrderStates \ {"unregistered"}
    BY DEF Olm!OrderStates, Olm!Terminal
  <2> QED BY <1>8, <2>1, UpdateStateFact DEF SameLegs, IInv, TypeOK
<1>11. (\A u \in Trades : ~Active(u)) /\ (\A u \in Trades : ~Active(u)')
  BY <1>4, <1>8 DEF CInv, ActiveIsWhole, Active
<1>12. \A p \in OrderIds : (Olm!Linked(olm, p))' <=> Olm!Linked(olm, p)
  BY <1>10 DEF SameLegs, Olm!Linked
\* The orders at work: those from before that have been filled in part, and the
\* retry.
<1>13. ASSUME NEW p \in OrderIds, broker'[p].open
       PROVE  \/ /\ broker[p].open /\ broker'[p] = broker[p] /\ ~Unfilled(p) /\ ~Unfilled(p)'
              \/ again = "ACKNOWLEDGED" /\ p = m /\ orderTrade'[p] = t
  <2>1. p # o
    <3>1. ~[broker[o] EXCEPT !.open = FALSE].open
      BY DEF IInv, TypeOK
    <3>2. broker'[o] = [broker[o] EXCEPT !.open = FALSE]
      BY <1>8
    <3>3. ~broker'[o].open
      BY <3>1, <3>2, Zenon
    <3> QED BY <1>13, <3>3, Zenon
  <2>2. CASE p = m /\ again = "ACKNOWLEDGED"
    BY <1>8, <2>2
  <2>3. CASE ~(p = m /\ again = "ACKNOWLEDGED")
    <3>1. broker'[p] = broker[p]
      BY <1>8, <2>1, <2>3
    <3>2. p # m
      BY <1>7, <1>13, <3>1 DEF CInv, OrdersAreTracked
    <3>3. ~Unfilled(p)
      BY <1>3, <2>1 DEF CInv, UnfilledIsCurrent
    <3> QED BY <1>8, <1>13, <3>1, <3>2, <3>3 DEF Unfilled
  <2> QED BY <2>2, <2>3
<1>14. ActiveIsWhole' /\ LegsAreEqual' /\ LegsHavePositions'
  <2>1. LegsHavePositions'
    BY <1>8, <1>10, <1>12 DEF SameLegs, CInv, LegsHavePositions
  <2> QED BY <1>11, <2>1 DEF ActiveIsWhole, LegsAreEqual, LegsHavePositions
<1>15. UnfilledIsCurrent'
  <2>1. ASSUME NEW p \in OrderIds, Unfilled(p)'
        PROVE  /\ sm' = sm /\ cur'.trade = orderTrade'[p] /\ p = m
    <3>1. broker'[p].open
      BY <2>1 DEF Unfilled
    <3> QED BY <1>4, <1>5, <1>8, <1>9, <1>13, <2>1, <3>1
  <2>2. ASSUME NEW p \in OrderIds, broker'[p].open, broker'[p].filled = 0
        PROVE  Unfilled(p)'
    <3>1. CASE broker[p].open /\ broker'[p] = broker[p] /\ ~Unfilled(p)
      BY <2>2, <3>1 DEF CInv, UnfilledIsCurrent
    <3>2. CASE orderTrade'[p] = t
      BY <1>3, <1>8, <2>2, <3>2 DEF Unfilled, t
    <3> QED BY <1>13, <2>2, <3>1, <3>2
  <2> QED BY <1>4, <2>1, <2>2 DEF UnfilledIsCurrent
<1>16. OrdersAreTracked'
  <2>1. ASSUME NEW p \in OrderIds, broker'[p].open
        PROVE  Tracked(core', p)
    BY <1>5, <1>8, <1>9, <1>13, <2>1 DEF KeepsTracked, CInv, OrdersAreTracked
  <2> QED BY <1>5, <1>8, <1>10, <1>12, <2>1 DEF KeepsTracked, SameLegs, CInv, OrdersAreTracked
<1>17. CurrentIsStageable'
  <2>1. ~cur.staged
    BY <1>4 DEF CInv, CurrentIsStageable
  <2> QED BY <1>4, <1>8, <1>10, <1>12, <2>1 DEF SameLegs, CInv, CurrentIsStageable
<1> QED BY <1>14, <1>15, <1>16, <1>17 DEF CInv


\* An execution leaves its order filled in part at least, and other orders alone.
LEMMA ExecuteCalm ==
  ASSUME IInv, NEW o \in OrderIds, NEW n \in 1..LotUnits, Execute(o, n)
  PROVE  /\ \A p \in OrderIds : broker'[p].open => broker[p].open
         /\ \A p \in OrderIds \ {o} : broker'[p] = broker[p]
         /\ broker'[o].filled # 0
<1> DEFINE b == [open |-> broker[o].filled + n < LotUnits, filled |-> broker[o].filled + n]
<1>1. broker' = [broker EXCEPT ![o] = b]
  BY DEF Execute, IInv, TypeOK
<1>2. b.filled # 0
  BY OrchestratorAssumption DEF IInv, TypeOK
<1> HIDE DEF b
<1>3. broker'[o] = b /\ \A p \in OrderIds \ {o} : broker'[p] = broker[p]
  BY <1>1 DEF IInv, TypeOK
<1> QED BY <1>2, <1>3, ExecuteFact

\* A report of a fill marks its order.
LEMMA FillMarks ==
  ASSUME IInv, NEW o \in OrderIds, NEW n \in 1..LotUnits, HandleFill(o, n)
  PROVE  KeepsTracked(core, core') /\ orderTrade' = orderTrade /\ Execute(o, n)
<1> DEFINE a == IF broker[o].filled + n < LotUnits THEN "PARTIAL_FILL" ELSE "FILLED"
<1>1. a \in Statuses \ {"none"} /\ core \in CoreStates
  BY DEF Statuses, IInv, TypeOK
<1>2. core' = [core EXCEPT !.status[o] = a]
  BY DEF HandleFill, Fill
<1> HIDE DEF a
<1> QED BY <1>1, <1>2, MarkFact DEF HandleFill

\* What a fill does that the machine accepts.
LEMMA AcceptedFill ==
  ASSUME IInv, sm = "ORDER_PENDING",
         NEW o \in OrderIds, NEW n \in 1..LotUnits, HandleFill(o, n)
  PROVE  LET t == orderTrade[o]
             book == BookFill(t, n)
             x == Stage(book, t)
         IN  /\ pos' = book
             /\ ~WantsProtection(book, t) =>
                  /\ sm' \in {"PARTIAL_FILL", "FILLED"} /\ cur' = cur
                  /\ olm' = Olm!HandlePartialFill(olm, o, n)
             /\ WantsProtection(book, t) =>
                  /\ x.raised => sm' \in {"PARTIAL_FILL", "FILLED"}
                  /\ ~x.raised => sm' = "PROTECTED"
                  /\ cur' = [cur EXCEPT !.staged = ~x.raised]
                  /\ olm' = Olm!HandlePartialFill(x.book, o, n)
<1> DEFINE e == FillEvent(broker[o].filled + n < LotUnits)
<1>1. e \in {"PARTIAL_FILL_RECEIVED", "FULL_FILL"}
  BY DEF FillEvent
<1>2. CanTransition(sm, e) /\ After(sm, e) \in {"PARTIAL_FILL", "FILLED"}
  BY <1>1 DEF CanTransition, Sources, After, Destination
<1>3. After(After(sm, e), "PROTECTION_STAGED") = "PROTECTED"
  BY <1>2 DEF After, CanTransition, Sources, Destination
<1> QED BY <1>2, <1>3 DEF HandleFill, Fill, Staged

\* A fill that the machine refuses changes nothing that matters here.
LEMMA RefusedFillCalm ==
  ASSUME IInv, CInv, sm # "ORDER_PENDING",
         NEW o \in OrderIds, NEW n \in 1..LotUnits, HandleFill(o, n)
  PROVE  CInv'
<1>1. ~CanTransition(sm, FillEvent(broker[o].filled + n < LotUnits))
  BY DEF CanTransition, Sources, FillEvent
<1>2. UNCHANGED <<sm, olm, pos, cur>>
  BY <1>1 DEF HandleFill, Fill
<1>3. Quiet
  BY <1>2, FillMarks, ExecuteCalm DEF Quiet, SameLegs
<1> QED BY <1>3, QuietCalm


\* A late fill, of a trade whose position is closed already, opens nothing, and
\* stages nothing since the trade has its legs.
LEMMA LateFillCalm ==
  ASSUME IInv, CInv, Calm, sm = "ORDER_PENDING",
         NEW o \in OrderIds, NEW n \in 1..LotUnits, HandleFill(o, n),
         pos[orderTrade[o]].status # "none"
  PROVE  CInv'
<1> DEFINE t == orderTrade[o]
           book == BookFill(t, n)
           x == Stage(book, t)
<1>1. /\ KeepsTracked(core, core') /\ orderTrade' = orderTrade
      /\ \A p \in OrderIds : broker'[p].open => broker[p].open
      /\ \A p \in OrderIds \ {o} : broker'[p] = broker[p]
      /\ broker'[o].filled # 0 /\ t \in Trades /\ n \in Nat
  BY FillMarks, ExecuteCalm, ExecuteFact, OrchestratorAssumption
<1>2. /\ pos' = book
      /\ ~WantsProtection(book, t) =>
           /\ sm' \in {"PARTIAL_FILL", "FILLED"} /\ cur' = cur
           /\ olm' = Olm!HandlePartialFill(olm, o, n)
      /\ WantsProtection(book, t) =>
           /\ x.raised => sm' \in {"PARTIAL_FILL", "FILLED"}
           /\ cur' = [cur EXCEPT !.staged = ~x.raised]
           /\ olm' = Olm!HandlePartialFill(x.book, o, n)
  BY AcceptedFill
<1>3. OnlyAt(pos, book, t) /\ book[t].status = pos[t].status
  BY <1>1, BookFillFact DEF Booked
<1>4. WantsProtection(book, t) => x.raised /\ x.book = olm
  <2> SUFFICES ASSUME WantsProtection(book, t)
               PROVE  x.raised /\ x.book = olm
    OBVIOUS
  <2>1. cur.order \in OrderIds /\ olm \in Olm!Managers
    BY DEF WantsProtection, IInv, TypeOK
  <2>2. olm.legs[t] # 0
    BY <1>1 DEF CInv, LegsHavePositions
  <2> HIDE DEF book
  <2>3. book[t].qty \in Nat
    BY <1>1, <1>3 DEF OnlyAt, Books, Pm!PositionBooks
  <2>4. x = Olm!StageProtection(olm, t, cur.order, book[t].qty)
    BY DEF Stage, Calm
  <2> HIDE DEF x, t
  <2> QED BY <1>1, <2>1, <2>2, <2>3, <2>4, StageFact
<1> HIDE DEF t, book, x
<1>5. ~cur.staged
  BY DEF CInv, CurrentIsStageable
<1>6. /\ sm' \in {"PARTIAL_FILL", "FILLED"}
      /\ olm' = Olm!HandlePartialFill(olm, o, n)
      /\ cur'.trade = cur.trade /\ cur'.order = cur.order /\ ~cur'.staged
  BY <1>2, <1>4, <1>5 DEF IInv, TypeOK
<1>7. /\ olm'.legs = olm.legs
      /\ \A p \in OrderIds : Olm!Registered(olm', p) <=> Olm!Registered(olm, p)
      /\ \A p \in OrderIds \ {o} : olm'.link[p] = olm.link[p]
      /\ \/ olm'.link[o] = olm.link[o]
         \/ Olm!Linked(olm, o) /\ olm'.link[o].trade = olm.link[o].trade
  BY <1>1, <1>6, PartialFillFact DEF IInv, TypeOK
<1>8. /\ \A p \in OrderIds : olm'.link[p].trade = olm.link[p].trade
      /\ \A p \in OrderIds : Olm!Linked(olm', p) <=> Olm!Linked(olm, p)
  <2>1. \A p \in OrderIds : Olm!Linked(olm, p) => olm.link[p].trade # NoTrade
    BY OrchestratorAssumption DEF CInv, LegsHavePositions
  <2>2. Olm!NoLink.trade = NoTrade
    BY DEF Olm!NoLink
  <2> QED BY <1>7, <2>1, <2>2 DEF Olm!Linked
<1>9. \A u \in Trades : pos'[u].status = pos[u].status
  BY <1>2, <1>3 DEF OnlyAt
<1>10. \A u \in Trades : ~Active(u)'
  BY <1>9 DEF CInv, ActiveIsWhole, Active, Pm!IsOpen
<1>11. LegsHavePositions'
  BY <1>7, <1>8, <1>9 DEF CInv, LegsHavePositions
<1>12. ActiveIsWhole' /\ LegsAreEqual'
  BY <1>10, <1>11 DEF ActiveIsWhole, LegsAreEqual, LegsHavePositions
<1>13. UnfilledIsCurrent'
  <2>1. \A p \in OrderIds : Unfilled(p)' => Unfilled(p)
    BY <1>1, <1>9, OpenTrades DEF Unfilled
  <2>2. \A p \in OrderIds : broker'[p].open /\ broker'[p].filled = 0 => Unfilled(p)'
    BY <1>1, <1>9, OpenTrades DEF CInv, UnfilledIsCurrent, Unfilled
  <2> QED BY <1>1, <1>6, <2>1, <2>2 DEF CInv, UnfilledIsCurrent
<1>14. OrdersAreTracked'
  BY <1>1, <1>7, <1>8 DEF KeepsTracked, CInv, OrdersAreTracked
<1>15. CurrentIsStageable'
  BY <1>6, <1>7, <1>8 DEF CInv, CurrentIsStageable
<1> QED BY <1>11, <1>12, <1>13, <1>14, <1>15 DEF CInv

\* A first fill where nothing is active opens a position of its size.
LEMMA FirstFillOpens ==
  ASSUME IInv, NEW t \in Trades, NEW n \in 1..LotUnits,
         pos[t].status = "none", \A u \in Trades : ~Active(u)
  PROVE  LET r == BookFill(t, n)[t] IN
         r.status = "OPEN" /\ r.qty = n /\ r.avg = FillPrice
<1> DEFINE side == IF cur.intent = NoTrade THEN "BUY" ELSE Action[cur.intent]
           d == Pm!OpenPosition(pos, t, side, n, FillPrice)
<1>1. /\ pos \in Books /\ cur.intent \in Trades \cup {NoTrade}
      /\ FillPrice \in Nat /\ FillPrice > 0 /\ n \in Nat /\ n > 0
  BY OrchestratorAssumption DEF IInv, TypeOK, Books
<1>2. side \in {"BUY", "SELL"}
  BY <1>1, OrchestratorAssumption
<1>3. BookFill(t, n) =
        IF cur.intent = NoTrade THEN d ELSE Pm!SetSl(d, t, PlanSl[cur.intent])
  BY DEF BookFill, Pm!Exists
<1> HIDE DEF side
<1>4. /\ d \in Books /\ d[t].status = "OPEN"
      /\ d = pos \/ (d[t].qty = n /\ d[t].avg = FillPrice)
  <2>1. \A u \in Trades : ~Pm!IsOpen(pos[u])
    BY DEF Active
  <2>2. /\ OnlyAt(pos, d, t)
        /\ d = pos \/ (d[t].qty = n /\ d[t].avg = FillPrice)
        /\ pos[t].status = "none" /\ (\A u \in Trades : ~Pm!IsOpen(pos[u])) /\ n > 0 /\ FillPrice > 0
             => d[t].status = "OPEN"
    BY <1>1, <1>2, OpenFact
  <2> QED BY <1>1, <2>1, <2>2 DEF OnlyAt
<1> HIDE DEF d
<1>5. d[t].status = "OPEN" /\ d[t].qty = n /\ d[t].avg = FillPrice
  BY <1>4
<1>6. CASE cur.intent # NoTrade
  <2>1. PlanSl[cur.intent] \in Nat
    BY <1>1, <1>6, OrchestratorAssumption
  <2> QED BY <1>3, <1>4, <1>5, <1>6, <2>1, SetSlFact
<1> QED BY <1>3, <1>5, <1>6


\* The first fill of the current trade opens its position, and protects it.
LEMMA FirstFillCalm ==
  ASSUME IInv, CInv, Calm, sm = "ORDER_PENDING",
         NEW o \in OrderIds, NEW n \in 1..LotUnits, HandleFill(o, n),
         pos[orderTrade[o]].status = "none"
  PROVE  CInv'
<1> DEFINE t == orderTrade[o]
           book == BookFill(t, n)
           x == Stage(book, t)
           y == x.book
           co == cur.order
<1>1. /\ KeepsTracked(core, core') /\ orderTrade' = orderTrade /\ Execute(o, n)
      /\ \A p \in OrderIds : broker'[p].open => broker[p].open
      /\ \A p \in OrderIds \ {o} : broker'[p] = broker[p]
      /\ broker'[o].filled # 0 /\ t \in Trades /\ n \in Nat /\ n > 0
  BY FillMarks, ExecuteCalm, ExecuteFact, OrchestratorAssumption
<1>2. /\ pos' = book
      /\ WantsProtection(book, t) =>
           /\ ~x.raised => sm' = "PROTECTED"
           /\ cur' = [cur EXCEPT !.staged = ~x.raised]
           /\ olm' = Olm!HandlePartialFill(y, o, n)
  BY AcceptedFill
<1>3. \A u \in Trades : ~Active(u)
  BY DEF CInv, ActiveIsWhole
<1>4. /\ book[t].status = "OPEN" /\ book[t].qty = n /\ book[t].avg > 0
      /\ \A u \in Trades \ {t} : book[u] = pos[u]
  BY <1>1, <1>3, FirstFillOpens, BookFillFact, OrchestratorAssumption DEF OnlyAt
<1>5. Unfilled(o) /\ cur.trade = t
  BY <1>1 DEF Execute, Open, Unfilled, CInv, UnfilledIsCurrent
<1>6. /\ olm \in Olm!Managers /\ co \in OrderIds /\ co # NoOrder
      /\ Olm!Registered(olm, co) /\ ~Olm!Linked(olm, co) /\ ~cur.staged
      /\ olm.legs[t] = 0
  BY <1>1, <1>5, OrchestratorAssumption
     DEF NoOrder, OrderIds, IInv, TypeOK, CInv, CurrentIsStageable, LegsHavePositions
<1>7. WantsProtection(book, t)
  BY <1>1, <1>4, <1>6 DEF WantsProtection
<1>8. x = Olm!StageProtection(olm, t, co, n)
  BY <1>4 DEF Stage, Calm
<1> HIDE DEF t, book, x, co
<1>9. /\ ~x.raised /\ y.legs = [olm.legs EXCEPT ![t] = n]
      /\ \A p \in OrderIds : Olm!Registered(y, p) <=> Olm!Registered(olm, p)
      /\ \A p \in OrderIds \ {co} : y.link[p] = olm.link[p]
      /\ y.link[co].trade = t /\ y.link[co].qty = n
  BY <1>1, <1>6, <1>8, StageFact
<1>10. y \in Olm!Managers
  BY <1>1, <1>6, <1>8, StageType
<1> HIDE DEF y
<1>11. /\ olm'.legs = y.legs
       /\ \A p \in OrderIds : Olm!Registered(olm', p) <=> Olm!Registered(y, p)
       /\ \A p \in OrderIds \ {o} : olm'.link[p] = y.link[p]
       /\ \/ olm'.link[o] = y.link[o]
          \/ /\ Olm!Linked(y, o) /\ olm'.link[o].trade = y.link[o].trade
             /\ olm'.link[o].qty = n
  BY <1>1, <1>2, <1>7, <1>10, PartialFillFact
<1>12. /\ sm' = "PROTECTED" /\ cur'.trade = t /\ cur'.order = co
  BY <1>2, <1>5, <1>7, <1>9 DEF IInv, TypeOK, co
\* The linkages afterwards: the new one, and those there were, of other trades.
<1>13. \A p \in OrderIds : Olm!Linked(olm, p) =>
         olm.link[p].trade \in Trades \ {t} /\ pos[olm.link[p].trade].status # "none"
  BY <1>5 DEF CInv, LegsHavePositions, Unfilled, t
<1>14. olm'.link[co].trade = t /\ olm'.link[co].qty = n
  BY <1>6, <1>9, <1>11
<1>15. ASSUME NEW p \in OrderIds \ {co}
       PROVE  /\ olm'.link[p].trade = olm.link[p].trade
              /\ Olm!Linked(olm', p) <=> Olm!Linked(olm, p)
  <2>1. y.link[p] = olm.link[p] /\ (Olm!Linked(y, p) <=> Olm!Linked(olm, p))
    BY <1>9, <1>15 DEF Olm!Linked
  <2>2. Olm!NoLink.trade = NoTrade /\ NoTrade \notin Trades
    BY OrchestratorAssumption DEF Olm!NoLink
  <2> QED BY <1>11, <1>13, <2>1, <2>2 DEF Olm!Linked
<1>16. \A p \in OrderIds : Olm!Linked(olm', p) => p = co \/ Olm!Linked(olm, p)
  BY <1>15
<1>17. ActiveIsWhole'
  <2>1. pos'[t].qty > 0 /\ pos'[t].avg > 0
    BY <1>1, <1>2, <1>4
  <2>2. \A u \in Trades : Active(u)' => u = t
    BY <1>2, <1>3, <1>4 DEF Active
  <2> QED BY <1>6, <1>12, <1>14, <2>1, <2>2 DEF ActiveIsWhole
<1>18. LegsHavePositions'
  <2>1. \A p \in OrderIds : Olm!Linked(olm', p) =>
          olm'.link[p].trade \in Trades /\ pos'[olm'.link[p].trade].status # "none"
    BY <1>1, <1>2, <1>4, <1>13, <1>14, <1>15, <1>16
  <2>2. \A u \in Trades : olm'.legs[u] = 0 <=> pos'[u].status = "none"
    <3>1. olm'.legs[t] = n /\ \A u \in Trades \ {t} : olm'.legs[u] = olm.legs[u]
      BY <1>1, <1>6, <1>9, <1>11 DEF Olm!Managers
    <3> QED BY <1>1, <1>2, <1>4, <3>1 DEF CInv, LegsHavePositions
  <2> QED BY <2>1, <2>2 DEF LegsHavePositions
<1>19. LegsAreEqual'
  <2> SUFFICES ASSUME NEW p \in OrderIds, Olm!Linked(olm', p), Active(olm.link[p].trade)'
               PROVE  /\ olm'.link[p].qty = pos'[olm'.link[p].trade].qty
                      /\ olm'.legs[olm'.link[p].trade] = pos'[olm'.link[p].trade].qty
    BY DEF LegsAreEqual
  <2>1. p = co
    <3>1. \A u \in Trades \ {t} : ~Active(u)'
      BY <1>2, <1>3, <1>4 DEF Active
    <3> QED BY <1>13, <1>15, <1>16, <3>1
  <2>2. olm'.legs[t] = n
    BY <1>1, <1>6, <1>9, <1>11 DEF Olm!Managers
  <2> QED BY <1>2, <1>4, <1>14, <2>1, <2>2
<1>20. UnfilledIsCurrent'
  <2>1. \A p \in OrderIds : ~Unfilled(p)'
    <3> SUFFICES ASSUME NEW p \in OrderIds, Unfilled(p)'
                 PROVE  FALSE
      OBVIOUS
    <3>1. broker[p].open /\ orderTrade[p] # t /\ orderTrade[p] \in Trades
      BY <1>1, <1>2, <1>4, OpenTrades DEF Unfilled
    <3>2. Unfilled(p)
      BY <1>1, <1>2, <1>4, <3>1 DEF Unfilled
    <3>3. p = o
      BY <1>5, <3>2 DEF CInv, UnfilledIsCurrent
    <3> QED BY <3>1, <3>3 DEF t
  <2>2. \A p \in OrderIds : broker'[p].open => broker'[p].filled # 0
    <3> SUFFICES ASSUME NEW p \in OrderIds, p # o, broker'[p].open
                 PROVE  broker'[p].filled # 0
      BY <1>1
    <3>1. ~Unfilled(p)
      BY <1>5 DEF CInv, UnfilledIsCurrent
    <3> QED BY <1>1, <3>1 DEF CInv, UnfilledIsCurrent
  <2> QED BY <2>1, <2>2 DEF UnfilledIsCurrent
<1>21. OrdersAreTracked'
  BY <1>1, <1>6, <1>9, <1>11, <1>16 DEF KeepsTracked, CInv, OrdersAreTracked
<1>22. CurrentIsStageable'
  BY <1>6, <1>9, <1>11, <1>12 DEF CurrentIsStageable
<1> QED BY <1>17, <1>18, <1>19, <1>20, <1>21, <1>22 DEF CInv


LEMMA FillCalm ==
  ASSUME IInv, CInv, Calm, NEW o \in OrderIds, NEW n \in 1..LotUnits, HandleFill(o, n)
  PROVE  CInv'
  BY RefusedFillCalm, LateFillCalm, FirstFillCalm

LEMMA NextCalm ==
  ASSUME Calm, IInv, TradesAreKnown, CInv, [Next]_vars
  PROVE  CInv'
<1>1. CASE \E t \in Trades : Decision(t)
  <2>1. PICK t \in Trades : Decision(t)
    BY <1>1
  <2>2. CASE DecisionAlerted(t) \/ DecisionStopped(t)
    <3>1. /\ cur' = [cur EXCEPT !.intent = t]
          /\ UNCHANGED <<sm, core, orderTrade, olm, pos, broker>>
      BY <2>2 DEF DecisionAlerted, DecisionStopped
    <3>2. cur'.trade = cur.trade /\ cur'.order = cur.order /\ cur'.staged = cur.staged
      BY <3>1 DEF IInv, TypeOK
    <3>3. Quiet
      BY <3>1, <3>2 DEF Quiet, KeepsTracked, SameLegs
    <3> QED BY <3>3, QuietCalm
  <2> QED BY <2>1, <2>2, SubmittedCalm DEF Decision
<1>2. CASE \E t \in Trades : TriggerExit(t)
  BY <1>2, ExitCalm
<1>3. CASE \E t \in Trades : Overridden(t)
  BY <1>3 DEF Overridden, ReduceSize, TightenSl, ReduceRisk, OverrideExit, Override, Calm
<1>4. CASE \E o \in OrderIds : Report(o)
  <2>1. PICK o \in OrderIds : Report(o)
    BY <1>4
  <2>2. CASE HandleAcknowledgement(o)
    <3>1. /\ core' = [core EXCEPT !.status[o] = "ACKNOWLEDGED"]
          /\ olm' = Olm!UpdateState(olm, o, "ACKNOWLEDGED")
          /\ UNCHANGED <<sm, orderTrade, pos, cur, broker>>
      BY <2>2 DEF HandleAcknowledgement, Acknowledge
    <3>2. KeepsTracked(core, core')
      BY <3>1, MarkFact DEF Statuses, IInv, TypeOK
    <3>3. SameLegs(olm, olm')
      BY <3>1, UpdateStateFact DEF Olm!OrderStates, IInv, TypeOK
    <3>4. Quiet
      BY <3>1, <3>2, <3>3 DEF Quiet
    <3> QED BY <3>4, QuietCalm
  <2>3. CASE \E n \in 1..LotUnits : FillUnreported(o, n)
    <3>1. PICK n \in 1..LotUnits : FillUnreported(o, n)
      BY <2>3
    <3>2. Execute(o, n) /\ UNCHANGED <<sm, core, orderTrade, olm, pos, cur>>
      BY <3>1 DEF FillUnreported
    <3>3. Quiet
      BY <3>2, ExecuteCalm DEF Quiet, KeepsTracked, SameLegs
    <3> QED BY <3>3, QuietCalm
  <2> QED BY <2>1, <2>2, <2>3, RejectedCalm, FillCalm DEF Report
<1>5. CASE CheckEod \/ Flatten \/ Lock
  BY <1>5 DEF CheckEod, Flatten, Lock, Calm
<1>6. CASE HandleReconnect
  <2>1. PICK t \in Trades : /\ Touched(pos, pos', t)
                            /\ pos'[t].status = pos[t].status /\ pos'[t].qty = pos[t].qty
                            /\ pos'[t].avg = pos[t].avg
    BY <1>6, ReconnectFact
  <2>2. \A u \in Trades : /\ pos'[u].status = pos[u].status /\ pos'[u].qty = pos[u].qty
                          /\ pos'[u].avg = pos[u].avg
    BY <2>1 DEF Touched, OnlyAt
  <2>3. Quiet
    BY <1>6, <2>2 DEF HandleReconnect, Quiet, KeepsTracked, SameLegs
  <2> QED BY <2>3, QuietCalm
<1>7. CASE CoolDown
  <2>1. KeepsTracked(core, core')
    BY <1>7 DEF CoolDown, KeepsTracked, Tracked, IInv, TypeOK, CoreStates
  <2>2. Quiet
    BY <1>7, <2>1 DEF CoolDown, Quiet, SameLegs
  <2> QED BY <2>2, QuietCalm
<1>8. CASE \/ UNCHANGED vars
           \/ \E m \in Modes : SetExecutionMode(m)
           \/ \E level \in {"NORMAL", "SOFT_ACTIVE", "CRITICAL_ACTIVE"} : ActivateKillSwitch(level)
  <2>1. UNCHANGED <<sm, core, orderTrade, olm, pos, cur, broker>>
    BY <1>8 DEF vars, SetExecutionMode, ActivateKillSwitch
  <2>2. Quiet
    BY <2>1 DEF Quiet, KeepsTracked, SameLegs
  <2> QED BY <2>2, QuietCalm
<1> QED BY <1>1, <1>2, <1>3, <1>4, <1>5, <1>6, <1>7, <1>8, ResetCalm DEF Next, Operated

LEMMA InitCalm == Init => CInv
<1> SUFFICES ASSUME Init
             PROVE  CInv
  OBVIOUS
<1>1. /\ \A t \in Trades : ~Active(t) /\ pos[t].status = "none" /\ olm.legs[t] = 0
      /\ \A o \in OrderIds : /\ ~broker[o].open /\ ~Olm!Registered(olm, o)
                             /\ ~Olm!Linked(olm, o)
  BY DEF Init, Active, Pm!IsOpen, Pm!InitPositions, Pm!NoPosition, NotAnOrder,
     Olm!InitManager, Olm!Registered, Olm!Linked
<1>2. cur.trade = NoTrade /\ ~cur.staged
  BY DEF Init, NoTracking
<1> QED BY <1>1, <1>2 DEF CInv, ActiveIsWhole, LegsAreEqual, UnfilledIsCurrent, Unfilled,
           OrdersAreTracked, LegsHavePositions, CurrentIsStageable

\* What holds of calm trades holds always, once it is inductive beside the
\* invariants above.
LEMMA CalmHolds == Spec => [](Calm => CInv)
<1> DEFINE J == (~Storm => OInv) /\ (Calm => CInv)
<1>1. Init => J
  BY InitCalm
     DEF Init, OInv, AtMostOne, Active, TradesAreKnown, HeldIsBusy, PendingIsNew,
     ClosedIsEmpty, Pm!IsOpen, Pm!InitPositions, Pm!NoPosition, NoTracking
<1>2. IInv /\ J /\ [Next]_vars => J'
  <2>1. [Next]_vars => (Storm' <=> Storm) /\ (Calm' <=> Calm)
    BY DEF Next, vars, Storm, Calm
  <2>2. Calm => ~Storm
    BY DEF Calm, Storm
  <2>3. OInv => TradesAreKnown
    BY DEF OInv
  <2> QED BY <2>1, <2>2, <2>3, NextOne, NextCalm
<1>3. J => (Calm => CInv)
  OBVIOUS
<1> HIDE DEF J
<1> QED BY Inductive, <1>1, <1>2, <1>3, PTL DEF Spec

\* In calm weather an active position is the current trade, the machine is
\* PROTECTED, and its legs exist.
THEOREM Managed == Spec => []ActiveIsManaged
<1>1. (Calm => CInv) => ActiveIsManaged
  BY DEF CInv, ActiveIsWhole, ActiveIsManaged
<1> QED BY CalmHolds, <1>1, PTL

\* In calm weather the legs of an active position have its quantity.
THEOREM LegsMatch == Spec => []LegsMatchPosition
<1>1. (Calm => CInv) => LegsMatchPosition
  BY DEF CInv, LegsAreEqual, LegsMatchPosition
<1> QED BY CalmHolds, <1>1, PTL


=============================================================================
