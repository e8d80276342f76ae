---------------------------- MODULE EntryProofs -----------------------------
(* What stands between a decision and its order on Side A.  What the kill     *)
(* switch keeps true across crashes, failed saves and restarts; that the risk *)
(* gate lets a decision pass once at most, whatever the TTL, the maximal age  *)
(* and the window are, as long as a fingerprint lives as long as a decision;  *)
(* and that the core's circuit breaker bounds the orders its retries place.   *)
EXTENDS KillSwitch, RiskGate, OrderRetries, FiniteSetTheorems, TLAPS

-----------------------------------------------------------------------------
(* The kill switch. *)

\* The three reasons ExposureHasReason allows.
Reason ==
  \/ "callback" \notin wiring
  \/ flattened = "failed"
  \/ working \cup held \subseteq early

\* Between the flatten callback and the assignment of _state the callback's
\* result is already known and the account already has its reason: this is what
\* SetCritical needs to establish the two CRITICAL invariants.
FlattenKnown ==
  /\ phase = "setting" /\ "callback" \in wiring => flattened # "none"
  /\ phase = "setting" => Reason

SwitchInv ==
  /\ SwitchTypeOK
  /\ DurableLevel
  /\ CriticalHasFlattened
  /\ FlattenKnown
  /\ ExposureHasReason

-----------------------------------------------------------------------------

LEMMA InitSwitchInv == SwitchInit => SwitchInv
  BY DEF SwitchInit, SwitchInv, SwitchTypeOK, DurableLevel, CriticalHasFlattened, FlattenKnown,
         ExposureHasReason, Levels, Phases, Restored

LEMMA NextSwitchInv == SwitchInv /\ [SwitchNext]_switchVars => SwitchInv'
<1> SUFFICES ASSUME SwitchInv, [SwitchNext]_switchVars PROVE SwitchInv'
  OBVIOUS
<1> USE DEF SwitchInv, SwitchTypeOK, DurableLevel, CriticalHasFlattened, FlattenKnown,
            ExposureHasReason, Reason, Levels, Phases, Restored, account
<1>1. CASE Operator
  BY <1>1 DEF Operator, ActivateSoft, ActivateCritical, Deactivate
<1>2. CASE FlattenCallback
  BY <1>2 DEF FlattenCallback
<1>3. CASE SetCritical
  BY <1>3 DEF SetCritical
<1>4. CASE OpenFile
  BY <1>4 DEF OpenFile
<1>5. CASE WriteFile
  BY <1>5 DEF WriteFile
<1>6. CASE SaveFails
  BY <1>6 DEF SaveFails
<1>7. ASSUME NEW o \in Orders, Enter(o) PROVE SwitchInv'
  BY <1>7 DEF Enter, IsEntryBlocked
<1>8. ASSUME NEW o \in Orders, FillEntry(o) \/ Exit(o) PROVE SwitchInv'
  <2>1. UNCHANGED <<wiring, state, file, phase, flattened, saved>>
    BY <1>8 DEF FillEntry, Exit
  <2>2. working \cup held \cup early \subseteq Orders
    OBVIOUS
  <2>3. (working \cup held \cup early)' \subseteq Orders
    BY <1>8, <2>2 DEF FillEntry, Exit
  <2>4. working \cup held \subseteq early => (working \cup held \subseteq early)'
    BY <1>8 DEF FillEntry, Exit
  <2> QED BY <2>1, <2>3, <2>4
<1>9. CASE Crash
  BY <1>9 DEF Crash
<1>10. CASE Restart
  BY <1>10 DEF Restart
<1>11. CASE UNCHANGED switchVars
  BY <1>11 DEF switchVars
<1> QED
  BY <1>1, <1>2, <1>3, <1>4, <1>5, <1>6, <1>7, <1>8, <1>9, <1>10, <1>11
     DEF SwitchNext, CallStep, Account

\* SwitchInv holds in every reachable state.
THEOREM SwitchInductive == SwitchSpec => []SwitchInv
  BY InitSwitchInv, NextSwitchInv, PTL DEF SwitchSpec

-----------------------------------------------------------------------------

\* Type correctness of the kill switch's state.
THEOREM SwitchTypes == SwitchSpec => []SwitchTypeOK
<1>1. SwitchInv => SwitchTypeOK
  BY DEF SwitchInv
<1> QED
  BY SwitchInductive, <1>1, PTL

\* The file and the switch agree between calls unless a save was cut short or
\* failed (_save_state, _load_state).
THEOREM Durable == SwitchSpec => []DurableLevel
<1>1. SwitchInv => DurableLevel
  BY DEF SwitchInv
<1> QED
  BY SwitchInductive, <1>1, PTL

\* A CRITICAL level is always backed by a flatten attempt of this process
\* (activate_critical, _load_state).
THEOREM CriticalFlattens == SwitchSpec => []CriticalHasFlattened
<1>1. SwitchInv => CriticalHasFlattened
  BY DEF SwitchInv
<1> QED
  BY SwitchInductive, <1>1, PTL

\* Under CRITICAL the account holds, and may still be filled, only what a
\* flatten left (none wired, a failed one) or could not reach (orders out
\* before it): activate_critical, is_entry_blocked.
THEOREM ExposureExplained == SwitchSpec => []ExposureHasReason
<1>1. SwitchInv => ExposureHasReason
  BY DEF SwitchInv
<1> QED
  BY SwitchInductive, <1>1, PTL

\* Only deactivate lowers a CRITICAL level in a running process.
THEOREM Sticky == SwitchSpec => CriticalIsSticky
<1>1. SwitchInv /\ [SwitchNext]_switchVars =>
        [state = "CRITICAL_ACTIVE" /\ phase # "down" =>
           state' = "CRITICAL_ACTIVE" \/ Deactivate]_switchVars
  BY DEF SwitchInv, SwitchNext, Operator, CallStep, ActivateSoft, ActivateCritical,
         FlattenCallback, SetCritical, OpenFile, WriteFile, SaveFails, Account, Enter,
         FillEntry, Exit, Crash, Restart, switchVars
<1> QED
  BY SwitchInductive, <1>1, PTL DEF SwitchSpec, CriticalIsSticky

-----------------------------------------------------------------------------
(* The risk gate. *)

Clocked ==
  /\ now \in Int
  /\ \A d \in decisions : d.ts \in Int /\ d.ts <= now
  /\ \A e \in registered : e.at \in Int /\ e.at <= now

\* What the store has forgotten is older than the TTL.
Remembered ==
  /\ store \subseteq registered
  /\ \A e \in registered : e \in store \/ e.at < now - Ttl

\* An answer was registered when the decision had been taken.
Answered ==
  \A d \in answered : \E e \in registered : e.fp = Fingerprint(d) /\ d.ts <= e.at

Inv == Clocked /\ Remembered /\ Answered

\* Eviction keeps what is not older than the TTL, and adds nothing.
LEMMA EvictedKeeps ==
  ASSUME NEW s, NEW t \in Int, NEW e
  PROVE  e \in Evicted(s, t) <=> e \in s /\ e.at >= t - Ttl
BY DEF Evicted

\* A new entry has the fingerprint and the time it was registered with.
LEMMA EntryFields ==
  ASSUME NEW d, NEW t
  PROVE  Entry(d, t).fp = Fingerprint(d) /\ Entry(d, t).at = t
BY DEF Entry

\* Nothing is registered in the beginning.
LEMMA InitInv == Init => Inv
BY DEF Init, Inv, Clocked, Remembered, Answered

\* The invariant survives an evaluation that reads the clock in this order.
LEMMA CheckedInv ==
  ASSUME Inv, NEW d \in decisions,
         NEW looked \in now..MaxTime, NEW written \in looked..MaxTime, NEW aged \in Seconds,
         written <= aged, Checked(d, looked, written, aged)
  PROVE  Inv'
<1> USE TimesAssumption
<1>1. /\ now \in Int /\ looked \in Int /\ written \in Int /\ aged \in Int
      /\ now <= looked /\ looked <= written /\ written <= aged
  BY DEF Inv, Clocked, Seconds
<1>2. now' = aged /\ decisions' = decisions
  BY DEF Checked
<1>3. CASE IsDuplicate(store, Fingerprint(d), looked)
  <2>1. /\ store' = Evicted(store, looked)
        /\ registered' = registered /\ answered' = answered
    BY <1>3 DEF Checked
  <2>2. Clocked'
    BY <1>1, <1>2, <2>1 DEF Inv, Clocked
  <2>3. Remembered'
    BY <1>1, <1>2, <2>1, EvictedKeeps DEF Inv, Clocked, Remembered
  <2>4. Answered'
    BY <2>1 DEF Inv, Answered, Fingerprint
  <2> QED
    BY <2>2, <2>3, <2>4 DEF Inv
<1>4. CASE ~IsDuplicate(store, Fingerprint(d), looked)
  <2> DEFINE new == Entry(d, written)
  <2>1. /\ store' = Evicted(Evicted(store, looked), written) \cup {new}
        /\ registered' = registered \cup {new}
        /\ answered' = answered \cup {d}
    BY <1>4 DEF Checked
  <2>2. new.fp = Fingerprint(d) /\ new.at = written
    BY EntryFields
  <2> HIDE DEF new
  <2>3. Clocked'
    BY <1>1, <1>2, <2>1, <2>2 DEF Inv, Clocked
  <2>4. \A e \in store : e \in store' \/ e.at < now' - Ttl
    BY <1>1, <1>2, <2>1, EvictedKeeps DEF Inv, Clocked, Remembered
  <2>5. Remembered'
    <3>1. store' \subseteq registered'
      BY <1>1, <2>1, EvictedKeeps DEF Inv, Remembered
    <3>2. ASSUME NEW e \in registered' PROVE e \in store' \/ e.at < now' - Ttl
      BY <1>1, <1>2, <2>1, <2>4, <3>2 DEF Inv, Clocked, Remembered
    <3> QED
      BY <3>1, <3>2 DEF Remembered
  <2>6. Answered'
    BY <1>1, <2>1, <2>2 DEF Inv, Clocked, Answered
  <2> QED
    BY <2>3, <2>5, <2>6 DEF Inv
<1> QED
  BY <1>3, <1>4

\* The invariant survives every step.
LEMMA StepInv == Inv /\ [Next]_vars => Inv'
<1> SUFFICES ASSUME Inv, [Next]_vars PROVE Inv'
  OBVIOUS
<1>1. ASSUME NEW t \in Trades, Decide(t) PROVE Inv'
  BY <1>1 DEF Decide, Inv, Clocked, Remembered, Answered
<1>2. CASE Tick
  BY <1>2, TimesAssumption DEF Tick, Inv, Clocked, Remembered, Answered
<1>3. CASE EvictExpired
  <2>1. /\ store' = Evicted(store, now) /\ now' = now /\ decisions' = decisions
        /\ registered' = registered /\ answered' = answered
    BY <1>3 DEF EvictExpired
  <2>2. Remembered'
    BY <2>1, EvictedKeeps, TimesAssumption DEF Inv, Clocked, Remembered
  <2> QED
    BY <2>1, <2>2 DEF Inv, Clocked, Answered
<1>4. ASSUME NEW d \in decisions, Pass(d) \/ Block(d) PROVE Inv'
  BY <1>4, CheckedInv DEF Pass, Block
<1>5. CASE UNCHANGED vars
  BY <1>5 DEF vars, Inv, Clocked, Remembered, Answered
<1> QED
  BY <1>1, <1>2, <1>3, <1>4, <1>5 DEF Next

\* A decision that passes is younger than all registrations of its fingerprint:
\* those the store still has are none, those it has forgotten are older than the
\* TTL, and the decision is no older than MaxAge.
LEMMA PassIsNews ==
  ASSUME Inv, NEW d \in decisions, Pass(d), NEW e \in registered, e.fp = Fingerprint(d)
  PROVE  e.at < d.ts
<1>1. PICK looked \in now..MaxTime : \E written \in looked..MaxTime, aged \in Seconds :
        /\ written <= aged
        /\ ~IsDuplicate(store, Fingerprint(d), looked)
        /\ Fresh(d, aged)
  BY DEF Pass
<1>2. PICK written \in looked..MaxTime, aged \in Seconds :
        /\ written <= aged
        /\ ~IsDuplicate(store, Fingerprint(d), looked)
        /\ aged - d.ts <= MaxAge
  BY <1>1 DEF Fresh
<1>3. now \in Int /\ looked \in Int /\ aged \in Int /\ now <= looked /\ looked <= aged
  BY <1>2, TimesAssumption DEF Inv, Clocked, Seconds
<1>4. e.at < looked - Ttl
  <2>1. CASE e \in store
    <3>1. e \notin Evicted(store, looked)
      BY <1>2 DEF IsDuplicate
    <3> QED
      BY <1>3, <2>1, <3>1, EvictedKeeps, TimesAssumption DEF Inv, Clocked
  <2>2. CASE e \notin store
    BY <1>3, <2>2, TimesAssumption DEF Inv, Clocked, Remembered
  <2> QED
    BY <2>1, <2>2
<1> QED
  BY <1>2, <1>3, <1>4, TimesAssumption, TtlCoversAge DEF Inv, Clocked

\* Decisions that pass were taken after every registration of their fingerprint.
THEOREM News == Spec => PassesAreNews
<1>1. Inv => \A d \in decisions : Pass(d) =>
               \A e \in registered : e.fp = Fingerprint(d) => e.at < d.ts
  BY PassIsNews
<1> QED
  BY InitInv, StepInv, <1>1, PTL DEF Spec, PassesAreNews

\* A decision that was answered once never passes again.
THEOREM AnswerStands == Spec => FirstAnswerStands
<1>1. Inv => \A d \in decisions : Pass(d) => d \notin answered
  <2> SUFFICES ASSUME Inv, NEW d \in decisions, Pass(d), d \in answered PROVE FALSE
    OBVIOUS
  <2>1. PICK e \in registered : e.fp = Fingerprint(d) /\ d.ts <= e.at
    BY DEF Inv, Answered
  <2>2. e.at < d.ts
    BY <2>1, PassIsNews
  <2> QED
    BY <2>1, <2>2 DEF Inv, Clocked
<1> QED
  BY InitInv, StepInv, <1>1, PTL DEF Spec, FirstAnswerStands

\* The types are kept: no decision and no registration is younger than the clock.
LEMMA TypeStep ==
  ASSUME Inv, TypeOK, [Next]_vars
  PROVE  TypeOK'
<1> DEFINE Decisions(t) == [trade : Trades, ts : 0..t]
           Entries(t) == [fp : Trades \X Nat, at : 0..t]
<1>1. ASSUME NEW t \in Seconds, now <= t
      PROVE  decisions \subseteq Decisions(t) /\ registered \subseteq Entries(t)
  BY <1>1, TimesAssumption DEF TypeOK, Seconds
<1>2. ASSUME NEW t \in Trades, Decide(t) PROVE TypeOK'
  <2>1. now \in 0..now /\ now' = now
    BY <1>2, TimesAssumption DEF Decide, TypeOK, Seconds
  <2> QED BY <1>2, <2>1 DEF Decide, TypeOK
<1>3. CASE Tick
  <2>1. now' \in Seconds /\ now <= now'
    BY <1>3, TimesAssumption DEF Tick, TypeOK, Seconds
  <2>2. decisions \subseteq Decisions(now') /\ registered \subseteq Entries(now')
    BY <1>1, <2>1
  <2> QED BY <1>3, <2>1, <2>2 DEF Tick, TypeOK
<1>4. CASE EvictExpired
  BY <1>4 DEF EvictExpired, Evicted, TypeOK
<1>5. ASSUME NEW d \in decisions, Pass(d) \/ Block(d) PROVE TypeOK'
  <2>0. PICK looked \in now..MaxTime :
          \E written \in looked..MaxTime, aged \in Seconds :
            written <= aged /\ Checked(d, looked, written, aged)
    BY <1>5 DEF Pass, Block
  <2>1. PICK written \in looked..MaxTime, aged \in Seconds :
          written <= aged /\ Checked(d, looked, written, aged)
    BY <2>0
  <2>2. /\ written \in 0..aged /\ now <= aged /\ aged \in Seconds
    BY <2>1, TimesAssumption DEF TypeOK, Seconds
  <2>3. d.trade \in Trades /\ d.ts \in Nat
    BY TimesAssumption DEF TypeOK, Seconds
  <2>4. d.ts \div Window \in Nat
    BY <2>3, TimesAssumption
  <2>5. Entry(d, written) \in Entries(aged)
    BY <2>2, <2>3, <2>4 DEF Entry, Fingerprint
  <2>6. decisions \subseteq Decisions(aged) /\ registered \subseteq Entries(aged)
    BY <1>1, <2>2
  <2>7. /\ now' = aged /\ decisions' = decisions
        /\ \/ store' = Evicted(store, looked) /\ UNCHANGED <<registered, answered>>
           \/ /\ store' = Evicted(Evicted(store, looked), written) \cup {Entry(d, written)}
              /\ registered' = registered \cup {Entry(d, written)}
              /\ answered' = answered \cup {d}
    BY <2>1 DEF Checked
  <2>8. store' \subseteq registered'
    BY <2>7 DEF Evicted, TypeOK
  <2>9. registered' \subseteq Entries(aged)
    BY <2>5, <2>6, <2>7
  <2> QED BY <2>2, <2>6, <2>7, <2>8, <2>9 DEF TypeOK
<1>6. CASE UNCHANGED vars
  BY <1>6 DEF vars, TypeOK
<1> QED BY <1>2, <1>3, <1>4, <1>5, <1>6 DEF Next

\* Type correctness: what is stored was registered, what is answered was decided.
THEOREM GateTypes == Spec => []TypeOK
<1>1. Init => TypeOK /\ Inv
  BY InitInv, TimesAssumption DEF Init, TypeOK, Seconds
<1>2. TypeOK /\ Inv /\ [Next]_vars => TypeOK' /\ Inv'
  BY TypeStep, StepInv
<1> QED BY <1>1, <1>2, PTL DEF Spec

-----------------------------------------------------------------------------
(* The circuit breaker, for any number of orders, any retry limit and        *)
(* threshold, and a broker that may also repeat and delay its reports: it     *)
(* follows the count of failures, and it bounds the retries, which            *)
(* max_retries does not.                                                      *)

\* What a rejection preserves of a core c that has made r retries since its
\* breaker last closed.  While the breaker is closed every retry but one has its
\* failure in the count; the one is the retry let through by the reset itself.
Bounded(c, r) ==
  /\ c.breaker = "closed" <=> c.failures < Threshold
  /\ c.breaker = "closed" => r <= c.failures + 1
  /\ r <= Threshold

Types ==
  /\ core \in CoreStates
  /\ sm \in States
  /\ retried \in Nat

IInv == Types /\ Bounded(core, retried)

-----------------------------------------------------------------------------
(* The helpers keep the core's type and change only what they say. *)

LEMMA CountFailureFact ==
  ASSUME NEW c \in CoreStates
  PROVE  /\ CountFailure(c) \in CoreStates
         /\ CountFailure(c).status = c.status
         /\ CountFailure(c).retries = c.retries
         /\ CountFailure(c).failures = c.failures + 1
         /\ CountFailure(c).breaker =
              IF c.breaker = "closed" /\ c.failures + 1 >= Threshold
                THEN "open" ELSE c.breaker
<1> DEFINE b == IF c.breaker = "closed" /\ c.failures + 1 >= Threshold
                  THEN "open" ELSE c.breaker
<1>1. b \in Breaker /\ c.failures + 1 \in Nat
  BY DEF CoreStates, Breaker
<1>2. CountFailure(c) = [c EXCEPT !.failures = c.failures + 1, !.breaker = b]
  BY DEF CountFailure
<1> HIDE DEF b
<1>3. /\ CountFailure(c) \in CoreStates
      /\ CountFailure(c).status = c.status
      /\ CountFailure(c).retries = c.retries
      /\ CountFailure(c).failures = c.failures + 1
      /\ CountFailure(c).breaker = b
  BY <1>1, <1>2 DEF CoreStates
<1> QED
  BY <1>3 DEF b

LEMMA CircuitCheckedFact ==
  ASSUME NEW c \in CoreStates
  PROVE  /\ CircuitChecked(c) \in CoreStates
         /\ CircuitChecked(c).status = c.status
         /\ CircuitChecked(c).retries = c.retries
         /\ c.breaker = "cooled" => /\ CircuitChecked(c).failures = 0
                                    /\ CircuitChecked(c).breaker = "closed"
         /\ c.breaker # "cooled" => CircuitChecked(c) = c
  BY DEF CircuitChecked, CoreStates, Breaker

LEMMA TrackFact ==
  ASSUME NEW c \in CoreStates, NEW n \in OrderIds, NEW a \in Statuses
  PROVE  /\ Track(c, n, a) \in CoreStates
         /\ Track(c, n, a).failures = c.failures
         /\ Track(c, n, a).breaker = c.breaker
  BY DEF Track, CoreStates

LEMMA AfterType ==
  ASSUME NEW s \in States, NEW e \in Events
  PROVE  After(s, e) \in States
  BY DEF After, Events, Destination, States, ActiveStates

\* Marking an order does not touch the breaker.
LEMMA MarkFact ==
  ASSUME NEW c \in CoreStates, NEW o \in OrderIds, NEW a \in Statuses
  PROVE  /\ [c EXCEPT !.status[o] = a] \in CoreStates
         /\ [c EXCEPT !.status[o] = a].failures = c.failures
         /\ [c EXCEPT !.status[o] = a].breaker = c.breaker
         /\ [c EXCEPT !.status[o] = a].retries = c.retries
  BY DEF CoreStates

LEMMA CountRetryFact ==
  ASSUME NEW c \in CoreStates, NEW o \in OrderIds
  PROVE  /\ [c EXCEPT !.retries[o] = @ + 1] \in CoreStates
         /\ [c EXCEPT !.retries[o] = @ + 1].failures = c.failures
         /\ [c EXCEPT !.retries[o] = @ + 1].breaker = c.breaker
  BY DEF CoreStates

-----------------------------------------------------------------------------
(* One rejection, with the retry it may make. *)

\* Marking the order first does not change whether its rejection retries.
LEMMA RejectionDecides ==
  ASSUME NEW c \in CoreStates, NEW o \in OrderIds, NEW rec \in BOOLEAN
  PROVE  RejectionRetries(c, o, rec) <=>
           /\ rec
           /\ RetryAllowed(CircuitChecked(CountFailure(
                             [c EXCEPT !.status[o] = "REJECTED"])), o)
<1> DEFINE m == [c EXCEPT !.status[o] = "REJECTED"]
           d == CountFailure(m)
           f == CountFailure(c)
<1>1. /\ m \in CoreStates /\ m.failures = c.failures
      /\ m.breaker = c.breaker /\ m.retries = c.retries
  BY MarkFact DEF Statuses
<1>2. /\ d \in CoreStates /\ f \in CoreStates /\ f.breaker = d.breaker
      /\ f.retries = d.retries
  <2> HIDE DEF m
  <2> QED BY <1>1, CountFailureFact
<1>3. /\ CircuitChecked(f).breaker = CircuitChecked(d).breaker
      /\ CircuitChecked(f).retries = CircuitChecked(d).retries
  <2> HIDE DEF d, f
  <2> QED BY <1>2, CircuitCheckedFact
<1> QED BY <1>3 DEF RejectionRetries, RetryAllowed

LEMMA RejectionFact ==
  ASSUME NEW c \in CoreStates, NEW s \in States, NEW o \in OrderIds,
         NEW rec \in BOOLEAN, NEW answer \in Answers,
         NEW n \in OrderIds \cup {NoOrder},
         answer \in {"ACKNOWLEDGED", "REJECTED"} => n \in OrderIds,
         NEW r \in Nat, Bounded(c, r)
  PROVE  LET x == Rejection(c, s, o, rec, answer, n)
             calls == IF RejectionRetries(c, o, rec) THEN 1 ELSE 0
             q == IF c.breaker = "cooled" THEN calls ELSE r + calls
         IN  x.core \in CoreStates /\ x.sm \in States /\ Bounded(x.core, q)
<1> DEFINE m == [c EXCEPT !.status[o] = "REJECTED"]
           d == CountFailure(m)
           e == CircuitChecked(d)
           x == Rejection(c, s, o, rec, answer, n)
           calls == IF RejectionRetries(c, o, rec) THEN 1 ELSE 0
           q == IF c.breaker = "cooled" THEN calls ELSE r + calls
<1>1. /\ m \in CoreStates /\ m.failures = c.failures
      /\ m.breaker = c.breaker /\ m.retries = c.retries
  BY MarkFact DEF Statuses
<1>2. /\ d \in CoreStates /\ d.failures = c.failures + 1
      /\ d.retries = c.retries
      /\ d.breaker = IF c.breaker = "closed" /\ c.failures + 1 >= Threshold
                       THEN "open" ELSE c.breaker
  <2> HIDE DEF m
  <2> QED BY <1>1, CountFailureFact
<1>3. /\ e \in CoreStates /\ e.retries = c.retries
      /\ d.breaker = "cooled" => e.failures = 0 /\ e.breaker = "closed"
      /\ d.breaker # "cooled" => e = d
  <2> HIDE DEF d
  <2> QED BY <1>2, CircuitCheckedFact
<1>4. c.failures \in Nat /\ c.breaker \in Breaker /\ e.failures \in Nat
      /\ Threshold \in Nat \ {0}
  BY <1>3, CoreAssumption DEF CoreStates
<1>5. RejectionRetries(c, o, rec) <=> rec /\ RetryAllowed(e, o)
  BY RejectionDecides
<1>6. Bounded(e, q) \/ (rec /\ RetryAllowed(e, o))
  <2> HIDE DEF d, e
  <2> QED BY <1>2, <1>3, <1>4, <1>5 DEF Bounded, Breaker
<1>7. CASE ~(rec /\ RetryAllowed(e, o))
  <2>1. x.core = e /\ x.sm = After(s, "REJECTED")
    <3> HIDE DEF d
    <3>1. CircuitChecked(e) = e
      BY <1>2, <1>3, CircuitCheckedFact
    <3> QED BY <1>7, <3>1 DEF Rejection, FailOrder, d
  <2>2. After(s, "REJECTED") \in States
    BY AfterType DEF Events, Destination
  <2> HIDE DEF x, q, e
  <2> QED BY <2>1, <2>2, <1>3, <1>6, <1>7 DEF x, q
<1>8. CASE rec /\ RetryAllowed(e, o)
  <2> DEFINE f == [e EXCEPT !.retries[o] = @ + 1]
  <2>1. x = Retry(e, s, o, answer, n)
    BY <1>8 DEF Rejection
  <2>2. f \in CoreStates /\ f.failures = e.failures /\ f.breaker = "closed"
    <3> HIDE DEF e
    <3> QED BY <1>3, <1>8, CountRetryFact DEF RetryAllowed
  <2>3. /\ e.failures < Threshold /\ calls = 1
        /\ q <= e.failures + 1 /\ q <= Threshold /\ q \in Nat
    <3>1. calls = 1
      BY <1>5, <1>8
    <3>2. e.breaker = "closed"
      BY <1>8 DEF RetryAllowed
    <3> HIDE DEF d, e, calls
    <3> QED BY <3>1, <3>2, <1>2, <1>3, <1>4 DEF Bounded, Breaker
  <2>4. CASE answer = "raises"
    <3> HIDE DEF f, q
    <3>1. x.core = CountFailure(f) /\ x.sm = s
      BY <2>1, <2>4 DEF Retry, f
    <3>2. CountFailure(f) \in CoreStates /\ Bounded(CountFailure(f), q)
      BY <2>2, <2>3, <1>4, CountFailureFact DEF Bounded
    <3> QED BY <3>1, <3>2 DEF q
  <2>5. CASE answer = "empty"
    <3> HIDE DEF f, q
    <3>1. x.core = f /\ x.sm = s
      BY <2>1, <2>5 DEF Retry, f
    <3>2. Bounded(f, q)
      BY <2>2, <2>3, <1>4 DEF Bounded
    <3> QED BY <3>1, <3>2, <2>2 DEF q
  <2>6. CASE answer \in {"ACKNOWLEDGED", "REJECTED"}
    <3> HIDE DEF f, q
    <3>1. x.core = Track(f, n, answer) /\ x.sm = s
      BY <2>1, <2>6 DEF Retry, f
    <3>2. answer \in Statuses /\ n \in OrderIds
      BY <2>6 DEF Statuses
    <3>3. /\ Track(f, n, answer) \in CoreStates
          /\ Track(f, n, answer).failures = e.failures
          /\ Track(f, n, answer).breaker = "closed"
      BY <2>2, <3>2, TrackFact
    <3>4. Bounded(Track(f, n, answer), q)
      BY <3>3, <2>3, <1>4 DEF Bounded
    <3> QED BY <3>1, <3>3, <3>4 DEF q
  <2> QED BY <2>4, <2>5, <2>6 DEF Answers
<1> QED BY <1>7, <1>8

-----------------------------------------------------------------------------
(* The invariant. *)

LEMMA InitIInv == RetriesInit => IInv
<1> SUFFICES ASSUME RetriesInit PROVE IInv
  OBVIOUS
<1>1. core \in CoreStates
  BY DEF RetriesInit, InitCore, CoreStates, Statuses, Breaker
<1>2. core.failures = 0 /\ core.breaker = "closed" /\ retried = 0
  BY DEF RetriesInit, InitCore
<1>3. sm \in States
  BY DEF RetriesInit, States, ActiveStates
<1> QED
  BY <1>1, <1>2, <1>3, CoreAssumption DEF IInv, Types, Bounded

LEMMA NextIInv == IInv /\ [RetriesNext]_retriesVars => IInv'
<1> SUFFICES ASSUME IInv, [RetriesNext]_retriesVars PROVE IInv'
  OBVIOUS
<1>1. /\ core \in CoreStates /\ sm \in States /\ retried \in Nat
      /\ Bounded(core, retried)
  BY DEF IInv, Types
<1>2. CASE NewSubmission
  BY <1>1, <1>2 DEF NewSubmission, IInv, Types, Bounded, States, ActiveStates
<1>3. CASE SubmitOrder
  <2>1. PICK answer \in Answers \ {"REJECTED"}, n \in OrderIds \cup {NoOrder} :
          /\ AnswerId(core, answer, n)
          /\ core' = Submit(core, sm, answer, n, FALSE, "raises", NoOrder).core
          /\ sm' = Submit(core, sm, answer, n, FALSE, "raises", NoOrder).sm
    BY <1>3 DEF SubmitOrder
  <2>2. CASE answer \in {"raises", "empty"} \/ ~CanTransition(sm, "ORDER_SUBMITTED")
    <3>1. core' = core /\ sm' = sm /\ retried' = retried
      BY <1>3, <2>1, <2>2 DEF Submit, SubmitOrder
    <3> QED BY <1>1, <3>1 DEF IInv, Types
  <2>3. CASE ~(answer \in {"raises", "empty"} \/ ~CanTransition(sm, "ORDER_SUBMITTED"))
    <3>1. answer = "ACKNOWLEDGED" /\ n \in OrderIds /\ answer \in Statuses
      BY <2>1, <2>3 DEF Answers, AnswerId, IsNextId, Statuses
    <3>2. core' = Track(core, n, answer) /\ sm' = After(sm, "ORDER_SUBMITTED")
      BY <2>1, <2>3, <3>1 DEF Submit
    <3>3. /\ core' \in CoreStates
          /\ core'.failures = core.failures /\ core'.breaker = core.breaker
      BY <1>1, <3>1, <3>2, TrackFact
    <3>4. sm' \in States
      BY <1>1, <3>2, AfterType DEF Events, Destination
    <3>5. retried' = retried
      BY <1>3 DEF SubmitOrder
    <3> QED BY <1>1, <3>3, <3>4, <3>5 DEF IInv, Types, Bounded
  <2> QED BY <2>2, <2>3
<1>4. CASE SubmitRejected
  <2> DEFINE c(n) == Track(core, n, "REJECTED")
             s == After(sm, "ORDER_SUBMITTED")
  <2>1. PICK n \in OrderIds \cup {NoOrder}, m \in OrderIds \cup {NoOrder},
             again \in Answers, rec \in BOOLEAN :
          /\ AnswerId(core, "REJECTED", n)
          /\ AnswerId(c(n), again, m)
          /\ core' = Submit(core, sm, "REJECTED", n, rec, again, m).core
          /\ sm' = Submit(core, sm, "REJECTED", n, rec, again, m).sm
          /\ retried' = Retried(core, IF RejectionRetries(c(n), n, rec) THEN 1 ELSE 0)
    BY <1>4 DEF SubmitRejected
  <2>2. n \in OrderIds /\ (again \in {"ACKNOWLEDGED", "REJECTED"} => m \in OrderIds)
    BY <2>1 DEF AnswerId, IsNextId
  <2>3. /\ c(n) \in CoreStates
        /\ c(n).failures = core.failures /\ c(n).breaker = core.breaker
    BY <1>1, <2>2, TrackFact DEF Statuses
  <2>4. Bounded(c(n), retried)
    <3> HIDE DEF c
    <3> QED BY <1>1, <2>3 DEF Bounded
  <2>5. s \in States
    BY <1>1, AfterType DEF Events, Destination
  <2>6. CanTransition(sm, "ORDER_SUBMITTED")
    BY <1>4 DEF SubmitRejected, CanTransition, Sources
  <2>7. /\ core' = Rejection(c(n), s, n, rec, again, m).core
        /\ sm' = Rejection(c(n), s, n, rec, again, m).sm
    BY <2>1, <2>6 DEF Submit
  <2>8. retried' = IF c(n).breaker = "cooled"
                     THEN IF RejectionRetries(c(n), n, rec) THEN 1 ELSE 0
                     ELSE retried + (IF RejectionRetries(c(n), n, rec) THEN 1 ELSE 0)
    <3> HIDE DEF c
    <3> QED BY <2>1, <2>3 DEF Retried
  <2>9. core' \in CoreStates /\ sm' \in States /\ Bounded(core', retried')
    <3> HIDE DEF c, s
    <3> QED BY <1>1, <2>1, <2>2, <2>3, <2>4, <2>5, <2>7, <2>8, RejectionFact
  <2>10. retried' \in Nat
    <3> HIDE DEF c
    <3> QED BY <1>1, <2>8
  <2> QED BY <2>9, <2>10 DEF IInv, Types
<1>5. ASSUME NEW o \in OrderIds, RejectOrder(o) PROVE IInv'
  <2>1. PICK again \in Answers, m \in OrderIds \cup {NoOrder}, rec \in BOOLEAN :
          /\ AnswerId(core, again, m)
          /\ core' = Rejection(core, sm, o, rec, again, m).core
          /\ sm' = Rejection(core, sm, o, rec, again, m).sm
          /\ retried' = Retried(core, IF RejectionRetries(core, o, rec) THEN 1 ELSE 0)
    BY <1>5 DEF RejectOrder
  <2>2. again \in {"ACKNOWLEDGED", "REJECTED"} => m \in OrderIds
    BY <2>1 DEF AnswerId, IsNextId
  <2>3. core' \in CoreStates /\ sm' \in States /\ Bounded(core', retried')
    BY <1>1, <2>1, <2>2, RejectionFact DEF Retried
  <2>4. retried' \in Nat
    BY <1>1, <2>1 DEF Retried
  <2> QED BY <2>3, <2>4 DEF IInv, Types
<1>6. ASSUME NEW o \in OrderIds,
             AcknowledgeOrder(o) \/ FillOrder(o) \/ CancelOrder(o)
      PROVE  IInv'
  <2>1. \E a \in Statuses : core' = [core EXCEPT !.status[o] = a]
    BY <1>6 DEF AcknowledgeOrder, Acknowledge, FillOrder, Fill, CancelOrder,
                Cancel, Statuses
  <2>2. sm' \in States
    BY <1>1, <1>6, AfterType DEF AcknowledgeOrder, FillOrder, Fill, FillEvent,
       CancelOrder, Events, Destination
  <2>3. retried' = retried
    BY <1>6 DEF AcknowledgeOrder, FillOrder, CancelOrder
  <2>4. /\ core' \in CoreStates
        /\ core'.failures = core.failures /\ core'.breaker = core.breaker
    BY <1>1, <2>1, MarkFact
  <2> QED BY <1>1, <2>2, <2>3, <2>4 DEF IInv, Types, Bounded
<1>7. CASE CoolDown
  <2>1. /\ core' \in CoreStates /\ core'.failures = core.failures
        /\ core.breaker = "open" /\ core'.breaker = "cooled"
    BY <1>1, <1>7 DEF CoolDown, CoreStates, Breaker
  <2> QED BY <1>1, <1>7, <2>1 DEF CoolDown, IInv, Types, Bounded
<1>8. CASE UNCHANGED retriesVars
  BY <1>1, <1>8 DEF retriesVars, IInv, Types
<1> QED
  BY <1>2, <1>3, <1>4, <1>5, <1>6, <1>7, <1>8 DEF RetriesNext

\* IInv holds in every reachable state.
THEOREM RetriesInductive == RetriesSpec => []IInv
  BY InitIInv, NextIInv, PTL DEF RetriesSpec

-----------------------------------------------------------------------------

\* The broker's view of every order.
Brokered == broker \in [OrderIds -> {"none", "working", "done"}]

LEMMA NextBrokered == Brokered /\ [RetriesNext]_retriesVars => Brokered'
<1> SUFFICES ASSUME Brokered, [RetriesNext]_retriesVars PROVE Brokered'
  OBVIOUS
<1> USE DEF Brokered
<1>1. \A answer : Placed(answer) \in {"working", "done"}
  BY DEF Placed
<1>2. CASE SubmitOrder
  <2>1. PICK answer \in Answers, n \in OrderIds \cup {NoOrder} :
          broker' = IF n = NoOrder THEN broker ELSE [broker EXCEPT ![n] = Placed(answer)]
    BY <1>2 DEF SubmitOrder
  <2> QED BY <1>1, <2>1
<1>3. CASE SubmitRejected
  <2>1. PICK n, m \in OrderIds \cup {NoOrder}, again \in Answers, rec \in BOOLEAN :
          broker' = [o \in OrderIds |-> IF o = n THEN "done"
                       ELSE IF o \in IF RejectionRetries(Track(core, n, "REJECTED"), n, rec)
                                        /\ m # NoOrder THEN {m} ELSE {}
                            THEN Placed(again) ELSE broker[o]]
    BY <1>3 DEF SubmitRejected
  <2> QED BY <1>1, <2>1
<1>5. ASSUME NEW o \in OrderIds, RejectOrder(o) PROVE Brokered'
  <2>1. PICK again \in Answers, m \in OrderIds \cup {NoOrder}, rec \in BOOLEAN :
          broker' = [p \in OrderIds |-> IF p = o THEN "done"
                       ELSE IF p \in IF RejectionRetries(core, o, rec) /\ m # NoOrder
                                        THEN {m} ELSE {}
                            THEN Placed(again) ELSE broker[p]]
    BY <1>5 DEF RejectOrder
  <2> QED BY <1>1, <2>1
<1>6. ASSUME NEW o \in OrderIds, AcknowledgeOrder(o) \/ FillOrder(o) \/ CancelOrder(o)
      PROVE  Brokered'
  <2>1. \E v \in {"done", broker[o]} : broker' \in {broker, [broker EXCEPT ![o] = v]}
    BY <1>6 DEF AcknowledgeOrder, FillOrder, CancelOrder
  <2> QED BY <2>1
<1>4. CASE NewSubmission \/ CoolDown \/ UNCHANGED retriesVars
  BY <1>4 DEF NewSubmission, CoolDown, retriesVars
<1> QED BY <1>2, <1>3, <1>4, <1>5, <1>6 DEF RetriesNext

\* Type correctness: the core's records, the machine's states, the broker's orders.
THEOREM RetriesTypes == RetriesSpec => []RetriesTypeOK
<1>1. RetriesInit => Brokered
  BY DEF RetriesInit, Brokered
<1>2. IInv /\ Brokered => RetriesTypeOK
  BY DEF IInv, Types, CoreStates, RetriesTypeOK, Brokered
<1> QED
  BY RetriesInductive, NextBrokered, <1>1, <1>2, PTL DEF RetriesSpec

\* The breaker is closed exactly while the failures are below the threshold,
\* whatever the broker answers, repeats or delays (_check_circuit_breaker).
THEOREM BreakerTheorem == RetriesSpec => []BreakerMatchesFailures
<1>1. IInv => BreakerMatchesFailures
  BY DEF IInv, Bounded, BreakerMatchesFailures
<1> QED
  BY RetriesInductive, <1>1, PTL

\* Between two resets of the breaker the retries place at most Threshold orders:
\* the bound that max_retries is meant to be (retry_order, _is_circuit_open).
THEOREM RetriesBounded == RetriesSpec => []RetriesBoundedByBreaker
<1>1. IInv => RetriesBoundedByBreaker
  BY DEF IInv, Bounded, RetriesBoundedByBreaker
<1> QED
  BY RetriesInductive, <1>1, PTL
-----------------------------------------------------------------------------
(* One working order.  The invariant that carries it speaks of the machine *)
(* too: a working order keeps it in ORDER_PENDING, where no submission     *)
(* starts.                                                                 *)

\* The broker works nothing but o; and nothing at all.
OnlyWorks(b, o) == \A p \in OrderIds \ {o} : b[p] # "working"
Idle(b) == \A p \in OrderIds : b[p] # "working"

Lone ==
  \/ Idle(broker)
  \/ sm = "ORDER_PENDING" /\ \E o \in OrderIds : OnlyWorks(broker, o)

\* What a rejection of o leaves: no order works but m, which its retry placed,
\* and then the machine has not moved.
LEMMA RejectionLone ==
  ASSUME NEW c \in CoreStates, NEW s \in States, NEW o \in OrderIds,
         NEW rec \in BOOLEAN, NEW again \in Answers,
         NEW m \in OrderIds \cup {NoOrder}, s = "ORDER_PENDING",
         OnlyWorks(broker, o),
         sm' = Rejection(c, s, o, rec, again, m).sm,
         broker' = [p \in OrderIds |-> IF p = o THEN "done"
                      ELSE IF p \in IF RejectionRetries(c, o, rec) /\ m # NoOrder
                                       THEN {m} ELSE {}
                           THEN Placed(again) ELSE broker[p]]
  PROVE  Lone'
<1>1. CASE RejectionRetries(c, o, rec) /\ m \in OrderIds
  <2>1. sm' = s
    <3>1. Rejection(c, s, o, rec, again, m) =
            Retry(CircuitChecked(CountFailure([c EXCEPT !.status[o] = "REJECTED"])),
                  s, o, again, m)
      BY <1>1, RejectionDecides DEF Rejection
    <3> QED BY <3>1 DEF Retry, Answers
  <2>2. OnlyWorks(broker', m)
    BY <1>1 DEF OnlyWorks
  <2> QED BY <1>1, <2>1, <2>2 DEF Lone, OnlyWorks
<1>2. CASE ~(RejectionRetries(c, o, rec) /\ m \in OrderIds)
  <2>1. Idle(broker')
    BY <1>2 DEF OnlyWorks, Idle
  <2> QED BY <2>1 DEF Lone, Idle
<1> QED BY <1>1, <1>2

LEMMA NextLone ==
  ASSUME ~Redelivery, IInv, Brokered, Lone, [RetriesNext]_retriesVars
  PROVE  Lone'
<1>1. /\ core \in CoreStates /\ sm \in States
      /\ broker \in [OrderIds -> {"none", "working", "done"}]
  BY DEF IInv, Types, Brokered
<1>2. CASE NewSubmission
  BY <1>2 DEF NewSubmission, Lone, Idle
<1>3. CASE SubmitOrder
  <2>1. PICK answer \in Answers \ {"REJECTED"}, n \in OrderIds \cup {NoOrder} :
          /\ AnswerId(core, answer, n)
          /\ sm' = Submit(core, sm, answer, n, FALSE, "raises", NoOrder).sm
          /\ broker' = IF n = NoOrder THEN broker
                       ELSE [broker EXCEPT ![n] = Placed(answer)]
    BY <1>3 DEF SubmitOrder
  <2>2. sm = "RISK_PASSED" /\ Idle(broker)
    BY <1>3 DEF SubmitOrder, Lone
  <2>3. CASE n = NoOrder
    BY <2>1, <2>2, <2>3 DEF Lone, Idle
  <2>4. CASE n # NoOrder
    <3>1. answer = "ACKNOWLEDGED" /\ n \in OrderIds
      BY <2>1, <2>4 DEF AnswerId, Answers
    <3>2. CanTransition(sm, "ORDER_SUBMITTED")
      BY <2>2 DEF CanTransition, Sources
    <3>3. sm' = After(sm, "ORDER_SUBMITTED")
      BY <2>1, <3>1, <3>2 DEF Submit
    <3>4. sm' = "ORDER_PENDING"
      BY <3>2, <3>3 DEF After, Destination
    <3>5. OnlyWorks(broker', n)
      BY <1>1, <2>1, <2>2, <2>4 DEF OnlyWorks, Idle
    <3> QED BY <3>1, <3>4, <3>5 DEF Lone, OnlyWorks
  <2> QED BY <2>3, <2>4
<1>4. CASE SubmitRejected
  <2> DEFINE c(n) == Track(core, n, "REJECTED")
             s == After(sm, "ORDER_SUBMITTED")
  <2>1. PICK n \in OrderIds \cup {NoOrder}, m \in OrderIds \cup {NoOrder},
             again \in Answers, rec \in BOOLEAN :
          /\ AnswerId(core, "REJECTED", n)
          /\ sm' = Submit(core, sm, "REJECTED", n, rec, again, m).sm
          /\ broker' = [o \in OrderIds |-> IF o = n THEN "done"
                          ELSE IF o \in IF RejectionRetries(c(n), n, rec) /\ m # NoOrder
                                           THEN {m} ELSE {}
                               THEN Placed(again) ELSE broker[o]]
    BY <1>4 DEF SubmitRejected
  <2>2. n \in OrderIds
    BY <2>1 DEF AnswerId, IsNextId
  <2>3. c(n) \in CoreStates
    BY <1>1, <2>2, TrackFact DEF Statuses
  <2>4. sm = "RISK_PASSED" /\ OnlyWorks(broker, n)
    BY <1>4 DEF SubmitRejected, Lone, Idle, OnlyWorks
  <2>5. CanTransition(sm, "ORDER_SUBMITTED")
    BY <2>4 DEF CanTransition, Sources
  <2>6. s = "ORDER_PENDING" /\ s \in States
    BY <2>5 DEF After, Destination, States, ActiveStates
  <2>7. sm' = Rejection(c(n), s, n, rec, again, m).sm
    BY <2>1, <2>5 DEF Submit
  <2> HIDE DEF c, s
  <2> QED BY <2>1, <2>2, <2>3, <2>4, <2>6, <2>7, RejectionLone
<1>5. ASSUME NEW o \in OrderIds, RejectOrder(o) PROVE Lone'
  <2>1. PICK again \in Answers, m \in OrderIds \cup {NoOrder}, rec \in BOOLEAN :
          /\ sm' = Rejection(core, sm, o, rec, again, m).sm
          /\ broker' = [p \in OrderIds |-> IF p = o THEN "done"
                          ELSE IF p \in IF RejectionRetries(core, o, rec) /\ m # NoOrder
                                           THEN {m} ELSE {}
                               THEN Placed(again) ELSE broker[p]]
    BY <1>5 DEF RejectOrder
  <2>2. broker[o] = "working"
    BY <1>5 DEF RejectOrder, Reportable, Working
  <2>3. sm = "ORDER_PENDING" /\ OnlyWorks(broker, o)
    BY <2>2 DEF Lone, Idle, OnlyWorks
  <2> QED BY <1>1, <2>1, <2>3, RejectionLone
<1>6. ASSUME NEW o \in OrderIds, AcknowledgeOrder(o) \/ CancelOrder(o) PROVE Lone'
  <2>1. sm' = sm /\ \A p \in OrderIds : broker'[p] \in {broker[p], "done"}
    BY <1>1, <1>6 DEF AcknowledgeOrder, CancelOrder
  <2> QED BY <2>1 DEF Lone, Idle, OnlyWorks
<1>7. ASSUME NEW o \in OrderIds, FillOrder(o) PROVE Lone'
  <2>1. broker[o] = "working" /\ broker' = [broker EXCEPT ![o] = "done"]
    BY <1>7 DEF FillOrder, Reportable, Working
  <2>2. Idle(broker')
    BY <1>1, <2>1 DEF Lone, Idle, OnlyWorks
  <2> QED BY <2>2 DEF Lone, Idle
<1>8. CASE CoolDown \/ UNCHANGED retriesVars
  BY <1>8 DEF CoolDown, retriesVars, Lone, Idle, OnlyWorks
<1> QED
  BY <1>2, <1>3, <1>4, <1>5, <1>6, <1>7, <1>8 DEF RetriesNext

\* As long as the broker repeats no report, it never works two orders of this
\* core: a retry replaces an order that is gone, a submission waits for
\* RISK_PASSED (submit_order, retry_order, handle_fill).
THEOREM OneOrderAtATime == ~Redelivery => (RetriesSpec => []OneWorkingOrder)
<1> SUFFICES ASSUME ~Redelivery PROVE RetriesSpec => []OneWorkingOrder
  OBVIOUS
<1>1. RetriesInit => Brokered /\ Lone
  BY DEF RetriesInit, Brokered, Lone, Idle
<1>2. IInv /\ Brokered /\ Lone /\ [RetriesNext]_retriesVars => Lone'
  BY NextLone
<1>3. Lone => OneWorkingOrder
  <2> SUFFICES ASSUME Lone PROVE OneWorkingOrder
    OBVIOUS
  <2>1. PICK o : Working \in SUBSET {o}
    BY DEF Lone, Idle, OnlyWorks, Working
  <2>2. Working = {} \/ Working = {o}
    BY <2>1
  <2>3. Cardinality(Working) \in {0, 1}
    BY <2>2, FS_EmptySet, FS_Singleton
  <2> QED BY <2>3 DEF OneWorkingOrder
<1> QED
  BY RetriesInductive, NextBrokered, <1>1, <1>2, <1>3, PTL DEF RetriesSpec

=============================================================================
