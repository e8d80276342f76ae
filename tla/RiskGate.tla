------------------------------ MODULE RiskGate ------------------------------
(***************************************************************************)
(* side_a_execution/risk_gate.py and intent_fingerprint.py: checks 9       *)
(* (duplicate) and 11 (stale) of the gate, which together have to let a    *)
(* decision through once at most.  The store of fingerprints forgets, the  *)
(* clock moves on inside an evaluation, and a decision may be delivered as *)
(* often as one likes.  The ten other checks may come out either way.      *)
(***************************************************************************)
EXTENDS Integers, FiniteSets

CONSTANTS
  Trades,        \* trade id, action and strike of a decision
  MaxAge,        \* RiskGate._max_age_seconds
  Ttl,           \* IntentFingerprintStore._ttl_seconds
  Window,        \* DEFAULT_TIMESTAMP_WINDOW_SECONDS
  MaxTime,       \* bound: last second of a run
  MaxDecisions   \* bound: decisions in a run

\* The defaults are 60, 60 and 5 seconds; the setters refuse values below one.
ASSUME TimesAssumption ==
  /\ MaxAge \in Nat \ {0}
  /\ Ttl \in Nat \ {0}
  /\ Window \in Nat \ {0}
  /\ MaxTime \in Nat

\* A fingerprint outlives the decision it stands for.
ASSUME TtlCoversAge == MaxAge <= Ttl

VARIABLES
  now,         \* the clock, in seconds
  decisions,   \* decisions taken so far, with their timestamps
  store,       \* IntentFingerprintStore._fingerprints
  registered,  \* history: every registration there has been
  answered     \* history: decisions whose fingerprint an evaluation registered

vars == <<now, decisions, store, registered, answered>>

Seconds == 0..MaxTime

\* generate_fingerprint: the timestamp counts by its window.
Fingerprint(d) == <<d.trade, d.ts \div Window>>

Init ==
  /\ now = 0
  /\ decisions = {}
  /\ store = {}
  /\ registered = {}
  /\ answered = {}

-----------------------------------------------------------------------------

\* The Captain decides: the intent takes over the decision's timestamp.
Decide(t) ==
  /\ Cardinality(decisions) < MaxDecisions
  /\ decisions' = decisions \cup {[trade |-> t, ts |-> now]}
  /\ UNCHANGED <<now, store, registered, answered>>

\* Fault: a fingerprint goes when it is as old as its TTL.
EvictedOnTheDot(s, t) == {e \in s : e.at > t - Ttl}

\* _evict_expired at time t: a fingerprint goes when it is older than its TTL.
Evicted(s, t) == {e \in s : e.at >= t - Ttl}

\* is_duplicate at time t
IsDuplicate(s, f, t) == \E e \in Evicted(s, t) : e.fp = f

\* register_fingerprint at time t
Entry(d, t) == [fp |-> Fingerprint(d), at |-> t]

\* Fault: the age is truncated before it is compared.
FreshOneMore(d, t) == t - d.ts <= MaxAge + 1

\* Check 11 at time t.
Fresh(d, t) == t - d.ts <= MaxAge

\* evaluate, up to its result: the clock is read for the duplicate check, for the
\* registration and for the age, `looked' <= `written' <= `aged'.  A duplicate is
\* not registered again; everything else is, whatever the other checks say.
Checked(d, looked, written, aged) ==
  /\ now' = aged
  /\ decisions' = decisions
  /\ IF IsDuplicate(store, Fingerprint(d), looked)
       THEN /\ store' = Evicted(store, looked)
            /\ UNCHANGED <<registered, answered>>
       ELSE /\ store' = Evicted(Evicted(store, looked), written) \cup {Entry(d, written)}
            /\ registered' = registered \cup {Entry(d, written)}
            /\ answered' = answered \cup {d}

\* All twelve checks are passed.
Pass(d) ==
  \E looked \in now..MaxTime : \E written \in looked..MaxTime, aged \in Seconds :
    /\ written <= aged
    /\ Checked(d, looked, written, aged)
    /\ ~IsDuplicate(store, Fingerprint(d), looked)
    /\ Fresh(d, aged)

\* Some check is not, or it is is_blocked_for_safety that asks.
Block(d) ==
  \E looked \in now..MaxTime : \E written \in looked..MaxTime, aged \in Seconds :
    /\ written <= aged
    /\ Checked(d, looked, written, aged)

\* A second passes; a scheduler, if there is one, calls evict_expired.
Tick ==
  /\ now < MaxTime
  /\ now' = now + 1
  /\ UNCHANGED <<decisions, store, registered, answered>>

EvictExpired ==
  /\ store' = Evicted(store, now)
  /\ UNCHANGED <<now, decisions, registered, answered>>

Next ==
  \/ Tick \/ EvictExpired
  \/ \E t \in Trades : Decide(t)
  \/ \E d \in decisions : Pass(d) \/ Block(d)

Spec == Init /\ [][Next]_vars

-----------------------------------------------------------------------------
(* Properties. *)

TypeOK ==
  /\ now \in Seconds
  /\ decisions \subseteq [trade : Trades, ts : 0..now]
  /\ store \subseteq registered
  /\ registered \subseteq [fp : Trades \X Nat, at : 0..now]
  /\ answered \subseteq decisions

\* The first answer stands: a decision whose fingerprint it was that an evaluation
\* or a pre-check registered does not pass when it is delivered again, whatever the
\* answer was; the store forgets it after the TTL, but by then it is stale.  (One
\* that was only refused as another's duplicate may still pass later.)
FirstAnswerStands == [][\A d \in decisions : Pass(d) => d \notin answered]_vars

\* A decision that passes was taken after every registration of its fingerprint:
\* two decisions in one window may pass, but only when the second was taken in
\* the knowledge of the first's answer (is_duplicate together with check 11).
PassesAreNews ==
  [][\A d \in decisions : Pass(d) =>
       \A e \in registered : e.fp = Fingerprint(d) => e.at < d.ts]_vars

=============================================================================
