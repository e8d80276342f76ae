---------------------------- MODULE OrderRetries ----------------------------
(***************************************************************************)
(* The execution core alone, against a broker.  The broker answers         *)
(* place_order in every way it can, and reports on the orders it works:    *)
(* acknowledgement, fill, rejection, cancellation.  With Redelivery it may *)
(* also repeat a report or deliver it late.                                *)
(***************************************************************************)
EXTENDS ExecutionCore, FiniteSets

CONSTANT Redelivery

ASSUME RedeliveryAssumption == Redelivery \in BOOLEAN

VARIABLES
  core,      \* ExecutionCore's tables and circuit breaker
  sm,        \* ExecutionStateMachine.state
  broker,    \* the broker's own view of each order (external)
  retried    \* place_order calls made by retries since the breaker closed

retriesVars == <<core, sm, broker, retried>>

RetriesInit ==
  /\ core = InitCore
  /\ sm = "RISK_PASSED"
  /\ broker = [o \in OrderIds |-> "none"]
  /\ retried = 0

-----------------------------------------------------------------------------
(* The broker (external). *)

Working == {o \in OrderIds : broker[o] = "working"}

\* A report about o may arrive: o is working, or a report is delivered again.
Reportable(o) == IF Redelivery THEN broker[o] # "none" ELSE o \in Working

\* The broker's view of an order it has just numbered.
Placed(answer) == IF answer = "ACKNOWLEDGED" THEN "working" ELSE "done"

\* retried after a rejection that made `calls' retries: _is_circuit_open resets
\* a breaker past its cooldown before it lets one through.
Retried(c, calls) == IF c.breaker = "cooled" THEN calls ELSE retried + calls

-----------------------------------------------------------------------------
(* The core's calls. *)

\* The previous order is out of the way and the orchestrator has brought the
\* machine to RISK_PASSED again.
NewSubmission ==
  /\ sm \in {"FAILED", "FILLED"}
  /\ sm' = "RISK_PASSED"
  /\ UNCHANGED <<core, broker, retried>>

\* submit_order, when the broker does not reject in its answer.
SubmitOrder ==
  /\ sm = "RISK_PASSED"
  /\ \E answer \in Answers \ {"REJECTED"}, n \in OrderIds \cup {NoOrder} :
       /\ AnswerId(core, answer, n)
       /\ LET r == Submit(core, sm, answer, n, FALSE, "raises", NoOrder) IN
            /\ core' = r.core
            /\ sm' = r.sm
       /\ broker' = IF n = NoOrder THEN broker
                    ELSE [broker EXCEPT ![n] = Placed(answer)]
  /\ UNCHANGED retried

\* submit_order answered with a rejected order, which is retried at once.
SubmitRejected ==
  /\ sm = "RISK_PASSED"
  /\ \E n, m \in OrderIds \cup {NoOrder}, again \in Answers, rec \in BOOLEAN :
       /\ AnswerId(core, "REJECTED", n)
       /\ AnswerId(Track(core, n, "REJECTED"), again, m)
       /\ LET c == Track(core, n, "REJECTED")
              r == Submit(core, sm, "REJECTED", n, rec, again, m)
              retries == RejectionRetries(c, n, rec)
              new == IF retries /\ m # NoOrder THEN {m} ELSE {}
          IN  /\ core' = r.core
              /\ sm' = r.sm
              /\ broker' = [o \in OrderIds |-> IF o = n THEN "done"
                              ELSE IF o \in new THEN Placed(again) ELSE broker[o]]
              /\ retried' = Retried(core, IF retries THEN 1 ELSE 0)

\* handle_rejection
RejectOrder(o) ==
  /\ Tracked(core, o)
  /\ Reportable(o)
  /\ \E again \in Answers, m \in OrderIds \cup {NoOrder}, rec \in BOOLEAN :
       /\ AnswerId(core, again, m)
       /\ LET r == Rejection(core, sm, o, rec, again, m)
              retries == RejectionRetries(core, o, rec)
              new == IF retries /\ m # NoOrder THEN {m} ELSE {}
          IN  /\ core' = r.core
              /\ sm' = r.sm
              /\ broker' = [p \in OrderIds |-> IF p = o THEN "done"
                              ELSE IF p \in new THEN Placed(again) ELSE broker[p]]
              /\ retried' = Retried(core, IF retries THEN 1 ELSE 0)

\* handle_acknowledgement
AcknowledgeOrder(o) ==
  /\ Tracked(core, o)
  /\ Reportable(o)
  /\ core' = Acknowledge(core, o)
  /\ UNCHANGED <<sm, broker, retried>>

\* handle_fill of the whole order
FillOrder(o) ==
  /\ Tracked(core, o)
  /\ Reportable(o)
  /\ LET r == Fill(core, sm, o, FALSE) IN
       /\ core' = r.core
       /\ sm' = r.sm
  /\ broker' = [broker EXCEPT ![o] = "done"]
  /\ UNCHANGED retried

\* cancel_order; the broker cancels only what it works.
CancelOrder(o) ==
  /\ Tracked(core, o)
  /\ \E answer \in {"CANCELLED", "UNKNOWN"} :
       /\ answer = "CANCELLED" => o \in Working
       /\ core' = Cancel(core, o, answer)
       /\ broker' = [broker EXCEPT ![o] = IF answer = "CANCELLED" THEN "done" ELSE @]
  /\ UNCHANGED <<sm, retried>>

\* circuit_breaker_reset_seconds have passed since the breaker tripped.
CoolDown ==
  /\ core.breaker = "open"
  /\ core' = [core EXCEPT !.breaker = "cooled"]
  /\ UNCHANGED <<sm, broker, retried>>

RetriesNext ==
  \/ NewSubmission \/ SubmitOrder \/ SubmitRejected \/ CoolDown
  \/ \E o \in OrderIds : \/ RejectOrder(o) \/ AcknowledgeOrder(o)
                         \/ FillOrder(o)   \/ CancelOrder(o)

RetriesSpec == RetriesInit /\ [][RetriesNext]_retriesVars

-----------------------------------------------------------------------------
(* Properties. *)

RetriesTypeOK ==
  /\ core \in [status : [OrderIds -> Statuses], retries : [OrderIds -> Nat],
               failures : Nat, breaker : Breaker]
  /\ sm \in States
  /\ broker \in [OrderIds -> {"none", "working", "done"}]
  /\ retried \in Nat

\* The breaker is closed exactly while the consecutive failures are below the
\* threshold, through trips, cooldowns and failures counted while it is open
\* (_check_circuit_breaker, _is_circuit_open, _reset_circuit_breaker).
BreakerMatchesFailures == core.breaker = "closed" <=> core.failures < Threshold

\* What really bounds the retries is the breaker: between two resets of it the
\* retries call place_order at most threshold times, whatever the broker answers
\* and however many orders and submissions they belong to.  The bound is reached
\* when the reset happens inside a rejection: _is_circuit_open then forgets the
\* failure that rejection has just counted, and one more retry goes out.
RetriesBoundedByBreaker == retried <= Threshold

\* The broker never works two orders of this core at a time: a retry replaces
\* an order that is gone (retry_order), a submission waits for RISK_PASSED.
OneWorkingOrder == Cardinality(Working) <= 1

=============================================================================
