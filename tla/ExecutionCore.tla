---------------------------- MODULE ExecutionCore ----------------------------
(***************************************************************************)
(* side_a_execution/execution_core.py: order submission, acknowledgement,  *)
(* fill, rejection with automatic retry, cancellation, and the circuit     *)
(* breaker that stops the retries.                                         *)
(*                                                                         *)
(* Every handler is an operator from the core's state c and the machine's  *)
(* state s to what the call leaves behind, so that the orchestrator can    *)
(* call it in the middle of its own handlers:                              *)
(*   [core, sm, raised]  and, where the call returns an order,  id.        *)
(* The module's own specification drives the core alone, with a broker     *)
(* that may answer, reject, raise, repeat and reorder its events.          *)
(***************************************************************************)
EXTENDS ExecutionStateMachine, Naturals

CONSTANTS
  MaxOrders,    \* bound: orders the broker may ever number
  MaxRetries,   \* ExecutionCore._max_retries
  Threshold     \* ExecutionCore._circuit_breaker_threshold

ASSUME CoreAssumption ==
  /\ MaxOrders \in Nat
  /\ MaxRetries \in Nat
  /\ Threshold \in Nat \ {0}

OrderIds == 1..MaxOrders
NoOrder == 0

\* What place_order may do (external): raise, answer without an order id, or
\* answer with a new order, acknowledged or already rejected.
Answers == {"raises", "empty", "ACKNOWLEDGED", "REJECTED"}

Statuses ==
  {"none",              \* not in _orders
   "ACKNOWLEDGED", "PARTIAL_FILL", "FILLED", "CANCELLED", "REJECTED",
   "UNKNOWN"}           \* any other answer to a cancellation

\* The circuit breaker by the age of _circuit_breaker_tripped_at: None, younger
\* than the reset time, or at least as old.
Breaker == {"closed", "open", "cooled"}

CoreStates ==
  [status   : [OrderIds -> Statuses],         \* _orders and _order_statuses
   retries  : [OrderIds -> Nat],              \* _retry_counts
   failures : Nat,                            \* _consecutive_failures
   breaker  : Breaker]                        \* _circuit_breaker_tripped_at

InitCore ==
  [status   |-> [o \in OrderIds |-> "none"],
   retries  |-> [o \in OrderIds |-> 0],
   failures |-> 0,
   breaker  |-> "closed"]

-----------------------------------------------------------------------------
(* Helpers of the handlers. *)

Tracked(c, o) == c.status[o] # "none"

\* The broker numbers its orders: n is the next id it gives.
IsNextId(c, n) ==
  n \in OrderIds /\ ~Tracked(c, n) /\ \A k \in 1..(n - 1) : Tracked(c, k)

\* The id that comes with an answer: a fresh one when the answer has an order.
AnswerId(c, answer, n) ==
  IF answer \in {"ACKNOWLEDGED", "REJECTED"} THEN IsNextId(c, n) ELSE n = NoOrder

\* A new order enters the three tables.
Track(c, n, answer) ==
  [c EXCEPT !.status[n] = answer, !.retries[n] = 0]

\* Fault: the breaker trips one failure late.
CountFailureLate(c) ==
  [c EXCEPT !.failures = @ + 1,
            !.breaker = IF @ = "closed" /\ c.failures >= Threshold THEN "open"
                                                                   ELSE @]

\* _consecutive_failures += 1, then _check_circuit_breaker: a breaker that has
\* tripped is left alone, whatever its age.
CountFailure(c) ==
  [c EXCEPT !.failures = @ + 1,
            !.breaker = IF @ = "closed" /\ c.failures + 1 >= Threshold
                          THEN "open" ELSE @]

\* The breaker has tripped, which fires the circuit breaker callback.
Trips(c, d) == c.breaker # "open" /\ d.breaker = "open"

\* The side effect of _is_circuit_open: a breaker past its cooldown resets.
CircuitChecked(c) ==
  IF c.breaker = "cooled" THEN [c EXCEPT !.breaker = "closed", !.failures = 0]
                          ELSE c

-----------------------------------------------------------------------------
(* The handlers. *)

\* The end of _handle_rejection_internal: REJECTED is fired, and raises when
\* the machine is not in ORDER_PENDING.  The details of the transition ask
\* _is_circuit_open once more.
FailOrder(c, s) ==
  [core   |-> CircuitChecked(c),
   sm     |-> After(s, "REJECTED"),
   raised |-> ~CanTransition(s, "REJECTED")]

\* Fault: an open breaker does not stop a retry.
RetryAllowedAnyway(c, o) == c.retries[o] < MaxRetries

\* Whether _handle_rejection_internal gets as far as a place_order, having
\* counted the failure and looked at the breaker.
RetryAllowed(c, o) == c.breaker = "closed" /\ c.retries[o] < MaxRetries

\* Fault: a retry goes through submit_order's state, RISK_PASSED, again.
RetryResubmits(c, s, o, answer, n) ==
  LET d == [c EXCEPT !.retries[o] = @ + 1] IN
  IF answer \in {"raises", "empty"}
    THEN [core |-> d, sm |-> s, raised |-> TRUE]
    ELSE [core |-> Track(d, n, answer), sm |-> "RISK_PASSED", raised |-> FALSE]

\* The rest of retry_order, the broker answering with `answer' and id n.
Retry(c, s, o, answer, n) ==
  LET d == [c EXCEPT !.retries[o] = @ + 1] IN
  CASE answer = "raises" ->
         [core |-> CountFailure(d), sm |-> s, raised |-> TRUE]
    [] answer = "empty" ->
         [core |-> d, sm |-> s, raised |-> TRUE]
    [] OTHER ->
         [core |-> Track(d, n, answer), sm |-> s, raised |-> FALSE]

\* _handle_rejection_internal for a tracked order o: mark it, count the
\* failure, then retry or fail.
Rejection(c, s, o, recoverable, answer, n) ==
  LET d == CountFailure([c EXCEPT !.status[o] = "REJECTED"])
      e == CircuitChecked(d)
  IN  IF recoverable /\ RetryAllowed(e, o) THEN Retry(e, s, o, answer, n)
      ELSE IF recoverable THEN FailOrder(e, s)
      ELSE FailOrder(d, s)

\* Whether that call reaches place_order.
RejectionRetries(c, o, recoverable) ==
  recoverable /\ RetryAllowed(CircuitChecked(CountFailure(c)), o)

\* submit_order from RISK_PASSED: the broker answers with `answer' and id n.
\* An order rejected in the answer enters ORDER_PENDING first; the retry of its
\* rejection is answered with `again' and id m.
Submit(c, s, answer, n, recoverable, again, m) ==
  IF answer \in {"raises", "empty"} \/ ~CanTransition(s, "ORDER_SUBMITTED")
    THEN [core |-> c, sm |-> s, raised |-> TRUE, id |-> NoOrder]
  ELSE IF answer = "ACKNOWLEDGED"
    THEN [core |-> Track(c, n, answer), sm |-> After(s, "ORDER_SUBMITTED"),
          raised |-> FALSE, id |-> n]
  ELSE LET r == Rejection(Track(c, n, answer), After(s, "ORDER_SUBMITTED"), n,
                          recoverable, again, m)
       IN  [core |-> r.core, sm |-> r.sm, raised |-> r.raised, id |-> n]

\* handle_acknowledgement: the status is whatever the acknowledgement says.
Acknowledge(c, o) == [c EXCEPT !.status[o] = "ACKNOWLEDGED"]

\* handle_fill: the status changes before the transition is tried, and stays
\* changed when the transition raises.
FillEvent(partial) == IF partial THEN "PARTIAL_FILL_RECEIVED" ELSE "FULL_FILL"

Fill(c, s, o, partial) ==
  [core   |-> [c EXCEPT !.status[o] = IF partial THEN "PARTIAL_FILL"
                                                 ELSE "FILLED"],
   sm     |-> After(s, FillEvent(partial)),
   raised |-> ~CanTransition(s, FillEvent(partial))]

\* cancel_order: the status is what the broker answers; no transition.
Cancel(c, o, answer) == [c EXCEPT !.status[o] = answer]

=============================================================================
