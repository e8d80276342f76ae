------------------------ MODULE ExecutionStateMachine ------------------------
(***************************************************************************)
(* side_a_execution/execution_state_machine.py: the thirteen states of an  *)
(* execution and the table of its transitions.  In that table an event     *)
(* always leads to the same state, so the table is given by the states an  *)
(* event may leave (Sources) and the state it leads to (Destination).      *)
(***************************************************************************)

\* _ACTIVE_STATES_FOR_KILL, which is also the set of is_execution_active.
ActiveStates ==
  {"INTENT_RECEIVED", "RISK_PASSED", "ORDER_PENDING", "PARTIAL_FILL", "FILLED",
   "PROTECTED", "MANAGING", "EXITING", "UNKNOWN_PENDING_RECONCILE"}

States == ActiveStates \cup {"IDLE", "CLOSED", "FAILED", "LOCKED"}

\* _TRANSITION_TABLE, its keys grouped by event.
Sources ==
  [CAPTAIN_INTENT              |-> {"IDLE"},
   RISK_PASSED                 |-> {"INTENT_RECEIVED"},
   RISK_FAILED                 |-> {"INTENT_RECEIVED"},
   ORDER_SUBMITTED             |-> {"RISK_PASSED"},
   PARTIAL_FILL_RECEIVED       |-> {"ORDER_PENDING"},
   FULL_FILL                   |-> {"ORDER_PENDING"},
   REJECTED                    |-> {"ORDER_PENDING"},
   TIMEOUT_UNCLEAR             |-> {"ORDER_PENDING"},
   PROTECTION_STAGED           |-> {"PARTIAL_FILL", "FILLED"},
   MANAGEMENT_BEGINS           |-> {"PROTECTED"},
   EXIT_TRIGGERED              |-> {"MANAGING"},
   CLOSE_COMPLETE              |-> {"EXITING"},
   CRITICAL_LOCK               |-> ActiveStates,
   EMERGENCY_FLATTEN           |-> ActiveStates,
   RECONCILE_SUCCESS_MANAGING  |-> {"UNKNOWN_PENDING_RECONCILE"},
   RECONCILE_SUCCESS_PROTECTED |-> {"UNKNOWN_PENDING_RECONCILE"},
   RECONCILE_UNRECOVERABLE     |-> {"UNKNOWN_PENDING_RECONCILE"},
   RECONCILE_FAILSAFE          |-> {"UNKNOWN_PENDING_RECONCILE"}]

\* _TRANSITION_TABLE, its values.
Destination ==
  [CAPTAIN_INTENT              |-> "INTENT_RECEIVED",
   RISK_PASSED                 |-> "RISK_PASSED",
   RISK_FAILED                 |-> "FAILED",
   ORDER_SUBMITTED             |-> "ORDER_PENDING",
   PARTIAL_FILL_RECEIVED       |-> "PARTIAL_FILL",
   FULL_FILL                   |-> "FILLED",
   REJECTED                    |-> "FAILED",
   TIMEOUT_UNCLEAR             |-> "UNKNOWN_PENDING_RECONCILE",
   PROTECTION_STAGED           |-> "PROTECTED",
   MANAGEMENT_BEGINS           |-> "MANAGING",
   EXIT_TRIGGERED              |-> "EXITING",
   CLOSE_COMPLETE              |-> "CLOSED",
   CRITICAL_LOCK               |-> "LOCKED",
   EMERGENCY_FLATTEN           |-> "CLOSED",
   RECONCILE_SUCCESS_MANAGING  |-> "MANAGING",
   RECONCILE_SUCCESS_PROTECTED |-> "PROTECTED",
   RECONCILE_UNRECOVERABLE     |-> "FAILED",
   RECONCILE_FAILSAFE          |-> "CLOSED"]

Events == DOMAIN Destination

\* can_transition(event) in state s.
CanTransition(s, event) == s \in Sources[event]

\* The state transition(event) leaves behind: an event that is not in the table
\* raises ExecutionError and changes nothing.
After(s, event) == IF CanTransition(s, event) THEN Destination[event] ELSE s

CanReceiveNewIntent(s) == s \in {"IDLE", "CLOSED", "FAILED"}

=============================================================================
