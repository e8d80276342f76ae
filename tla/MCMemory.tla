------------------------------ MODULE MCMemory ------------------------------
(* Memory with ages of a few days, in the order of the real policies.      *)
EXTENDS Memory

\* RetentionPolicy.max_age_days: 365, 90 and 30 in the code
Ages == [long |-> 2, medium |-> 1, short |-> 1]

\* RetentionPolicy.archive_after_days: 90, 30 and none in the code
Archives == [long |-> 1, medium |-> 1, short |-> None]

=============================================================================
