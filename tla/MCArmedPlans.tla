---------------------------- MODULE MCArmedPlans ----------------------------
(* A class bound by candles and one bound by time. *)
EXTENDS ArmedPlans

MCWindow == [c \in PlanClasses |-> IF c = "SCALP" THEN 2 ELSE 0]

=============================================================================
