--------------------------- MODULE MCOrchestrator ---------------------------
(* Values for TLC: one trade sells, the others buy, and the stop-losses the  *)
(* decisions plan are on the losing side of the fill price 2.                *)
EXTENDS ExecutionOrchestrator

CONSTANT Seller

MCAction == [t \in Trades |-> IF t = Seller THEN "SELL" ELSE "BUY"]
MCPlanSl == [t \in Trades |-> IF t = Seller THEN 3 ELSE 1]

=============================================================================
