----------------------------- MODULE TradeLedger -----------------------------
(***************************************************************************)
(* What the execution side promises about units, whatever happens to a     *)
(* trade on the way: nothing is executed but for a decision that has come  *)
(* to the risk gate, and what the books say is held was executed; the      *)
(* books may lag behind the broker or miss a fill, never invent one.       *)
(***************************************************************************)
EXTENDS Naturals

CONSTANTS
  Trades,
  MaxUnits    \* units one execution has at most

VARIABLES
  decided,    \* trades whose decision has come to the gate
  executed,   \* units the broker has executed, by trade
  booked      \* units the position manager has, by trade

vars == <<decided, executed, booked>>

Init ==
  /\ decided = {}
  /\ executed = [t \in Trades |-> 0]
  /\ booked = [t \in Trades |-> 0]

Decide(t) ==
  /\ decided' = decided \cup {t}
  /\ UNCHANGED <<executed, booked>>

\* n units are executed; the same n units are booked, or none.
Execute(t, n) ==
  /\ t \in decided
  /\ executed' = [executed EXCEPT ![t] = @ + n]
  /\ booked' \in {booked, [booked EXCEPT ![t] = @ + n]}
  /\ UNCHANGED decided

\* n units leave the books.
Release(t, n) ==
  /\ booked' = [booked EXCEPT ![t] = @ - n]
  /\ UNCHANGED <<decided, executed>>

Next ==
  \E t \in Trades :
    \/ Decide(t)
    \/ \E n \in 1..MaxUnits : Execute(t, n)
    \/ \E n \in 1..booked[t] : Release(t, n)

Spec == Init /\ [][Next]_vars

-----------------------------------------------------------------------------

TypeOK ==
  /\ decided \subseteq Trades
  /\ executed \in [Trades -> Nat]
  /\ booked \in [Trades -> Nat]

\* No position is larger than what the broker has executed for its trade, and
\* only trades that came through the gate have executions.
BooksAreBacked ==
  \A t \in Trades : /\ booked[t] <= executed[t]
                    /\ executed[t] > 0 => t \in decided

=============================================================================
