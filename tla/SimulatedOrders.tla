--------------------------- MODULE SimulatedOrders ---------------------------
(***************************************************************************)
(* The combined order and position state that SimulationStateJournal._apply *)
(* computes, command by command: SimulatedOms and the ledger's positions.   *)
(* Prices, costs and cash are left to PortfolioBooks; what a state here      *)
(* tells apart is what the state digest tells apart: every order's status    *)
(* and filled quantity, the positions and the attempts.                      *)
(***************************************************************************)
EXTENDS Integers, FiniteSets, FiniteSetsExt

CONSTANTS Orders,      \* order identities
          Terms        \* [Orders -> [run, inst, side, qty]], the submitted orders

Nothing == [status |-> [o \in Orders |-> "NONE"], filled |-> [o \in Orders |-> 0], attempts |-> 0]

Command(kind, o, qty, available) == [kind |-> kind, order |-> o, qty |-> qty, available |-> available]

Resolved == {"FULLY_FILLED", "CANCELLED", "REJECTED", "UNFILLED"}
Active(s, o) == s.status[o] \notin Resolved \cup {"NONE"}

Signed(s, o) == IF Terms[o].side = "BUY" THEN s.filled[o] ELSE 0 - s.filled[o]
OfInstrument(i) == {o \in Orders : Terms[o].inst = i}
Position(s, i) == MapThenSumSet(LAMBDA o : Signed(s, o), OfInstrument(i))

Least(a, b) == IF a < b THEN a ELSE b
Executed(s, c) ==
    LET o == c.order
        n == s.filled[o] + Least(c.qty, c.available)
    IN  IF c.available # 0
        THEN [s EXCEPT !.filled[o] = n, !.attempts = @ + 1,
                       !.status[o] = IF n = Terms[o].qty THEN "FULLY_FILLED" ELSE "PARTIALLY_FILLED"]
        ELSE [s EXCEPT !.attempts = @ + 1, !.status[o] = IF s.filled[o] = 0 THEN "UNFILLED" ELSE @]

\* What _apply lets through; every other command raises.
Applicable(s, c) ==
    CASE c.kind = "SUBMIT" -> TRUE
      [] c.kind = "CANCEL" -> Active(s, c.order)
      [] c.kind = "MARK_UNFILLED" -> Active(s, c.order) /\ s.filled[c.order] = 0
      [] c.kind = "EXECUTE_AND_POST" ->
            /\ Active(s, c.order)
            /\ c.qty \in 1..(Terms[c.order].qty - s.filled[c.order])
            /\ Position(Executed(s, c), Terms[c.order].inst) >= 0

\* Submitting an order that is already known changes nothing.
Apply(s, c) ==
    CASE c.kind = "SUBMIT" ->
            IF s.status[c.order] = "NONE" THEN [s EXCEPT !.status[c.order] = "ACCEPTED"] ELSE s
      [] c.kind = "CANCEL" -> [s EXCEPT !.status[c.order] = "CANCELLED"]
      [] c.kind = "MARK_UNFILLED" ->
            [s EXCEPT !.status[c.order] = "UNFILLED", !.attempts = @ + 1]
      [] c.kind = "EXECUTE_AND_POST" -> Executed(s, c)

=============================================================================
