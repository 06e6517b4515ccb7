------------------------------ MODULE Allowance ------------------------------
(***************************************************************************)
(* What nested provider budgets promise, without clocks, records or         *)
(* branches: a turn is charged to all the budgets that enclose it or to     *)
(* none, no budget is charged beyond its limit, and no charge is returned.  *)
(***************************************************************************)
EXTENDS Naturals

CONSTANTS Budget, Limit, Enclosing   \* Enclosing: the sets of budgets of a turn

VARIABLE spent

Init == spent = [b \in Budget |-> 0]

Charge(S) ==
    /\ \A b \in S : spent[b] < Limit[b]
    /\ spent' = [b \in Budget |-> IF b \in S THEN spent[b] + 1 ELSE spent[b]]

Next == \E S \in Enclosing : Charge(S)

Spec == Init /\ [][Next]_spent
=============================================================================
