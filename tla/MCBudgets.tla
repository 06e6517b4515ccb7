------------------------------ MODULE MCBudgets ------------------------------
(* Budgets with one budget around all branches and one inside the first.     *)
EXTENDS Budgets

CONSTANTS w1, w2, whole, inner

MCBranch == {w1, w2}
MCBudget == {whole, inner}
MCOuter == [b \in MCBudget |-> IF b = inner THEN {whole} ELSE {}]
MCPath == [w \in MCBranch |-> IF w = w1 THEN {whole, inner} ELSE {whole}]
MCTurns == [b \in MCBudget |-> IF b = whole THEN 2 ELSE 1]
MCSeconds == [b \in MCBudget |-> 2]
=============================================================================
