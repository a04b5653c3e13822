---------------------------- MODULE MC_FileIOData ----------------------------
(* Instances of FileIOData for TLC: clients, budgets and byte values.     *)
EXTENDS FileIOData, TLC

CONSTANTS c1, c2, v1, v2

OneClient  == {c1}
TwoClients == {c1, c2}
OneVal     == {v1}
TwoVals    == {v1, v2}

\* c1 makes four calls.
BudgetFour == [c \in OneClient |-> 4]

\* c1 makes two calls.
BudgetTwo == [c \in OneClient |-> 2]

\* c1 makes two calls and c2 one.
BudgetTwoOne == (c1 :> 2) @@ (c2 :> 1)
====
