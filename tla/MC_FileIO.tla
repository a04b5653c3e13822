------------------------------ MODULE MC_FileIO ------------------------------
(* Model-checking instance of FileIO: two clients on one inode.           *)
EXTENDS FileIO

CONSTANTS c1, c2

MCClients == {c1, c2}

\* Operation budgets: c1 runs two operations in sequence (so its second
\* one meets the lock state its first one left), c2 runs one.
BudgetTwoOne == [t \in MCClients \X {1} |-> IF t[1] = c1 THEN 2 ELSE 1]
BudgetOneOne == [t \in MCClients \X {1} |-> 1]
\* Two threads on c1's FileIO, one operation each; c2 runs one operation.
BudgetThreads == [t \in MCClients \X {1, 2} |->
                    IF t[1] = c1 THEN 1 ELSE IF t[2] = 1 THEN 1 ELSE 0]

=============================================================================
