---------------------------- MODULE MCSetBalance ----------------------------
\* Runs that ask for one name, which two of three accounts have.
EXTENDS SetBalance, TLC

CONSTANTS first, second, preview, chequing, savings, Chequing, user1

TwoRuns == {first, second, preview}
Terminals == {second}
Previews == {preview}
SameQuery == [r \in Runs |-> "chequing"]
Goals == [r \in Runs |-> IF r = first THEN 1 ELSE 2]
ThreeAccounts == {chequing, Chequing, savings}
SameName == [a \in Accounts |-> IF a = savings THEN "savings" ELSE "chequing"]
=============================================================================
