--------------------------- MODULE MCBudgetLock ---------------------------
\* BudgetLock with a daemon whose two jobs coincide and two CLI commands.
EXTENDS BudgetLock, TLC

CONSTANTS kia, mortgage, cli1, cli2, daemon, shell1, shell2

SomeTasks == {kia, mortgage, cli1, cli2}
SomeProcesses == {daemon, shell1, shell2}
SomeProcessOf == (kia :> daemon) @@ (mortgage :> daemon)
                 @@ (cli1 :> shell1) @@ (cli2 :> shell2)
OneCommand == {cli1}
=============================================================================
