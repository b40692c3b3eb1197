------------------------------ MODULE MCDaemon ------------------------------
\* Daemon with its two kinds; the second tick of kia coincides with mortgage's.
EXTENDS Daemon, TLC

CONSTANTS kia, mortgage

BothKinds == {kia, mortgage}
KiaFirst == (kia :> 1) @@ (mortgage :> 2)
SomeTicks == (kia :> {1, 3}) @@ (mortgage :> {3})
=============================================================================
