-------------------------- MODULE MCManagedBridge --------------------------
\* A process of each of two versions; and two jobs of one daemon.
EXTENDS ManagedBridge

CONSTANTS old, new, job1, job2

Separate == {old, new}
OfItself == [t \in Tasks |-> t]
OldAndNew == [p \in Processes |-> IF p = new THEN 2 ELSE 1]
Jobs == {job1, job2}
OneDaemon == [t \in Tasks |-> old]
=============================================================================
