------------------------- MODULE MCBridgeSession -------------------------
\* BridgeSession on small instances.
EXTENDS BridgeSession, TLC

CONSTANTS c1, c2

OneCaller == {c1}
TwoCallers == {c1, c2}
AnyCaller == Permutations(TwoCallers)
=============================================================================
