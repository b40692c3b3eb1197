--------------------------- MODULE MCInterestRuns ---------------------------
\* InterestRuns with two ordinary runs, a forced one and a dry one.
EXTENDS InterestRuns, TLC

CONSTANTS tick, cli, force, dry, home, laptop

OneDirRuns == {tick, cli, dry}
TwoDirRuns == {tick, force}
OneDir == [r \in Runs |-> home]
TwoDirs == [r \in Runs |-> IF r = tick THEN home ELSE laptop]
OnlyForce == {force}
OnlyDry == {dry}
=============================================================================
