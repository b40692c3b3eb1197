\* Calls return although the bridge may hang or die.
CONSTANTS
    c1 = c1
    c2 = c2
    NoCaller = NoCaller
    Callers <- TwoCallers
    MaxId = 3
SPECIFICATION FairSpec
PROPERTY EveryCallReturns
\* The session ends for good once it is dropped.
CHECK_DEADLOCK FALSE
