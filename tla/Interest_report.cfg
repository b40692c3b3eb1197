\* Two data dirs, a forced run, and bridges that outlive their runs.
CONSTANTS
    tick = tick
    cli = cli
    force = force
    dry = dry
    home = home
    laptop = laptop
    User = User
    Matched = Matched
    Runs <- TwoDirRuns
    DirOf <- TwoDirs
    Forced <- OnlyForce
    Dry = {}
    LastDay = 4
    CanCrash = TRUE
    Detached = TRUE
SPECIFICATION Spec
INVARIANT ReportedInterestIsOnServer
