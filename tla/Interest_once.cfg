\* The runs of one data dir; a run and its bridge are killed together.
CONSTANTS
    tick = tick
    cli = cli
    force = force
    dry = dry
    home = home
    laptop = laptop
    User = User
    Matched = Matched
    Runs <- OneDirRuns
    DirOf <- OneDir
    Forced = {}
    Dry <- OnlyDry
    LastDay = 4
    CanCrash = TRUE
    Detached = FALSE
SPECIFICATION Spec
INVARIANTS
    TypeOK
    OncePerDay
