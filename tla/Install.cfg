\* Processes of two versions of abh, each installs one bridge at a time.
CONSTANTS
    old = old
    new = new
    job1 = job1
    job2 = job2
    Tasks <- Separate
    ProcessOf <- OfItself
    VersionOf <- OldAndNew
    Absent = Absent
    Torn = Torn
    Partial = Partial
    CanCrash = TRUE
SPECIFICATION Spec
INVARIANTS
    TypeOK
    NoTornFile
    StampOfLastInstall
PROPERTY ReadyBridgeIsOwn
