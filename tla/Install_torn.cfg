\* What write_if_changed says of its readers; two jobs of one daemon, once the
\* user has deleted what was installed when it started.
CONSTANTS
    old = old
    new = new
    job1 = job1
    job2 = job2
    Tasks <- Jobs
    ProcessOf <- OneDaemon
    VersionOf <- OldAndNew
    Absent = Absent
    Torn = Torn
    Partial = Partial
    CanCrash = FALSE
SPECIFICATION Spec
INVARIANT NoTornFile
