\* Any process may be killed at any moment; one command asks its user.
CONSTANTS
    kia = kia
    mortgage = mortgage
    cli1 = cli1
    cli2 = cli2
    daemon = daemon
    shell1 = shell1
    shell2 = shell2
    Nobody = Nobody
    Tasks <- SomeTasks
    Processes <- SomeProcesses
    ProcessOf <- SomeProcessOf
    Crashable <- SomeProcesses
    Interactive <- OneCommand
SPECIFICATION FairLockSpec
INVARIANTS
    OnlyOrphansShare
    LockHeldByItsSession
PROPERTY
    LockIsReleased
