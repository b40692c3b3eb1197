\* Kills, restarts and a bad disk, from a first start to the last tick.
CONSTANTS
    kia = kia
    mortgage = mortgage
    Kinds <- BothKinds
    Rank <- KiaFirst
    Ticks <- SomeTicks
    Never = Never
    Absent = Absent
    Corrupt = Corrupt
    LastTime = 4
SPECIFICATION FairSpec
INVARIANTS
    FileIsCurrent
    TicksAreFollowed
PROPERTY SchedulerStarts
