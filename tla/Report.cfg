\* Every kind of schedule, and every kind of category in a household of two.
CONSTANTS
    None = None
    Blank = Blank
    MaxPeriods = 120
    Worlds <- AllWorlds
CHECK_DEADLOCK FALSE
SPECIFICATION Spec
INVARIANTS
    TypeOK
    SuccessMeansResolved
    MonthsMakeTheYear
    AnnualizedIsTheYearsAverage
    SharesPayTheTotal
    ReportsAgree
