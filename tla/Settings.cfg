\* Inits, upgrades, edits and kills; commands started in any environment.
CONSTANTS
    Versions <- TwoVersions
    Edits <- SomeEdits
    Environments <- SomeEnvironments
    Checkout <- SomeCheckout
    None = None
    Absent = Absent
    Failure = Failure
SPECIFICATION Spec
INVARIANTS
    TypeOK
    OverridesReach
    RefreshReaches
    ExportsTakeEffect
    OneReplica
