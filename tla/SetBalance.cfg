\* Two live runs and a dry one; the user posts, and closes accounts.
CONSTANTS
    first = first
    second = second
    preview = preview
    chequing = chequing
    savings = savings
    Chequing = Chequing
    user1 = user1
    None = None
    Runs <- TwoRuns
    Query <- SameQuery
    Target <- Goals
    Terminal <- Terminals
    Dry <- Previews
    Accounts <- ThreeAccounts
    Key <- SameName
    Posts = {user1}
    Amounts = {1}
    CanCrash = TRUE
CHECK_DEADLOCK FALSE
SPECIFICATION Spec
INVARIANTS
    TypeOK
    CorrectionsSeeEachOther
    ReportedBalanceHolds
