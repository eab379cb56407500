SPECIFICATION MCSpec
CONSTANTS
    Entries <- MCEntries
    Trees <- MCTrees
    Requests <- MCRequests
    Ceilings <- MCCeilings
    Cwd <- MCCwd
    BadNames <- MCBadNames
    OutLinks <- MCOutLinks
    Unlimited <- MCUnlimited
    None = None
INVARIANTS
    NothingLost
    PathsReusable
    BudgetErrorsEarned
    CeilingsHold
    LinksContained
PROPERTIES
    NextEntryReturns
CHECK_DEADLOCK FALSE
