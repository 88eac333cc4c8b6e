SPECIFICATION FairSpec
CONSTANTS
    N = 2
    Bias <- HonestPair
    Strata <- PairStrata
    Dists = {1}
    Errors = {8}
    GuardMayRefuse = FALSE
    DriverMayRefuse = FALSE
    UnreachableAfter = 2
    MaxRefusals = 2
    StaleAfter = 1
    Unsynchronized = 16
PROPERTY ProceedsOnWhatAnswers
\* the daemon exits when it gives up
CHECK_DEADLOCK FALSE
