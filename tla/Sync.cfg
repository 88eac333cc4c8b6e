SPECIFICATION FairSpec
CONSTANTS
    N = 3
    Bias <- OneLiar
    Strata <- LiarStrata
    Dists = {1}
    Errors = {0, 8}
    GuardMayRefuse = TRUE
    DriverMayRefuse = TRUE
    UnreachableAfter = 2
    MaxRefusals = 2
    StaleAfter = 1
    Unsynchronized = 16
INVARIANTS VouchesOnlyAfterCorrection
PROPERTIES FirstCorrectionIsCorroborated LanIsTold QuorumProceeds
\* the daemon exits when it gives up
CHECK_DEADLOCK FALSE
