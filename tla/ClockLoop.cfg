SPECIFICATION ClockSpec
CONSTANTS
    a = a
    b = b
    Absent = Absent
    Sources = {a, b}
    Bias <- TwoBias
    Drift = 1
    WindowSize = 2
    PlanFreqs = {1}
    Offsets <- ShortDrain
    StepOffsets <- SomeSteps
    OptsMaxSlew = 1
    CapsMaxSlew = 3
    MaxRefusals = 2
    MaxMono = 3
    MaxReports = 5
    OffsetRange <- Wide
    DistRange = {1, 4}
    StratumRange = {1}
    MinAdaptive = 8
    WindowMax = 8
    YRange = {0, 1, 20}
    SpikeRange <- EarlyOrLate
    SlopeRange = {0, 1}
    RegisterCapacity = 3
    Delays = {1, 2, 3}
    Changes <- UpAndDown
    Unfilled = Unfilled
    MaxPushes = 7
    MaxChanges = 1
    Keys = {1, 2, 3, 4}
    Capacity = 3
    Size = 16
    HashFunctions <- Colliding
    TokenTicks = 2
    Burst = 1
    Leak = 2
    GlobalRate = 2
    GlobalBurst = 3
    None = None
    MaxTime = 3
    MaxRequests = 5
\* the bounds end a behaviour
CHECK_DEADLOCK FALSE
INVARIANTS
    TypeOK
    BooksDescribeClock
    FindsLargestMajority
    HonestMajorityBoundsTheError
    CachesAreFresh
    WindowIsRestated
    SpikeTestIsTheMedianTest
    NewestAreUsed
    LoneSpikeIsIgnored
    IndexFindsEveryClient
    ResponsesAreBounded
    KissesAreRare
PROPERTY ImplementsLru
