SPECIFICATION Spec
CONSTANTS
    None = None
    Offsets <- SomeOffsets
    Noises <- SomeNoises
    Slopes <- SomeSlopes
    StepLimit = 0
    MaxSlew = 16
    MaxFreq = 2
    MinPoll = 4
    MaxPoll = 5
    Iburst = FALSE
    PollUpStreak = 2
    PollDownRatio = 10
    CorrTimeMax = 4
    MaxChangeStart = 1
    IburstCount = 2
    IburstSpacing = 1
    MaxAcquireBurst = 4
    AcquireUpdates = 3
    AcquireNoise = 10
    FullSpeed = 30
    AcquireDone = 2
    LeapExemption = 50
    FreqMinSamples = 4
    Leaps <- NoLeap
    Threshold = None
    LeapMode = "ignore"
    MaxChange = None
    MaxChangeIgnore <- NeverGiveUp
    DriverMayRefuse = FALSE
PROPERTIES HaulLeavesWindowFirst
