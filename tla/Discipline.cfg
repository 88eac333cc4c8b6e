SPECIFICATION FairSpec
CONSTANTS
    None = None
    Offsets <- SomeOffsets
    Noises <- SomeNoises
    Slopes <- SomeSlopes
    StepLimit = 2
    MaxSlew = 16
    MaxFreq = 2
    MinPoll = 1
    MaxPoll = 3
    Iburst = TRUE
    PollUpStreak = 2
    PollDownRatio = 10
    CorrTimeMax = 4
    MaxChangeStart = 1
    IburstCount = 2
    IburstSpacing = 1
    MaxAcquireBurst = 4
    AcquireUpdates = 3
    AcquireNoise = 10
    FullSpeed = 30
    AcquireDone = 2
    LeapExemption = 50
    FreqMinSamples = 1
    Leaps <- LeapDay
    Threshold = 60
    LeapMode = "step"
    MaxChange = 50
    MaxChangeIgnore = 1
    DriverMayRefuse = TRUE
INVARIANTS FastPlansAreCapped GivesUpAfterRun
PROPERTIES FreshHaulIsNotTrusted QuietReachesMaxPoll
\* the daemon exits when it gives up
CHECK_DEADLOCK FALSE
