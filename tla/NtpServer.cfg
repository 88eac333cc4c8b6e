SPECIFICATION Spec
CONSTANTS
    Keys = {1, 2}
    Capacity = 1
    Size = 4
    HashFunctions <- OneBucket
    TokenTicks = 2
    Burst = 2
    Leak = 1
    GlobalRate = 1
    GlobalBurst = 3
    None = None
    MaxTime = 3
    MaxRequests = 3
    BatchMax = 2
    WebKeys = {1, 2}
INVARIANTS TransmitsAreOwn
PROPERTY InterleavedIsTrue
\* the bounds end a behaviour
CHECK_DEADLOCK FALSE
