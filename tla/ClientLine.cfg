SPECIFICATION ClientSpec
CONSTANTS
    Step = 10
    Drifts = {0}
    Jumps = {0}
    Floor = 1
    Era = 1000
    EraEnd = 1000
    MaxTicks = 3
    MaxBuilt = 3
    MaxSets = 0
INVARIANTS
    LineBoundIsHonest
