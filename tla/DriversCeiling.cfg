SPECIFICATION DriverSpec
CONSTANTS
    Platforms = {"macos"}
    Freqs = {31}
    Drains = {900}
    Rates = {0, 1003, 166666}
    OptsMaxSlew = 166666
    Adds = {5}
    Ppm = 2
    FreqScale = 1
    NominalTick = 10000
    Increment = 900
    Second = 40
    Milli = 10
    MaxGap = 2
    MaxCommands = 3
INVARIANTS
    NeverBeyondTheDriver
