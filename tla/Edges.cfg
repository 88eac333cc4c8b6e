SPECIFICATION EdgesSpec
CONSTANTS
    Platforms = {"linux", "windows", "macos", "virtual"}
    Freqs <- Frequencies
    Drains <- DrainsUs
    Rates <- DrainRates
    OptsMaxSlew = 240000
    Adds <- StepUnits
    Ppm = 2
    FreqScale = 1
    NominalTick = 10000
    Increment = 900
    Second = 40
    Milli = 10
    MaxGap = 2
    MaxCommands = 3
    Tries = 2
    MaxWrites = 3
    MaxReads = 2
    Poll = 1
    StaleAfter = 3
    Errors = {3}
    Offsets <- Corrections
    Bounds = {1}
    DrainRate = 2
    Clients = {c1}
    Roles = {"sync"}
    Timeout = 2
    MaxAge = 5
    MaxSteers = 2
    Addresses = 2
    CookieCount = 2
    NtpPorts = {123, 4123}
    Strangers <- Foreign
    MaxConns = 2
    Peers = {p1, p2}
    BatchSize = 2
    Ways = {"linux", "unbatched", "other"}
    Nobody = Nobody
    MaxDatagrams = 4
    Step = 4
    Drifts = {1}
    Jumps <- BigJumps
    Floor = 2
    Era = 80
    EraEnd = 6
    MaxTicks = 2
    MaxBuilt = 3
    MaxSets = 1
    Servers = {"h"}
    Passphrases = {k1, k2}
    Salts = {s1, s2}
    MaxCookies = 3
    Slots = 2
    Nothing = Nothing
    Torn = Torn
    Tombstone = Tombstone
    MaxPuts = 3
INVARIANTS
    CommandsAreObeyed
    TornOnlyIfBegunMidWrite
    ReportIsHonest
    EstablishedIsAgreed
    AnswersGoHome
    SamplesAreHonest
    SavedStaysReadable
    JarsHaveNoHole
PROPERTIES
    NothingIsDropped
    RingIsKept
    ImplementsSessionStore
\* the bounds end the behaviours of several parts
CHECK_DEADLOCK FALSE
