SPECIFICATION Spec
CONSTANTS
    Kinds <- BothClients
    Target = 2
    PlaceholderCap = 1
    ReplyCap = 2
    KeCookies = 2
    Slots = 4
    Count = 2
    Addrs = 2
    MaxMasters = 2
    MaxStale = 1
    CookieIds <- MCCookieIds
    Lossy = TRUE
    MayAbandon = TRUE
INVARIANTS
    JarIsUniform
    SpentOnceUnlessRunLost
    OneRefusalPerKeyChange
    StateKeepsCookies
PROPERTIES
    DaemonRenews
