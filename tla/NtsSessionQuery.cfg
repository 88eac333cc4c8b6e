SPECIFICATION Spec
CONSTANTS
    Kinds <- QueryOnly
    Target = 2
    PlaceholderCap = 1
    ReplyCap = 2
    KeCookies = 2
    Slots = 4
    Count = 2
    Addrs = 1
    MaxMasters = 2
    MaxStale = 1
    CookieIds <- MCCookieIds
    Lossy = FALSE
    MayAbandon = FALSE
PROPERTIES
    QueryRenews
