SPECIFICATION MergeSpec
CONSTANTS
    Servers = {"h"}
    Passphrases = {p1}
    Salts = {s1}
    MaxCookies = 1
    Slots = 1
    Nothing = Nothing
    Torn = Torn
    Tombstone = Tombstone
    MaxPuts = 1
PROPERTY MergeReachesTheFile
