CONSTANTS
    User = {u1, u2}
    Events = 2
    Shares = 2
    Proc = {p1, p2}
    None = None
    Mixes <- HostingMixes
    Zones <- AllZones
    Locales = {"de"}
    MaxActs = 3
    MaxMoves = 1
    Picture = {a, b}
    Variant = {"logo", "thumb"}
    Canonical = "logo"
    MaxRequests = 3
    MaxFiles = 2
    CacheSize = 1
    Subjects = {"picture", "track"}
SPECIFICATION HostSpec
SYMMETRY Symmetric
CHECK_DEADLOCK FALSE
INVARIANT PeopleSeeWhatTheyMay
INVARIANT RoutesBroughtByOwners
INVARIANT SavedAsEntered
INVARIANT RowsShowPictures
 
PROPERTY StopTakesTheRest
