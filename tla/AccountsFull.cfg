CONSTANTS
    Account = {a1, a2}
    Code = {c1, c2}
    Link = {l1}
    Proc = {p1, p2}
    None = None
    MaxAttempts = 2
    Ttl = 2
    Mixes = {{"otp", "form", "links"}, {"otp", "abort"}, {"otp", "session"}, {"otp", "delete"}, {"form", "links", "ban", "role"}, {"form", "session", "ban", "delete"}}
    ann = ann
    ben = ben
    People = {ann, ben}
    Admins = {ann}
    Preferred <- GermanAndEnglish
    Tabs = {t1, t2}
    MaxActs = 2
    Doings = {{"login", "session", "out", "badge"}, {"login", "otp", "session", "forgot"}, {"register", "reset", "list"}, {"profile", "save", "name", "lang"}, {"profile", "delete", "out"}, {"admin", "ban", "refresh", "out", "badge"}, {"open", "out", "session", "login", "profile", "save"}}
SPECIFICATION HostSpec
SYMMETRY Symmetric
CHECK_DEADLOCK FALSE
INVARIANT AttemptsBounded
INVARIANT SpentStaysSpent
INVARIANT CacheIsFresh
PROPERTY LiftedOnlyBySave
INVARIANT ShownIsActing
