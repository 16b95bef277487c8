CONSTANTS
    nil = nil
    User = {u1, u2}
    Site = Site
    Writers = {p1, p2}
    Nobody = Nobody
    Gone = Gone
    Pages = 2
    Posts = 2
    Comments = 1
    Reports = 2
    Mixes <- PostMixes
    Communities = {c, d}
    Subgroups = {s}
    MaxLength = 4
    Reserved = {3}
    Forms <- LetterForms
    MaxRequests = 2
SPECIFICATION PagesSpec
SYMMETRY Symmetric
CHECK_DEADLOCK FALSE
PROPERTY ReportsAreSettled
PROPERTY LinksLeadOn
