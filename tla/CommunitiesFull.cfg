SPECIFICATION HostSpec
CONSTANTS
  alice = alice
  bob = bob
  carol = carol
  p1 = p1
  p2 = p2
  p3 = p3
  c1 = c1
  c2 = c2
  null = null
  Things = {"community", "subgroup", "poll", "post", "event", "comments"}
  Lists = {"members", "subgroup", "requests"}
  MaxActs = 2
  MaxMoves = 1
  Community = {c1}
  User = {alice, bob, carol}
  SiteAdmin = {}
  Proc = {p1, p2}
  Ops = {"create", "save", "remove", "join", "invite", "leave", "role", "kick", "decide", "suspend", "deleteAccount", "abort"}
SYMMETRY Symmetry
CHECK_DEADLOCK FALSE
PROPERTY AdminsLostOnlyToStaleDeletion
PROPERTY FreezeWins
INVARIANT PagesAreTrue
