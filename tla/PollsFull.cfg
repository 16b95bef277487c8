SPECIFICATION HostSpec
CONSTANTS
  ann = ann
  ben = ben
  o1 = o1
  o2 = o2
  o3 = o3
  o4 = o4
  p1 = p1
  p2 = p2
  p3 = p3
  Author = ann
  User = {ann, ben}
  Option = {o1, o2}
  Proc = {p1, p2}
  PoolSize = 3
  MinOptions = 1
  MaxOptions = 2
  Ops = {"vote", "edit", "remove"}
  null = null
  Endpoints = {"findAll", "findMine", "findBySlug", "members", "requests", "groups", "group", "crew", "begs", "polls", "poll", "voters", "posts"}
  MaxMoves = 1
SYMMETRY Symmetry
INVARIANT SingleChoice
PROPERTY OnlyOwnVoteCounts
PROPERTY ClosedTakesNoVotes
INVARIANT PagesKeepToRights
