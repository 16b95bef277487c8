SPECIFICATION SubgroupsAlone
CONSTANTS
  alice = alice
  bob = bob
  carol = carol
  p1 = p1
  p2 = p2
  s1 = s1
  s2 = s2
  null = null
  Title = {n1, n2}
  Tag = {x, y}
  MaxItems = 2
  Event = {race}
  Mixes <- ArticleMixes
  User = {alice, bob, carol}
  Subgroup = {s1}
  Proc = {p1, p2}
  Ops = {"member", "save", "remove", "join", "invite", "decide", "drop", "suspend", "abort"}
SYMMETRY Symmetry
PROPERTY KeepsPromise
