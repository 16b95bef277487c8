SPECIFICATION JobsAlone
CONSTANTS
  Run = {r1, r2}
  Proc = {p1, p2}
  MaxCrashes = 2
  Ops = {"scrape", "file", "fail", "crash"}
  e1 = e1
  e2 = e2
  name = name
  place = place
  v1 = v1
  v2 = v2
  Record = {e1, e2}
  Field = {name, place}
  Value = {v1, v2}
  Editor = {"p"}
  Mixes <- SyncMixes
  undefined = undefined
  null = null
  wrongType = wrongType
  spaces = spaces
  tooShort = tooShort
  tooLong = tooLong
  unknown = unknown
  Ids = {a, b}
  Firsts <- Starts
  Zones <- TwoZones
  SeriesLimits <- FormLimits
  MaxOccurrences = 4
  MaxSpanDays = 40
  Ages <- SomeAges
  AgeLimits <- SomeLimits
  Events = 3
CHECK_DEADLOCK FALSE
PROPERTY RunsEnd
INVARIANT NoForgottenRun
