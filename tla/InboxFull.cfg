SPECIFICATION HostSpec
CONSTANTS
  rtf = rtf
  race = race
  ann = ann
  ben = ben
  p1 = p1
  p2 = p2
  p3 = p3
  Nothing = Nothing
  null = null
  Screens = {"list", "map", "calendar"}
  MaxActs = 3
  Event = {rtf, race}
  Person = {ann}
  Verified = {}
  Proc = {p1, p2, p3}
  Cap = 1
  MaxMonth = 2
  MaxCrashes = 1
  Ops = {"event", "account", "community", "inbox"}
SYMMETRY Symmetry
INVARIANT ClaimsWithinCap
INVARIANT CountsMatchMails
INVARIANT MailedOnce
INVARIANT ShowsWhatIsAsked
CHECK_DEADLOCK FALSE
