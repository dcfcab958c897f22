SPECIFICATION FairSpec
CONSTANTS
  p1 = p1
  p2 = p2
  u1 = u1
  home = home
  api = api
  script = script
  Nobody = Nobody
  MaxId = 4
  MaxName = 3
  Compatible <- FitNames
  Abbreviates <- ShortNames
  Initials <- InitialNames
  BadNames = {}
  Papers = {p1, p2}
  Byline <- Bylines
  Pages = {home}
  PageOf <- ListedOn
  Users = {u1}
  FirstName <- RowNames
  FirstPapers <- RowPapers
  FirstPages <- RowPages
  FirstFollows <- Follows
  Threshold = 1
  WeakThreshold = 1
  ListLimit = 1
  Processes = {api, script}
  MaxActs = 3
  MaxFaults = 1
INVARIANTS
  TypeOK
  ToldOnce
PROPERTIES
  CreditKept
  OptOutStands
  NewsArrive
CHECK_DEADLOCK FALSE
