SPECIFICATION Spec
CONSTANTS
  u1 = u1
  u2 = u2
  worker = worker
  cli = cli
  NoUrl = NoUrl
  Urls = {u1, u2}
  Extractors = {worker, cli}
  Readings <- Ladder
  Dates = {1, 2}
  MaxRuns = 4
  MaxFaults = 1
SYMMETRY FeedSymmetry
INVARIANTS
  TypeOK
  AscentTold
  NewsOnceUnlessRaced
PROPERTIES
  ImplementsLedger
