SPECIFICATION Spec
CONSTANTS
  ga = ga
  gb = gb
  gc = gc
  p = p
  q = q
  NoHash = NoHash
  NoPage = NoPage
  Pages <- RewordedPages
  Papers = {p}
  PapersOn <- RewordedPapers
  Unreadable <- EmptyUnreadable
  Extractors = {w}
  MaxCleaner = 0
  MaxFaults = 1
INVARIANTS
  TypeOK
  HistoryKept
  OrderlyMissesNothing
PROPERTY
  ImplementsQueue
