SPECIFICATION FairSpec
CONSTANTS
  ga = ga
  gb = gb
  gc = gc
  p = p
  q = q
  NoHash = NoHash
  NoPage = NoPage
  Pages <- PlainPages
  Papers = {p}
  PapersOn <- PlainPapers
  Unreadable <- NoneUnreadable
  Extractors = {w}
  MaxCleaner = 1
  MaxFaults = 1
PROPERTY
  QueueDrains
