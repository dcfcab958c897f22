SPECIFICATION Spec
CONSTANTS
  ga = ga
  gb = gb
  gc = gc
  p = p
  q = q
  NoHash = NoHash
  NoPage = NoPage
  Pages <- LastingPages
  Papers = {p, q}
  PapersOn <- LastingPapers
  Unreadable <- NoneUnreadable
  Extractors = {w1, w2}
  MaxCleaner = 0
  MaxFaults = 1
INVARIANTS
  NewsIsTold
  LastingPaperIsNotNews
SYMMETRY AnyExtractor
VIEW OverlapView
