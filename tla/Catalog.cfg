SPECIFICATION FairSpec
CONSTANTS
  w1 = w1
  w2 = w2
  w3 = w3
  t1 = t1
  t2 = t2
  t3 = t3
  ann = ann
  bob = bob
  NoWork = NoWork
  NumPapers = 3
  Authors = {ann, bob}
  Titles = {t1, t2, t3}
  Urls = {url}
  Works = {w1, w2, w3}
  TitleOfWork <- WorkTitles
  FirstTitle <- PaperTitles
  FirstAuthors <- PaperAuthors
  FirstStatus <- PaperStatuses
  PageDois <- Dois
  Broken = {w3}
  Enrichers = {worker, command}
  Mergers = {scrape}
  BatchSize = 1
  RequestLimit = 1
  MaxEvents = 1
  MaxDays = 1
INVARIANTS
  TypeOK
  BudgetKept
PROPERTIES
  OnlyDuplicatesMerged
  NothingLost
  EveryPaperTried
CHECK_DEADLOCK FALSE
