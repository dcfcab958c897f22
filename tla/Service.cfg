SPECIFICATION FairSpec
CONSTANTS
  web1 = web1
  web2 = web2
  Nobody = Nobody
  Procs = {web1, web2}
  Events = {1, 2, 3}
  Spurious = {2}
  MaxAttempts = 2
  MaxFaults = 1
  Batches = {1}
  TooLarge = {1}
  Limit = 2
INVARIANTS
  TypeOK
  GuardHolds
  DoneIsSaved
PROPERTIES
  FindingsArrive
CHECK_DEADLOCK FALSE
