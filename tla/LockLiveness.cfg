SPECIFICATION FairSpec
CONSTANTS
  owner = owner
  other = other
  shell = shell
  sched = sched
  api = api
  remote = remote
  cli = cli
  c1 = c1
  c2 = c2
  c3 = c3
  c4 = c4
  NoConn = NoConn
  Procs = {owner}
  Owner = owner
  Threads = {sched}
  ProcOf <- Placement
  Scheduled = sched
  Cli = {}
  Conns = {c1, c2}
  MaxUrls = 1
  MaxRuns = 2
  MaxFaults = 1
PROPERTIES
  LockFreed
  RowsSettle
