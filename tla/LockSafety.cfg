SPECIFICATION Spec
CONSTANTS
  owner = owner
  other = other
  shell = shell
  sched = sched
  api = api
  remote = remote
  cli = cli
  c1 = c1
  c2 = c2
  c3 = c3
  c4 = c4
  NoConn = NoConn
  Procs = {owner, shell}
  Owner = owner
  Threads = {sched, api, cli}
  ProcOf <- Placement
  Scheduled = sched
  Cli = {cli}
  Conns = {c1, c2, c3}
  MaxUrls = 1
  MaxRuns = 2
  MaxFaults = 1
SYMMETRY ConnSymmetry
INVARIANTS
  TypeOK
  OneRunAtATime
  NoLeakedLock
PROPERTY
  LiveRowsSpared
