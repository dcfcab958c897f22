SPECIFICATION FairSpec
CONSTANTS
  NumUrls = 3
  QueueLimit = 2
  MaxUrlFailures = 2
  Cooldown = 3
  AttemptTicks = 1
  DeactivationThreshold = 3
  MaxChanges = 1
  MaxFaults = 1
INVARIANTS
  TypeOK
  PoisonBounded
PROPERTIES
  SleepsOnlyWhenIdle
  NoPageHidden
