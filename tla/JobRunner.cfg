SPECIFICATION FairSpec
CONSTANTS
  Jobs = {1, 2, 3, 4}
  Unknown = {3}
  Dying = {1}
  Escaping = {2}
  Interval <- FourJobs
  Threshold = 3
  Cooldown = 3
  MaxAttempts = 2
  Closed = Closed
  MaxHiccups = 2
  MaxCrashes = 1
INVARIANTS
  OneTrialPerCooldown
PROPERTIES
  Served
  FailingIsCutOff
  RepairedIsReadmitted
