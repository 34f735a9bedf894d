SPECIFICATION FairSpec
CONSTANTS
  a = a
  b = b
  gap = gap
  Fetched = Fetched
  Unknown = Unknown
  Sources = {1, 2}
  Series = {1, 2}
  Periods = {1}
  Values = {a, b}
  SourceOf <- PolledAndArchive
  Archives = {2}
  Stamped = {1}
  MayReject = {1, 2}
  TicksPerDay = 2
  MaxTime = 2
  MaxCrashes = 2
INVARIANTS
  Provenance
  NeverBeforeItsDay
PROPERTY EventuallyRead
