SPECIFICATION Spec
CONSTANTS
  Dimensions <- TwoDimensions
  Views <- OneView
  SourcesOf <- Configured
  NameOf <- Names
  Market = {"cpi"}
  Readable <- ReadableHere
  Periods = {1}
  Values = {a, b, Gap}
  a = a
  b = b
  Gap = Gap
  MayReplay = TRUE
  TicksPerDay = 2
  MaxBatch = 1
  MaxLate = 1
  MaxKills = 1
  MaxTime = 3
CHECK_DEADLOCK FALSE
INVARIANTS
  EvidenceHolds
  SectionsOfOneDay
PROPERTY PastReportsReproduce
