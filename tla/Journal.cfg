SPECIFICATION FairSpec
CONSTANTS
  Target = "cpi"
  Periods = {1, 2}
  MonthDays = 1
  Values = {a, b, Gap}
  a = a
  b = b
  Gap = Gap
  MaxLate = 1
  MayReplay = TRUE
  TicksPerDay = 2
  MaxBatch = 1
  MaxTime = 3
CHECK_DEADLOCK FALSE
INVARIANTS
  NoHindsight
PROPERTIES
  ScoresStandStill
  ReleasesStandStill
  PastReportsStand
  EventuallyAccounted
