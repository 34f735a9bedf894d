SPECIFICATION Spec
CONSTANTS
  a = a
  b = b
  gap = gap
  Fetched = Fetched
  Unknown = Unknown
  Sources = {1}
  Series = {1}
  Periods = {1}
  Values = {a, b, gap}
  SourceOf <- OneSeries
  Archives = {}
  Stamped = {1}
  MayReject = {}
  TicksPerDay = 1
  MaxTime = 4
  MaxCrashes = 1
INVARIANTS
  TypeOK
  Lossless
  RevisionsCount
  NothingNewMeansCurrent
PROPERTY PastIsFinal
SYMMETRY Symmetric
