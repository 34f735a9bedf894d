SPECIFICATION Spec
CONSTANTS
  a = a
  b = b
  gap = gap
  Fetched = Fetched
  Unknown = Unknown
  Sources = {1}
  Series = {1, 2}
  Periods = {1}
  Values = {a, b}
  SourceOf <- SharedSource
  Archives = {}
  Stamped = {1}
  MayReject = {}
  TicksPerDay = 1
  MaxTime = 2
  MaxCrashes = 1
PROPERTY CleanRunRemembers
