SPECIFICATION FairSpec
CONSTANTS
  d1 = d1
  d2 = d2
  d3 = d3
  d4 = d4
  d5 = d5
  Paths <- FiveDocuments
  Eligible = {d1, d3, d4}
  Malformed = {d3}
  Unreadable = {d5}
  Speak = TRUE
  Absent = Absent
  Torn = Torn
  MaxFaults = 1
  MaxKills = 2
  MaxTears = 1
CHECK_DEADLOCK FALSE
INVARIANTS
  NoBacklog
  OneRepeatPerFault
  ReadWasShown
PROPERTY EventuallyShown
