SPECIFICATION FairCalendarSpec
CONSTANTS
  cpi = cpi
  fomc = fomc
  s1 = s1
  s2 = s2
  Releases = {cpi, fomc}
  Days = {1, 2}
  Series = {s1, s2}
  Hours = {0, 1}
  HoursPerDay = 3
  Unwatched = Unwatched
  NoSeries = NoSeries
  Unreadable = Unreadable
  Configs <- Clocks
  MaxMoves = 1
  MaxEdits = 1
  MaxFaults = 1
PROPERTY ListedUnlessClash
