CONSTANTS
  every2 = every2
  every3 = every3
  Id = {s1}
  Cron = {every2, every3}
  Next <- TwoCrons
  Thread = {t1}
  NoRow = NoRow
  Overlap = TRUE
  LastMinute = 6
  MaxRequests = 1
  MaxFails = 0
  MaxStops = 1
SPECIFICATION Spec
PROPERTY FireKeepsNextAt
CHECK_DEADLOCK FALSE
