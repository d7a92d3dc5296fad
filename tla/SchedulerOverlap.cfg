CONSTANTS
  every2 = every2
  every3 = every3
  Id = {s1}
  Cron = {every2, every3}
  Next <- TwoCrons
  Thread = {t1, t2}
  NoRow = NoRow
  Overlap = TRUE
  LastMinute = 4
  MaxRequests = 2
  MaxFails = 1
  MaxStops = 1
SPECIFICATION FairSpec
INVARIANTS
  RepeatsAreBounded
PROPERTY DueAdvances
CHECK_DEADLOCK FALSE
