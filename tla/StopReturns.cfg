CONSTANTS
  Caller = {"starter", "stopper"}
  TTL = 5
  MinWait = 1
  MaxFetch = 1
  MaxRuns = 2
SPECIFICATION FairSpec
PROPERTY StopReturns
CHECK_DEADLOCK FALSE
