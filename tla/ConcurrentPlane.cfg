CONSTANTS
  w1 = w1
  w2 = w2
  w3 = w3
  lead = lead
  Worker = {w1, w2, w3}
  Role = {lead}
  NoOne = NoOne
  Absent = Absent
  Admin = Admin
  Thread = {t1, t2}
  Schedule = {}
  StartCharts <- FromChain
  ChartFile <- OneInFile
  MaxRequests = 3
  MaxFails = 0
  MaxStops = 1
SPECIFICATION Spec
INVARIANTS
  DeletedIsRevoked
  HangNeedsCycle
PROPERTIES
  CycleNeedsReturn
  RestartRepairs
CHECK_DEADLOCK FALSE
