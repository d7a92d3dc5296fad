CONSTANTS
  w1 = w1
  w2 = w2
  w3 = w3
  lead = lead
  Worker = {w1, w2, w3}
  Role = {lead}
  NoOne = NoOne
  Absent = Absent
  Admin = Admin
  Thread = {t1, t2}
  Schedule = {}
  StartCharts <- FromChain
  ChartFile <- NoFile
  MaxRequests = 2
  MaxFails = 0
  MaxStops = 0
SPECIFICATION Spec
INVARIANT DeletedStaysGone
CHECK_DEADLOCK FALSE
