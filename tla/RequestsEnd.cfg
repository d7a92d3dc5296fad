CONSTANTS
  w1 = w1
  w2 = w2
  w3 = w3
  lead = lead
  Worker = {w1, w2, w3}
  Role = {lead}
  NoOne = NoOne
  Absent = Absent
  Admin = Admin
  Thread = {t1, t2}
  Schedule = {s1}
  StartCharts <- FromChain
  ChartFile <- OneInFile
  MaxRequests = 2
  MaxFails = 1
  MaxStops = 2
SPECIFICATION FairSpec
PROPERTY RequestsEnd
CHECK_DEADLOCK FALSE
