CONSTANTS
  w1 = w1
  w2 = w2
  w3 = w3
  lead = lead
  Worker = {w1, w2, w3}
  Role = {lead, helper}
  NoOne = NoOne
  Absent = Absent
  Admin = Admin
  Thread = {t1}
  Schedule = {s1, s2}
  StartCharts <- TreesOfThree
  ChartFile <- NoFile
  MaxRequests = 3
  MaxFails = 1
  MaxStops = 1
SPECIFICATION Spec
INVARIANTS
  DeletedStaysGone
  SchedulesNameMembers
  StoreAgrees
PROPERTIES
  ImplementsForest
CHECK_DEADLOCK FALSE
