CONSTANTS
  None = None
  Worker = {1, 2, 3, 4}
  Role = {"lead", "helper"}
  NoOne = NoOne
  Absent = Absent
  AskedChart <- AnyChart
  AskedFile <- AnyFile
  AskedLibrary <- AnyLibrary
  Id = {w2}
  Cron = {"every2", "every3"}
  Upcoming <- TwoCrons
  Thread = {w1}
  LastMinute = 6
  MaxRequests = 3
  MaxStops = 1
  Subscriber = {w2}
  Acker = {w1}
  MaxMessages = 4
  MaxPending = 2
  SignalsPerRun = 2
  MaxAcks = 2
  Object = {w1, w2}
  Writer = {w1, w2}
  Content = {a, b}
  MaxHistory = 2
  MaxCuts = 2
  MaxWrites = 3
  Addressee = {w1, w2}
  Silent = {w2}
  Kind = {"core"}
  Announcer = {a, b}
  MaxAnnouncements = 2
  MaxTime = 0
  UpdateRetention = 1
  Progress = {"current", "applied"}
  Polled = {w1}
  PolledObject = {w2}
  Manager = {a, b}
  Presence = {"on", "off"}
  ObjectRevision = {1, 2}
  Poster = {a, b}
  Scope <- Branches
  Lower <- Small
  Instant = {1, 2}
  RowRetention = 1
  EventRetention = 1
  MaxEvents = 1
  MaxPosts = 2
  MaxFaults = 1
SYMMETRY Alike
SPECIFICATION AnswersSpec
INVARIANTS
  ForestAndLive
  MailboxKeeps
  RecordsKeep
  PictureFollows
  WalksAgree
  ReportsRollUp
  PlansHold
  LibraryServes
PROPERTIES
  FiredInTurn
  StorageKeeps
  RowsStay
CHECK_DEADLOCK FALSE
