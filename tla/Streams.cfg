CONSTANTS
  Worker = {w1, w2}
  Listener = {l1}
  ListensFor <- ForOne
  NoRow = NoRow
  MaxMessages = 2
  MaxCuts = 2
  MaxStops = 1
  Posted = {m1, m2}
  Loop = Loop
  MaxAttempts = 2
  RingSize = 1
  Buffer = 1
  MaxRetained = 1
  Viewer = {v1, v2}
  Envelope = {1, 2}
  CreatedAt <- SameTime
  Status = {2}
  Quiet = {}
  ChanSize = 1
  MaxPollers = 3
  Caller = {c1, c2}
  TTL = 5
  MinWait = 1
  MaxFetch = 1
  MaxRuns = 2
SPECIFICATION MCSpec
INVARIANTS
  NothingSkipped
  QueuesKeep
  HubTells
  ClientKeeps
PROPERTIES
  InOrderOnce
  WaitsEnd
  ImplementsMailbox
CHECK_DEADLOCK FALSE
