CONSTANTS
  Worker = {w1}
  Stranger = {x}
  Thread = {t1, t2}
  None = None
  CacheTTL = 1
  ChallengeTTL = 1
  MaxPending = 1
  TokenTTL = 2
  ChildTTL = 2
  LastTick = 2
  MaxNonces = 2
  MaxRequests = 3
  MaxStops = 1
  Process = {c1, c2}
  Half = Half
  MaxCommands = 3
  MaxCommandFaults = 1
  Announced = {1, 2, 3}
  Initial = 1
  Reported <- ReportedBy
  MaxMessages = 2
  MaxStarts = 2
  MaxExecs = 3
  MaxFollowerFaults = 2
  Updater = {u1, u2}
  Version = {1, 2}
  First = 1
  Passing <- PassedBy
  Bad = Bad
  MaxUpdates = 3
  MaxUpdateFaults = 2
  Removing <- Rooted
  Thing = {"s1", "s2", "s3", "o1", "o2", "r1"}
  Kind <- KindOf
  OwnerOf <- OwnedBy
  Scoped = {"s1", "o1", "r1"}
  MaxRemovals = 2
  MaxWrites = 2
  Incoming = {t1, t2, stream}
  Stream = {stream}
  MaxIncoming = 4
  MaxTicks = 2
  Backend = {"messaging"}
  URI = {"default", "other", "broken"}
  Default = "default"
  Unusable = {"broken"}
  MaxStarted = 3
  MaxStartFaults = 1
  Released <- SomeReleases
  Granted <- SomeScopes
  ObjectPath <- SomePaths
SYMMETRY Alike
SPECIFICATION MCSpec
INVARIANTS
  DroppedForGood
  ChildWithinParent
  CommandsKeep
  FollowerEnds
  SwapSound
  ScopeIsGone
  ServerBeginsAndEnds
  OrdersHold
PROPERTIES
  RefusedAfterTTL
  NonceAcceptedOnce
CHECK_DEADLOCK FALSE
