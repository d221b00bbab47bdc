SPECIFICATION Spec
CONSTANTS
  h1 = h1
  g1 = g1
  k1 = k1
  k2 = k2
  r1 = r1
  r2 = r2
  key1 = key1
  alice = alice
  bob = bob
  Absent = Absent
  Scorers = {k1, k2}
  Requests = {r1, r2}
  Keys = {key1}
  Users = {alice, bob}
  Usages <- MCUsages
  Asks <- MCAsks
  MaxDecisions = 4
  MaxScores = 2
  WindowMax = 2
  MaxRequests = 3
  MaxVaultOps = 2
  MaxEntries = 2
  Handlers = {h1}
  Stream = g1
  MaxSeq = 2
  MaxGroups = 2
INVARIANTS
  TypeOK
  SerialScoringLosesNothing
  ReportingIsBestEffort
  SerialRequestsLeaveNoTrace
  EveryRequestIsAccountedFor
  OwnersDoNotApprove
  TrailIsTrue
PROPERTIES
  ScoreRequestsTimeOut
  StreamIsServed
  FeedTellsTheLog
CHECK_DEADLOCK FALSE
