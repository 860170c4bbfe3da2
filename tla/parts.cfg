SPECIFICATION PartsSpec
CONSTANTS
  Call = {"c1", "c2", "c3"}
  Request <- MCRequest
  Account = {"s"}
  TxTimeout = 2
  PollTimeout = 2
  PollInterval = 1
  AppPolls = 2
  CloseLag = 1
  Slack = 0
  LastBuild = 0
  LastSend = 1
  MaxClock = 6
  Tab = {"a", "b"}
  Changes = 2
  Handled = {2}
  Requests = 3
  MaxRequests = 1
  WindowMs = 1
  Ttl = 1
  Concurrency = 2
  LimiterEnd = 2
  Job = {"j1", "j2"}
  Worker = {"x", "y"}
  MaxAttempts = 2
  Delay = 1
  Score = {0, 1}
  MaxRuns = 2
  Process = {"p", "q"}
  Files = 3
  Refused = {3}
  Waste = {"w1", "w2"}
  Task = {"reload", "confirm", "several", "move"}
  Asked <- MCAsked
  Row = {"m1", "m2"}
  Browser = {"a", "b"}
  Proposal = {"p1"}
  Voter = {"v1", "v2"}
  Weight <- MCWeight
  Quorum = 2
  PassNum = 1
  PassDen = 2
  Address = {"rec", "col", "man"}
  RoleOf <- MCRoleOf
  Lots <- MCLots
  MaxMaterials = 1
  TokensPerKg <- MCTokensPerKg
  Boost <- MCBoost
  Splits <- MCSplits
  Seasons = {100, 150}
  Contaminations = {0, 60}
  Points = {1}
  Budgets = {2, 4}
  Gifts = {2}
  MaxIncentives = 1
  MaxTokens = 6
  MaxAside = 2
  Req = {"q1", "q2", "q3"}
  KeyOf <- MCKeyOf
  Server = {"x", "y"}
INVARIANTS PartsTypeOK SentOnceByOneTab GoneMeansSentOrCleared OvershootBounded
  NeitherLostNorPiledUp RecordedIsApplied DoublingFails OptimismExplained ApprovalsVerified PassedByVotes
  SpendingKnown EarningsCounted AnsweredOnce
PROPERTIES CallKeepsPromise LateLandingBounded PollingEnds ChargesArePaid
CHECK_DEADLOCK FALSE
