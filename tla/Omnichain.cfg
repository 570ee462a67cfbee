SPECIFICATION FairSpec
CONSTANTS
  alice = alice
  x = x
  y = y
  t1 = t1
  t2 = t2
  Bsc = Bsc
  RemoteChain = RemoteChain
  ZeroAddress = ZeroAddress
  Executor = Executor
  ChainIds = {Bsc}
  Source = Bsc
  Accounts = {alice}
  Routes = {0}
  Actions = {x, y}
  Payloads <- TwoPayloads
  DelayCalls <- MCNoDelayCalls
  TimelockIds = {t1}
  InitialTimelocks <- OneTimelock
  InitialDelays <- MCDelays
  InitialGuardian = alice
  TimelockChoices = {}
  AdminChoices = {}
  GuardianChoices = {}
  TrustChoices = {TRUE, FALSE}
  Values = {1}
  SenderLimits = {9}
  ReceiveLimits = {9}
  DAY = 1
  GRACE_PERIOD = 1
  MINIMUM_DELAY = 1
  MAXIMUM_DELAY = 1
  TimeSteps = {1}
  MaxProposals = 2
  MaxTime = 5
INVARIANTS
  NoLeftovers
PROPERTIES
  FollowsRemoteProposal
  ArrivesEventually
CHECK_DEADLOCK FALSE
