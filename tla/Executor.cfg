SPECIFICATION Spec
CONSTANTS
  x = x
  y = y
  z = z
  t1 = t1
  t2 = t2
  Bsc = Bsc
  Other = Other
  alice = alice
  bob = bob
  ZeroAddress = ZeroAddress
  Executor = Executor
  Accounts = {alice, bob}
  Routes = {0, 1}
  Actions = {x, y, z}
  Payloads <- MCPayloads
  DelayCalls <- MCDelayCalls
  TimelockIds = {t1, t2}
  InitialTimelocks <- TwoTimelocks
  InitialDelays <- MCDelays
  InitialGuardian = alice
  TimelockChoices <- TwoChoices
  AdminChoices = {alice}
  GuardianChoices = {bob}
  ChainIds = {Bsc, Other}
  Source = Bsc
  Limits = {1, 2, 9}
  TrustChoices = {TRUE, FALSE}
  Inboxes <- MCInboxes
  TimeSteps = {1}
  DAY = 1
  GRACE_PERIOD = 1
  MINIMUM_DELAY = 1
  MAXIMUM_DELAY = 2
  MaxProposals = 3
  MaxTime = 6
INVARIANTS
  QueuedIsBacked
  NoOrphanTransactions
  ExecutionWaited
CONSTRAINT Scenario
CHECK_DEADLOCK FALSE
