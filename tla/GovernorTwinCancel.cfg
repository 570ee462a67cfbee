SPECIFICATION Spec
CONSTANTS
  alice = alice
  bob = bob
  h = h
  x = x
  y = y
  z = z
  ZeroAddress = ZeroAddress
  Governor = Governor
  NORMAL = Normal
  FastTrack = FastTrack
  Accounts = {alice, bob}
  Routes = {Normal, FastTrack}
  Actions = {h, x, y, z}
  ActionLists <- MCActionLists
  DelayCalls <- MCDelayCalls
  AdminCalls <- MCAdminCalls
  quorumVotes = 2
  MIN_PROPOSAL_THRESHOLD = 1
  MAX_PROPOSAL_THRESHOLD = 2
  InitialAdmin = alice
  InitialGuardian = alice
  InitialDelays <- MCDelays
  AlphaCounts = {0, 1}
  ValidationChoices <- AdminParams
  ConfigChoices <- AdminConfigs
  AdminChoices = {bob, ZeroAddress}
  GuardianChoices = {bob}
  MaxOperationsChoices = {0, 1}
  VoteHistories <- MCVotes
  TimeSteps = {0, 1}
  MaxProposals = 3
  MaxBlock = 7
  MaxTime = 5
  GRACE_PERIOD = 2
  MINIMUM_DELAY = 1
  MAXIMUM_DELAY = 2
INVARIANTS
  QueuedIsBacked
CONSTRAINT Scenario
CHECK_DEADLOCK FALSE
