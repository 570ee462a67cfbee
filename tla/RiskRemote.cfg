SPECIFICATION SystemSpec
CONSTANTS
  core = core
  isolated = isolated
  alice = alice
  UpdateTypes = {"supplyCap", "collateralFactors", "interestRateModel"}
  Markets = {core, isolated}
  CoreMarkets = {core}
  Batches <- MCBatches
  Publishers = {}
  AddedTypes = {}
  InitialSenders = {alice}
  InitialTypes = {"supplyCap", "collateralFactors", "interestRateModel"}
  MaxUpdates = 2
  MaxChanges = 1
  MAX_BPS = 2
  LocalEids = {0, 1}
  Executors = {}
  ConfigChoices <- NoChoices
  DeltaChoices = {}
  PauseChoices = {}
  InitialConfigs <- MCConfigs
  InitialExecutors = {alice}
  InitialDeltas <- MCDeltas
  InitialParameters <- MCParameters
  UPDATE_EXPIRATION_TIME = 3
  TimeSteps = {1}
  MaxMessages = 3
  MaxTime = 5
  RemoteEid = 2
  RemoteMarkets = {core, isolated}
  RemoteExecutors = {alice}
  RemoteConfigChoices <- MCConfigChoices
  RemoteDelayChoices = {1, 2}
  RemoteConfigs <- MCRemoteConfigs
  RemoteInitialExecutors = {alice}
  RemoteParameters <- MCParameters
  RemoteDelay = 1
INVARIANTS
  OnePendingAtDestination
  AppliedInArrivalOrder
  RemoteChangesAnnounced
PROPERTIES
  FollowsRiskUpdate
CHECK_DEADLOCK FALSE
