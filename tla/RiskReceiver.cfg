SPECIFICATION Spec
CONSTANTS
  core = core
  isolated = isolated
  alice = alice
  bob = bob
  UpdateTypes = {"supplyCap", "borrowCap", "collateralFactors"}
  Markets = {core, isolated}
  CoreMarkets = {core}
  Batches <- MCBatches
  Publishers = {alice, bob}
  AddedTypes = {"supplyCap", "borrowCap"}
  InitialSenders = {alice}
  InitialTypes = {"supplyCap", "collateralFactors"}
  MaxUpdates = 3
  MaxChanges = 1
  MAX_BPS = 2
  LocalEids = {0, 1}
  Executors = {alice}
  ConfigChoices <- MCConfigChoices
  DeltaChoices = {0}
  PauseChoices = {TRUE}
  InitialConfigs <- MCConfigs
  InitialExecutors = {alice}
  InitialDeltas <- MCDeltas
  InitialParameters <- MCParameters
  UPDATE_EXPIRATION_TIME = 3
  TimeSteps = {1}
  MaxMessages = 2
  MaxTime = 5
INVARIANTS
  AppliedUnderItsTerms
  ApartUnlessForwarded
  LensAgrees
PROPERTIES
  ResolvedIsFinal
CHECK_DEADLOCK FALSE
