SPECIFICATION Spec
CONSTANTS
  deployer = deployer
  dao = dao
  callOut = callOut
  raiseDelay = raiseDelay
  breakDelay = breakDelay
  nameDao = nameDao
  ZeroAddress = ZeroAddress
  Accounts = {deployer, dao}
  Deployer = deployer
  Actions = {raiseDelay, breakDelay, nameDao}
  DelayCalls <- MCDelayCalls
  AdminCalls <- MCAdminCalls
  InitialDelay = 1
  TimeSteps = {1, 2}
  Etas = {2, 3}
  MaxTime = 4
  GRACE_PERIOD = 1
  MINIMUM_DELAY = 1
  MAXIMUM_DELAY = 2
INVARIANTS
  NoReplay
  QueuedWithNotice
