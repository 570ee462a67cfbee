SPECIFICATION Spec
CONSTANTS
  x = x
  y = y
  Bsc = Bsc
  Eth = Eth
  RemoteChains = {Bsc, Eth}
  Actions = {x, y}
  Payloads <- TwoPayloads
  Values = {1, 2}
  Limits = {1, 2}
  TimeSteps = {1}
  DAY = 2
  MaxProposals = 3
  MaxTime = 6
INVARIANTS
  StoredIsFunded
  SentOnce
  TwoLimitsPerDay
CHECK_DEADLOCK FALSE
