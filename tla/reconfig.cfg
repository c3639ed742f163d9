SPECIFICATION Spec
CONSTANTS
  p1 = p1  p2 = p2  m1 = m1  cA = cA  cB = cB  r1 = r1  r2 = r2
  NoRef = NoRef
  ProviderIDs = {p1}
  Models = {m1}
  Connections = {cA, cB}
  Tiers = {0}
  Serves <- MCServesApart
  InitialConfigs <- MCOnly1Only
  ConfigFiles <- MCMoves
  CooldownFailures = 2
  Cooldown = 0
  MaxGeneration = 3
  Requests = {r1, r2}
  Attempts = 1
  Delayed = TRUE
SYMMETRY MCRequestSymmetry
INVARIANTS
  BusyMatchesHolders
  IndexConsistent
  ModelsFromOwnConnection
PROPERTIES
  FailuresChargedToServer
