SPECIFICATION Spec
CONSTANTS
  p1 = p1  p2 = p2  m1 = m1  cA = cA  cB = cB  r1 = r1  r2 = r2
  NoRef = NoRef
  ProviderIDs = {p1, p2}
  Models = {m1}
  Connections = {cA}
  Tiers = {0, 1}
  Serves <- MCServes
  InitialConfigs <- MCTwoTiersOnly
  ConfigFiles <- MCTwoTiersOnly
  CooldownFailures = 2
  Cooldown = 1
  MaxGeneration = 2
  Requests = {r1}
  Attempts = 2
  Delayed = TRUE
INVARIANTS
  HeldExactlyInFlight
  RetryBudget
  NoSilentDrop
PROPERTIES
  NoRetryAfterReply
  ImplementsService
