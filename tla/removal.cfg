SPECIFICATION FairSpec
CONSTANTS
  p1 = p1  p2 = p2  m1 = m1  cA = cA  cB = cB  r1 = r1  r2 = r2
  NoRef = NoRef
  ProviderIDs = {p1, p2}
  Models = {m1}
  Connections = {cA}
  Tiers = {0}
  Serves <- MCServes
  InitialConfigs <- MCOnly1Only
  ConfigFiles <- MCSwaps
  CooldownFailures = 1
  Cooldown = 1
  MaxGeneration = 3
  Requests = {r1}
  Attempts = 2
  Delayed = TRUE
INVARIANTS
  BlockRecordsAgree
PROPERTIES
  BlockedStaysOut
  DeadRefsStayDead
  RequestsFinish
  RefreshFinishes
