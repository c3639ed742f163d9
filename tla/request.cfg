SPECIFICATION Spec
CONSTANTS
  MaxLength = 6
  Inbound <- MCInbound
  SearchCalls <- MCSearchCalls
  Endpoints <- MCEndpoints
  Results = {"p", "P", "q", "pdf"}
  Allowed = {"p", "P", "pdf"}
  Address <- MCAddress
  ResultLimit = 2
  ExcerptLimit = 1
  MaxResults = 2
INVARIANTS
  TypeOK
  ResultsFollowCalls
  HistoryKept
  CallsNameTheirTool
  AnswerHonest
  FewAfterLeaving
