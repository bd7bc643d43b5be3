CONSTANTS
  r1 = r1
  r2 = r2
  Requests <- TwoRequests
  Slots = 1
  Pages = 2
  MaxTokens = 3
  StartToken = 1
  HasCreds = TRUE
SPECIFICATION FairSpec
INVARIANTS
  TypeOK
  SlotsAccounted
  LoginsShared
  OneExpirySurvived
PROPERTIES
  ValidTokenKept
  CallsReturn
