CONSTANTS
  r1 = r1
  r2 = r2
  Requests <- TwoRequests
  Slots = 2
  Pages = 1
  MaxTokens = 2
  StartToken = 1
  HasCreds = TRUE
SPECIFICATION Spec
INVARIANTS
  LoginsNotReplayed
