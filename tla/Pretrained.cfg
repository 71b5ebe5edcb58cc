CONSTANTS
  Repos <- MCRepos
  Requests <- MCRequests
  MaxTokenId = 9
  Alphanumeric <- MCAlphanumeric
SPECIFICATION Spec
INVARIANTS TypeOK EveryIdLoaded TokensDecode FirstAnswerDecides FailsForAReason
PROPERTIES Returns
CHECK_DEADLOCK FALSE
