SPECIFICATION FairSpec
CHECK_DEADLOCK FALSE
CONSTANTS
  Workers = {w1, w2, w3}
  N = 4
INVARIANTS
  TypeOK
  NoWorkAfterReturn
  SuccessIsComplete
  FailureHasACause
PROPERTIES
  AllEnd
