CONSTANTS
  q1 = q1
  q2 = q2
  Queries = {q1, q2}
  Hits = 5
  PageSize = 2
  Unparsable = {{}, {4}}
  MaxFetches = 4
SPECIFICATION Spec
SYMMETRY QuerySymmetry
INVARIANTS
  TypeOK
  NothingLost
  ErrorsStay
CHECK_DEADLOCK FALSE
