CONSTANTS
  Chars <- MCChars
  Slash = "/"
  Null = "NUL"
  Upper <- MCUpper
  NonAscii = {"~"}
  Separators = {"_"}
  Untracked = {"_"}
  Align = 4
  Unit = 4
  MaxResults = 2
  MaxQuery = 4
  Inputs <- Nested
  Queries <- OneQuery
SPECIFICATION FzfSpec
INVARIANTS
  ScoredAsWhole
CHECK_DEADLOCK FALSE
