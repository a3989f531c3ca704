CONSTANTS
  Chars <- MCChars
  Slash = "/"
  Null = "NUL"
  Upper <- MCUpper
  NonAscii = {"~"}
  Separators = {"_"}
  Untracked = {"_"}
  Align = 4
  Unit = 4
  MaxResults = 2
  MaxQuery = 3
  Inputs <- MCInputs
  Queries <- MCQueries
SPECIFICATION FzfSpec
INVARIANTS
  ArenaHoldsTrees
  FindsSubsequences
  BestFirst
CHECK_DEADLOCK FALSE
