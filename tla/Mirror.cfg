CONSTANTS
  zero = zero
  none = none
  h1 = h1
  h2 = h2
  h3 = h3
  Areas <- MCAreas
  Components <- MCComponents
  Hashes = {zero, none, h1, h2, h3}
  ZeroLength = {zero}
  NoHash = NoHash
  Content <- MCContent
  Releases <- MCReleases
  MaxChanges = 1
SPECIFICATION Spec
INVARIANTS
  NothingMissing
  FirstWins
CHECK_DEADLOCK FALSE
