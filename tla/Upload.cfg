CONSTANTS
  p1 = p1
  p2 = p2
  a = a
  b = b
  c = c
  h1 = h1
  h2 = h2
  w1 = w1
  w2 = w2
  Packages = {p1, p2}
  Files = {a, b, c}
  Hashes = {h1, h2}
  Short <- MCShortColliding
  Tree <- MCTree
  Workers = {w1, w2}
  CheckpointLimit = 2
  MaxTries = 2
  MaxRuns = 2
SPECIFICATION FairSpec
INVARIANTS
  TypeOK
  TrackedIsStored
  ListedTreeIsServed
  RecordedIsComplete
  ArchiveOutlivesUploads
  CheckpointBound
PROPERTIES
  RunEnds
CHECK_DEADLOCK FALSE
