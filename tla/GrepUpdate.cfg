CONSTANTS
  f1 = f1
  f2 = f2
  v1 = v1
  v2 = v2
  Distros = {d1, d2}
  Names = {apt}
  Versions = {v1, v2}
  Epochs = {1}
  Files = {f1, f2}
  FilesOf <- MCFilesOf
  MaxRuns = 2
  MaxLists = 3
SPECIFICATION Spec
INVARIANTS
  TypeOK
  UpdatedIsSearchable
  SnapshotFetchable
CHECK_DEADLOCK FALSE
