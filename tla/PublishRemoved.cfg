CONSTANTS
  Distros = {d1}
  Names = {apt, linux}
  Versions = {v1, v2}
  Epochs = {1}
  NoVersion = NoVersion
  NoDistro = NoDistro
  Removable = {apt, linux}
  FzfSkipped = {linux}
  PkgThreads = 2
  BatchSize = 2
  MaxRuns = 2
  MaxChanges = 2
SPECIFICATION Spec
INVARIANTS
  RemovedAreDropped
CHECK_DEADLOCK FALSE
