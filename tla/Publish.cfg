CONSTANTS
  Distros = {d1}
  Names = {apt, linux}
  Versions = {v1, v2}
  Epochs = {1, 2}
  NoVersion = NoVersion
  NoDistro = NoDistro
  Removable = {}
  FzfSkipped = {linux}
  PkgThreads = 2
  BatchSize = 1
  MaxRuns = 2
  MaxChanges = 1
SPECIFICATION FairSpec
INVARIANTS
  TypeOK
  PublishedFetchable
  DoneMirrors
  ContentsSound
PROPERTIES
  EpochNeverDecreases
  ImplementsCatalog
  RunEnds
CHECK_DEADLOCK FALSE
