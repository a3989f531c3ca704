CONSTANTS
  Names = {n1, n2, n3}
  NoName = NoName
  Deployers = {d1}
  Boot = Boot
  Requests = {r1, r2}
  ReadTimeout = 1
  WriteTimeout = 2
  MaxBoots = 3
SPECIFICATION Spec
SYMMETRY NameSymmetry
INVARIANTS
  TypeOK
  RoutedIsRunning
  NoRequestAborted
  NamesDistinct
  SupersededAwaited
PROPERTIES
  CleanStart
CHECK_DEADLOCK FALSE
