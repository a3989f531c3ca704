CONSTANTS
  apt = apt
  v1 = v1
  v2 = v2
  Distro = d1
  Distros = {d1}
  Names = {apt}
  Versions = {v1, v2}
  Epochs = {1}
  Disks <- MCDisks
  MaxFollowed = 10
  MaxDepth = 10
SPECIFICATION Spec
INVARIANTS
  TypeOK
  RequestsExist
  FoundFilesOpen
  LinksAgree
  LinksOpenAsShown
