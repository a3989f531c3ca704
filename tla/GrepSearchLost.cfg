CONSTANTS
  apt = apt
  utils = utils
  libapt = libapt
  lxc = lxc
  apt_a = apt_a
  apt_b = apt_b
  utils_a = utils_a
  libapt_a = libapt_a
  lxc_a = lxc_a
  Packages = {apt, utils, libapt, lxc}
  Files = {apt_a, apt_b, utils_a, libapt_a, lxc_a}
  Fragments <- MCFragments
  Meaning <- MCMeaning
  Rank <- MCRank
  Glob <- MCGlob
  Walk <- MCWalk
  Spelling <- MCSpelling
  Searches <- OnePackage
  NoFile = NoFile
  MaxFileVisits = 1
  MaxPages = 8
SPECIFICATION Spec
INVARIANTS
  PagesComplete
CHECK_DEADLOCK FALSE
