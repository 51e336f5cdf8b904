SPECIFICATION Spec
CONSTANTS
  LongMax = 10
  Releases <- MCReleases
INVARIANTS
  TypeOK
  UpToDateIsTrue
PROPERTIES
  NeverDowngrades
