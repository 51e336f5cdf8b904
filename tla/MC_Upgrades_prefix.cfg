SPECIFICATION Spec
CONSTANTS
  LongMax = 10
  Releases <- MCPrefix
INVARIANTS
  OfferedIsNewer
