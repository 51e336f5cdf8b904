SPECIFICATION Spec
CONSTANTS
  NULL = NULL
  Bodies <- MCBodies
  Strings <- MCStrings
  Stripped <- MCStripped
  UsableUrls <- MCUsableUrls
  Decodable <- MCDecodable
  IntMax = 7
  LongMax = 63
  MaxFetches = 2
INVARIANTS
  AcceptedIsTheDocument
\* the bound on fetches is reached
CHECK_DEADLOCK FALSE
