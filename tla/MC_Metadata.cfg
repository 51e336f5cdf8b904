SPECIFICATION Spec
CONSTANTS
  NULL = NULL
  Bodies <- MCBodies
  Strings <- MCStrings
  Stripped <- MCStripped
  UsableUrls <- MCUsableUrls
  Decodable <- MCDecodable
  IntMax = 7
  LongMax = 63
  MaxFetches = 3
INVARIANTS
  TypeOK
  AcceptedOnce
  DecodedIsAccepted
  AcceptedAsSaid
  NumbersAsWritten
PROPERTIES
  ImplementsContract
\* the bound on fetches is reached
CHECK_DEADLOCK FALSE
