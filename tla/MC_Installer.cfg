SPECIFICATION Spec
CONSTANTS
  NULL = NULL
  a = a
  b = b
  Segments <- MCSegments
  Apps <- MCApps
  Tries = 2
  Urls <- MCUrls
  Enclosures <- MCEnclosures
  Signed = TRUE
  MaxUpdates = 2
  MaxArgs = 2
SYMMETRY Symmetric
CONSTRAINT OneUnusualUrl
INVARIANTS
  TypeOK
  RelativeWhereRight
  OthersKeepOff
  SignedIsWhole
  ArgsInOrder
PROPERTIES
  GivesUpOnlyWhenFull
  ImplementsContract
\* every application has made its updates
CHECK_DEADLOCK FALSE
