SPECIFICATION Spec
CONSTANTS
  NULL = NULL
  a = a
  b = b
  Segments <- MCSegments
  Apps <- MCOneApp
  Tries = 2
  Urls <- MCTwoUrls
  Enclosures <- MCRooted
  Signed = TRUE
  MaxUpdates = 1
  MaxArgs = 2
INVARIANTS
  RelativeToDocument
\* every application has made its updates
CHECK_DEADLOCK FALSE
