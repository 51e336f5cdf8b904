SPECIFICATION Spec
CONSTANTS
  NULL = NULL
  a = a
  b = b
  Segments <- MCSegments
  Apps <- MCOneApp
  Tries = 2
  Urls <- MCOneUrl
  Enclosures <- MCBeside
  Signed = TRUE
  MaxUpdates = 2
  MaxArgs = 2
INVARIANTS
  StartedIsDownloaded
\* every application has made its updates
CHECK_DEADLOCK FALSE
