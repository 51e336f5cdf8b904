SPECIFICATION Spec
CONSTANTS
  NULL = NULL
  a = a
  b = b
  Segments <- MCSegments
  Apps <- MCApps
  Tries = 2
  Urls <- MCOneUrl
  Enclosures <- MCBeside
  Signed = TRUE
  MaxUpdates = 1
  MaxArgs = 2
INVARIANTS
  DownloadedIsOwn
\* every application has made its updates
CHECK_DEADLOCK FALSE
