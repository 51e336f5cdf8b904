SPECIFICATION Spec
CONSTANTS
  NULL = NULL
  https = https
  file = file
  k1 = k1
  k2 = k2
  HttpsUrls <- MCHttpsUrls
  FileUrls <- MCFileUrls
  Keys <- MCKeys
  Codes <- MCCodes
  MaxExecutes = 3
INVARIANTS
  TypeOK
  KeyLifetime
  NoHeadersToFile
  OkMeansHandled
  UncheckedOnlyByChoice
  NothingStartsAfterFailure
PROPERTIES
  ImplementsContract
  CallsReturn
\* a deleted handle does nothing more
CHECK_DEADLOCK FALSE
