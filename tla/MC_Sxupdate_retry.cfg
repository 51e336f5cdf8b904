SPECIFICATION Spec
CONSTANTS
  NULL = NULL
  https = https
  file = file
  k1 = k1
  k2 = k2
  HttpsUrls <- MCHttpsUrls
  FileUrls <- MCFileUrls
  Keys <- MCKeys
  Codes <- MCAllCodes
  MaxExecutes = 2
INVARIANTS
  TryAgainWorks
\* a deleted handle does nothing more
CHECK_DEADLOCK FALSE
