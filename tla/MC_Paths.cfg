SPECIFICATION Spec
CONSTANTS
  NULL = NULL
  MaxLevel = 4
  Keys <- MCKeys
  MaxDepth = 5
INVARIANTS
  TypeOK
  HelperFollowsNesting
  ValueGoesWhereNamed
  GotVersionAtItemEnd
  ItemEndsAfterItsValues
\* a parser that has failed does nothing more
CHECK_DEADLOCK FALSE
