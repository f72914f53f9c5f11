SPECIFICATION Spec
CONSTANTS
  NULL = NULL
  Names <- MCNames
  AUTOMAP_SYMBOL_MAX = 6
  Budget = 9
INVARIANTS
  TypeOK
  Declared
  EndsOutside
  FaultOnlyIfTooLong
