SPECIFICATION FairSpec
CONSTANTS
  Threads = {T1, T2}
  Mnts = {P, Q}
  Files = {F}
  HasMap = {P}
  Locking = "recursive"
  NULL = NULL
INVARIANTS
  TypeOK
  SharedEntries
  EntriesComplete
  CrcChecked
PROPERTIES
  PdataIsRegistry
  PmapIsRegistry
  LocksReleased
