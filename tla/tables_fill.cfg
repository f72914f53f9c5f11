SPECIFICATION Spec
CONSTANTS
  Threads = {T1}
  Mnts = {P, Q}
  Files = {F}
  HasMap = {P}
  Locking = "none"
  NULL = NULL
INVARIANTS
  CreationCannotFail
