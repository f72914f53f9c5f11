SPECIFICATION Spec
CONSTANTS
  A = A
  B = B
  M = M
  N = N
  PM = PM
  S = S
  T = T
  X = X
  P = P
  NULL = NULL
  Symbols = {A, B}
  Maps = {M, N, PM}
  Files = {M, N}
  Scripts = {S, T}
  Extensions = {X}
  Packages = {P}
  Entry <- MCEntry
  MapOf <- MCMapOf
  Defines <- MCDefines
  MaxMaps = 3
  MaxHandlers = 1
  MaxDepth = 3
INVARIANTS
  TypeOK
  FailureMeansAbsent
  Outcome
  NoStaleMap
\* A read of a freed map is undefined behaviour: nothing follows it.
CHECK_DEADLOCK FALSE
