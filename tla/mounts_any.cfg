SPECIFICATION Spec
CONSTANTS
  P = P
  C = C
  Q = Q
  NoMnt = NoMnt
  Mnts <- MCMnts
  ParentOf <- MCParentOf
  HasMap = {P, C}
  HasMountScript = {P}
  HasUmountScript = {P, C}
  HasPlugin = {Q}
  HasLibScript = {Q}
  AutoUmount = {Q}
  Flags = {FALSE}
  Misuse = {"umountBusy", "abortWithChildren", "mountDying"}
  MaxMounts = 3
  MaxMaps = 2
  MaxTmp = 1
  MaxDepth = 3
INVARIANTS
  MountTable
PROPERTIES
  StaleObjects
\* A read of a freed structure is undefined behaviour: nothing follows it.
CHECK_DEADLOCK FALSE
