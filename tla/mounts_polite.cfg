SPECIFICATION Spec
CONSTANTS
  P = P
  C = C
  Q = Q
  NoMnt = NoMnt
  Mnts <- MCMnts
  ParentOf <- MCParentOf
  HasMap = {P, C}
  HasMountScript = {P}
  HasUmountScript = {P, C}
  HasPlugin = {Q}
  HasLibScript = {Q}
  AutoUmount = {Q}
  Flags = {FALSE}
  Misuse = {}
  MaxMounts = 4
  MaxMaps = 2
  MaxTmp = 1
  MaxDepth = 4
INVARIANTS
  TypeOK
  FamilyLinks
  NoUseAfterFree
  MountedCompletely
PROPERTIES
  OrphanMaps
  UnloadsOwnMap
