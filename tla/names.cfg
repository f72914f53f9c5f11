SPECIFICATION Spec
CONSTANTS
  NULL = NULL
  t1 = t1
  t2 = t2
  disk = disk
  share = share
  Threads <- MCThreads
  Prefixes = {"p"}
  Links <- MCLinks
  Files <- MCFiles
  Realpath <- MCRealpath
  Dev <- MCDev
  Ino <- MCIno
  MaxVersion = 2
  Time <- MCTime
  MaxIndex = 3
SYMMETRY ThreadSymmetry
INVARIANTS
  TypeOK
  OneName
  Fresh
PROPERTIES
  NumbersStay
