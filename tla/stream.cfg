SPECIFICATION Spec
CONSTANTS
  F = F
  D = D
  P = P
  C = C
  NULL = NULL
  URIs = {F, D}
  Packages = {P, C}
  Mnt <- MCMnt
  Commands = {}
  Dirs = {D}
  CanCache = {F, D}
  LongURIs = {}
  Creators = {C}
  NoCache = {}
  NoOpcodeCache = {C}
  StatSize = 1
  MaxSizes = {0, 2}
  Offsets <- MCOffsets
  MaxInt = 3
  MaxSize = 2
  Contents <- MCContents
  MaxStreams = 1
  MaxDepth = 1
INVARIANTS
  TypeOK
  CacheTrue
  StreamsTrue
