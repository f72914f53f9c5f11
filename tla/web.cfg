SPECIFICATION Spec
CONSTANTS
  NULL = NULL
  MaxRedirects = 4
  Packages <- MCPackages
  Requests <- MCRequests
  InfoPaths <- MCInfoPaths
  Atoms <- MCAtoms
  Script <- MCScript
  Mnt <- MCMnt
  PhpSuffixes <- MCPhpSuffixes
INVARIANTS
  TypeOK
  AccessByComponents
  AnswersPath
  UriRoundTrip
  SubMountsDistinct
  AbsolutePaths
  RedirectsSettle
