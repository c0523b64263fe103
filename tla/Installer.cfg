SPECIFICATION Spec
CONSTANTS
  Packages <- MCPackages
  User = User
  Paths <- MCPaths
  DefaultDir <- MCDefaultDir
  GivenDirs <- MCGivenDirs
  Pages <- MCPages
  NamePrefix <- None
  UserPaths <- MCUserPaths
  Deletable <- MCPaths
  InitialDirs <- MCInitialDirs
  MaxUndeleted = 5
  Faults <- Dying
INVARIANTS
  TypeOK
  FilesAccounted
  UninstallClears
PROPERTIES
  OwnNodesOnly
  InstallComplete
