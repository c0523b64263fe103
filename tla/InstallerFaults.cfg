SPECIFICATION Spec
CONSTANTS
  Packages <- MCPackages
  User = User
  Paths <- SmallPaths
  DefaultDir <- SmallDefaultDir
  GivenDirs <- None
  Pages <- SmallPages
  NamePrefix <- None
  UserPaths <- None
  Deletable <- None
  InitialDirs <- None
  MaxUndeleted = 5
  Faults <- Everything
INVARIANT FilesCleared
PROPERTIES
  CommandReturns
  ImplementsRegistry
