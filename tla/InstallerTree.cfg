SPECIFICATION Spec
CONSTANTS
  Packages <- One
  User = User
  Paths <- FourPaths
  DefaultDir <- TDefaultDir
  GivenDirs <- None
  Pages <- FourPages
  NamePrefix <- Prefix
  UserPaths <- None
  Deletable <- FourDeletable
  InitialDirs <- None
  MaxUndeleted = 5
  Faults <- Dying
INVARIANT UninstallClears
PROPERTY CreatedDirsStored
