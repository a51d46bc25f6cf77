SPECIFICATION Spec
CONSTANTS
  BucketNames <- MCBucketNames
  Regions <- MCRegions
  Endpoints <- MCEndpoints
  Files <- MCFiles
  Answers <- MCAnswers
  MaxLine = 40
INVARIANTS
  PlacesApart
  SignaturesVerify
  ResignedIsRebuilt
CHECK_DEADLOCK FALSE
