SPECIFICATION Spec
CONSTANTS
  Variables <- MCVariables
  Contents <- MCContents
  Disks <- MCDisks
  Codes <- MCCodes
  MaxWrites = 2
INVARIANTS
  EnvFollowsFiles
  ReadsAgree
PROPERTIES
  PausesShowFiles
CHECK_DEADLOCK FALSE
