SPECIFICATION Spec
CONSTANTS
  Here = Here
  There = There
  Me = Me
  You = You
  N1 = N1
  N2 = N2
  S1 = S1
  S2 = S2
  Folder <- MCFolder
  Users <- MCUsers
  Names <- MCNames
  Subnets <- MCSubnets
  MaxActions = 3
  MaxCuts = 1
  None = None
INVARIANTS
  TypeOK
  SetupReserves
PROPERTIES
  OthersUntouched
  CopyStartsAfresh
SYMMETRY MCSymmetry
CHECK_DEADLOCK FALSE
