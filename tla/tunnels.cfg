SPECIFICATION FairSpec
CONSTANTS
  Web = Web
  Lan = Lan
  T1 = T1
  T2 = T2
  Addresses <- MCAddresses
  Blocked <- MCBlocked
  Tuns <- MCTuns
  MaxGiven = 3
  RetryLimit = 3
  None = None
INVARIANTS
  TypeOK
  OnlyAllowedDialled
  TunnelsAccounted
PROPERTIES
  AlternativesInOrder
  TcpTunnelsEnd
CHECK_DEADLOCK FALSE
