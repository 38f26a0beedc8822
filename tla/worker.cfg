SPECIFICATION FairSpec
CONSTANTS
  node = node
  ios = ios
  tizen = tizen
  Platform = {node, ios, tizen}
  Legacy = {node, ios}
  MaxEvents = 4
  None = None
  Empty = Empty
INVARIANTS
  TypeOK
  OneDevice
  MarkerMeansAccepted
  StatusTellsTruth
PROPERTIES
  StoppedIsLast
  Settles
CHECK_DEADLOCK FALSE
