SPECIFICATION FairSpec
CONSTANTS
  eth = eth
  wlan = wlan
  a1 = a1
  a2 = a2
  Name = {eth}
  Addr = {a1, a2}
  MaxChanges = 2
  None = None
INVARIANTS
  TypeOK
  NoDeviceIsLost
  TableIsWhatWasSeen
PROPERTIES
  ReleaseEndsLoop
  Connects
CHECK_DEADLOCK FALSE
