SPECIFICATION Spec
CONSTANTS
  eth = eth
  wlan = wlan
  a1 = a1
  a2 = a2
  Name = {eth, wlan}
  Addr = {a1}
  MaxChanges = 1
  None = None
PROPERTIES
  RetriesSameServer
CHECK_DEADLOCK FALSE
