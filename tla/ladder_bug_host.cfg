SPECIFICATION Spec
CONSTANTS
  Hosts = 2
  Ports = 2
  AltHosts = 1
  AltPorts = 2
  AltIps = 16
  AgentSizes = {0, 3}
  MaxDoublings = 1
  None = None
INVARIANTS
  AltDialIsPermutation
CHECK_DEADLOCK FALSE
