SPECIFICATION Spec
CONSTANTS
  w1 = w1
  w2 = w2
  stranger = stranger
  p1 = p1
  p2 = p2
  Client = {w1, w2, stranger}
  Proxy = {p1, p2}
  Socks5 = {p1, p2}
  MaxVersion = 3
  Routes <- Files
  Options <- Kinds
  Blocked = Blocked
  Uplink = Uplink
INVARIANTS
  RestartNeverLeaks
CHECK_DEADLOCK FALSE
