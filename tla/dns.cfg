SPECIFICATION Spec
CONSTANTS
  c1 = c1
  c2 = c2
  c3 = c3
  p1 = p1
  p2 = p2
  Client = {c1, c2, c3}
  Proxy = {p1, p2}
  Routes <- TwoRoutes
  Mode = {"proxy", "dns-leak", "doh-proxy", "doh-direct"}
  Unmapped = {"direct", "refuse"}
  Size = {1, 2, 3}
  Bare = 1
  Cap = 2
  MaxQueries = 2
  None = None
  Host = Host
INVARIANTS
  OneClientPerRoute
PROPERTIES
  RefinesDnsService
CHECK_DEADLOCK FALSE
