SPECIFICATION FairSpec
CONSTANTS
  w1 = w1
  w2 = w2
  p1 = p1
  p2 = p2
  Workers <- InOrder
  Proxy = {p1, p2}
  InitialProxy <- OneEach
  Dns = {"leak", "proxy"}
  InitialDns = "leak"
  MaxBuild = 2
  MaxActions = 3
  None = None
INVARIANTS
  TypeOK
  SwapWithWorkersPaused
  CompletedChangeInSync
PROPERTIES
  ReleasedBehindRouter
  StoppedStaysStopped
  ResumeRepairs
CHECK_DEADLOCK FALSE
