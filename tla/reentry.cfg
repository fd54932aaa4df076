SPECIFICATION FairSpec
CONSTANTS
  c1 = c1
  c2 = c2
  None = None
  Conns <- TwoConns
  Fds = {3, 4}
  Graceful <- OneConn
  Profiles <- Applications
  MaxCalls = 1
  MaxDepth = 6
INVARIANTS TypeOK BooksAtRest StoppedIsEmpty NeverUsesFreed ReportedOnce DrainReachesAll
PROPERTIES CallsKeepLife CallsReturn
CHECK_DEADLOCK FALSE
