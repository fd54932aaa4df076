SPECIFICATION FairSpec
CONSTANTS
  c1 = c1
  c2 = c2
  c3 = c3
  None = None
  Conns <- ThreeConns
  Fds = {3, 4, 5}
  TableLen = 6
  BufLen = 2
  ReadTimeout = 0
  Peer = {"reset"}
  App = {"close_in_read", "defer_free", "early_calls"}
INVARIANTS Bookkeeping StopReportedOnce DrainNotLost DrainReachesAll
PROPERTIES ImplementsLife DrainTerminates
