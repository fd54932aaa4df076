SPECIFICATION Spec
CONSTANTS
  c1 = c1
  c2 = c2
  c3 = c3
  None = None
  Conns <- TwoConns
  Fds = {0, 3}
  TableLen = 6
  BufLen = 2
  ReadTimeout = 1
  Peer = {"eof", "reset"}
  App = {"keep", "close_in_read", "close_at_eof", "shutdown", "pause", "again", "write_paused", "early_calls"}
INVARIANTS TypeOK RoomToRead HeapOwned
PROPERTIES ReportedWhenEmpty
CHECK_DEADLOCK FALSE
