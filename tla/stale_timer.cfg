SPECIFICATION Spec
CONSTANTS
  c1 = c1
  c2 = c2
  c3 = c3
  None = None
  Conns <- TwoConns
  Fds = {3, 4}
  TableLen = 6
  BufLen = 2
  ReadTimeout = 1
  Peer = {"reset"}
  App = {"early_calls"}
INVARIANTS TimersOwned
