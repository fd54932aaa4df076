SPECIFICATION FairSpec
CONSTANTS
  c1 = c1
  c2 = c2
  SrvsLen = 3
  Conns <- TwoConns
  Apps <- Applications
INVARIANTS TypeOK CountersMatch ReportedAtEnd AtMostOneReport ReportNotLost
PROPERTIES ServersKeepPromise StopReported
CHECK_DEADLOCK FALSE
