SPECIFICATION Spec
CONSTANTS
  k1 = k1
  k2 = k2
  c1 = c1
  c2 = c2
  Null = Null
  Function = Function
  None = None
  Objects <- TwoObjects
  Conns <- TwoConns
  Plans <- EveryPlan
SYMMETRY Same
INVARIANTS TypeOK OwnObject RealConn
CHECK_DEADLOCK FALSE
