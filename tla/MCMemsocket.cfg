\* Four requests, one of them stuck, for a channel of two.
CONSTANTS
  Calls = {c1, c2, c3, c4}
  Heavy = {c4}
  Capacity = 2
SPECIFICATION BridgeFairSpec
INVARIANT NoCallLost
PROPERTY ServeWebReturns
CHECK_DEADLOCK FALSE
