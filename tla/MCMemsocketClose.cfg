\* What the comment on Listener.Close promises, with two requests.
CONSTANTS
  Calls = {c1, c2}
  Heavy = {}
  Capacity = 1
SPECIFICATION BridgeFairSpec
PROPERTY CloseUnblocks
CHECK_DEADLOCK FALSE
