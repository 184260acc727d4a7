SPECIFICATION Spec
CONSTANTS
  Slots = {r1, r2}
  Browsers = {b1, b2}
  MaxRequests = 4
  MaxUser = 2
  MaxRow = 1
  MaxIssued = 2
  MaxMeta = 2
  Titles = {"site"}
SYMMETRY Symmetry
INVARIANTS
  SessionJustified
  RightsAreCurrent
  AccountsPaid
PROPERTY
  DefaultNeverReturns
CHECK_DEADLOCK FALSE
