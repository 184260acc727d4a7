CONSTANTS
  c1 = c1
  c2 = c2
  self = self
  Callers = {c1, c2, self}
  Self = self
  IPs <- FewKinds
  UpdateHost <- MaxMind
  Settings = {"yes", "no"}
SPECIFICATION DispatchFairSpec
INVARIANT LookupSafe
INVARIANT RouteKeptAll
INVARIANT SocketsJustified
PROPERTY UpdateEnds
