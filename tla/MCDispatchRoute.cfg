\* GeoIP mode: the router is asked again for every frame.
CONSTANTS
  c1 = c1
  c2 = c2
  self = self
  Callers = {c1, c2, self}
  Self = self
  IPs <- FewKinds
  UpdateHost <- MaxMind
  Settings = {"no"}
SPECIFICATION DispatchSpec
INVARIANT RouteKept
