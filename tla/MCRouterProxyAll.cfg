\* proxy_all = true, and the README's word for it.
CONSTANTS
  c1 = c1
  c2 = c2
  self = self
  Callers = {c1, self}
  Self = self
  IPs <- MCIPs
  UpdateHost <- MaxMind
  Settings = {"yes"}
SPECIFICATION Spec
INVARIANT ProxyAllProxies
