SPECIFICATION Spec
CONSTANTS
  c1 = c1
  c2 = c2
  None = None
  Conns = {c1, c2}
  MaxMessages = 3
SYMMETRY Symmetry
INVARIANT OneWriter
INVARIANT MetricsAuthenticated
INVARIANT PluginsNeedIdentity
INVARIANT NothingSkipped
INVARIANT IInv
