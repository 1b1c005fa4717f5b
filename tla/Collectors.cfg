SPECIFICATION FairSpec
CONSTANTS
  u1 = u1
  p1 = p1
  p2 = p2
  n1 = n1
  n2 = n2
  Blank = Blank
  Star = Star
  SpacedStar = SpacedStar
  None = None
  UniFis = {u1}
  Proxmoxes = {p1, p2}
  WithSite = {}
  Nodes = {n1, n2}
  NodeScope <- MCNodeScope
  Interval = 3
  UniFiTimeout = 2
  ProxmoxTimeout = 1
  SendTime = 1
  Limit = 2
  Inventories <- MCInventories
  Populations <- MCPopulations
  Loads = {3, 5}
INVARIANT NoPluginStarves
INVARIANT SummaryAgrees
INVARIANT StaleOnlyWithoutNodes
INVARIANT IInv
PROPERTY EveryPluginIsCollected
