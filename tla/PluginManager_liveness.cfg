SPECIFICATION FairSpec
CONSTANTS
  p1 = p1
  p2 = p2
  sA = sA
  sB = sB
  sX = sX
  c1 = c1
  c2 = c2
  c3 = c3
  None = None
  PluginIDs = {p1}
  Slugs = {sA, sX}
  Supported = {sA}
  Configs = {c1, c3}
  SlugOf <- MCSlugOfUnsupported
  Health = {"up", "empty", "down"}
PROPERTY StatusConverges
PROPERTY RemovalQuiesces
PROPERTY EveryInstallIsAnswered
