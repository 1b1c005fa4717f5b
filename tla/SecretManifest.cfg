SPECIFICATION Spec
CONSTANTS
  p1 = p1
  p2 = p2
  p3 = p3
  sA = sA
  sB = sB
  None = None
  PluginIDs = {p1, p2, p3}
  Slugs = {sA, sB}
INVARIANT IInv
PROPERTY TableSpec
