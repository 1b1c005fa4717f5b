SPECIFICATION Spec
CONSTANTS
  p1 = p1
  p2 = p2
  sA = sA
  sB = sB
  sX = sX
  c1 = c1
  c2 = c2
  c3 = c3
  None = None
  PluginIDs = {p1, p2}
  Slugs = {sA, sB}
  Supported = {sA, sB}
  Configs = {c1, c2}
  SlugOf <- MCSlugOf
  Health = {"up"}
SYMMETRY Symmetry
INVARIANT RunningIsPersisted
INVARIANT RunningMatchesManifest
INVARIANT AckedSurvives
INVARIANT RestoreIsComplete
PROPERTY RegistrySpec
INVARIANT IInv
