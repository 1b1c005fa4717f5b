SPECIFICATION Spec
CONSTANTS
  g1 = g1
  g2 = g2
  g3 = g3
  None = None
  Gateways = {g1}
  MaxBackoff = 1
  TokenFlags = {FALSE}
INVARIANT IdentityIsRemembered
