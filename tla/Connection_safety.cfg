SPECIFICATION FairSpec
CONSTANTS
  g1 = g1
  g2 = g2
  g3 = g3
  None = None
  Gateways = {g1, g2, g3}
  MaxBackoff = 4
  TokenFlags = {TRUE, FALSE}
INVARIANT RegistersOnlyUnenrolled
INVARIANT DialsUntried
INVARIANT IInv
PROPERTY EnrollmentSpec
PROPERTY Reconnects
