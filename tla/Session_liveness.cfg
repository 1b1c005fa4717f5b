SPECIFICATION FairSpec
CONSTANTS
  c1 = c1
  c2 = c2
  None = None
  Conns = {c1}
  MaxMessages = 3
PROPERTY StopIsObeyed
PROPERTY LossIsNoticed
PROPERTY CommandsAreHandled
PROPERTY SessionsEnd
