SPECIFICATION FairSpec
CONSTANTS
  t1 = t1
  t2 = t2
  k1 = k1
  k2 = k2
  None = None
  Tokens = {t1, t2}
  Keys = {k1, k2}
  Platforms = {"linux", "windows"}
  Saved = {"ping", "heartbeat"}
  Others = {"metrics"}
  Numbers = {3, 26}
  Junk = Junk
  Empty = Empty
  Unset = Unset
  Shells <- MCShells
  DotEnvs <- MCDotEnvs
  Default = 1
  Second = 10
  IntMax = 127
INVARIANT InstallLeavesAWayIn
INVARIANT NewTokenPrevails
INVARIANT RunsAsConfigured
INVARIANT UninstallIsClean
INVARIANT IInv
PROPERTY SecretsStayReadable
PROPERTY StopIsGraceful
PROPERTY StopIsCompleted
