SPECIFICATION Spec
CONSTANTS
  Clients = {c1}
  Sounds = {s1}
  Fires = {0, 1, 2, 3, 4, 5, 6}
  None = None
  Delay = 2
  MaxTime = 6
  MaxCrashes = 3
  MaxAdjusts = 2
INVARIANTS
  TypeOK
  RestartIsFaithful
  MissedIsReported
  NoPhantomReport
