SPECIFICATION FairSpec
CONSTANTS
  Workers = {w1, w2}
  WatchdogSec = 10
  RestartSec = 2
  TimeoutStopSec = 10
  MaxBlock = 1
  MaxLoad = 3
  MaxSave = 1
  MaxBuild = 2
  MaxLate = 5
  None = None
INVARIANTS
  TypeOK
  HealthySurvives
  StopIsClean
PROPERTIES
  StallIsEnded
