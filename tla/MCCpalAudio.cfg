SPECIFICATION FairSpec
CONSTANTS
  Callers = {c1, t1, t2}
  Tasks = {t1, t2}
  None = None
  MaxBacklog = 2
  MaxFaults = 2
INVARIANTS
  AckIsComing
  HealthyStreamIsKept
PROPERTIES
  ImplementsContract
  StreamRecovers
  PlaybackEnds
  Answered
