SPECIFICATION FairSpec
CONSTANTS
  Clients = {c1}
  Tasks = {t1, t2}
  Callers = {c1, t1, t2}
  Sounds = {s1}
  Fires = {f1}
  None = None
  MaxBacklog = 3
  MaxCrashes = 1
INVARIANTS
  TypeOK
  SleepingIsHeld
  DisarmedIsQuiet
  SubscribersAgree
PROPERTIES
  CallsReturn
  TriggersEnd
