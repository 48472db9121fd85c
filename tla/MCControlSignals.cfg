SPECIFICATION Spec
CONSTANTS
  Clients = {c1, c2}
  Tasks = {t1, t2}
  Callers = {c1, c2, t1, t2}
  Sounds = {s1}
  Fires = {f1}
  None = None
  MaxBacklog = 2
  MaxCrashes = 0
INVARIANTS
  SubscribersAgree
