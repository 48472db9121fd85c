SPECIFICATION Spec
CONSTANTS
  Clients = {c1, c2}
  Sounds = {s1}
  Fires = {1, 2}
  None = None
  MaxChanges = 4
  MaxCrashes = 0
INVARIANTS
  SettledIsDurable
