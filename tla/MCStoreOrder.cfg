SPECIFICATION Spec
CONSTANTS
  Clients = {c1, c2}
  Sounds = {s1}
  Fires = {1, 2}
  None = None
  MaxChanges = 5
  MaxCrashes = 2
INVARIANTS
  TypeOK
  NoRollbackPastSettled
  LoneSaveIsDurable
