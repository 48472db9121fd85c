SPECIFICATION Spec
CONSTANTS
  Stems = {"", "a"}
  MaxEdits = 2
INVARIANTS
  ListedCanBeArmed
  SteadyIsListed
  NothingInvented
