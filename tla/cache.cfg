SPECIFICATION Spec
CONSTANTS
  i1 = i1
  i2 = i2
  Instance = {i1, i2}
  NGroups = 2
  Moves = 2
  Faults = 1
PROPERTIES
  KeepsLookup
  FindsIfStable
  EventuallyCached
