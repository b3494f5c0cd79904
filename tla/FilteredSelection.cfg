SPECIFICATION Spec
CONSTANTS
  Keys = {k1, k2, k3}
  DefaultSelectAll = TRUE
INVARIANTS
  TableMatchesKept
  ValueIsChosen
PROPERTIES
  FilterKeepsChoice
  FilterIsInvisible
