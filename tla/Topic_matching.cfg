SPECIFICATION Spec
CONSTANTS
  Char = {"a", "b", "/", "+", "#"}
  FilterLength = 5
  NameLength = 4
  Filters <- MCFilters
  Names <- MCNames
INVARIANTS InBounds NoFalseMatch NoMissedMatch
CHECK_DEADLOCK FALSE
