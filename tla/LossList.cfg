CONSTANTS
  MAX_NUMBER = 5
  AvoidZeroOverlap = TRUE
SPECIFICATION Spec
INVARIANTS RangesDisjoint PeekIsFirst
PROPERTY ImplementsLossSet
