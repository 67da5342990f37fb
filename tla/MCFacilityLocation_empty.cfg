\* Sizes may be 0: lines for the first objective, customer and facility are
\* emitted without a size check.
CONSTANTS
  ObjCounts = {0, 1}
  CustomerCounts = {0, 1}
  FacilityCounts = {0, 1}
  VarWidth = 5
SPECIFICATION Spec
INVARIANT EveryLineInRange
