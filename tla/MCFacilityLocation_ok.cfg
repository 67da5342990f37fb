\* Every size at least 1, u32 scaled to 5 bits (no index reaches 2^5): the
\* iterator emits a complete, in-range OPB file naming distinct variables.
CONSTANTS
  ObjCounts = {1, 2, 3}
  CustomerCounts = {1, 2, 3}
  FacilityCounts = {1, 2, 3}
  VarWidth = 5
SPECIFICATION Spec
INVARIANT EveryLineInRange
INVARIANT CompleteWhenExhausted
INVARIANT DistinctVariables
INVARIANT TerminatesAfterAllLines
