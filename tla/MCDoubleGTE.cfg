\* Unit weights, two adds, two encode calls of the four kinds, both
\* constructors: upper and lower bound hold together in one solver, and
\* enforce_lb stays sound and complete beside the ub_gte clauses.
CONSTANTS
  InLits <- MCInLits
  FirstVar <- MCFirstVar
  Weights = {1}
  Bounds = {0, 1, 2}
  MaxAdds = 2
  MaxEncodes = 2
  AllowNonIncremental = TRUE
  AddEachOnce = TRUE
  Width = 8
  OverflowChecks = FALSE
  ReserveModes = {FALSE, TRUE}
SPECIFICATION Spec
INVARIANT EnforceLBSound
INVARIANT EnforceLBComplete
INVARIANT BoundsTogether
CHECK_DEADLOCK FALSE
