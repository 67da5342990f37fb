\* Unit weights, one add and one encode: enforce_lb(total_weight) reports
\* Unsat although setting every input true reaches the bound.
CONSTANTS
  InLits <- MCInLits
  FirstVar <- MCFirstVar
  Weights = {1}
  Bounds = {0, 1, 2, 3}
  MaxAdds = 1
  MaxEncodes = 1
  AllowNonIncremental = TRUE
  AddEachOnce = TRUE
  Width = 8
  OverflowChecks = FALSE
  ReserveModes = {FALSE}
SPECIFICATION Spec
INVARIANT UnsatOnlyIfUnreachable
CHECK_DEADLOCK FALSE
