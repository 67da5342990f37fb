\* Unit weights, one add, encode_ub then encode_ub_change on one encoder
\* against one encode_ub over the hull of the two windows on the other.
CONSTANTS
  InLits <- MCInLits
  FirstVar <- MCFirstVar
  Weights = {1}
  Bounds = {0, 1, 2}
  MaxAdds = 1
  MaxEncodes = 2
  AllowNonIncremental = TRUE
  AddEachOnce = TRUE
  Width = 8
  OverflowChecks = FALSE
  ReserveModes = {FALSE}
SPECIFICATION Spec
INVARIANT HullSameClauseCount
CHECK_DEADLOCK FALSE
