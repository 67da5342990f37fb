\* Unit weights, one add of every literal and one encode_ub: equal weights
\* make extend_tree's order depend on the HashMap.
CONSTANTS
  InLits <- MCInLits
  FirstVar <- MCFirstVar
  Weights = {1}
  Bounds = {0, 1, 2}
  MaxAdds = 1
  MaxEncodes = 1
  AllowNonIncremental = TRUE
  AddEachOnce = TRUE
  Width = 8
  OverflowChecks = FALSE
  ReserveModes = {FALSE}
SPECIFICATION Spec
INVARIANT SameClauses
CHECK_DEADLOCK FALSE
