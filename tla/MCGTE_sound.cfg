\* Soundness of enforce_ub for arbitrary weights: one add, one encode.
CONSTANTS
  InLits <- MCInLits
  FirstVar <- MCFirstVar
  Weights = {2, 3}
  Bounds = {0, 1, 2, 3, 4}
  MaxAdds = 1
  MaxEncodes = 1
  AllowNonIncremental = TRUE
  AddEachOnce = FALSE
  Width = 8
  OverflowChecks = FALSE
  ReserveModes = {FALSE, TRUE}
SPECIFICATION Spec
INVARIANT EnforceUBSound
CHECK_DEADLOCK FALSE
