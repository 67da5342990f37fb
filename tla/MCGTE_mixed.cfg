\* encode_ub followed by encode_ub_change: encode_rec overwrites min_max_enc.
CONSTANTS
  InLits <- MCInLits
  FirstVar <- MCFirstVar
  Weights = {1}
  Bounds = {0, 1, 2, 3}
  MaxAdds = 1
  MaxEncodes = 3
  AllowNonIncremental = TRUE
  AddEachOnce = TRUE
  Width = 8
  OverflowChecks = FALSE
  ReserveModes = {FALSE, TRUE}
SPECIFICATION Spec
PROPERTY ChangeEmitsOnlyNewClauses
CHECK_DEADLOCK FALSE
