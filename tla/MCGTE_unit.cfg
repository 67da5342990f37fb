\* Weights 0 and 1, every literal added once (the cardinality case, with
\* zero-weight leaves): enforce_ub is sound, and encode_ub_change over an
\* already encoded window hands back no clause.
CONSTANTS
  InLits <- MCInLits
  FirstVar <- MCFirstVar
  Weights = {0, 1}
  Bounds = {0, 1, 2, 3}
  MaxAdds = 2
  MaxEncodes = 3
  AllowNonIncremental = TRUE
  AddEachOnce = TRUE
  Width = 8
  OverflowChecks = FALSE
  ReserveModes = {FALSE, TRUE}
SPECIFICATION Spec
INVARIANT EnforceUBSound
PROPERTY ChangeIdempotent
CHECK_DEADLOCK FALSE
