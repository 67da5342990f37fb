\* Zero weights in reserving mode: two inputs of weight 0 form an internal
\* node whose max_val is 0, and reserving its variables asks BTreeMap for
\* the range (Excluded(0), Excluded(0)).
CONSTANTS
  InLits <- MCInLits
  FirstVar <- MCFirstVar
  Weights = {0, 1}
  Bounds = {0, 1}
  MaxAdds = 2
  MaxEncodes = 2
  AllowNonIncremental = TRUE
  AddEachOnce = TRUE
  Width = 8
  OverflowChecks = FALSE
  ReserveModes = {TRUE}
SPECIFICATION Spec
INVARIANT EncodeUBReturns
CHECK_DEADLOCK FALSE
