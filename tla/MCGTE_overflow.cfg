\* usize scaled to 3 bits (usize::MAX = 7), a release build: encode_ub up to
\* usize::MAX wraps max_ub + max_leaf_weight, and enforce_ub then finds the
\* window it was just asked for not encoded.
CONSTANTS
  InLits <- MCInLits
  FirstVar <- MCFirstVar
  Weights = {1}
  Bounds = {0, 1, 7}
  MaxAdds = 1
  MaxEncodes = 1
  AllowNonIncremental = TRUE
  AddEachOnce = TRUE
  Width = 3
  OverflowChecks = FALSE
  ReserveModes = {FALSE}
SPECIFICATION Spec
INVARIANT EncodedWindowEnforceable
CHECK_DEADLOCK FALSE
