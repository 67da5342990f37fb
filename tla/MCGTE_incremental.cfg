\* encode_ub_change only, weights 1 and 2, literals re-added: enforce_ub is
\* complete and no clause is handed back twice.
CONSTANTS
  InLits <- MCInLits
  FirstVar <- MCFirstVar
  Weights = {1, 2}
  Bounds = {0, 1, 2}
  MaxAdds = 2
  MaxEncodes = 2
  AllowNonIncremental = FALSE
  AddEachOnce = FALSE
  Width = 8
  OverflowChecks = FALSE
  ReserveModes = {FALSE}
SPECIFICATION Spec
INVARIANT TypeOK
INVARIANT EnforceUBComplete
INVARIANT EncodedWindowEnforceable
PROPERTY ChangeEmitsOnlyNewClauses
PROPERTY ImplementsPBConstraint
CHECK_DEADLOCK FALSE
