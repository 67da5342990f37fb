------------------------ MODULE DoubleGeneralizedTotalizer ------------------------
(***************************************************************************)
(* DoubleGeneralizedTotalizer of src/src/encodings/pb/gte.rs: one          *)
(* GeneralizedTotalizer (ub_gte) and one InvertedGeneralizedTotalizer      *)
(* (lb_gte). add feeds both; every encode and enforce call goes to one of  *)
(* them. The two trees share the caller's variable manager (nextFree) and  *)
(* the solver the caller merges every returned CNF into (clauses); the     *)
(* constructor and the call budgets are shared too. Everything else is     *)
(* the own state of each encoder.                                          *)
(***************************************************************************)
EXTENDS Integers, FiniteSets, GTETree

CONSTANTS InLits, Weights, Bounds, FirstVar, MaxAdds, MaxEncodes,
          AllowNonIncremental, AddEachOnce, ReserveModes, Width, OverflowChecks

VARIABLES
  inLitsU, litBufferU, rootU, maxLeafWeightU, totalWeightU, nVarsU, nClausesU,
  inLitsL, litBufferL, rootL, maxLeafWeightL, totalWeightL, nVarsL, nClausesL,
  reserveVars, nextFree, clauses, lastCnf, lastCall, lastWindow, adds, encodes

UB == INSTANCE GeneralizedTotalizer
        WITH inLits <- inLitsU, litBuffer <- litBufferU, root <- rootU,
             maxLeafWeight <- maxLeafWeightU, totalWeight <- totalWeightU,
             nVars <- nVarsU, nClauses <- nClausesU

LB == INSTANCE InvertedGeneralizedTotalizer
        WITH inLits <- inLitsL, litBuffer <- litBufferL, root <- rootL,
             maxLeafWeight <- maxLeafWeightL, totalWeight <- totalWeightL,
             nVars <- nVarsL, nClauses <- nClausesL

ubVars == <<inLitsU, litBufferU, rootU, maxLeafWeightU, totalWeightU, nVarsU, nClausesU>>
lbVars == <<inLitsL, litBufferL, rootL, maxLeafWeightL, totalWeightL, nVarsL, nClausesL>>
vars == <<ubVars, lbVars, reserveVars, nextFree, clauses, lastCnf, lastCall, lastWindow, adds, encodes>>

\* new() and new_reserving(): both encoders built by the same constructor.
Init == UB!Init /\ LB!Init

\* add(lits): the same map goes to ub_gte (a clone) and to lb_gte.
Add(lits) == UB!Add(lits) /\ LB!Add(lits)

\* encode_ub, encode_ub_change: delegated to ub_gte.
EncodeUB(minUB, maxUB) == UB!EncodeUB(minUB, maxUB) /\ UNCHANGED lbVars

EncodeUBChange(minUB, maxUB) == UB!EncodeUBChange(minUB, maxUB) /\ UNCHANGED lbVars

\* encode_lb, encode_lb_change: delegated to lb_gte.
EncodeLB(minLB, maxLB) == LB!EncodeLB(minLB, maxLB) /\ UNCHANGED ubVars

EncodeLBChange(minLB, maxLB) == LB!EncodeLBChange(minLB, maxLB) /\ UNCHANGED ubVars

\* enforce_ub, enforce_lb: delegated queries.
EnforceUB(ub) == UB!EnforceUB(ub)

EnforceLB(lb) == LB!EnforceLB(lb)

Next ==
  \/ \E lits \in UB!AddInputs : Add(lits)
  \/ \E lo, hi \in Bounds : EncodeUB(lo, hi) \/ EncodeUBChange(lo, hi)
  \/ \E lo, hi \in Bounds : EncodeLB(lo, hi) \/ EncodeLBChange(lo, hi)

Spec == Init /\ [][Next]_vars

----------------------------------------------------------------------------
(* Properties *)

(***************************************************************************)
(* Both bounds at once: whenever enforce_ub(ub) and enforce_lb(lb) both    *)
(* return assumptions, the clauses of both trees, taken together in one    *)
(* solver, admit exactly the input assignments with lb <= sum <= ub. The   *)
(* trees draw their output variables from one variable manager, so a tree  *)
(* reusing a variable of the other would couple them.                      *)
(***************************************************************************)
BoundsTogether ==
  \A ub, lb \in Bounds :
    LET eu == EnforceUB(ub)
        el == EnforceLB(lb)
    IN eu.ok /\ el.ok =>
         \A t \in SUBSET UB!InputVars :
           SatUnder(clauses, eu.assumps \cup el.assumps, t)
             <=> lb <= UB!InputSum(t) /\ UB!InputSum(t) <= ub

(***************************************************************************)
(* enforce_lb of lb_gte, with the clauses of ub_gte in the same solver:    *)
(* InvertedGeneralizedTotalizer's soundness and completeness (see there).  *)
(***************************************************************************)
EnforceLBSound == LB!EnforceLBSound

EnforceLBComplete == LB!EnforceLBComplete

=============================================================================
