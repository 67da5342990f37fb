------------------------- MODULE GTEIncrementalBuilding -------------------------
(***************************************************************************)
(* Incremental building of the GeneralizedTotalizer of                     *)
(* src/src/encodings/pb/gte.rs, as the unit test ub_gte_incremental_building *)
(* exercises it: two encoders, each with its own fresh variable manager,    *)
(* receive the same add calls. Encoder Inc then makes                       *)
(* encode_ub(lo, hi) followed by encode_ub_change(lo2, hi2); encoder One    *)
(* makes a single encode_ub over the hull [min(lo, lo2), max(hi, hi2)],     *)
(* issued in the step of Inc's second call.                                 *)
(***************************************************************************)
EXTENDS Integers, FiniteSets

CONSTANTS InLits, Weights, Bounds, FirstVar, MaxAdds, MaxEncodes,
          AllowNonIncremental, AddEachOnce, ReserveModes, Width, OverflowChecks

VARIABLES inLitsO, litBufferO, rootO, reserveVarsO, maxLeafWeightO,
          totalWeightO, nVarsO, nClausesO, nextFreeO, clausesO, lastCnfO,
          lastCallO, lastWindowO, addsO, encodesO,
          inLitsI, litBufferI, rootI, reserveVarsI, maxLeafWeightI,
          totalWeightI, nVarsI, nClausesI, nextFreeI, clausesI, lastCnfI,
          lastCallI, lastWindowI, addsI, encodesI

One == INSTANCE GeneralizedTotalizer
         WITH inLits <- inLitsO, litBuffer <- litBufferO, root <- rootO,
              reserveVars <- reserveVarsO, maxLeafWeight <- maxLeafWeightO,
              totalWeight <- totalWeightO, nVars <- nVarsO,
              nClauses <- nClausesO, nextFree <- nextFreeO,
              clauses <- clausesO, lastCnf <- lastCnfO,
              lastCall <- lastCallO, lastWindow <- lastWindowO,
              adds <- addsO, encodes <- encodesO

Inc == INSTANCE GeneralizedTotalizer
         WITH inLits <- inLitsI, litBuffer <- litBufferI, root <- rootI,
              reserveVars <- reserveVarsI, maxLeafWeight <- maxLeafWeightI,
              totalWeight <- totalWeightI, nVars <- nVarsI,
              nClauses <- nClausesI, nextFree <- nextFreeI,
              clauses <- clausesI, lastCnf <- lastCnfI,
              lastCall <- lastCallI, lastWindow <- lastWindowI,
              adds <- addsI, encodes <- encodesI

oneVars == <<inLitsO, litBufferO, rootO, reserveVarsO, maxLeafWeightO,
            totalWeightO, nVarsO, nClausesO, nextFreeO, clausesO, lastCnfO,
            lastCallO, lastWindowO, addsO, encodesO>>
vars == <<One!vars, Inc!vars>>

LOCAL Lesser(a, b) == IF a < b THEN a ELSE b
LOCAL Greater(a, b) == IF a > b THEN a ELSE b

\* Both encoders are built by the same constructor.
Init == One!Init /\ Inc!Init /\ reserveVarsO = reserveVarsI

\* The same add call on both, before either encodes.
AddBoth(lits) == encodesI = 0 /\ One!Add(lits) /\ Inc!Add(lits)

\* Inc's first call, encode_ub(lo, hi).
FirstEncode(lo, hi) == encodesI = 0 /\ Inc!EncodeUB(lo, hi) /\ UNCHANGED oneVars

\* Inc's encode_ub_change(lo2, hi2), and One's encode_ub over the hull of
\* the two windows.
SecondEncode(lo2, hi2) ==
  /\ encodesI = 1
  /\ Inc!EncodeUBChange(lo2, hi2)
  /\ One!EncodeUB(Lesser(lastWindowI[1], lo2), Greater(lastWindowI[2], hi2))

Next ==
  \/ \E lits \in Inc!AddInputs : AddBoth(lits)
  \/ \E lo, hi \in Bounds : FirstEncode(lo, hi)
  \/ \E lo, hi \in Bounds : SecondEncode(lo, hi)

Spec == Init /\ [][Next]_vars

----------------------------------------------------------------------------
(***************************************************************************)
(* Incremental equivalence (testable property 2 and scenario F of the      *)
(* spec, the assertions of ub_gte_incremental_building): encode_ub(lo, hi) *)
(* followed by encode_ub_change(lo2, hi2) hands back as many clauses, and  *)
(* counts as many in n_clauses, as one encode_ub over the hull of the two  *)
(* windows on an encoder with the same inputs.                             *)
(***************************************************************************)
HullSameClauseCount ==
  encodesI = 2 =>
    /\ nClausesI = nClausesO
    /\ nClausesI = Cardinality(clausesI)

=============================================================================
