---------------------------- MODULE GTEDeterminism ----------------------------
(***************************************************************************)
(* Two GeneralizedTotalizer encoders, each with its own fresh variable     *)
(* manager starting at FirstVar, driven by the same sequence of add,       *)
(* encode_ub and encode_ub_change calls, as two runs of the same program   *)
(* would drive them. Each copy takes its own HashMap iteration order in    *)
(* extend_tree (std HashMap is seeded per process), so the copies stand    *)
(* for two runs of one trace.                                              *)
(***************************************************************************)
EXTENDS Integers

CONSTANTS InLits, Weights, Bounds, FirstVar, MaxAdds, MaxEncodes,
          AllowNonIncremental, AddEachOnce, ReserveModes, Width, OverflowChecks

VARIABLES inLits1, litBuffer1, root1, reserveVars1, maxLeafWeight1,
          totalWeight1, nVars1, nClauses1, nextFree1, clauses1, lastCnf1,
          lastCall1, lastWindow1, adds1, encodes1,
          inLits2, litBuffer2, root2, reserveVars2, maxLeafWeight2,
          totalWeight2, nVars2, nClauses2, nextFree2, clauses2, lastCnf2,
          lastCall2, lastWindow2, adds2, encodes2

Run1 == INSTANCE GeneralizedTotalizer
          WITH inLits <- inLits1, litBuffer <- litBuffer1, root <- root1,
               reserveVars <- reserveVars1, maxLeafWeight <- maxLeafWeight1,
               totalWeight <- totalWeight1, nVars <- nVars1,
               nClauses <- nClauses1, nextFree <- nextFree1,
               clauses <- clauses1, lastCnf <- lastCnf1,
               lastCall <- lastCall1, lastWindow <- lastWindow1,
               adds <- adds1, encodes <- encodes1

Run2 == INSTANCE GeneralizedTotalizer
          WITH inLits <- inLits2, litBuffer <- litBuffer2, root <- root2,
               reserveVars <- reserveVars2, maxLeafWeight <- maxLeafWeight2,
               totalWeight <- totalWeight2, nVars <- nVars2,
               nClauses <- nClauses2, nextFree <- nextFree2,
               clauses <- clauses2, lastCnf <- lastCnf2,
               lastCall <- lastCall2, lastWindow <- lastWindow2,
               adds <- adds2, encodes <- encodes2

vars == <<Run1!vars, Run2!vars>>

\* Both runs are built by the same constructor.
Init == Run1!Init /\ Run2!Init /\ reserveVars1 = reserveVars2

\* The same call, with the same arguments, made in both runs.
Next ==
  \/ \E lits \in Run1!AddInputs : Run1!Add(lits) /\ Run2!Add(lits)
  \/ \E lo, hi \in Bounds : Run1!EncodeUB(lo, hi) /\ Run2!EncodeUB(lo, hi)
  \/ \E lo, hi \in Bounds : Run1!EncodeUBChange(lo, hi) /\ Run2!EncodeUBChange(lo, hi)

Spec == Init /\ [][Next]_vars

----------------------------------------------------------------------------
(***************************************************************************)
(* Variable determinism (the ordering contract of the encoder): the same   *)
(* add/encode trace from a fresh variable manager hands back the same      *)
(* clauses over the same variable IDs in every run. extend_tree sorts the  *)
(* buffered inputs by weight only, so ties keep the HashMap's order.       *)
(***************************************************************************)
SameClauses ==
  /\ clauses1 = clauses2
  /\ nextFree1 = nextFree2

=============================================================================
