--------------------- MODULE InvertedGeneralizedTotalizer ---------------------
(***************************************************************************)
(* The lower-bounding encoder `InvertedGeneralizedTotalizer` of            *)
(* src/src/encodings/pb/gte.rs. Its struct has the fields of               *)
(* GeneralizedTotalizer, and its methods are those of GeneralizedTotalizer *)
(* with three differences, which are what this module adds:                *)
(*   - extend_tree puts the negated literal !l into each leaf, so the tree *)
(*     counts the weight of the inputs that are false;                     *)
(*   - a lower bound lb becomes the internal upper bound                   *)
(*     total_weight - lb (convert_lb_ub), or the error Unsat;              *)
(*   - enforce_lb assumes the over-weight inputs true rather than false.   *)
(* The shared parts are taken from GeneralizedTotalizer by INSTANCE, over  *)
(* the same variables.                                                     *)
(***************************************************************************)
EXTENDS Integers, FiniteSets, GTETree

CONSTANTS InLits, Weights, Bounds, FirstVar, MaxAdds, MaxEncodes,
          AllowNonIncremental, AddEachOnce, ReserveModes, Width, OverflowChecks

VARIABLES inLits, litBuffer, root, reserveVars, maxLeafWeight, totalWeight,
          nVars, nClauses, nextFree, clauses, lastCnf, lastCall, lastWindow, adds, encodes

GT == INSTANCE GeneralizedTotalizer

vars == GT!vars

Unsat == [ok |-> FALSE, assumps |-> {}, err |-> "unsat"]

\* convert_lb_ub(bound).unwrap_or(0): the internal upper bound of a lower
\* bound, 0 where convert_lb_ub fails with Unsat.
ConvertLbUbOr0(bound) == IF totalWeight > bound THEN totalWeight - bound ELSE 0

\* new() and new_reserving(); add is the same as GeneralizedTotalizer's.
Init == GT!Init

Add(lits) == GT!Add(lits)

\* encode_lb (incremental = FALSE) and encode_lb_change (TRUE): the window
\* [min_lb, max_lb] becomes the internal window
\* [W - max_lb, W - min_lb], each end 0 where it is Unsat.
EncodeLBCall(minLB, maxLB, incremental) ==
  /\ minLB <= maxLB
  /\ GT!EncodeTree(ConvertLbUbOr0(maxLB), ConvertLbUbOr0(minLB), incremental, TRUE,
                   IF incremental THEN "encode_lb_change" ELSE "encode_lb",
                   <<minLB, maxLB>>)

EncodeLB(minLB, maxLB) == AllowNonIncremental /\ EncodeLBCall(minLB, maxLB, FALSE)

EncodeLBChange(minLB, maxLB) == EncodeLBCall(minLB, maxLB, TRUE)

Next ==
  \/ \E lits \in GT!AddInputs : Add(lits)
  \/ \E lo, hi \in Bounds : EncodeLB(lo, hi)
  \/ \E lo, hi \in Bounds : EncodeLBChange(lo, hi)

Spec == Init /\ [][Next]_vars

----------------------------------------------------------------------------
\* Mutant: convert_lb_ub off by one (total_weight - bound - 1).
EnforceLBOffByOne(lb) ==
  IF totalWeight <= lb THEN Unsat
  ELSE LET ub == totalWeight - lb - 1 IN
       IF GT!BufferBlocks(ub) THEN GT!NotEncoded
       ELSE GT!WithInputs(GT!HeavyInputs(ub), GT!RootAssumps(ub))

\* enforce_lb(lb): convert to ub = W - lb (else Unsat), then as enforce_ub
\* on the inverted tree, with the over-weight inputs assumed true.
EnforceLB(lb) ==
  IF totalWeight <= lb THEN Unsat
  ELSE LET ub == totalWeight - lb IN
       IF GT!BufferBlocks(ub) THEN GT!NotEncoded
       ELSE GT!WithInputs(GT!HeavyInputs(ub), GT!RootAssumps(ub))

----------------------------------------------------------------------------
(* Properties *)

TypeOK == GT!TypeOK

(***************************************************************************)
(* Soundness of enforce_lb: whenever enforce_lb(lb) returns assumptions,   *)
(* every input assignment that the clauses returned so far and those       *)
(* assumptions admit has weighted sum at least lb. It rests on the         *)
(* negated leaves, on the reflection of lb through total_weight, and on    *)
(* the polarity of the over-weight input assumptions.                      *)
(***************************************************************************)
EnforceLBSound ==
  \A lb \in Bounds :
    LET e == EnforceLB(lb) IN
    e.ok => \A t \in SUBSET GT!InputVars :
              SatUnder(clauses, e.assumps, t) => GT!InputSum(t) >= lb

(***************************************************************************)
(* Completeness of enforce_lb: the clauses and assumptions never rule out  *)
(* an assignment whose weighted sum is at least lb.                        *)
(***************************************************************************)
EnforceLBComplete ==
  \A lb \in Bounds :
    LET e == EnforceLB(lb) IN
    e.ok => \A t \in SUBSET GT!InputVars :
              GT!InputSum(t) >= lb => SatUnder(clauses, e.assumps, t)

(***************************************************************************)
(* enforce_lb(lb) reports Unsat only when no assignment of the inputs      *)
(* reaches lb (spec: "Unsat: the target lower bound exceeds the total      *)
(* available weight"; duality with enforce_ub(W - lb)).                    *)
(***************************************************************************)
UnsatOnlyIfUnreachable ==
  \A lb \in Bounds :
    EnforceLB(lb).err = "unsat" =>
      \A t \in SUBSET GT!InputVars : GT!InputSum(t) < lb

=============================================================================
