---------------------------- MODULE PBConstraint ----------------------------
(***************************************************************************)
(* What a pseudo-Boolean encoder of gte.rs promises about its input: the   *)
(* weighted sum  sum_l weights[l] * l  that its bounds refer to. add(lits) *)
(* adds each weight to its literal's (a literal added twice counts with    *)
(* the sum of its weights) and to the total weight; encoding and enforcing *)
(* bounds leave the sum alone, however the inputs are split between the    *)
(* tree and the buffer.                                                    *)
(***************************************************************************)
EXTENDS Integers, Functions

CONSTANTS InLits, Weights

VARIABLES weights, total

vars == <<weights, total>>

Init ==
  /\ weights = [l \in InLits |-> 0]
  /\ total = 0

AddWeights(lits) ==
  /\ weights' = [l \in InLits |-> weights[l] + (IF l \in DOMAIN lits THEN lits[l] ELSE 0)]
  /\ total' = total + SumFunction(lits)

Next == \E S \in SUBSET InLits : \E lits \in [S -> Weights] : AddWeights(lits)

Spec == Init /\ [][Next]_vars

=============================================================================
