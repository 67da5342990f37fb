------------------------- MODULE GeneralizedTotalizer -------------------------
(***************************************************************************)
(* The upper-bounding encoder `GeneralizedTotalizer` of                    *)
(* src/src/encodings/pb/gte.rs: a caller adds weighted literals, asks for  *)
(* encodings of bound windows (encode_ub, encode_ub_change) and asks for   *)
(* the assumptions that enforce a bound (enforce_ub).                      *)
(*                                                                         *)
(* The struct's fields are the variables; the clauses handed back to the   *)
(* caller are collected in `clauses`, and the variable manager is its next *)
(* free variable `nextFree`. enforce_ub takes &self and changes nothing:   *)
(* it is the operator EnforceUB, which the properties evaluate in every    *)
(* state for every bound.                                                  *)
(***************************************************************************)
EXTENDS Integers, FiniteSets, SequencesExt, Functions, GTETree

CONSTANTS
  InLits,      \* input literals the caller may add
  Weights,     \* weights the caller may give them
  Bounds,      \* values of min_ub, max_ub and ub
  FirstVar,    \* first variable the variable manager hands out
  MaxAdds,     \* bound on add calls
  MaxEncodes,  \* bound on encode calls
  AllowNonIncremental, \* whether the caller also uses encode_ub
  AddEachOnce, \* whether the caller adds every literal at most once
  ReserveModes, \* constructors used: {FALSE} new(), {TRUE} new_reserving()
  Width,       \* bits of usize, scaled down
  OverflowChecks \* whether the build panics on overflow (debug) or wraps (release)

ASSUME InLits \subseteq Int \ {0}
ASSUME Weights \subseteq Nat /\ Bounds \subseteq Nat
ASSUME FirstVar \in Nat /\ \A l \in InLits : FirstVar > l /\ FirstVar > -l
ASSUME MaxAdds \in Nat /\ MaxEncodes \in Nat /\ AllowNonIncremental \in BOOLEAN /\ AddEachOnce \in BOOLEAN
ASSUME ReserveModes \subseteq BOOLEAN /\ ReserveModes # {}
ASSUME Width \in Nat \ {0} /\ OverflowChecks \in BOOLEAN

\* usize::MAX at the scaled width. Bounds are caller values up to it.
UsizeMax == 2^Width - 1

\* The largest total weight the calls can add up. Twice it stays below
\* usize::MAX, so the sums inside the tree, total_weight and the
\* ub + max_leaf_weight of enforce_ub (computed only for ub < max_val)
\* never wrap; only caller bounds near usize::MAX can.
MaxTotal == MaxAdds * Cardinality(InLits) * Max(Weights \cup {0})
ASSUME Bounds \subseteq 0..UsizeMax /\ 2 * MaxTotal <= UsizeMax

VARIABLES
  inLits,         \* in_lits: literal -> weight, already in the tree
  litBuffer,      \* lit_buffer: literal -> weight, not yet in the tree
  root,           \* root, NoNode for None
  reserveVars,    \* reserve_vars
  maxLeafWeight,  \* max_leaf_weight
  totalWeight,    \* total_weight
  nVars,          \* n_vars
  nClauses,       \* n_clauses
  nextFree,       \* the variable manager's next free variable
  clauses,        \* every clause returned to the caller
  lastCnf,        \* the clauses the latest encode call returned
  lastCall,       \* the name of the latest call
  lastWindow,     \* <<min, max>> bounds of the latest encode call
  adds,           \* number of add calls made (bounded by MaxAdds)
  encodes         \* number of encode calls made (bounded by MaxEncodes)

vars == <<inLits, litBuffer, root, reserveVars, maxLeafWeight, totalWeight,
          nVars, nClauses, nextFree, clauses, lastCnf, lastCall, lastWindow, adds, encodes>>

LOCAL MaxOf(a, b) == IF a > b THEN a ELSE b

\* Mutant: a re-added literal's weight replaces the old one (insert of w
\* instead of old_w + w).
AddToOverwrite(map, l, w) ==
  IF l \in DOMAIN map THEN [map EXCEPT ![l] = w] ELSE map @@ (l :> w)

\* Add weight w to the entry of l in a HashMap<Lit, usize>.
AddTo(map, l, w) ==
  IF l \in DOMAIN map THEN [map EXCEPT ![l] = @ + w] ELSE map @@ (l :> w)

\* Weight of l in a map, 0 when absent.
WeightIn(map, l) == IF l \in DOMAIN map THEN map[l] ELSE 0

----------------------------------------------------------------------------
\* new() and new_reserving()
Init ==
  /\ inLits = <<>>
  /\ litBuffer = <<>>
  /\ root = NoNode
  /\ reserveVars \in ReserveModes
  /\ maxLeafWeight = 0
  /\ totalWeight = 0
  /\ nVars = 0
  /\ nClauses = 0
  /\ nextFree = FirstVar
  /\ clauses = {}
  /\ lastCnf = {}
  /\ lastCall = "new"
  /\ lastWindow = <<0, 0>>
  /\ adds = 0
  /\ encodes = 0

\* add(lits): every entry adds to total_weight and to the buffer.
Add(lits) ==
  /\ adds < MaxAdds
  /\ AddEachOnce => DOMAIN lits \cap (DOMAIN inLits \cup DOMAIN litBuffer) = {}
  /\ totalWeight' = totalWeight + SumFunction(lits)
  /\ litBuffer' = FoldSet(LAMBDA l, m : AddTo(m, l, lits[l]), litBuffer, DOMAIN lits)
  /\ adds' = adds + 1
  /\ lastCall' = "add"
  /\ UNCHANGED <<inLits, root, reserveVars, maxLeafWeight, nVars, nClauses,
                 nextFree, clauses, lastCnf, lastWindow, encodes>>

\* The buffered literals extend_tree admits under max_weight.
Admitted(maxWeight) == {l \in DOMAIN litBuffer : litBuffer[l] <= maxWeight}

\* The orders extend_tree may build the subtree in: the buffer's iteration
\* order (arbitrary, a HashMap) stably sorted by weight.
AdmitOrders(S) ==
  {s \in SetToSeqs(S) :
     \A i, j \in DOMAIN s : i < j => litBuffer[s[i]] <= litBuffer[s[j]]}

\* In reserving mode, extend_tree reserves every variable of the new
\* subtree; returns <<subtree, next>>.
ReserveSubtree(sub) ==
  IF reserveVars THEN ReserveAllVarsRec(sub, nextFree) ELSE <<sub, nextFree>>

\* The reserved subtree rsv becomes the root, or the right child of a new
\* root (whose variables are reserved in reserving mode).
JoinRoot(rsv) ==
  IF root = NoNode THEN rsv
  ELSE IF reserveVars THEN ReserveAllVars(NewInternal(root, rsv[1]), rsv[2])
  ELSE <<NewInternal(root, rsv[1]), rsv[2]>>

\* In reserving mode, extend_tree panics while reserving the subtree sub
\* (reserve_all_vars_rec) or the new root over the old root and sub
\* (reserve_all_vars).
ExtendPanics(sub) ==
  /\ reserveVars
  /\ \/ ReserveAllVarsRecPanics(sub)
     \/ root # NoNode /\ ReserveRangePanics(NewInternal(root, sub), MaxVal(root) + MaxVal(sub))

\* The subtree sub merged into the tree: <<root, next, panicked>>.
Extended(sub) == Append(JoinRoot(ReserveSubtree(sub)), ExtendPanics(sub))

\* Mutant: the leaves keep the input literal l even where extend_tree of
\* the inverted encoder builds them on !l.
ExtendRootPositive(order, negate) ==
  IF order = <<>> THEN <<root, nextFree, FALSE>>
  ELSE Extended(BuildTree([i \in DOMAIN order |-> <<order[i], litBuffer[order[i]]>>]))

\* extend_tree for one admitted order: build the subtree over it and merge
\* it into the tree; returns <<root, next, panicked>>. The leaves carry the
\* input literals, negated (!l) in InvertedGeneralizedTotalizer::extend_tree.
ExtendRoot(order, negate) ==
  IF order = <<>> THEN <<root, nextFree, FALSE>>
  ELSE Extended(BuildTree([i \in DOMAIN order |->
                             <<IF negate THEN -order[i] ELSE order[i],
                               litBuffer[order[i]]>>]))

\* The root encoding of encode_ub / encode_ub_change over [lo, hi] of the
\* extended tree ext = <<root, next>>.
EncodeRoot(ext, lo, hi, incremental) ==
  IF ext[3] THEN [Unchanged(ext[1], ext[2]) EXCEPT !.panic = TRUE]
  ELSE IF ext[1] = NoNode THEN Unchanged(NoNode, ext[2])
  ELSE IF incremental THEN EncodeChangeRec(ext[1], lo, hi, ext[2])
  ELSE EncodeRec(ext[1], lo, hi, ext[2])

\* The state after an encode call that admitted A, with max leaf weight
\* leafMax, and whose root encoding returned enc; a call that panicked has
\* no successor state.
Encoded(A, leafMax, enc) ==
  /\ ~enc.panic
  /\ root' = enc.node
  /\ nextFree' = enc.next
  /\ maxLeafWeight' = leafMax
  /\ inLits' = FoldSet(LAMBDA l, m : AddTo(m, l, litBuffer[l]), inLits, A)
  /\ litBuffer' = Restrict(litBuffer, DOMAIN litBuffer \ A)
  /\ clauses' = clauses \cup enc.cnf
  /\ lastCnf' = enc.cnf
  /\ nClauses' = nClauses + enc.count
  /\ nVars' = nVars + (enc.next - nextFree)

\* a + b in usize: wraps in a release build. A debug build panics instead,
\* which ends the program: that call has no successor state.
UsizeAdd(a, b) == (a + b) % 2^Width

NoPanic(a, b) == OverflowChecks => a + b <= UsizeMax

\* The body shared by encode_ub[_change] and encode_lb[_change] once the
\* internal upper window [intMin, intMax] is known: extend the tree with the
\* buffered literals of weight <= intMax, then encode the output window
\* [intMin + 1, intMax + max_leaf_weight] at the root, both sums in usize.
\* call and window name the call and its arguments.
EncodeTree(intMin, intMax, incremental, negate, call, window) ==
  /\ encodes < MaxEncodes
  /\ LET A == Admitted(intMax)
         leafMax == MaxOf(maxLeafWeight, Max({0} \cup {litBuffer[l] : l \in A}))
     IN /\ NoPanic(intMin, 1)
        /\ NoPanic(intMax, leafMax)
        /\ \E order \in AdmitOrders(A) :
             Encoded(A, leafMax, EncodeRoot(ExtendRoot(order, negate), UsizeAdd(intMin, 1),
                                            UsizeAdd(intMax, leafMax), incremental))
  /\ encodes' = encodes + 1
  /\ lastCall' = call
  /\ lastWindow' = window
  /\ UNCHANGED <<reserveVars, totalWeight, adds>>

\* encode_ub (incremental = FALSE) and encode_ub_change (TRUE); min_ub >
\* max_ub is the error InvalidLimits, which changes nothing.
Encode(minUB, maxUB, incremental) ==
  /\ minUB <= maxUB
  /\ EncodeTree(minUB, maxUB, incremental, FALSE,
                IF incremental THEN "encode_ub_change" ELSE "encode_ub",
                <<minUB, maxUB>>)

EncodeUB(minUB, maxUB) == AllowNonIncremental /\ Encode(minUB, maxUB, FALSE)

EncodeUBChange(minUB, maxUB) == Encode(minUB, maxUB, TRUE)

\* The maps add may be called with.
AddInputs == UNION {[S -> Weights] : S \in SUBSET InLits \ {{}}}

Next ==
  \/ \E lits \in AddInputs : Add(lits)
  \/ \E lo, hi \in Bounds : EncodeUB(lo, hi)
  \/ \E lo, hi \in Bounds : EncodeUBChange(lo, hi)

Spec == Init /\ [][Next]_vars

----------------------------------------------------------------------------
(***************************************************************************)
(* enforce_ub: the assumptions imposing sum <= ub, or NotEncoded. Literals *)
(* of the buffer must all be heavier than ub and are assumed false, as are *)
(* the heavier internalized literals; at an internal root, the output      *)
(* literals of (ub, ub + max_leaf_weight] are assumed false, provided the  *)
(* recorded window covers them.                                            *)
(***************************************************************************)
NotEncoded == [ok |-> FALSE, assumps |-> {}, err |-> "not_encoded"]

Enforced(assumps) == [ok |-> TRUE, assumps |-> assumps, err |-> "none"]

\* Some buffered literal is not heavier than ub: it is not in the tree, so
\* the bound cannot be enforced (NotEncoded).
BufferBlocks(ub) == \E l \in DOMAIN litBuffer : litBuffer[l] <= ub

\* The inputs enforce_ub assumes false: every buffered one and the
\* internalized ones heavier than ub.
HeavyInputs(ub) == DOMAIN litBuffer \cup {l \in DOMAIN inLits : inLits[l] > ub}

\* Fault-injection variant of RootAssumps: the output range includes ub
\* (Bound::Included instead of Bound::Excluded).
RootAssumpsIncludingUB(ub) ==
  IF root = NoNode \/ root.kind = "leaf" \/ ub >= root.maxVal THEN Enforced({})
  ELSE IF \/ root.minMaxEnc = <<>>
          \/ root.minMaxEnc[2] < Min({ub + maxLeafWeight, root.maxVal})
          \/ root.minMaxEnc[1] > ub + 1
       THEN NotEncoded
  ELSE Enforced({-root.outLits[v] : v \in {k \in DOMAIN root.outLits :
                                             ub <= k /\ k <= ub + maxLeafWeight}})

\* Mutant: the window check demands the recorded window start at ub.
RootAssumpsStrictWindow(ub) ==
  IF root = NoNode \/ root.kind = "leaf" \/ ub >= root.maxVal THEN Enforced({})
  ELSE IF \/ root.minMaxEnc = <<>>
          \/ root.minMaxEnc[2] < Min({ub + maxLeafWeight, root.maxVal})
          \/ root.minMaxEnc[1] > ub
       THEN NotEncoded
  ELSE Enforced({-root.outLits[v] : v \in {k \in DOMAIN root.outLits :
                                             ub < k /\ k <= ub + maxLeafWeight}})

\* The root part of enforce_ub: nothing for no root, a leaf root or ub at
\* least max_val; else, if the recorded window covers (ub, ub +
\* max_leaf_weight], the negated output literals of that range.
RootAssumps(ub) ==
  IF root = NoNode \/ root.kind = "leaf" \/ ub >= root.maxVal THEN Enforced({})
  ELSE IF \/ root.minMaxEnc = <<>>
          \/ root.minMaxEnc[2] < Min({ub + maxLeafWeight, root.maxVal})
          \/ root.minMaxEnc[1] > ub + 1
       THEN NotEncoded
  ELSE Enforced({-root.outLits[v] : v \in {k \in DOMAIN root.outLits :
                                             ub < k /\ k <= ub + maxLeafWeight}})

\* Input assumptions joined with the root's result r.
WithInputs(inputs, r) == IF r.ok THEN Enforced(inputs \cup r.assumps) ELSE r

\* Mutant: the NotEncoded check on the buffer is dropped.
EnforceUBNoBufferCheck(ub) ==
  WithInputs({-l : l \in HeavyInputs(ub)}, RootAssumps(ub))

\* enforce_ub(ub)
EnforceUB(ub) ==
  IF BufferBlocks(ub) THEN NotEncoded
  ELSE WithInputs({-l : l \in HeavyInputs(ub)}, RootAssumps(ub))

----------------------------------------------------------------------------
(* Properties *)

\* The weighted sum of the inputs true under assignment t (buffered and
\* internalized weights together).
InputSum(t) ==
  LET lits == DOMAIN inLits \cup DOMAIN litBuffer
      w == [l \in lits |-> WeightIn(inLits, l) + WeightIn(litBuffer, l)]
  IN SumFunctionOnSet(w, {l \in lits : Holds(l, t)})

InputVars == {IF l > 0 THEN l ELSE -l : l \in InLits}

TypeOK ==
  /\ DOMAIN inLits \subseteq InLits /\ DOMAIN litBuffer \subseteq InLits
  /\ \A l \in DOMAIN inLits : inLits[l] \in Nat
  /\ \A l \in DOMAIN litBuffer : litBuffer[l] \in Nat
  /\ root = NoNode \/ IsNode(root)
  /\ reserveVars \in BOOLEAN
  /\ {maxLeafWeight, totalWeight, nVars, nClauses, nextFree, adds, encodes} \subseteq Nat

\* The weighted sum of the inputs, split between the tree and the buffer.
WeightView == [l \in InLits |-> WeightIn(inLits, l) + WeightIn(litBuffer, l)]

PB == INSTANCE PBConstraint WITH weights <- WeightView, total <- totalWeight

(***************************************************************************)
(* Refinement: the encoder implements PBConstraint under the mapping       *)
(* weights <- in_lits (+) lit_buffer, total <- total_weight. add changes   *)
(* the sum as PBConstraint's add does, and extend_tree, which moves the    *)
(* admitted buffer entries into in_lits (summing re-added literals) and    *)
(* drops them from the buffer, leaves it unchanged.                        *)
(***************************************************************************)
ImplementsPBConstraint == PB!Spec

(***************************************************************************)
(* Soundness of enforce_ub: whenever enforce_ub(ub) returns assumptions,   *)
(* every input assignment that the clauses returned so far together with   *)
(* those assumptions admit has weighted sum at most ub. It rests on the    *)
(* windows encode_rec / encode_change_rec narrow down the tree, on the     *)
(* max_leaf_weight slack, and on the buffer / in_lits split.               *)
(***************************************************************************)
EnforceUBSound ==
  \A ub \in Bounds :
    LET e == EnforceUB(ub) IN
    e.ok => \A t \in SUBSET InputVars :
              SatUnder(clauses, e.assumps, t) => InputSum(t) <= ub

(***************************************************************************)
(* Completeness of enforce_ub: the clauses and the assumptions never rule  *)
(* out an assignment whose weighted sum is at most ub; an output literal   *)
(* is only ever implied by inputs that reach its value.                    *)
(***************************************************************************)
EnforceUBComplete ==
  \A ub \in Bounds :
    LET e == EnforceUB(ub) IN
    e.ok => \A t \in SUBSET InputVars :
              InputSum(t) <= ub => SatUnder(clauses, e.assumps, t)

\* The tree already encodes what encode_ub_change(minUB, maxUB) asks for:
\* no buffered input of weight <= maxUB is waiting, and the root's recorded
\* window covers [minUB + 1, maxUB + max_leaf_weight] up to max_val.
WindowCovered(minUB, maxUB) ==
  /\ \A l \in DOMAIN litBuffer : litBuffer[l] > maxUB
  /\ \/ root = NoNode
     \/ root.kind = "leaf"
     \/ /\ root.minMaxEnc # <<>>
        /\ root.minMaxEnc[1] <= minUB + 1
        /\ root.minMaxEnc[2] >= Min({maxUB + maxLeafWeight, root.maxVal})

(***************************************************************************)
(* Idempotence of encode_ub_change (testable property 3 of the spec): a    *)
(* call whose window the tree already encodes hands back no clause. The    *)
(* root may cover the window while a child's narrowed window does not     *)
(* cover what the call now derives for it, in which case the call would   *)
(* encode the child again.                                                 *)
(***************************************************************************)
ChangeIdempotent ==
  [][lastCall' = "encode_ub_change" /\ WindowCovered(lastWindow'[1], lastWindow'[2])
       => lastCnf' = {}]_vars

(***************************************************************************)
(* The contract between encode and enforce: right after encode_ub(min_ub,  *)
(* max_ub) or encode_ub_change(min_ub, max_ub) returns, enforce_ub(ub)     *)
(* answers with assumptions, not NotEncoded, for every ub in               *)
(* [min_ub, max_ub]. It rests on the window [min_ub + 1, max_ub +          *)
(* max_leaf_weight] being computed in usize, on extend_tree admitting      *)
(* exactly the inputs enforce_ub then reads as encoded, and on the root's  *)
(* min_max_enc after a recursive or incremental encode.                    *)
(***************************************************************************)
EncodedWindowEnforceable ==
  lastCall \in {"encode_ub", "encode_ub_change"} =>
    \A ub \in lastWindow[1]..lastWindow[2] : EnforceUB(ub).ok

(***************************************************************************)
(* encode_ub_change (and encode_lb_change of the inverted encoder, which  *)
(* shares this state) never hands back a clause an earlier call handed    *)
(* back.                                                                   *)
(* It rests on every node's min_max_enc recording exactly the window that  *)
(* was encoded, through tree extensions and window narrowing.              *)
(***************************************************************************)
ChangeEmitsOnlyNewClauses ==
  [][lastCall' \in {"encode_ub_change", "encode_lb_change"} =>
      lastCnf' \cap clauses = {}]_vars

(***************************************************************************)
(* encode_ub fails only with InvalidLimits (spec section 7), and a weight  *)
(* of zero is treated as absence (spec section 3): while calls remain,     *)
(* encode_ub(min_ub, max_ub) with min_ub <= max_ub returns, whatever       *)
(* weights were added. It is about the BTreeMap range queries of           *)
(* reserve_vars_from_till and encode_from_till, whose bounds are           *)
(* (Excluded(0), Excluded(max_enc)).                                       *)
(***************************************************************************)
EncodeUBReturns ==
  encodes < MaxEncodes =>
    \A lo, hi \in Bounds : lo <= hi => ENABLED EncodeUB(lo, hi)

=============================================================================
