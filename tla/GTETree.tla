------------------------------ MODULE GTETree ------------------------------
(***************************************************************************)
(* The adder tree of the generalized totalizer encoding (GTE) of          *)
(* src/src/encodings/pb/gte.rs: the `Node` enum and its methods, as pure  *)
(* operators on node values.                                               *)
(*                                                                         *)
(* A literal is a non-zero integer, -l its negation (`!l`). Output         *)
(* literals are the positive literals of variables minted by the variable  *)
(* manager, whose next free variable is threaded through every operator   *)
(* that mints (`var_manager.next_free()`).                                 *)
(*                                                                         *)
(* A leaf is [kind |-> "leaf", lit, weight]. An internal node carries      *)
(* out_lits (a function from output value to literal, the BTreeMap),      *)
(* depth, n_clauses, max_val, min_max_enc (<<>> for None, <<lo, hi>> for   *)
(* Some) and its two children. A clause (ll /\ ...) -> m is the record     *)
(* [pre |-> {ll, ...}, post |-> m].                                        *)
(*                                                                         *)
(* The recursive encoders return a record [node, cnf, count, next]: the    *)
(* updated node, the set of clauses emitted, the number of clauses emitted *)
(* (the length of the returned CNF, duplicates included) and the next free *)
(* variable.                                                               *)
(***************************************************************************)
EXTENDS Integers, Sequences, FiniteSets, SequencesExt, TLC

NoNode == [kind |-> "none"]

Clause(pre, post) == [pre |-> pre, post |-> post]

LOCAL MinOf(a, b) == IF a < b THEN a ELSE b
LOCAL MaxOf(a, b) == IF a > b THEN a ELSE b

----------------------------------------------------------------------------
(* Construction and accessors *)

NewLeaf(lit, weight) == [kind |-> "leaf", lit |-> lit, weight |-> weight]

GetDepth(n) == IF n.kind = "leaf" THEN 1 ELSE n.depth

MaxVal(n) == IF n.kind = "leaf" THEN n.weight ELSE n.maxVal

NewInternal(left, right) ==
  [kind      |-> "internal",
   outLits   |-> <<>>,
   depth     |-> MaxOf(GetDepth(left), GetDepth(right)) + 1,
   nClauses  |-> 0,
   minMaxEnc |-> <<>>,
   maxVal    |-> MaxVal(left) + MaxVal(right),
   left      |-> left,
   right     |-> right]

\* The output map of a child: a leaf is the singleton {weight -> lit}.
GetChildLitMap(n) == IF n.kind = "leaf" THEN n.weight :> n.lit ELSE n.outLits

----------------------------------------------------------------------------
(* The ranges of encode_from_till and reserve_vars_from_till *)

\* Keys of a child map in [lo, hi].
KeysIn(m, lo, hi) == {v \in DOMAIN m : lo <= v /\ v <= hi}

\* The pairs (left_val, right_val) the sum loop visits: left_val in (0, hi),
\* right_val in [lo - left_val (or 0), hi - left_val], sum in [lo, hi].
SumPairs(L, R, lo, hi) ==
  {p \in (DOMAIN L) \X (DOMAIN R) :
     LET a == p[1]  b == p[2] IN
     /\ 0 < a /\ a < hi
     /\ MaxOf(lo - a, 0) <= b /\ b <= hi - a
     /\ lo <= a + b /\ a + b <= hi}

\* A set of integers in ascending order (BTreeMap key order).
RECURSIVE Ascending(_)
Ascending(S) ==
  IF S = {} THEN <<>>
  ELSE LET m == CHOOSE x \in S : \A y \in S : x <= y IN <<m>> \o Ascending(S \ {m})

\* The sums in the order the sum loop visits them: left value major, right
\* value minor.
SumOrder(P) ==
  FoldLeft(LAMBDA acc, a : acc \o Ascending({a + p[2] : p \in {q \in P : q[1] = a}}),
           <<>>, Ascending({p[1] : p \in P}))

\* The output values in the order reserve_vars_from_till visits them: left
\* values, right values, then the sums.
ReserveOrder(L, R, lo, hi) ==
  Ascending(KeysIn(L, lo, hi)) \o Ascending(KeysIn(R, lo, hi))
    \o SumOrder(SumPairs(L, R, lo, hi))

\* Mint a fresh positive literal for every value of vals not yet in out.
RECURSIVE Mint(_, _, _)
Mint(vals, out, next) ==
  IF vals = <<>> THEN <<out, next>>
  ELSE IF Head(vals) \in DOMAIN out THEN Mint(Tail(vals), out, next)
  ELSE Mint(Tail(vals), out @@ (Head(vals) :> next), next + 1)

\* Store the minted map r[1] as the node's out_lits.
WithOutLits(n, r) == <<[n EXCEPT !.outLits = r[1]], r[2]>>

\* Node::reserve_vars_from_till; returns <<node, next>>. Its sum loop asks
\* left_lits.range((Excluded(0), Excluded(hi))), which panics for hi = 0
\* (see ReserveRangePanics); this is the result of the calls that do not.
ReserveVarsFromTill(n, lo, hi, next) ==
  IF n.kind = "leaf" THEN <<n, next>>
  ELSE WithOutLits(n, Mint(ReserveOrder(GetChildLitMap(n.left),
                                        GetChildLitMap(n.right), lo, hi),
                           n.outLits, next))

\* BTreeMap::range panics on a range whose bounds are equal and both
\* excluded, unless the map never held a key (it has no root node then):
\* the sum loops of reserve_vars_from_till and encode_from_till panic at an
\* internal node when max_enc = 0 and the left child's map is non-empty.
ReserveRangePanics(n, hi) ==
  n.kind = "internal" /\ hi = 0 /\ DOMAIN GetChildLitMap(n.left) # {}

\* Node::reserve_all_vars_rec panics: in a child, or at the node itself over
\* [0, max_val]. Tested on the node before its children are reserved: a
\* left child that is internal with no out_lits yet and max_val 0 panics
\* itself, and with max_val > 0 the node's max_val is not 0.
RECURSIVE ReserveAllVarsRecPanics(_)
ReserveAllVarsRecPanics(n) ==
  /\ n.kind = "internal"
  /\ \/ ReserveAllVarsRecPanics(n.left)
     \/ ReserveAllVarsRecPanics(n.right)
     \/ ReserveRangePanics(n, n.maxVal)

\* Node::reserve_all_vars
ReserveAllVars(n, next) ==
  IF n.kind = "leaf" THEN <<n, next>> ELSE ReserveVarsFromTill(n, 0, n.maxVal, next)

\* Node::reserve_all_vars_rec: children first, then this node. The results
\* of the children, l and r, are passed on as arguments.
RECURSIVE ReserveAllVarsRec(_, _), ReserveRightThenSelf(_, _)

ReserveSelf(n, l, r) == ReserveAllVars([n EXCEPT !.left = l[1], !.right = r[1]], r[2])

ReserveRightThenSelf(n, l) == ReserveSelf(n, l, ReserveAllVarsRec(n.right, l[2]))

ReserveAllVarsRec(n, next) ==
  IF n.kind = "leaf" THEN <<n, next>>
  ELSE ReserveRightThenSelf(n, ReserveAllVarsRec(n.left, next))

----------------------------------------------------------------------------
(* The encoding kernel. Results of sub-encodings are records              *)
(* [node, cnf, count, next, panic] handed to the next step as arguments;  *)
(* panic records that one of the calls panicked, so the encode call that  *)
(* made it has no successor state.                                         *)

Unchanged(n, next) ==
  [node |-> n, cnf |-> {}, count |-> 0, next |-> next, panic |-> FALSE]

\* The three loops of encode_from_till over node m with child maps L, R.
AdderClauses(m, L, R, lo, hi, next) ==
  LET O == m.outLits
      A == KeysIn(L, lo, hi)
      B == KeysIn(R, lo, hi)
      P == SumPairs(L, R, lo, hi)
  IN [node  |-> m,
      cnf   |-> {Clause({L[a]}, O[a]) : a \in A}
                  \cup {Clause({R[b]}, O[b]) : b \in B}
                  \cup {Clause({L[p[1]], R[p[2]]}, O[p[1] + p[2]]) : p \in P},
      count |-> Cardinality(A) + Cardinality(B) + Cardinality(P),
      next  |-> next,
      panic |-> FALSE]

\* encode_from_till after reserving: a leaf, or a window above max_val,
\* yields no clauses.
EncodeReserved(r, lo, hi) ==
  IF r[1].kind = "leaf" \/ lo > r[1].maxVal THEN Unchanged(r[1], r[2])
  ELSE AdderClauses(r[1], GetChildLitMap(r[1].left), GetChildLitMap(r[1].right),
                    lo, hi, r[2])

\* Node::encode_from_till: reserve the output variables of [lo, hi], then
\* emit left, right and sum implications into them; the reservation
\* panics for hi = 0 at an internal node with a non-empty left map.
EncodeFromTill(n, lo, hi, next) ==
  IF lo > hi THEN Unchanged(n, next)
  ELSE IF ReserveRangePanics(n, hi) THEN [Unchanged(n, next) EXCEPT !.panic = TRUE]
  ELSE EncodeReserved(ReserveVarsFromTill(n, lo, hi, next), lo, hi)

\* Fault-injection variants of ComputeRequiredMinEnc: the leaf-sibling case
\* without its slack of one, and the internal-sibling case with its
\* subtraction unguarded.
ComputeRequiredMinEncNoSlack(minReq, maxReq, sibling) ==
  IF sibling.kind = "leaf"
  THEN IF minReq > 2 THEN minReq ELSE 1
  ELSE IF maxReq < sibling.maxVal
       THEN IF minReq > maxReq THEN minReq - maxReq ELSE 1
       ELSE IF minReq > sibling.maxVal THEN minReq - sibling.maxVal ELSE 1

ComputeRequiredMinEncUnguarded(minReq, maxReq, sibling) ==
  IF sibling.kind = "leaf"
  THEN IF minReq > 2 THEN minReq - 1 ELSE 1
  ELSE IF maxReq < sibling.maxVal
       THEN minReq - maxReq
       ELSE IF minReq > sibling.maxVal THEN minReq - sibling.maxVal ELSE 1

\* Node::compute_required_min_enc: the lowest value a child must encode,
\* given the window requested of its parent and its sibling.
ComputeRequiredMinEnc(minReq, maxReq, sibling) ==
  IF sibling.kind = "leaf"
  THEN IF minReq > 2 THEN minReq - 1 ELSE 1
  ELSE IF maxReq < sibling.maxVal
       THEN IF minReq > maxReq THEN minReq - maxReq ELSE 1
       ELSE IF minReq > sibling.maxVal THEN minReq - sibling.maxVal ELSE 1

\* Two encoding steps in sequence: clauses and counts add up.
Seq2(a, b) == [node |-> b.node, cnf |-> a.cnf \cup b.cnf,
               count |-> a.count + b.count, next |-> b.next,
               panic |-> a.panic \/ b.panic]

\* The end of encode_rec: record the window [lo, min(max_val, hi)] (over
\* whatever was recorded before), count the local clauses, and return the
\* children's clauses l, r with the local ones loc.
EncodeRecJoin(l, r, loc, lo, hi) ==
  [node  |-> [loc.node EXCEPT !.minMaxEnc = <<lo, MinOf(loc.node.maxVal, hi)>>,
                              !.nClauses = @ + loc.count],
   cnf   |-> l.cnf \cup r.cnf \cup loc.cnf,
   count |-> l.count + r.count + loc.count,
   next  |-> loc.next,
   panic |-> l.panic \/ r.panic \/ loc.panic]

\* Node::encode_rec: encode the left child, then the right child, over
\* their narrowed windows, then this node over [lo, hi].
RECURSIVE EncodeRec(_, _, _, _), EncodeRecRight(_, _, _, _)

EncodeRecLocal(n, lo, hi, l, r) ==
  EncodeRecJoin(l, r, EncodeFromTill([n EXCEPT !.left = l.node, !.right = r.node],
                                     lo, hi, r.next), lo, hi)

EncodeRecRight(n, lo, hi, l) ==
  EncodeRecLocal(n, lo, hi, l,
                 EncodeRec(n.right, ComputeRequiredMinEnc(lo, hi, n.left), hi, l.next))

EncodeRec(n, lo, hi, next) ==
  IF n.kind = "leaf" THEN Unchanged(n, next)
  ELSE EncodeRecRight(n, lo, hi,
                      EncodeRec(n.left, ComputeRequiredMinEnc(lo, hi, n.right), hi, next))

\* Mutant: the part above the recorded window starts at old[2] itself.
Seq2AboveFromOld(below, hi, old) ==
  Seq2(below, IF hi > old[2]
              THEN EncodeFromTill(below.node, old[2], hi, below.next)
              ELSE Unchanged(below.node, below.next))

\* The part of encode_change_rec above the recorded window old, after the
\* part below it produced below.
Seq2Above(below, hi, old) ==
  Seq2(below, IF hi > old[2]
              THEN EncodeFromTill(below.node, old[2] + 1, hi, below.next)
              ELSE Unchanged(below.node, below.next))

\* Fault-injection variant of EncodeOutsideWindow: the part below the recorded
\* window runs up to old[1] instead of old[1] - 1.
EncodeOutsideWindowOverlap(c, lo, hi, old, next) ==
  IF old = <<>> THEN EncodeFromTill(c, lo, hi, next)
  ELSE Seq2Above(IF lo < old[1] THEN EncodeFromTill(c, lo, old[1], next)
                 ELSE Unchanged(c, next), hi, old)

\* The local part of Node::encode_change_rec: encode the whole window when
\* nothing is recorded, else only below and above the recorded window old.
EncodeOutsideWindow(c, lo, hi, old, next) ==
  IF old = <<>> THEN EncodeFromTill(c, lo, hi, next)
  ELSE Seq2Above(IF lo < old[1] THEN EncodeFromTill(c, lo, old[1] - 1, next)
                 ELSE Unchanged(c, next), hi, old)

\* The end of encode_change_rec: widen the recorded window old by [lo, hi],
\* capped at max_val, and collect the clauses.
EncodeChangeJoin(l, r, loc, lo, hi, old) ==
  [node  |-> [loc.node EXCEPT
                !.minMaxEnc = IF old = <<>> THEN <<lo, MinOf(hi, loc.node.maxVal)>>
                              ELSE <<MinOf(lo, old[1]),
                                     MinOf(loc.node.maxVal, MaxOf(hi, old[2]))>>,
                !.nClauses = @ + loc.count],
   cnf   |-> l.cnf \cup r.cnf \cup loc.cnf,
   count |-> l.count + r.count + loc.count,
   next  |-> loc.next,
   panic |-> l.panic \/ r.panic \/ loc.panic]

\* Node::encode_change_rec: as encode_rec, but encode only the parts of
\* [lo, hi] outside the recorded window, and widen the record.
RECURSIVE EncodeChangeRec(_, _, _, _), EncodeChangeRight(_, _, _, _)

EncodeChangeLocal(n, lo, hi, l, r) ==
  EncodeChangeJoin(l, r,
                   EncodeOutsideWindow([n EXCEPT !.left = l.node, !.right = r.node],
                                       lo, hi, n.minMaxEnc, r.next),
                   lo, hi, n.minMaxEnc)

EncodeChangeRight(n, lo, hi, l) ==
  EncodeChangeLocal(n, lo, hi, l,
                    EncodeChangeRec(n.right, ComputeRequiredMinEnc(lo, hi, n.left), hi, l.next))

EncodeChangeRec(n, lo, hi, next) ==
  IF n.kind = "leaf" THEN Unchanged(n, next)
  ELSE EncodeChangeRight(n, lo, hi,
                         EncodeChangeRec(n.left, ComputeRequiredMinEnc(lo, hi, n.right), hi, next))

\* GeneralizedTotalizer::build_tree: split at len / 2 and recurse.
RECURSIVE BuildTree(_)
BuildTree(lits) ==
  IF Len(lits) = 1 THEN NewLeaf(lits[1][1], lits[1][2])
  ELSE LET split == Len(lits) \div 2
       IN NewInternal(BuildTree(SubSeq(lits, 1, split)),
                      BuildTree(SubSeq(lits, split + 1, Len(lits))))

----------------------------------------------------------------------------
(* Meaning of a CNF of implications, for checking the encoding *)

\* Truth of a literal when exactly the variables in t are true.
Holds(lit, t) == IF lit > 0 THEN lit \in t ELSE -lit \notin t

\* The least set of variables containing t and closed under the clauses:
\* every clause has a positive conclusion, so this is the least model
\* extending the input assignment t.
RECURSIVE LeastModel(_, _)
LeastModel(cnf, t) ==
  LET t2 == t \cup {c.post : c \in {c \in cnf : \A p \in c.pre : Holds(p, t)}}
  IN IF t2 = t THEN t ELSE LeastModel(cnf, t2)

\* The clauses with the assumptions are satisfiable under input assignment t.
\* The conclusions are fresh variables, so the least model is the one that
\* satisfies the most negative assumptions.
SatUnder(cnf, assumps, t) ==
  LET model == LeastModel(cnf, t) IN \A a \in assumps : Holds(a, model)

\* Well-formed nodes (the type of a tree).
RECURSIVE IsNode(_)
IsNode(n) ==
  \/ /\ n.kind = "leaf"
     /\ n.lit \in Int \ {0}
     /\ n.weight \in Nat
  \/ /\ n.kind = "internal"
     /\ DOMAIN n.outLits \subseteq Nat
     /\ \A v \in DOMAIN n.outLits : n.outLits[v] \in Nat \ {0}
     /\ n.depth \in Nat /\ n.nClauses \in Nat /\ n.maxVal \in Nat
     /\ n.minMaxEnc \in {<<>>} \cup (Nat \X Nat)
     /\ IsNode(n.left) /\ IsNode(n.right)

=============================================================================
