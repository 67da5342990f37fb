# TLA+ models of rustsat's Generalized Totalizer and facility-location encoding

These modules model two parts of the repository:

- the Generalized Totalizer Encoding (GTE) of pseudo-Boolean constraints, in `src/src/encodings/pb/gte.rs`;
- the OPB line iterator of the facility-location benchmark generator, in `src/tools/src/encodings/pb/facilitylocation.rs`.

Every definition is translated from those files. `PROJECT.json` maps each definition to the lines it models.

## The system

### GTE (`gte.rs`)

- **Node** (868-1252) is a binary adder tree.
  - A leaf is `(lit, weight)`.
  - An internal node has these fields:
    - `out_lits`: an ordered map from value to output literal;
    - `depth`, `max_val` and `n_clauses`;
    - `min_max_enc`: the window of values encoded so far;
    - two children.
  - `encode_from_till(lo, hi)` is the kernel. It first reserves output variables for [lo, hi], then emits three kinds of clause:
    - `left_out[v] -> out[v]`;
    - `right_out[v] -> out[v]`;
    - `left_out[a] /\ right_out[b] -> out[a+b]`.
  - `encode_rec` encodes a whole subtree from scratch and overwrites `min_max_enc`.
  - `encode_change_rec` encodes only below and above the recorded window, then widens it.
  - `compute_required_min_enc` narrows a child's window using the sibling's values.
- **GeneralizedTotalizer** (35-281, 475-483) is the upper-bound encoder.
  - `add` puts inputs into `lit_buffer`.
  - `encode_ub` and `encode_ub_change` first call `extend_tree`. It admits the buffered inputs of weight at most `max_ub`, sorted by weight, builds a tree over them with `build_tree` and joins it to the root. In reserving mode it then reserves every variable. Finally the root is encoded for [min_ub+1, max_ub+max_leaf_weight].
  - `enforce_ub(ub)` returns the assumptions that make sum <= ub:
    - inputs heavier than ub are assumed false;
    - root outputs in (ub, ub+max_leaf_weight] are assumed false;
    - if a buffered input of weight <= ub is still unencoded, it returns `NotEncoded`.
- **InvertedGeneralizedTotalizer** (492-757) is the lower-bound encoder. It applies the same tree to negated inputs with `lb` converted to `W - lb`.
- **DoubleGeneralizedTotalizer** (759-859) holds one encoder of each kind.
- The variable manager and the CNF type are outside this repository.
  - The variable manager is modelled as a counter `nextFree`.
  - The CNF is modelled as a set of `[pre, post]` Horn implications; every clause the GTE emits has that form.

The components interact in a fixed way. Callers interleave `add`, `encode_ub[_change]` and `enforce_ub`. Each encode call extends the tree, and its clauses are appended to the solver. `enforce_ub` reads the tree, the buffer and `max_leaf_weight` that the last encode call left behind. In `DoubleGeneralizedTotalizer` the two encoders interact only through the caller's variable manager and solver: their encode calls interleave in any order, and their clauses meet in one solver.

### Facility-location iterator (`facilitylocation.rs`)

`Encoding::next` is a state machine over `next_line`. It emits, in order:

1. a hint comment `#variable= #constraint=`;
2. a description comment;
3. one objective per objective index;
4. one `exactly one facility` cardinality constraint per customer;
5. one clause `selected(c,f) -> opening(f)` per (facility, customer);
6. then `None`.

## Modules

| Module | Models | State, actions |
|---|---|---|
| `GTETree` | `Node` and its operations, `build_tree` | Pure operators. Each encode operator returns `[node, cnf, count, next, panic]`: the new node, its clauses, the clause count, the next free variable, and whether a call panicked. `BTreeMap::range` panics on the range `(Excluded(0), Excluded(0))` once the map holds a key. `reserve_vars_from_till` and `encode_from_till` ask for it at an internal node with `max_enc = 0` (`ReserveRangePanics`). An encode step whose result has `panic` set has no successor state, like a call that panics. Also contains `LeastModel`/`SatUnder`, the Horn semantics the properties use. |
| `GeneralizedTotalizer` | `GeneralizedTotalizer` | Variables `inLits`, `litBuffer`, `root`, `reserveVars`, `maxLeafWeight`, `totalWeight`, `nVars`, `nClauses`, `nextFree`, `clauses` (everything emitted so far), plus the history variables `lastCnf`, `lastCall` and `lastWindow` (the clauses, name and arguments of the latest call). The constants `Width` and `OverflowChecks` give the usize width and the build. Actions `Add`, `EncodeUB` and `EncodeUBChange`. Each encode action includes `extend_tree` with `\E` over the orders the HashMap may produce for equal weights. `EnforceUB` is an operator because `enforce_ub` does not change state. |
| `MCGeneralizedTotalizer` | instantiation | Three input literals, fresh variables from 4. |
| `PBConstraint` | abstract specification | The weighted sum an encoder maintains: `weights` (literal to summed weight) and `total`. Action `AddWeights`. `GeneralizedTotalizer` implements it under `weights <- in_lits (+) lit_buffer`, `total <- total_weight` (`ImplementsPBConstraint`). |
| `InvertedGeneralizedTotalizer` | `InvertedGeneralizedTotalizer` | The same variables as `GeneralizedTotalizer`, whose operators it takes by `INSTANCE` (`GT!`). `Init` and `Add` are shared. `EncodeLB` and `EncodeLBChange` convert the window with `ConvertLbUbOr0` (`convert_lb_ub(..).unwrap_or(0)`) and run the shared encode step `GT!EncodeTree` with negated leaves. `EnforceLB` returns `Unsat` when `total_weight <= lb`, and otherwise applies the `enforce_ub` checks to `W - lb` with the over-weight inputs assumed true. |
| `MCInvertedGeneralizedTotalizer` | instantiation | As above. |
| `DoubleGeneralizedTotalizer` | `DoubleGeneralizedTotalizer` | `UB` and `LB` are instances of the two encoders. Their own fields are renamed (`...U`, `...L`). They share `reserveVars`, `nextFree` (one variable manager), `clauses` (one solver) and the call budgets. `Add` steps both; every encode action steps one encoder and leaves the other's fields unchanged. |
| `MCDoubleGeneralizedTotalizer` | instantiation | As above. |
| `GTEDeterminism` | two runs of one trace | Two `GeneralizedTotalizer` instances with renamed variables. Every step makes the same call in both. Each copy picks its own HashMap tie order, as two processes do, because std `HashMap` is seeded per process. |
| `MCGTEDeterminism` | instantiation | As above. |
| `GTEIncrementalBuilding` | the test `ub_gte_incremental_building` (gte.rs 1439-1458), generalised | Two `GeneralizedTotalizer` instances, `One` (variables `...O`) and `Inc` (`...I`), each with its own variable manager. `AddBoth` makes the same add on both before any encode. `FirstEncode` is Inc's `encode_ub(lo, hi)`. `SecondEncode` is Inc's `encode_ub_change(lo2, hi2)` together with One's single `encode_ub` over the hull `[min(lo, lo2), max(hi, hi2)]`. |
| `MCGTEIncrementalBuilding` | instantiation | As above. |
| `FacilityLocationEncoding` | `Encoding` | `data` (the three sizes, chosen in `Init`), `nextLine`, `emitted`. One action per match arm of `next`. A line is abstracted to its kind, indices and variable set. |

In `GTETree` and `GeneralizedTotalizer`, the result of a sub-encoding (`[node, cnf, count, next, panic]`) is passed as an argument to a small join operator, such as `EncodeRecJoin` or `Encoded`. It is not bound in a LET and read several times. The reason is TLC's profiler (`-coverage`): it expands a LET definition once per use, so the nested encoders would cost exponential time before checking starts.

## Properties and runs

`GeneralizedTotalizer` states the following properties:

- **`EnforceUBSound`**: whenever `enforce_ub(ub)` succeeds, every input assignment that the emitted clauses and the assumptions allow has weight at most ub. This is decided through the least model of the Horn clauses, for every assignment of the inputs.
- **`EnforceUBComplete`**: every assignment of weight at most ub is allowed.
- **`ChangeEmitsOnlyNewClauses`** (an action property): an `encode_ub_change` step emits no clause that an earlier call already emitted.
- **`EncodedWindowEnforceable`**: right after `encode_ub(min_ub, max_ub)` or `encode_ub_change`, enforce_ub(ub) answers with assumptions, not NotEncoded, for every ub in [min_ub, max_ub]. This is the contract between encode and enforce. It reads the history variable `lastWindow`, the arguments of the latest encode call.
- **`ChangeIdempotent`** (an action property; spec property 3): an `encode_ub_change` whose window the tree already covers hands back no clause. "Covers" means that no buffered input is admitted and that the root's recorded window spans the requested one up to `max_val`.
- **`ImplementsPBConstraint`** (refinement): add and extend_tree keep the weighted sum of `PBConstraint`. This holds whichever way the inputs are split between tree and buffer, and across re-adds.
- **`EncodeUBReturns`**: while calls remain, `encode_ub(min_ub, max_ub)` with `min_ub <= max_ub` returns, whatever weights were added. The spec says encode_ub fails only with InvalidLimits, and that a zero weight is treated as absence. The property uses `ENABLED`: a call that panics has no successor.
- **`TypeOK`**.

`InvertedGeneralizedTotalizer` states these (the first two are checked in the run of the double encoder, beside the upper-bound tree's clauses):

- **`EnforceLBSound`** and **`EnforceLBComplete`**: enforce_lb(lb) admits exactly the assignments of weight at least lb.
- **`UnsatOnlyIfUnreachable`**: Unsat is reported only when no assignment reaches lb.

`DoubleGeneralizedTotalizer` states these:

- **`BoundsTogether`**: with enforce_ub(ub) and enforce_lb(lb) both succeeding, all clauses of both trees admit exactly the assignments with lb <= sum <= ub.
- **`EnforceLBSound`** and **`EnforceLBComplete`**, those of `lb_gte`, over the clauses of both trees.

`GTEDeterminism` states **`SameClauses`**: both runs hand back the same clauses and use the same variables.

`GTEIncrementalBuilding` states **`HullSameClauseCount`** (spec property 2 and scenario F, the assertions of the test): after the second call, Inc has handed back and counted as many clauses as One, and `n_clauses` equals the number of clauses handed back.

`FacilityLocationEncoding` states these:

- **`EveryLineInRange`**: every line refers to existing indices, and to variables below the `#variable=` count.
- **`CompleteWhenExhausted`**: once `None` is reached, every objective, customer and pair has been emitted exactly once, and the constraint count matches the hint.
- **`DistinctVariables`**: no line names one variable twice. The closures `selected` and `opening` cast their usize index `as u32`, which is modelled by `AsU32` at a scaled width `VarWidth`. `lit!` then panics on an index above `Var::MAX_IDX = (u32::MAX - 1) / 2` (`MaxIdx`, `LitsOK`), so a line naming such a variable is never returned. An index that `as u32` truncates first crosses `MAX_IDX`, inside the same objective line, so the iterator panics before any aliasing line is returned. The property therefore checks the index layout of `selected` and `opening`.
- **`TerminatesAfterAllLines`**: `next()` returns `None` after exactly the file's number of lines: hint, description, one line per objective, per customer and per (facility, customer). The properties above are all vacuous for an iterator that never reaches `None` while every line it returns is in range. This one is not.
- **`TypeOK`** (defined, and not checked by a run).

| Run | cfg | Expect | Bounds | Shows |
|---|---|---|---|---|
| gte_incremental | MCGTE_incremental.cfg | pass | 3 literals, weights {1,2}, bounds 0..2, 2 adds, 2 encode_ub_change calls, literals may be re-added | Incremental encoding is complete and never re-emits a clause. Every bound of the window just encoded is enforceable. The encoder refines `PBConstraint`. |
| gte_unit_sound | MCGTE_unit.cfg | pass | weights {0,1}, bounds 0..3, 2 adds, 3 encodes of both kinds, reserving and not | In the cardinality case, with zero-weight leaves too, enforce_ub is sound. encode_ub_change over a covered window emits nothing. A reserving encoder that would panic on zero weights (see gte_zero_reserve) takes no step. |
| gte_zero_reserve | MCGTE_zero.cfg | violation | weights {0,1}, bounds 0..1, reserving | Finding: after adding two inputs of weight 0, a reserving encoder panics in every encode_ub (gte.rs:1175). |
| gte_overflow | MCGTE_overflow.cfg | violation | usize of 3 bits, release build, 1 add, encode_ub up to usize::MAX | Finding: `max_ub + max_leaf_weight` wraps (gte.rs:190), so the encoded window is empty and enforce_ub(0) is NotEncoded. |
| inv_gte_unsat | MCInvGTE_unsat.cfg | violation | unit weights, 1 add, 1 encode | Finding: enforce_lb(total_weight), and even enforce_lb(0) with no inputs, is Unsat although reachable (gte.rs:565). |
| double_gte | MCDoubleGTE.cfg | pass | unit weights, bounds 0..2, 2 adds, 2 encodes of the four kinds, reserving and not | Both bounds hold together over one variable manager and one solver. enforce_lb is sound and complete, including lb above the total weight (which `unwrap_or(0)` maps to internal bound 0). |
| gte_hull | MCGTEHull.cfg | violation | unit weights, bounds 0..2, 1 add, encode_ub then encode_ub_change against one encode_ub | Finding: an encode_ub in which no input fits records no window (gte.rs:189). The following encode_ub_change then encodes less than one encode_ub over the hull. |
| gte_determinism | MCGTEDeterminism.cfg | violation | unit weights, 1 add, 1 encode_ub | Finding: tie order from the HashMap (gte.rs:91) makes two runs of one trace emit different clauses, against the determinism contract of the spec. |
| gte_sound | MCGTE_sound.cfg | violation | weights {2,3}, 1 add, 1 encode | Finding: the leaf slack at gte.rs:1232 makes enforce_ub unsound. |
| gte_mixed | MCGTE_mixed.cfg | violation | unit weights, 3 encodes of both kinds | Finding: encode_rec shrinks the window (gte.rs:1065), so encode_ub_change re-emits clauses. |
| fl_complete | MCFacilityLocation_ok.cfg | pass | every size in 1..3, u32 of 5 bits | The iterator emits a complete, in-range file, names distinct variables, and returns None after the last line. |
| fl_zero_size | MCFacilityLocation_empty.cfg | violation | sizes in 0..1 | Finding: with a size of 0, lines still refer to index 0. |

Why these bounds are enough:

- **Three literals.** This is the smallest input that gives a tree with an internal child under the root. Such a child is where window narrowing and leaf-sibling slack matter.
- **Weights {1,2} and {2,3}.** These give ties, which exercise the tie orders, and a leaf weight larger than 1.
- **Two to three encode calls.** This is enough to shrink the window and then widen it again, which is the sequence of the `gte_mixed` finding.
- **Unit weights for the composition and for determinism.** Three equal weights give the smallest tie that changes the tree shape (one leaf against a pair). Bounds 0..2 in `double_gte` reach lb = W when fewer than three literals are added, and ub below and above every sum.
- **The hull run.** One add and two encode calls are the whole setting of spec property 2. Unit weights and bounds 0..2 give an empty first window (bound 0) as well as windows that admit every input.
- **Scaled integer widths.** `Width` (usize) and `VarWidth` (u32) are constants. The passing runs use 8 and 5 bits, where no value wraps and no variable index passes `MaxIdx`. `gte_overflow` uses 3 bits, the smallest width at which a bound wraps while the tree is still nontrivial. `GeneralizedTotalizer` assumes twice the largest total weight fits in usize, so only the caller's bounds can wrap. The build is the constant `OverflowChecks`: release wraps, and debug panics, which gives the overflowing call no successor state.
- **Sizes up to 3 for the iterator.** Each size's last-element branch and its advance branch are then both taken.

The GTE runs set `CHECK_DEADLOCK FALSE` because the call budgets (`MaxAdds`, `MaxEncodes`) end every behaviour. The facility-location run keeps deadlock checking: `next()` after `None` is a stuttering step, and the model does not stop.

No fairness is assumed and no temporal liveness property is checked. The iterator's termination is stated as the safety property `TerminatesAfterAllLines` (a bound on the lines before `None`), which, with the run's deadlock check, needs no assumption that the caller keeps calling `next()`. The encoders are passive, single-threaded libraries (spec section 5): every call runs to completion inside one step, and nothing in the code obliges a caller to make another call. The only thing that must eventually happen is that a call returns, and the recursive operators terminate on every tree TLC builds.

## Not modelled, and why

- Formatting of OPB lines, costs, and the `FacilityLocation` data: these are outside this repository or are pure I/O.
- `n_clauses` of `EncodeStats` and `get_depth`: these are read-only sums and getters. `n_clauses` counts the clauses handed back, and `encode_ub` re-encodes from scratch by design, so it is no count of distinct clauses that a property could pin down.
- The tests (`src/tests/cnf.rs`, `src/batsat/tests/small.rs`): they drive external solvers. Of the gte.rs tests, `ub_gte_incremental_building` is modelled by `GTEIncrementalBuilding`. The others fix clause counts of single scenarios. The lower-bound twin `lb_gte_incremental_building` would need a thirteenth run.
- The commented-out generic GTE (gte.rs 284-473): it is never compiled.
- `usize` overflow inside the tree and in `total_weight`, and in enforce_ub's `ub + max_leaf_weight`. These need a total weight near `usize::MAX`, which the model excludes by assumption. The caller's bounds near `usize::MAX` are modelled.

## Findings

1. gte.rs:1232: the leaf slack of 1 in `compute_required_min_enc` makes enforce_ub unsound for leaf weights above 1 (run `gte_sound`).
2. gte.rs:1065: `encode_rec` shrinks `min_max_enc`, so a following `encode_ub_change` re-emits clauses (run `gte_mixed`).
3. gte.rs:565: `convert_lb_ub` reports Unsat for lb = W. Spec lines 214 and 226 say otherwise; line 161 agrees with the code (run `inv_gte_unsat`).
4. gte.rs:91: the tie order in `extend_tree` breaks the determinism contract of spec line 179 (run `gte_determinism`).
5. facilitylocation.rs:63 (and 87, 99): the unconditional moves to the first line of each block mean that zero sizes still emit lines with index 0 (run `fl_zero_size`).
6. gte.rs:190: in a release build, `encode_ub(lo, usize::MAX)` wraps and encodes an empty window. A debug build panics (run `gte_overflow`).
7. gte.rs:1175: in reserving mode, two inputs of weight 0 form an internal node with `max_val` 0. Reserving its variables asks `left_lits.range((Excluded(0), Excluded(0)))`, which panics, so every `encode_ub` panics after `add {x1:0, x2:0}` (run `gte_zero_reserve`). The spec says a zero weight is treated as absence (spec.md:35) and that encode_ub fails only with InvalidLimits (spec.md:200). The same range is asked at an internal root when a release build wraps the window of `encode_ub(usize::MAX, usize::MAX)` to [0, 0]. This is modelled, but no run shows it. The panic is that of `BTreeMap::range` for equal excluded bounds. It was not reproduced by running the code.
8. gte.rs:189: spec property 2 does not hold. With two unit inputs, `encode_ub(0, 0)` admits no input, returns nothing and records no window. `encode_ub_change(1, 1)` then encodes output 2 only (1 clause), and `enforce_ub(0)` is NotEncoded. One `encode_ub(0, 1)` encodes outputs 1 and 2 (3 clauses). Run `gte_hull` shows this. An exploratory check of the same module with weights {1, 2} and bounds 1..3 found a second cause. When the second call admits heavier inputs, extend_tree joins them under a new root (gte.rs 96-105) rather than building the one-shot tree. The counts then differ (8 against 10 clauses for weights 1, 1, 2), even though the windows are nested. The test `ub_gte_incremental_building` avoids both causes: its first window admits no input and shares the hull's lower end.

## Open directions

1. Spec property 1 (monotone threshold semantics of the root outputs) as an invariant over the least model.
2. The lower-bound twin of `GTEIncrementalBuilding` (`lb_gte_incremental_building`), which would need a run slot.
