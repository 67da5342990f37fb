------------------------ MODULE FacilityLocationEncoding ------------------------
(***************************************************************************)
(* The OPB line iterator `Encoding` of                                     *)
(* src/tools/src/encodings/pb/facilitylocation.rs: each call of next()     *)
(* emits the line that next_line names and advances next_line, through a  *)
(* hint comment, a description, one objective per objective index, one    *)
(* "exactly one facility" cardinality constraint per customer and one      *)
(* "selected implies open" clause per (facility, customer), then None.     *)
(*                                                                         *)
(* The instance sizes n_objs, n_customers, n_facilities are chosen in      *)
(* Init. An emitted line is abstracted to its kind, the indices it refers  *)
(* to and the set of variable indices its literals use; the costs are left *)
(* out.                                                                    *)
(***************************************************************************)
EXTENDS Integers, Sequences, FiniteSets

CONSTANTS
  ObjCounts,       \* possible n_objs()
  CustomerCounts,  \* possible n_customers()
  FacilityCounts,  \* possible n_facilities()
  VarWidth         \* bits of u32, scaled down

ASSUME ObjCounts \cup CustomerCounts \cup FacilityCounts \subseteq Nat
ASSUME VarWidth \in Nat \ {0}

VARIABLES
  data,      \* [objs, customers, facilities]: the FacilityLocation sizes
  nextLine,  \* next_line; [kind |-> "none"] for None
  emitted    \* the lines next() has returned so far

vars == <<data, nextLine, emitted>>

None == [kind |-> "none"]

\* `x as u32`: a usize index truncated to the low VarWidth bits.
AsU32(x) == x % 2^VarWidth

\* Var::MAX_IDX = (u32::MAX - 1) / 2, scaled like u32.
MaxIdx == (2^VarWidth - 2) \div 2

\* lit! (Lit::new) panics on an index above Var::MAX_IDX: a line naming such
\* a variable is never returned, and next() has no successor state.
LitsOK(vs) == \A v \in vs : v <= MaxIdx

\* next() returns line ln, unless building its literals panicked.
Emit(ln) == LitsOK(ln.vars) /\ emitted' = Append(emitted, ln)

\* Mutant: the customer stride is n_customers instead of n_facilities.
SelectedCustomerStride(customer, facility) == AsU32(customer * data.customers + facility)

\* Variable of "customer is supplied by facility" (closure `selected`).
Selected(customer, facility) == AsU32(customer * data.facilities + facility)

\* Mutant: opening variables placed one block too far.
OpeningPastBlock(facility) == AsU32(data.facilities * (data.customers + 1) + facility)

\* Variable of "facility is open" (closure `opening`).
Opening(facility) == AsU32(data.facilities * data.customers + facility)

\* Encoding::new: next_line = Some(Line::default()), i.e. Line::Hint.
Init ==
  /\ data \in [objs : ObjCounts, customers : CustomerCounts,
               facilities : FacilityCounts]
  /\ nextLine = [kind |-> "hint"]
  /\ emitted = <<>>

\* Line::Hint: the "#variable= #constraint=" comment.
EmitHint ==
  /\ nextLine.kind = "hint"
  /\ nextLine' = [kind |-> "description"]
  /\ emitted' = Append(emitted,
                  [kind  |-> "hint",
                   nvars |-> (data.customers + 1) * data.facilities,
                   ncons |-> data.customers * (data.facilities + 1)])
  /\ UNCHANGED data

\* Line::Description: a fixed comment.
EmitDescription ==
  /\ nextLine.kind = "description"
  /\ nextLine' = [kind |-> "objective", obj |-> 0]
  /\ emitted' = Append(emitted, [kind |-> "comment"])
  /\ UNCHANGED data

\* Line::Objective(objidx): supply costs of every (customer, facility) and
\* opening costs of every facility under objective objidx.
EmitObjective ==
  /\ nextLine.kind = "objective"
  /\ LET i == nextLine.obj IN
     /\ nextLine' = IF i + 1 < data.objs THEN [kind |-> "objective", obj |-> i + 1]
                    ELSE [kind |-> "one_facility", customer |-> 0]
     /\ Emit([kind |-> "objective", obj |-> i,
             vars |-> {Selected(c, f) : c \in 0..data.customers - 1,
                                        f \in 0..data.facilities - 1}
                      \cup {Opening(f) : f \in 0..data.facilities - 1}])
  /\ UNCHANGED data

\* Mutant: the MustOpen block starts at the last customer, not at 0.
EmitOneFacilityNoReset ==
  /\ nextLine.kind = "one_facility"
  /\ LET c == nextLine.customer IN
     /\ nextLine' = IF c + 1 < data.customers
                    THEN [kind |-> "one_facility", customer |-> c + 1]
                    ELSE [kind |-> "must_open", fac |-> 0, customer |-> c]
     /\ Emit([kind |-> "card", customer |-> c,
             vars |-> {Selected(c, f) : f \in 0..data.facilities - 1}])
  /\ UNCHANGED data

\* Line::OneFacility(customer): exactly one facility supplies customer.
EmitOneFacility ==
  /\ nextLine.kind = "one_facility"
  /\ LET c == nextLine.customer IN
     /\ nextLine' = IF c + 1 < data.customers
                    THEN [kind |-> "one_facility", customer |-> c + 1]
                    ELSE [kind |-> "must_open", fac |-> 0, customer |-> 0]
     /\ Emit([kind |-> "card", customer |-> c,
             vars |-> {Selected(c, f) : f \in 0..data.facilities - 1}])
  /\ UNCHANGED data

\* Mutant: the facility is not advanced when the customers wrap around.
EmitMustOpenSameFacility ==
  /\ nextLine.kind = "must_open"
  /\ LET f == nextLine.fac
         c == nextLine.customer
     IN
     /\ nextLine' = IF c + 1 < data.customers
                    THEN [kind |-> "must_open", fac |-> f, customer |-> c + 1]
                    ELSE IF f + 1 < data.facilities
                    THEN [kind |-> "must_open", fac |-> f, customer |-> 0]
                    ELSE None
     /\ Emit([kind |-> "clause", fac |-> f, customer |-> c,
             vars |-> {Selected(c, f), Opening(f)}])
  /\ UNCHANGED data

\* Line::MustOpen(fac, customer): selected(customer, fac) -> opening(fac);
\* customers advance fastest, then facilities, then None.
EmitMustOpen ==
  /\ nextLine.kind = "must_open"
  /\ LET f == nextLine.fac
         c == nextLine.customer
     IN
     /\ nextLine' = IF c + 1 < data.customers
                    THEN [kind |-> "must_open", fac |-> f, customer |-> c + 1]
                    ELSE IF f + 1 < data.facilities
                    THEN [kind |-> "must_open", fac |-> f + 1, customer |-> 0]
                    ELSE None
     /\ Emit([kind |-> "clause", fac |-> f, customer |-> c,
             vars |-> {Selected(c, f), Opening(f)}])
  /\ UNCHANGED data

\* next() once next_line is None returns None and changes nothing.
Exhausted == nextLine = None /\ UNCHANGED vars

Next ==
  \/ EmitHint
  \/ EmitDescription
  \/ EmitObjective
  \/ EmitOneFacility
  \/ EmitMustOpen
  \/ Exhausted

Spec == Init /\ [][Next]_vars

----------------------------------------------------------------------------
(* Properties *)

Constraints == {i \in DOMAIN emitted : emitted[i].kind \in {"card", "clause"}}

TypeOK ==
  /\ data \in [objs : Nat, customers : Nat, facilities : Nat]
  /\ nextLine.kind \in {"hint", "description", "objective", "one_facility",
                        "must_open", "none"}
  /\ emitted \in Seq([kind : {"comment"}]
                        \cup [kind : {"hint"}, nvars : Nat, ncons : Nat]
                        \cup [kind : {"objective"}, obj : Nat, vars : SUBSET Nat]
                        \cup [kind : {"card"}, customer : Nat, vars : SUBSET Nat]
                        \cup [kind : {"clause"}, fac : Nat, customer : Nat,
                               vars : SUBSET Nat])

(***************************************************************************)
(* Every line next() returns refers to an existing objective, customer     *)
(* and facility, and only to variables below the #variable= count of the   *)
(* hint: the first objective, the first customer's cardinality constraint *)
(* and the first MustOpen clause are reached without checking the sizes.  *)
(***************************************************************************)
EveryLineInRange ==
  \A i \in DOMAIN emitted :
    LET ln == emitted[i] IN
    /\ ln.kind = "objective" => ln.obj < data.objs
    /\ ln.kind \in {"card", "clause"} => ln.customer < data.customers
    /\ ln.kind = "clause" => ln.fac < data.facilities
    /\ ln.kind \in {"objective", "card", "clause"} =>
         \A v \in ln.vars : v < (data.customers + 1) * data.facilities

(***************************************************************************)
(* Every line names each of its variables once: the objective one variable *)
(* per (customer, facility) and per facility, the cardinality constraint   *)
(* one per facility, the clause two. The indices are computed in usize and *)
(* cast `as u32` in the closures selected and opening, so two indices that *)
(* agree in their low 32 bits would name one variable.                     *)
(***************************************************************************)
DistinctVariables ==
  \A i \in DOMAIN emitted :
    LET ln == emitted[i] IN
    /\ ln.kind = "objective" =>
         Cardinality(ln.vars) = (data.customers + 1) * data.facilities
    /\ ln.kind = "card" => Cardinality(ln.vars) = data.facilities
    /\ ln.kind = "clause" => Cardinality(ln.vars) = 2

(***************************************************************************)
(* Once next() returns None, it has returned every objective, one          *)
(* cardinality constraint per customer and one clause per (facility,       *)
(* customer), each exactly once, and as many constraints as the hint's     *)
(* #constraint= announces.                                                 *)
(***************************************************************************)
CompleteWhenExhausted ==
  nextLine = None =>
    /\ {emitted[i].obj : i \in {j \in DOMAIN emitted : emitted[j].kind = "objective"}}
         = 0..data.objs - 1
    /\ {emitted[i].customer : i \in {j \in DOMAIN emitted : emitted[j].kind = "card"}}
         = 0..data.customers - 1
    /\ {<<emitted[i].fac, emitted[i].customer>> :
          i \in {j \in DOMAIN emitted : emitted[j].kind = "clause"}}
         = (0..data.facilities - 1) \X (0..data.customers - 1)
    /\ Len(emitted) = 2 + data.objs + data.customers
                        + data.facilities * data.customers
    /\ Cardinality(Constraints) = emitted[1].ncons

(***************************************************************************)
(* next() returns None after exactly as many lines as the file has: the    *)
(* hint, the description, one line per objective, per customer and per     *)
(* (facility, customer). With deadlock freedom this is termination of the  *)
(* iterator: the nested counters of Objective, OneFacility and MustOpen    *)
(* each advance, wrap and hand over to the next kind of line.              *)
(***************************************************************************)
TerminatesAfterAllLines ==
  LET lines == 2 + data.objs + data.customers + data.facilities * data.customers IN
  /\ Len(emitted) <= lines
  /\ Len(emitted) = lines => nextLine = None

=============================================================================
