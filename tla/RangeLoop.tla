------------------------------ MODULE RangeLoop ------------------------------
(***************************************************************************)
(* The loop LowerForRange emits for a range (bwsl_ir_lowering_control.inl, *)
(* lines 303-468): a test, the body, an addition in the iterator's type,   *)
(* and a guard against its wrapping that is left out when the compiler can *)
(* tell that it cannot.                                                    *)
(***************************************************************************)
EXTENDS RangeTypes

VARIABLES
  range,         \* the loop
  iter,          \* iterReg
  advanceValid,  \* advanceValid, TRUE throughout when the guard is left out
  at             \* "test", "body" or "end"

vars == <<range, iter, advanceValid, at>>

(* An addition and a conversion keep the low bits.                         *)
Wrap(r, x) ==
  IF x > Highest(r) THEN x - 2 * Half
  ELSE IF x < Lowest(r) THEN x + 2 * Half
  ELSE x

(* Mutant of RangeStepMayWrap: an inclusive range is taken for an          *)
(* exclusive one.                                                          *)
ExclusiveMayWrap(r) ==
  IF r.step > 0
    THEN (IF r.constantEnd THEN r.end ELSE Highest(r)) - 1 + r.step > Highest(r)
    ELSE (IF r.constantEnd THEN r.end ELSE Lowest(r)) + 1 + r.step < Lowest(r)

RangeStepMayWrap(r) ==
  LET last == (IF r.constantEnd THEN r.end ELSE Highest(r)) - (IF r.inclusive THEN 0 ELSE 1)
      first == (IF r.constantEnd THEN r.end ELSE Lowest(r)) + (IF r.inclusive THEN 0 ELSE 1)
  IN IF r.step > 0 THEN last + r.step > Highest(r) ELSE first + r.step < Lowest(r)

KnownDirection(r) == r.constantStep /\ r.step # 0

(* Mutant of Guarded: the body's assignments are not looked for.           *)
GuardedByBounds(r) == ~KnownDirection(r) \/ RangeStepMayWrap(r)

Guarded(r) == ~KnownDirection(r) \/ RangeStepMayWrap(r) \/ r.writes

Below(r, v) == IF r.inclusive THEN v <= r.end ELSE v < r.end
Above(r, v) == IF r.inclusive THEN v >= r.end ELSE v > r.end

Ascending(r) == r.step > 0
Descending(r) == ~r.stepUnsigned /\ r.step < 0

InRange(r, v) ==
  IF KnownDirection(r) THEN IF r.step > 0 THEN Below(r, v) ELSE Above(r, v)
  ELSE (Ascending(r) /\ Below(r, v)) \/ (Descending(r) /\ Above(r, v))

(* Mutant of Advanced: the addition is not brought back into the type.   *)
Unwrapped(r, v) == v + Wrap(r, r.step)

(* The step is converted to the iterator's type, then added.               *)
Advanced(r, v) == Wrap(r, v + Wrap(r, r.step))

(* Did the addition go the way of the step?                                *)
Valid(r, v, next) ==
  IF KnownDirection(r) THEN IF r.step > 0 THEN next > v ELSE next < v
  ELSE (Ascending(r) /\ next > v) \/ (Descending(r) /\ next < v)

Init ==
  /\ range \in Ranges
  /\ iter = range.start
  /\ advanceValid = TRUE
  /\ at = "test"

Test ==
  /\ at = "test"
  /\ at' = IF InRange(range, iter) /\ advanceValid THEN "body" ELSE "end"
  /\ UNCHANGED <<range, iter, advanceValid>>

(* The body, and the addition behind it.                                   *)
Turn ==
  /\ at = "body"
  /\ \E left \in LeftByBody(range, iter) :
       /\ iter' = Advanced(range, left)
       /\ advanceValid' = (Guarded(range) => Valid(range, left, iter'))
  /\ at' = "test"
  /\ UNCHANGED range

Next == Test \/ Turn

(* A shader runs on: weak fairness of its steps.                           *)
Spec == Init /\ [][Next]_vars
FairSpec == Spec /\ WF_vars(Next)

----------------------------------------------------------------------------
(* The iterator stays in its type.                                         *)
TypeOK ==
  /\ range \in Ranges
  /\ iter \in Values(range)
  /\ advanceValid \in BOOLEAN
  /\ at \in {"test", "body", "end"}

(* The value the loop is to visit next.                                    *)
Ahead == IF at = "body" \/ (at = "test" /\ advanceValid /\ InRange(range, iter)) THEN {iter} ELSE {}

Promise == INSTANCE RangeIteration WITH ahead <- Ahead

(* The loop visits the values its range has in the integers, in their      *)
(* order, and no more: no addition that wraps lets it go on, with the      *)
(* guard or where the guard was found superfluous, at the limits of either *)
(* type, for steps of either type and for a body that moves the iterator   *)
(* (lines 303-315, 330-468 against docs/spec/05, "For and Foreach").       *)
IteratesAsPromised == Promise!Spec

(* A range loop whose body leaves the iterator alone ends.                 *)
Ends == ~range.writes => <>(at = "end")
=============================================================================
