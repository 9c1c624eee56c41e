--------------------------- MODULE RangeIteration ---------------------------
(***************************************************************************)
(* What a range loop promises (docs/spec/05-statements-and-control-flow,   *)
(* "For and Foreach"): it steps from its start towards its end, takes the  *)
(* end in if it is inclusive, makes no turn for a step of zero or one that *)
(* leads away, and stops when the next addition would leave the iterator's *)
(* type.  Integers are the mathematical ones here.                         *)
(***************************************************************************)
EXTENDS RangeTypes

VARIABLES
  range,  \* the loop
  ahead   \* the value it is to visit next, or none

Within(r, v) ==
  \/ r.step > 0 /\ (v < r.end \/ (r.inclusive /\ v = r.end))
  \/ r.step < 0 /\ (v > r.end \/ (r.inclusive /\ v = r.end))

(* The value after v, if there is one.                                     *)
Following(r, v) == {n \in {v + r.step} : n \in Values(r) /\ Within(r, n)}

Init ==
  /\ range \in Ranges
  /\ ahead = {v \in {range.start} : Within(range, v)}

Visit ==
  \E v \in ahead : \E w \in LeftByBody(range, v) :
    /\ ahead' = Following(range, w)
    /\ UNCHANGED range

Spec == Init /\ [][Visit]_<<range, ahead>>
=============================================================================
