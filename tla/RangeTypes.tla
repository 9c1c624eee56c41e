----------------------------- MODULE RangeTypes -----------------------------
(***************************************************************************)
(* Ranges and the integers they are made of, for the promise of a range    *)
(* loop (RangeIteration) and for the loop that is emitted (RangeLoop).     *)
(***************************************************************************)
EXTENDS Integers

CONSTANT Half   \* how many values of an int are negative: 2^31

ASSUME HalfAssumption == Half \in Nat \ {0}

(* A range: the types of its iterator and its step, its captured bounds    *)
(* and step, which of them the compiler knows, and whether the body        *)
(* assigns to the iterator.                                                *)
Ranges ==
  {r \in [unsigned : BOOLEAN, inclusive : BOOLEAN, stepUnsigned : BOOLEAN,
          constantEnd : BOOLEAN, constantStep : BOOLEAN, writes : BOOLEAN,
          start : -Half..(2 * Half - 1), end : -Half..(2 * Half - 1), step : -Half..(2 * Half - 1)] :
     /\ IF r.unsigned THEN r.start >= 0 /\ r.end >= 0 ELSE r.start < Half /\ r.end < Half
     /\ IF r.stepUnsigned THEN r.step >= 0 ELSE r.step < Half}

Lowest(r) == IF r.unsigned THEN 0 ELSE -Half
Highest(r) == IF r.unsigned THEN 2 * Half - 1 ELSE Half - 1
Values(r) == Lowest(r)..Highest(r)

(* What the body may leave in the iterator.                                *)
LeftByBody(r, v) == IF r.writes THEN Values(r) ELSE {v}
=============================================================================
