--------------------------- MODULE RangeLoopProofs ---------------------------
(***************************************************************************)
(* The emitted range loop keeps its iterator in its type and implements    *)
(* its promise, whatever the width of the integers.                        *)
(*                                                                         *)
(* Three facts about the arithmetic carry the refinement: the addition is  *)
(* the mathematical one unless it wraps (AdvancedWraps), the guard tells   *)
(* whether it did (GuardTells), and where the guard is left out it cannot  *)
(* (BoundsSuffice), which needs that the value came through the test: the  *)
(* invariant Tested.                                                       *)
(***************************************************************************)
EXTENDS RangeLoop, TLAPS

(* What a range's fields are, spelled out for the provers.                 *)
LEMMA RangeFields ==
  ASSUME NEW r \in Ranges
  PROVE  /\ r.unsigned \in BOOLEAN /\ r.inclusive \in BOOLEAN /\ r.stepUnsigned \in BOOLEAN
         /\ r.constantEnd \in BOOLEAN /\ r.constantStep \in BOOLEAN /\ r.writes \in BOOLEAN
         /\ r.start \in Values(r) /\ r.end \in Values(r)
         /\ r.step \in Int /\ -Half <= r.step /\ r.step <= 2 * Half - 1
         /\ r.stepUnsigned => r.step >= 0
         /\ Half \in Nat /\ Half > 0
BY HalfAssumption DEF Ranges, Values, Lowest, Highest

(* The addition is the mathematical one, one modulus off if that leaves    *)
(* the iterator's type.                                                    *)
LEMMA AdvancedWraps ==
  ASSUME NEW r \in Ranges, NEW v \in Values(r)
  PROVE  /\ Advanced(r, v) \in Values(r)
         /\ v + r.step \in Values(r) => Advanced(r, v) = v + r.step
         /\ v + r.step > Highest(r) => Advanced(r, v) = v + r.step - 2 * Half
         /\ v + r.step < Lowest(r) => Advanced(r, v) = v + r.step + 2 * Half
<1>1. CASE r.unsigned
  BY <1>1, RangeFields DEF Advanced, Wrap, Values, Lowest, Highest
<1>2. CASE ~r.unsigned
  BY <1>2, RangeFields DEF Advanced, Wrap, Values, Lowest, Highest
<1>. QED  BY <1>1, <1>2

(* The emitted test is the promise's.                                      *)
LEMMA TestIsWithin ==
  ASSUME NEW r \in Ranges, NEW v \in Values(r)
  PROVE  InRange(r, v) <=> Promise!Within(r, v)
<1>1. v \in Int /\ r.end \in Int
  BY RangeFields DEF Values, Lowest, Highest
<1>2. CASE r.inclusive
  BY <1>1, <1>2, RangeFields
  DEF InRange, KnownDirection, Ascending, Descending, Below, Above, Promise!Within
<1>3. CASE ~r.inclusive
  BY <1>1, <1>3, RangeFields
  DEF InRange, KnownDirection, Ascending, Descending, Below, Above, Promise!Within
<1>. QED  BY <1>2, <1>3, RangeFields

(* The guard tells whether the addition stayed in the type.                *)
LEMMA GuardTells ==
  ASSUME NEW r \in Ranges, NEW v \in Values(r), r.step # 0
  PROVE  Valid(r, v, Advanced(r, v)) <=> v + r.step \in Values(r)
<1>1. v \in Int /\ Lowest(r) \in Int /\ Highest(r) \in Int /\ Highest(r) - Lowest(r) = 2 * Half - 1
      /\ Lowest(r) <= v /\ v <= Highest(r)
  BY RangeFields DEF Values, Lowest, Highest
<1>2. Valid(r, v, Advanced(r, v)) <=> IF r.step > 0 THEN Advanced(r, v) > v ELSE Advanced(r, v) < v
  BY RangeFields DEF Valid, KnownDirection, Ascending, Descending
<1>3. CASE v + r.step > Highest(r)
  BY <1>1, <1>2, <1>3, AdvancedWraps, RangeFields DEF Values
<1>4. CASE v + r.step < Lowest(r)
  BY <1>1, <1>2, <1>4, AdvancedWraps, RangeFields DEF Values
<1>5. CASE v + r.step \in Values(r)
  BY <1>1, <1>2, <1>5, AdvancedWraps, RangeFields
<1>. QED  BY <1>1, <1>3, <1>4, <1>5, RangeFields DEF Values

(* Where the guard is left out, a value that passed the test cannot wrap.  *)
LEMMA BoundsSuffice ==
  ASSUME NEW r \in Ranges, NEW v \in Values(r), ~Guarded(r), InRange(r, v)
  PROVE  v + r.step \in Values(r)
<1>1. KnownDirection(r) /\ ~RangeStepMayWrap(r) /\ r.step # 0
  BY DEF Guarded, KnownDirection
<1>2. v \in Int /\ r.end \in Int /\ Lowest(r) \in Int /\ Highest(r) \in Int
      /\ Lowest(r) <= v /\ v <= Highest(r) /\ Lowest(r) <= r.end /\ r.end <= Highest(r)
  BY RangeFields DEF Values, Lowest, Highest
<1>3. CASE r.step > 0
  BY <1>1, <1>2, <1>3, RangeFields DEF InRange, Below, RangeStepMayWrap, Values
<1>4. CASE r.step < 0
  BY <1>1, <1>2, <1>4, RangeFields DEF InRange, Above, RangeStepMayWrap, Values
<1>. QED  BY <1>1, <1>3, <1>4, RangeFields

----------------------------------------------------------------------------
(* The body runs for a value that passed the test.                         *)
Tested == at = "body" => InRange(range, iter)

IInv == TypeOK /\ Tested

LEMMA LeftInType ==
  ASSUME NEW r \in Ranges, NEW v \in Values(r), NEW left \in LeftByBody(r, v)
  PROVE  left \in Values(r)
BY DEF LeftByBody

LEMMA Invariance == Spec => []IInv
<1>1. Init => IInv
  <2>. SUFFICES ASSUME Init PROVE IInv
    OBVIOUS
  <2>. QED  BY RangeFields DEF Init, IInv, TypeOK, Tested
<1>2. IInv /\ [Next]_vars => IInv'
  <2>. SUFFICES ASSUME IInv, [Next]_vars PROVE IInv'
    OBVIOUS
  <2>1. CASE Test
    BY <2>1 DEF Test, IInv, TypeOK, Tested
  <2>2. CASE Turn
    <3>1. PICK left \in LeftByBody(range, iter) :
            /\ iter' = Advanced(range, left)
            /\ advanceValid' = (Guarded(range) => Valid(range, left, iter'))
      BY <2>2 DEF Turn
    <3>2. left \in Values(range)
      BY LeftInType DEF IInv, TypeOK
    <3>3. iter' \in Values(range)
      BY <3>1, <3>2, AdvancedWraps DEF IInv, TypeOK
    <3>4. advanceValid' \in BOOLEAN
      BY <3>1
    <3>. QED  BY <2>2, <3>3, <3>4 DEF Turn, IInv, TypeOK, Tested
  <2>3. CASE UNCHANGED vars
    BY <2>3 DEF vars, IInv, TypeOK, Tested
  <2>. QED  BY <2>1, <2>2, <2>3 DEF Next
<1>. QED  BY <1>1, <1>2, PTL DEF Spec

(* The iterator stays in its type, through every addition and every        *)
(* assignment of the body.                                                 *)
THEOREM IteratorInType == Spec => []TypeOK
<1>1. IInv => TypeOK
  BY DEF IInv
<1>. QED  BY <1>1, Invariance, PTL

----------------------------------------------------------------------------
(* One turn of the loop is one visit of the promise: what is ahead after   *)
(* the addition is the value that follows in the integers.                 *)
LEMMA TurnVisits ==
  ASSUME IInv, Turn
  PROVE  Promise!Visit
<1>1. PICK left \in LeftByBody(range, iter) :
        /\ iter' = Advanced(range, left)
        /\ advanceValid' = (Guarded(range) => Valid(range, left, iter'))
  BY DEF Turn
<1>2. range \in Ranges /\ iter \in Values(range) /\ left \in Values(range)
  BY LeftInType DEF IInv, TypeOK
<1>3. InRange(range, iter)
  BY DEF IInv, Tested, Turn
<1>4. range.step # 0
  BY <1>2, <1>3, RangeFields DEF InRange, KnownDirection, Ascending, Descending
<1>5. advanceValid' <=> left + range.step \in Values(range)
  <2>1. CASE Guarded(range)
    BY <1>1, <1>2, <1>4, <2>1, GuardTells
  <2>2. CASE ~Guarded(range)
    <3>1. left = iter
      BY <1>2, <2>2, RangeFields DEF Guarded, LeftByBody
    <3>2. left + range.step \in Values(range)
      BY <1>2, <1>3, <2>2, <3>1, BoundsSuffice
    <3>. QED  BY <1>1, <2>2, <3>2
  <2>. QED  BY <2>1, <2>2
<1>6. advanceValid' => iter' = left + range.step
  BY <1>1, <1>2, <1>5, AdvancedWraps
<1>7. Ahead = {iter} /\ at' = "test" /\ range' = range
  BY DEF Ahead, Turn
<1>8. Ahead' = Promise!Following(range, left)
  <2>1. Ahead' = IF advanceValid' /\ InRange(range, iter') THEN {iter'} ELSE {}
    BY <1>7 DEF Ahead
  <2>2. CASE advanceValid'
    <3>1. iter' = left + range.step /\ iter' \in Values(range)
      BY <1>5, <1>6, <2>2
    <3>2. InRange(range, iter') <=> Promise!Within(range, iter')
      BY <1>2, <3>1, TestIsWithin
    <3>. QED  BY <2>1, <2>2, <3>1, <3>2
             DEF Promise!Following, Promise!Values, Values, Promise!Lowest, Lowest, Promise!Highest, Highest
  <2>3. CASE ~advanceValid'
    BY <1>5, <2>1, <2>3
    DEF Promise!Following, Promise!Values, Values, Promise!Lowest, Lowest, Promise!Highest, Highest
  <2>. QED  BY <2>2, <2>3
<1>9. left \in Promise!LeftByBody(range, iter)
  BY DEF Promise!LeftByBody, LeftByBody, Promise!Values, Values, Promise!Lowest, Lowest, Promise!Highest, Highest
<1>. QED  BY <1>7, <1>8, <1>9 DEF Promise!Visit

(* The emitted loop visits what its range promises, for integers of every  *)
(* width: the additions that wrap never lead to another turn, and where    *)
(* the guard is left out none wraps.                                       *)
THEOREM LoopKeepsPromise == Spec => IteratesAsPromised
<1>1. Init => Promise!Init
  <2>. SUFFICES ASSUME Init PROVE Promise!Init
    OBVIOUS
  <2>1. range \in Ranges /\ iter = range.start /\ iter \in Values(range)
    BY RangeFields DEF Init
  <2>2. Ahead = IF InRange(range, iter) THEN {iter} ELSE {}
    BY DEF Init, Ahead
  <2>3. Ahead = {v \in {range.start} : Promise!Within(range, v)}
    BY <2>1, <2>2, TestIsWithin
  <2>. QED  BY <2>1, <2>3 DEF Promise!Init, Promise!Ranges, Ranges
<1>2. IInv /\ [Next]_vars => [Promise!Visit]_<<range, Ahead>>
  <2>. SUFFICES ASSUME IInv, [Next]_vars PROVE [Promise!Visit]_<<range, Ahead>>
    OBVIOUS
  <2>1. CASE Test
    BY <2>1 DEF Test, Ahead
  <2>2. CASE Turn
    BY <2>2, TurnVisits
  <2>3. CASE UNCHANGED vars
    BY <2>3 DEF vars, Ahead
  <2>. QED  BY <2>1, <2>2, <2>3 DEF Next
<1>. QED  BY <1>1, <1>2, Invariance, PTL DEF Spec, IteratesAsPromised, Promise!Spec
=============================================================================
