------------------------------ MODULE IrValues ------------------------------
(***************************************************************************)
(* Values and instructions of a stage in SSA form, what they mean when the *)
(* stage runs, and what constant propagation folds of them                 *)
(* (bwsl_constant_propagation.cpp).                                        *)
(*                                                                         *)
(* Integers have Width bits.  A register holds one or more components; the *)
(* lattice value of a register is <<>> while it is undefined and otherwise *)
(* gives each component its bits or Varies: it is a constant when no       *)
(* component varies, overdefined when all do.  Registers are numbered from *)
(* 0 and a negative operand -c - 1 is the tagged constant c.               *)
(***************************************************************************)
EXTENDS Integers, SequencesExt, FiniteSetsExt, Bitwise

CONSTANT Width   \* bits of an integer: 32 in the code
ASSUME WidthAssumption == Width \in 2..8

Modulus == 2^Width
Varies == -1     \* a component that is not a constant
Poison == -2     \* a component targets disagree on, or of an undefined value

C(v) == -v - 1
IsConstant(operand) == operand < 0
ConstantBits(operand) == -operand - 1

Signed(u) == IF 2 * u < Modulus THEN u ELSE u - Modulus
Number(type, u) == IF type = "int" THEN Signed(u) ELSE u
Ones(type) == IF type = "bool" THEN 1 ELSE Modulus - 1
TypeMinimum(type) == IF type = "int" THEN -(Modulus \div 2) ELSE 0
TypeMaximum(type) == CASE type = "int" -> Modulus \div 2 - 1 [] type = "bool" -> 1 [] OTHER -> Modulus - 1

Comparisons == {"lt", "le", "gt", "ge", "eq", "ne"}
Commutative == {"add", "mul", "and", "or", "xor", "min", "max", "eq", "ne"}
Compare(op, x, y) == CASE op = "lt" -> x < y [] op = "le" -> x <= y [] op = "gt" -> x > y
                       [] op = "ge" -> x >= y [] op = "eq" -> x = y [] op = "ne" -> x # y
AsBits(truth) == IF truth THEN 1 ELSE 0
Lesser(x, y) == IF x < y THEN x ELSE y
Greater(x, y) == IF x > y THEN x ELSE y

GetFoldArity(op) ==
  CASE op \in {"copy", "neg", "abs", "not"} -> 1
    [] op \in {"add", "sub", "mul", "div", "mod", "min", "max", "and", "or", "xor", "shl", "shr"} \cup Comparisons -> 2
    [] op = "clamp" -> 3
    [] OTHER -> 0
IsVectorFoldOp(op) == op \in {"construct", "extract", "insert", "shuffle"}
IsLoopValueOp(op) == GetFoldArity(op) # 0 \/ IsVectorFoldOp(op) \/ op = "select"
IsPureValueOp(op) == op \in {"select", "construct", "insert"}
KeepsRegisterOperands(op) == op \in {"shl", "shr"}
SplatsScalarOperands(op) == op \in {"min", "max", "clamp"}
IsCseOp(op) == GetFoldArity(op) # 0 \/ IsVectorFoldOp(op) \/ op = "select"

----------------------------------------------------------------------------
(* What an operation computes on a device, in mathematical integers.       *)
Meaning(op, type, in) ==
  LET x == Number(type, in[1])
      y == Number(type, in[2])
      z == Number(type, in[3])
      wrapped(n) == n % Modulus
  IN IF \E k \in DOMAIN in : in[k] = Poison THEN Poison
     ELSE CASE op = "copy" -> in[1]
            [] op = "neg" -> wrapped(-x)
            [] op = "abs" -> wrapped(IF x < 0 THEN -x ELSE x)
            [] op = "not" -> Ones(type) - in[1]
            [] op = "add" -> wrapped(x + y)
            [] op = "sub" -> wrapped(x - y)
            [] op = "mul" -> wrapped(x * y)
            [] op = "div" -> IF x < 0 \/ y <= 0 THEN Poison ELSE x \div y
            [] op = "mod" -> IF x < 0 \/ y <= 0 THEN Poison ELSE x % y
            [] op = "min" -> wrapped(Lesser(x, y))
            [] op = "max" -> wrapped(Greater(x, y))
            [] op = "clamp" -> IF y > z THEN Poison ELSE wrapped(Lesser(Greater(x, y), z))
            [] op = "and" -> in[1] & in[2]
            [] op = "or" -> in[1] | in[2]
            [] op = "xor" -> in[1] ^^ in[2]
            [] op = "shl" -> IF in[2] >= Width THEN Poison ELSE wrapped(in[1] * 2^in[2])
            [] op = "shr" -> IF in[2] >= Width THEN Poison ELSE wrapped(x \div 2^in[2])
            [] op \in Comparisons -> AsBits(Compare(op, x, y))

----------------------------------------------------------------------------
(* Folding.                                                                *)

(* The operation on constants, or Varies when not every target computes    *)
(* the same: division by zero or of negative numbers, shifts of the width  *)
(* or more, the absolute value of the least integer.                       *)
FoldOperation(op, type, in) ==
  LET sa == Signed(in[1])
      sb == Signed(in[2])
      less(u, v) == IF type = "int" THEN Signed(u) < Signed(v) ELSE u < v
  IN CASE op = "copy" -> in[1]
       [] op = "add" -> (in[1] + in[2]) % Modulus
       [] op = "sub" -> (in[1] - in[2]) % Modulus
       [] op = "mul" -> (in[1] * in[2]) % Modulus
       [] op \in {"div", "mod"} -> IF in[2] = 0 \/ (type = "int" /\ (sa < 0 \/ sb < 0)) THEN Varies
                                   ELSE IF op = "div" THEN in[1] \div in[2] ELSE in[1] % in[2]
       [] op = "neg" -> IF type = "int" THEN (0 - in[1]) % Modulus ELSE Varies
       [] op = "abs" -> IF type # "int" \/ sa = TypeMinimum("int") THEN Varies
                        ELSE IF sa < 0 THEN (0 - in[1]) % Modulus ELSE in[1]
       [] op = "min" -> IF less(in[2], in[1]) THEN in[2] ELSE in[1]
       [] op = "max" -> IF less(in[1], in[2]) THEN in[2] ELSE in[1]
       [] op = "clamp" -> IF less(in[3], in[2]) THEN Varies
                          ELSE IF less(in[1], in[2]) THEN in[2]
                          ELSE IF less(in[3], in[1]) THEN in[3] ELSE in[1]
       [] op = "and" -> in[1] & in[2]
       [] op = "or" -> in[1] | in[2]
       [] op = "xor" -> in[1] ^^ in[2]
       [] op = "not" -> IF type = "bool" THEN in[1] ^^ 1 ELSE Modulus - 1 - in[1]
       [] op = "shl" -> IF in[2] >= Width THEN Varies ELSE (in[1] * 2^in[2]) % Modulus
       [] op = "shr" -> IF in[2] >= Width THEN Varies
                        ELSE (IF type = "int" THEN sa \div 2^in[2] ELSE in[1] \div 2^in[2]) % Modulus
       [] op = "eq" -> AsBits(in[1] = in[2])
       [] op = "ne" -> AsBits(in[1] # in[2])
       [] op = "lt" -> AsBits(less(in[1], in[2]))
       [] op = "gt" -> AsBits(less(in[2], in[1]))
       [] op = "le" -> AsBits(~less(in[2], in[1]))
       [] op = "ge" -> AsBits(~less(in[1], in[2]))
       [] OTHER -> Varies

Overdefined(n) == [c \in 1..n |-> Varies]
IsUndefined(v) == v = <<>>
AllKnown(v) == v # <<>> /\ \A c \in DOMAIN v : v[c] # Varies
AllVary(v) == v # <<>> /\ \A c \in DOMAIN v : v[c] = Varies

(* Mutant of Meet: two constants that differ meet in the second.           *)
MeetLast(a, b) == IF IsUndefined(b) THEN a ELSE b

(* Components stay known where both values know the same constant.         *)
Meet(a, b) ==
  IF IsUndefined(a) THEN b ELSE IF IsUndefined(b) THEN a
  ELSE [c \in DOMAIN a |-> IF a[c] = b[c] THEN a[c] ELSE Varies]

(* What a constant operand decides by itself, or makes the other.          *)
Absorbs(op, type, bits) == (op = "and" /\ bits = 0) \/ (op = "or" /\ bits = Ones(type))
Keeps(op, type, bits) == (op = "and" /\ bits = Ones(type)) \/ (op \in {"or", "xor"} /\ bits = 0)

(* EvaluateBitwiseIdentity with the operand k known.                       *)
Decides(op, type, in, k) ==
  op \in {"and", "or", "xor"} /\ Len(in[k]) = 1 /\ AllKnown(in[k]) /\
  (Absorbs(op, type, in[k][1]) \/ Keeps(op, type, in[k][1]))
BitwiseIdentity(op, type, in, k) ==
  IF Absorbs(op, type, in[k][1]) THEN in[k] ELSE in[3 - k]

Component(v, c) == IF Len(v) = 1 THEN v[1] ELSE v[c]

(* FoldKnownComponents, and FoldComponentwise when everything is known: a  *)
(* component that does not fold then makes the whole vector overdefined.   *)
FoldComponents(op, type, in, n) ==
  LET folds(c) == \A k \in DOMAIN in : Component(in[k], c) # Varies
      fold(c) == FoldOperation(op, type, [k \in DOMAIN in |-> Component(in[k], c)])
      each == [c \in 1..n |-> IF folds(c) THEN fold(c) ELSE Varies]
  IN IF n > 1 /\ (\E k \in DOMAIN in : Len(in[k]) # n /\ ~(SplatsScalarOperands(op) /\ Len(in[k]) = 1))
       THEN Overdefined(n)
     ELSE IF (\A k \in DOMAIN in : AllKnown(in[k])) /\ \E c \in 1..n : each[c] = Varies
       THEN Overdefined(n) ELSE each

(* SELECT(whenFalse, whenTrue, condition): an undefined condition waits; a *)
(* component of the condition picks one, and an unknown one keeps what     *)
(* both agree on.                                                          *)
EvaluateSelect(in) ==
  LET no == in[1]  yes == in[2]  condition == in[3]
      pick(c) == CASE Component(condition, c) = 1 -> yes[c]
                   [] Component(condition, c) = 0 -> no[c]
                   [] OTHER -> IF yes[c] = no[c] THEN yes[c] ELSE Varies
  IN IF IsUndefined(condition) THEN <<>>
     ELSE IF \A c \in DOMAIN condition : condition[c] = 1 THEN yes
     ELSE IF \A c \in DOMAIN condition : condition[c] = 0 THEN no
     ELSE IF IsUndefined(no) \/ IsUndefined(yes) THEN Meet(no, yes)
     ELSE [c \in DOMAIN no |-> pick(c)]

(* A vector's arguments one after another; a lone scalar fills it and what *)
(* is missing is zero.                                                     *)
Filled(in, n) ==
  LET all == FlattenSeq(in)
  IN [c \in 1..n |-> IF Len(all) = 1 THEN all[1] ELSE IF c <= Len(all) THEN all[c] ELSE 0]

(* EvaluateVectorInstruction for the vector operations without floats; lit *)
(* is the literal index, or the sequence of indices of a shuffle.          *)
EvaluateVector(op, in, lit, n) ==
  IF \E k \in DOMAIN in : IsUndefined(in[k]) THEN <<>>
  ELSE CASE op = "construct" -> Filled(in, n)
         [] op = "extract" -> <<in[1][lit[1]]>>
         [] op = "insert" -> [in[1] EXCEPT ![lit[1]] = in[2][1]]
         [] op = "shuffle" -> [c \in 1..n |-> IF lit[c] <= Len(in[1]) THEN in[1][lit[c]]
                                              ELSE in[2][lit[c] - Len(in[1])]]

(* EvaluateInstruction, given the lattice values of the operands.          *)
EvaluateInstruction(ins, in, n) ==
  LET deciding == {k \in 1..2 : k \in DOMAIN in /\ Decides(ins.op, ins.of, in, k)}
  IN IF deciding # {} THEN BitwiseIdentity(ins.op, ins.of, in, CHOOSE k \in deciding : \A j \in deciding : k <= j)
     ELSE CASE ins.op = "copy" -> in[1]
            [] ins.op = "select" -> EvaluateSelect(in)
            [] IsVectorFoldOp(ins.op) -> EvaluateVector(ins.op, in, ins.lit, n)
            [] ins.op # "copy" /\ GetFoldArity(ins.op) # 0 ->
                 IF \E k \in DOMAIN in : IsUndefined(in[k]) THEN <<>> ELSE FoldComponents(ins.op, ins.of, in, n)
            [] OTHER -> Overdefined(n)

-----------------------------------------------------------------------------
(* Ranges (bwsl_constant_propagation_ranges.inl): what they say about      *)
(* comparisons, what a comparison says about them, and what an operation   *)
(* makes of its operands' ranges.  A range is <<low, high>>, both reached; *)
(* <<>> is a range that is not known yet.                                  *)

IsKnown(range) == range # <<>>
Low(range) == range[1]
High(range) == range[2]
FullRange(type) == <<TypeMinimum(type), TypeMaximum(type)>>
PointRange(type, bits) == <<Number(type, bits), Number(type, bits)>>
IsPoint(range) == IsKnown(range) /\ Low(range) = High(range)
BitsOf(n) == n % Modulus
Inside(type, bits, range) == Number(type, bits) \in Low(range)..High(range)

(* Whole ends within the type; a contradiction means code that cannot run. *)
Normalize(range, type) ==
  LET low == Greater(Low(range), TypeMinimum(type))
      high == Lesser(High(range), TypeMaximum(type))
  IN IF low > high THEN FullRange(type) ELSE <<low, high>>

Hull(a, b) ==
  IF ~IsKnown(a) THEN b ELSE IF ~IsKnown(b) THEN a
  ELSE <<Lesser(Low(a), Low(b)), Greater(High(a), High(b))>>

IsBelow(a, b, orEqual) == High(a) < Low(b) \/ (orEqual /\ High(a) = Low(b))

(* <<1>> when the comparison always holds, <<0>> when it never does, and   *)
(* <<>> when that depends.                                                 *)
DecideComparison(op, a, b) ==
  LET decide(never, always) == IF never THEN <<0>> ELSE IF always THEN <<1>> ELSE <<>>
      apart == IsBelow(a, b, FALSE) \/ IsBelow(b, a, FALSE)
      same == IsPoint(a) /\ IsPoint(b) /\ Low(a) = Low(b)
  IN IF ~IsKnown(a) \/ ~IsKnown(b) THEN <<>>
     ELSE CASE op = "lt" -> decide(IsBelow(b, a, TRUE), IsBelow(a, b, FALSE))
            [] op = "le" -> decide(IsBelow(b, a, FALSE), IsBelow(a, b, TRUE))
            [] op = "gt" -> decide(IsBelow(a, b, TRUE), IsBelow(b, a, FALSE))
            [] op = "ge" -> decide(IsBelow(a, b, FALSE), IsBelow(b, a, TRUE))
            [] op = "eq" -> decide(apart, same)
            [] op = "ne" -> decide(same, apart)

MinimumRange(a, b) == <<Lesser(Low(a), Low(b)), Lesser(High(a), High(b))>>
MaximumRange(a, b) == <<Greater(Low(a), Low(b)), Greater(High(a), High(b))>>

(* Mutant of IntegerResult: a result past the type's ends stops at them.   *)
SaturatedResult(low, high, type) ==
  <<Greater(low, TypeMinimum(type)), Lesser(high, TypeMaximum(type))>>

(* Wrapping past the type's ends leaves any value possible.                *)
IntegerResult(low, high, type) ==
  IF low < TypeMinimum(type) \/ high > TypeMaximum(type) THEN FullRange(type) ELSE <<low, high>>

----------------------------------------------------------------------------
(* Constraints from branches.                                              *)

Opposite(op) == CASE op = "lt" -> "ge" [] op = "le" -> "gt" [] op = "gt" -> "le"
                  [] op = "ge" -> "lt" [] op = "ne" -> "eq" [] OTHER -> "ne"
SwapComparison(op) == CASE op = "lt" -> "gt" [] op = "gt" -> "lt" [] op = "le" -> "ge"
                        [] op = "ge" -> "le" [] OTHER -> op

(* What `range relation bound` leaves of the range.  An empty one stays    *)
(* turned around, since the block cannot run, unless the ends just meet.   *)
Narrow(range, relation, bound, type) ==
  LET strict == IF relation \in {"lt", "gt"} THEN 1 ELSE 0
      cut == IF relation \in {"lt", "le"} THEN <<Low(range), Lesser(High(range), High(bound))>>
                                         ELSE <<Greater(Low(range), Low(bound)), High(range)>>
      ends == IF relation \in {"lt", "le"} THEN <<Low(range), Lesser(High(range), High(bound) - strict)>>
                                          ELSE <<Greater(Low(range), Low(bound) + strict), High(range)>>
  IN IF Low(cut) > High(cut) THEN cut ELSE Normalize(ends, type)

(* The constraint a comparison with bound puts on the range, where it is   *)
(* known to hold or not.                                                   *)
ApplyRelation(range, op, bound, holds, type) ==
  LET relation == IF holds THEN op ELSE Opposite(op)
  IN CASE ~IsKnown(bound) \/ ~IsKnown(range) \/ relation = "ne" -> range
       [] relation = "eq" -> Narrow(Narrow(range, "le", bound, type), "ge", bound, type)
       [] OTHER -> Narrow(range, relation, bound, type)

----------------------------------------------------------------------------
(* EvaluateComponentRange for integers, given the operands' ranges.        *)

Corners(a, b) == {Low(a) * Low(b), Low(a) * High(b), High(a) * Low(b), High(a) * High(b)}
Least(S) == CHOOSE x \in S : \A y \in S : x <= y
Largest(S) == CHOOSE x \in S : \A y \in S : y <= x

AbsoluteRange(a, type) ==
  IF Low(a) >= 0 THEN a
  ELSE IF High(a) <= 0 THEN IntegerResult(-High(a), -Low(a), type)
  ELSE IntegerResult(0, Greater(-Low(a), High(a)), type)

(* A mask that is not negative bounds the result by itself.                *)
MaskRange(a, b, type) ==
  LET high == Least({TypeMaximum(type)} \cup {High(r) : r \in {s \in {a, b} : Low(s) >= 0}})
  IN IF type = "int" /\ high = TypeMaximum(type) THEN FullRange(type) ELSE IntegerResult(0, high, type)

OperationRange(op, type, in) ==
  LET a == in[1]
      b == in[2]
      c == in[3]
  IN CASE type = "bool" -> FullRange(type)
       [] op = "add" -> IntegerResult(Low(a) + Low(b), High(a) + High(b), type)
       [] op = "sub" -> IntegerResult(Low(a) - High(b), High(a) - Low(b), type)
       [] op = "mul" -> IntegerResult(Least(Corners(a, b)), Largest(Corners(a, b)), type)
       [] op = "neg" -> IntegerResult(-High(a), -Low(a), type)
       [] op = "abs" -> AbsoluteRange(a, type)
       [] op = "min" -> MinimumRange(a, b)
       [] op = "max" -> MaximumRange(a, b)
       [] op = "clamp" -> MinimumRange(MaximumRange(a, b), c)
       [] op = "div" /\ Low(a) >= 0 /\ Low(b) > 0 -> IntegerResult(Low(a) \div High(b), High(a) \div Low(b), type)
       [] op = "mod" /\ Low(a) >= 0 /\ Low(b) > 0 -> IntegerResult(0, Lesser(High(a), High(b) - 1), type)
       [] op = "and" -> MaskRange(a, b, type)
       [] op = "shr" /\ Low(a) >= 0 /\ IsPoint(b) /\ Low(b) \in 0..(Width - 1) ->
            IntegerResult(Low(a) \div 2^Low(b), High(a) \div 2^Low(b), type)
       [] OTHER -> FullRange(type)
=============================================================================
