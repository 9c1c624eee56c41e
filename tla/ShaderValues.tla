---------------------------- MODULE ShaderValues ----------------------------
(***************************************************************************)
(* The values of expressions: scalars, vectors and square matrices, and    *)
(* what an operation computes of them, common to the language and to the   *)
(* targets.                                                                *)
(*                                                                         *)
(* A value is the sequence of its components, column by column for a       *)
(* matrix.  An integer is its Bits bits, a bool 0 or 1, a float a number   *)
(* of One-ths.  What a float function without a short definition computes  *)
(* is a number that depends on the function and on every argument.         *)
(***************************************************************************)
EXTENDS Integers, SequencesExt, FiniteSetsExt

CONSTANT Bits      \* bits of an integer: 32 in the code
ASSUME BitsAssumption == Bits \in 3..8

Modulo == 2^Bits
One == 4                 \* the float 1.0
Undefined == -1000000    \* a component that targets may disagree on

Type(of, n) == [of |-> of, n |-> n]
Scalar(of) == Type(of, 1)
Invalid == Type("invalid", 1)
Truth == Scalar("bool")

(* TypeMasks.                                                              *)
IsMatrix(t) == t.of = "mat"
IsScalar(t) == t.of \in {"bool", "int", "uint", "float"} /\ t.n = 1
IsInteger(t) == t.of \in {"int", "uint"}
IsFloat(t) == t.of = "float"
IsNumeric(t) == IsInteger(t) \/ IsFloat(t)
IsVector(t) == IsNumeric(t) /\ t.n > 1
IsBoolVector(t) == t.of = "bool" /\ t.n > 1
ColumnOf(t) == Type("float", t.n)
ScalarOf(t) == IF IsMatrix(t) THEN Scalar("float") ELSE Scalar(t.of)
CountOf(t) == IF IsMatrix(t) THEN t.n * t.n ELSE t.n

Same(n, x) == [c \in 1..n |-> x]

(* An array holds its elements, of n components, one after the other.      *)
ElementAt(v, n, i) == SubSeq(v, n * i + 1, n * i + n)
WithElement(v, n, i, x) == SubSeq(v, 1, n * i) \o x \o SubSeq(v, n * i + n + 1, Len(v))

Value(type, v) == [type |-> type, v |-> v]
IllTyped == Value(Invalid, <<>>)      \* the operands do not fit the operation

(* An operand of an instruction is a register or a scalar constant.        *)
Reg(n) == <<"reg", n>>
Const(of, x) == <<"const", of, x>>
IsConstant(o) == o[1] = "const"

(* An instruction reads operands whose declared types are in cx.types and  *)
(* whose values, of the type the target gave them, are in cx.values; the   *)
(* registers that hold arrays have their length in cx.lengths.             *)
LengthOf(cx, o) == IF ~IsConstant(o) /\ o[2] \in DOMAIN cx.lengths THEN cx.lengths[o[2]] ELSE 0
Declared(cx, o) == IF IsConstant(o) THEN Scalar(o[2]) ELSE cx.types[o[2]]
Actual(cx, o) == IF IsConstant(o) THEN Value(Scalar(o[2]), <<o[3]>>) ELSE cx.values[o[2]]

----------------------------------------------------------------------------
(* One component.                                                          *)
AsSigned(u) == IF 2 * u < Modulo THEN u ELSE u - Modulo
NumberOf(of, x) == IF of = "int" THEN AsSigned(x) ELSE x
InBits(of, n) == IF of \in {"int", "uint"} THEN n % Modulo ELSE n
Truthful(b) == IF b THEN 1 ELSE 0
Sign(n) == IF n > 0 THEN 1 ELSE IF n < 0 THEN -1 ELSE 0
Magnitude(n) == IF n < 0 THEN -n ELSE n
Quotient(x, y) == Sign(x) * Sign(y) * (Magnitude(x) \div Magnitude(y))
Least(x, y) == IF x < y THEN x ELSE y
Most(x, y) == IF x < y THEN y ELSE x
WholeDown(x) == One * (x \div One)

Functions == <<"sqrt", "rsqrt", "exp", "exp2", "log", "log2", "sin", "cos", "tan", "asin", "acos", "atan", "sinh",
               "cosh", "tanh", "degrees", "radians", "pow", "atan2", "smoothstep", "determinant", "inverse", "findlsb",
               "findumsb", "findsmsb", "bitcount", "bitreverse", "isnan", "isinf", "bits">>
Opaque(name, xs) ==
  LET place == CHOOSE k \in DOMAIN Functions : Functions[k] = name
      sum[k \in 0..Len(xs)] == IF k = 0 THEN 7 * place ELSE 3 * sum[k - 1] + xs[k]
  IN sum[Len(xs)] % 89

Ordered == {"eq", "ne", "lt", "le", "gt", "ge"}
InOrder(op, x, y) ==
  CASE op = "eq" -> x = y [] op = "ne" -> x # y [] op = "lt" -> x < y
    [] op = "le" -> x <= y [] op = "gt" -> x > y [] op = "ge" -> x >= y

BitOf(x, k) == (x \div 2^k) % 2
(* The number with the bits k where x's and y's are one of pairs.          *)
BitsWhere(pairs, x, y) ==
  LET sum[k \in 0..Bits] == IF k = 0 THEN 0
                            ELSE sum[k - 1] + (IF <<BitOf(x, k - 1), BitOf(y, k - 1)>> \in pairs THEN 2^(k - 1) ELSE 0)
  IN sum[Bits]

(* op on numbers, of bits where it is about bits, before the result is cut *)
(* to its width; Opaque for what is not defined here.                      *)
Integral(op, of, x, y, unit) ==
  CASE op = "neg" -> -x
    [] op = "add" -> x + y
    [] op = "sub" -> x - y
    [] op = "mul" -> (x * y) \div unit
    [] op = "div" -> IF y = 0 THEN Undefined
                     ELSE IF of = "float" THEN (Sign(y) * x * One) \div Magnitude(y) ELSE Quotient(x, y)
    [] op = "rem" -> IF y = 0 THEN Undefined ELSE x - y * Quotient(x, y)
    [] op = "floormod" -> IF y = 0 THEN Undefined ELSE IF y < 0 THEN -((-x) % (-y)) ELSE x % y
    [] op = "min" -> Least(x, y)
    [] op = "max" -> Most(x, y)
    [] op = "abs" -> Magnitude(x)
    [] op = "sign" -> unit * Sign(x)
    [] op \in {"copy", "bitcast"} -> x
Blended(op, x, y, z) ==
  CASE op = "clamp" -> IF y > z THEN Undefined ELSE Least(Most(x, y), z)
    [] op = "mix" -> x + ((y - x) * z) \div One
    [] op = "fma" -> (x * y) \div One + z
Rounded(op, x) ==
  CASE op = "floor" -> WholeDown(x)
    [] op = "ceil" -> -WholeDown(-x)
    [] op = "trunc" -> Sign(x) * WholeDown(Magnitude(x))
    [] op = "round" -> WholeDown(x + One \div 2)
    [] op = "fract" -> x - WholeDown(x)
OnBitsOf(op, of, x, y, signed) ==
  CASE op = "and" -> BitsWhere({<<1, 1>>}, x, y)
    [] op = "or" -> BitsWhere({<<0, 1>>, <<1, 0>>, <<1, 1>>}, x, y)
    [] op = "xor" -> BitsWhere({<<0, 1>>, <<1, 0>>}, x, y)
    [] op = "not" -> IF of = "bool" THEN 1 - x ELSE Modulo - 1 - x
    [] op = "shl" -> IF y >= Bits THEN Undefined ELSE x * 2^y
    [] op = "shr" -> IF y >= Bits THEN Undefined ELSE signed \div 2^y
IntegralOps == {"neg", "add", "sub", "mul", "div", "rem", "floormod", "min", "max", "abs", "sign", "copy", "bitcast"}
Computed(op, of, xs, ns) ==
  CASE op \in IntegralOps -> Integral(op, of, ns[1], ns[2], IF of = "float" THEN One ELSE 1)
    [] op \in {"clamp", "mix", "fma"} -> Blended(op, ns[1], ns[2], ns[3])
    [] op \in {"floor", "ceil", "trunc", "round", "fract"} -> Rounded(op, ns[1])
    [] op = "step" -> IF ns[2] < ns[1] THEN 0 ELSE One
    [] op \in {"isnan", "isinf"} -> Opaque(op, xs) % 2
    [] op \in {"and", "or", "xor", "not", "shl", "shr"} -> OnBitsOf(op, of, xs[1], xs[2], ns[1])
    [] op \in Ordered -> Truthful(InOrder(op, ns[1], ns[2]))
    [] OTHER -> Opaque(op, xs)

(* op on components of a kind; a component that is undefined makes the     *)
(* result undefined unless another decides it.                             *)
IsLeastByMinusOne(op, of, ns) == of = "int" /\ op \in {"div", "rem"} /\ ns[1] = -(Modulo \div 2) /\ ns[2] = -1
InWidth(op, of, x) == IF x = Undefined \/ op \in Ordered THEN x ELSE InBits(of, x)
BasicOf(op, of, xs, ns) ==
  CASE of = "bool" /\ op = "and" /\ 0 \in Range(xs) -> 0
    [] of = "bool" /\ op = "or" /\ 1 \in Range(xs) -> 1
    [] OTHER -> IF Undefined \in Range(xs) \/ IsLeastByMinusOne(op, of, ns) THEN Undefined
                ELSE InWidth(op, of, Computed(op, of, xs, ns))
Basic(op, of, xs) == BasicOf(op, of, xs, [k \in DOMAIN xs |-> NumberOf(of, xs[k])])

Convert(from, to, x) ==
  LET whole == Quotient(x, One)
  IN CASE x = Undefined \/ from = to -> x
       [] to = "bool" -> Truthful(x # 0)
       [] from = "bool" -> IF to = "float" THEN One * x ELSE x
       [] to = "float" -> One * NumberOf(from, x)
       [] from = "float" -> IF (to = "int" /\ whole \in -(Modulo \div 2)..(Modulo \div 2 - 1))
                                 \/ (to = "uint" /\ whole \in 0..(Modulo - 1))
                              THEN InBits(to, whole) ELSE Undefined
       [] OTHER -> x

----------------------------------------------------------------------------
(* Whole values.                                                           *)
Reinterpret(from, to, v) ==
  [c \in DOMAIN v |-> IF v[c] = Undefined \/ (from # "float" /\ to # "float") \/ from = to THEN v[c]
                      ELSE InBits(to, Opaque("bits", <<v[c]>>))]
Each(op, of, vs) ==
  [c \in 1..Max({Len(vs[k]) : k \in DOMAIN vs}) |->
     Basic(op, of, [k \in DOMAIN vs |-> IF Len(vs[k]) = 1 THEN vs[k][1] ELSE vs[k][c]])]
EachConverted(from, to, v) == [c \in DOMAIN v |-> Convert(from, to, v[c])]
Picked(condition, yes, no) ==
  [c \in DOMAIN yes |->
     LET truth == IF Len(condition) = 1 THEN condition[1] ELSE condition[c]
     IN IF truth = Undefined THEN Undefined ELSE IF truth = 1 THEN yes[c] ELSE no[c]]

SumOf(xs) ==
  LET sum[k \in 0..Len(xs)] == IF k = 0 THEN 0 ELSE Basic("add", "float", <<sum[k - 1], xs[k]>>) IN sum[Len(xs)]
Dot(u, v) == SumOf([c \in DOMAIN u |-> Basic("mul", "float", <<u[c], v[c]>>)])
ColumnAt(m, n, c) == SubSeq(m, n * (c - 1) + 1, n * c)
RowAt(m, n, r) == [c \in 1..n |-> m[n * (c - 1) + r]]
MatrixTimesVector(m, v) == [r \in DOMAIN v |-> Dot(RowAt(m, Len(v), r), v)]
VectorTimesMatrix(v, m) == [c \in DOMAIN v |-> Dot(v, ColumnAt(m, Len(v), c))]
MatrixTimesMatrix(a, b, n) == FlattenSeq([c \in 1..n |-> MatrixTimesVector(a, ColumnAt(b, n, c))])
Transposed(m, n) == FlattenSeq([r \in 1..n |-> RowAt(m, n, r)])

(* The geometric functions, by their formulas.                             *)
Lanes(op, vs) == Each(op, "float", vs)
Root(x) == <<Opaque("sqrt", <<x>>)>>
Product(x, y) == Basic("mul", "float", <<x, y>>)
Crossed(x, y) ==
  [c \in 1..3 |-> LET i == (c % 3) + 1
                      j == (i % 3) + 1
                  IN Product(x[i], y[j]) - Product(x[j], y[i])]
Refracted(x, y, ratio, cosine, k) ==
  IF k < 0 THEN Same(Len(x), 0)
  ELSE Lanes("sub", <<Lanes("mul", << <<ratio>>, x>>), Lanes("mul", << <<Product(ratio, cosine) + Opaque("sqrt", <<k>>)>>, y>>)>>)
AlongNormal(name, x, y, vs, along) ==
  CASE name = "reflect" -> Lanes("sub", <<x, Lanes("mul", << <<2 * along>>, y>>)>>)
    [] name = "refract" ->
         Refracted(x, y, vs[3][1], along,
                   One - Product(Product(vs[3][1], vs[3][1]), One - (along * along) \div One))
GeometricOf(name, vs) ==
  CASE name = "length" -> Root(Dot(vs[1], vs[1]))
    [] name = "distance" -> LET apart == Lanes("sub", vs) IN Root(Dot(apart, apart))
    [] name = "normalize" -> Lanes("mul", <<vs[1], <<Opaque("rsqrt", <<Dot(vs[1], vs[1])>>)>> >>)
    [] name = "faceforward" -> IF Dot(vs[3], vs[2]) < 0 THEN vs[1] ELSE Lanes("neg", <<vs[1]>>)
    [] name = "cross" -> Crossed(vs[1], vs[2])
    [] OTHER -> AlongNormal(name, vs[1], vs[2], vs, Dot(vs[2], vs[1]))
AnyOrAll(op, v) ==
  LET decides == IF op = "any" THEN 1 ELSE 0
  IN IF decides \in Range(v) THEN decides ELSE IF Undefined \in Range(v) THEN Undefined ELSE 1 - decides
LoadExponent(x, exponent) ==
  Lanes("mul", <<x, [c \in DOMAIN exponent |-> Opaque("exp2", <<Convert("int", "float", exponent[c])>>)]>>)

(* count bits of the base from offset on, with or without their sign, or   *)
(* the base with those bits replaced.                                      *)
BitFieldOf(op, sign, vs) ==
  LET offset == vs[Len(vs) - 1][1]
      count == vs[Len(vs)][1]
      size == 2^count
      Field(x) == (x \div 2^offset) % size
      Extract(x) == IF sign = "int" /\ count > 0 /\ 2 * Field(x) >= size THEN Modulo - size + Field(x) ELSE Field(x)
      Insert(x, y) == x - Field(x) * 2^offset + (y % size) * 2^offset
  IN [c \in DOMAIN vs[1] |->
        IF Undefined \in {vs[1][c], offset, count} \/ offset + count > Bits THEN Undefined
        ELSE IF op = "extract" THEN Extract(vs[1][c])
        ELSE IF vs[2][c] = Undefined THEN Undefined ELSE Insert(vs[1][c], vs[2][c])]

----------------------------------------------------------------------------
(* What the functions every target has take and give.                      *)
Float(x) == Value(Scalar("float"), <<x>>)
Floats(n) == Type("float", n)
MatrixTimes(type, a, b) ==
  LET n == a.type.n
  IN CASE IsMatrix(a.type) /\ b.type = a.type /\ type = a.type -> Value(type, MatrixTimesMatrix(a.v, b.v, n))
       [] IsMatrix(a.type) /\ b.type = Floats(n) /\ type = Floats(n) -> Value(type, MatrixTimesVector(a.v, b.v))
       [] IsMatrix(b.type) /\ a.type = Floats(b.type.n) /\ type = a.type -> Value(type, VectorTimesMatrix(a.v, b.v))
       [] OTHER -> IllTyped
TimesScalar(type, a, x) ==
  IF a.type = type /\ (IsMatrix(type) \/ (IsFloat(type) /\ type.n > 1)) /\ x.type = Scalar("float")
    THEN Value(type, Each("mul", "float", <<a.v, x.v>>)) ELSE IllTyped
Transpose(type, a) == IF IsMatrix(type) /\ a.type = type THEN Value(type, Transposed(a.v, type.n)) ELSE IllTyped
OfMatrix(name, type, result, a) ==
  IF IsMatrix(a.type) /\ type = result
    THEN Value(type, [c \in 1..CountOf(type) |-> Opaque(name, Append(a.v, c))]) ELSE IllTyped
AllFloats(args) == \A k \in DOMAIN args : IsFloat(args[k].type) /\ args[k].type = args[1].type
OpDot(a, b) == IF AllFloats(<<a, b>>) /\ a.type.n > 1 THEN Float(Dot(a.v, b.v)) ELSE IllTyped
Geometric(name, type, args) ==
  IF /\ AllFloats(IF name = "refract" THEN SubSeq(args, 1, 2) ELSE args)
     /\ name = "refract" => args[3].type = Scalar("float")
     /\ name = "cross" => type.n = 3
     /\ type = IF name \in {"length", "distance"} THEN Scalar("float") ELSE args[1].type
    THEN Value(type, GeometricOf(name, [k \in DOMAIN args |-> args[k].v])) ELSE IllTyped
Reduction(op, x) ==
  IF IsBoolVector(x.type) THEN Value(Truth, <<AnyOrAll(op, x.v)>>) ELSE IllTyped
Scaled(type, x, exponent) ==
  IF type = x.type /\ IsFloat(x.type) /\ IsInteger(exponent.type) /\ exponent.type.n = x.type.n
    THEN Value(type, LoadExponent(x.v, exponent.v)) ELSE IllTyped
BitField(op, sign, type, args) ==
  IF /\ IsInteger(type) /\ args[1].type = type /\ (op = "insert" => args[2].type = type)
     /\ \A k \in (IF op = "insert" THEN 3 ELSE 2)..Len(args) : IsInteger(args[k].type) /\ args[k].type.n = 1
    THEN Value(type, BitFieldOf(op, sign, [k \in DOMAIN args |-> args[k].v])) ELSE IllTyped
=============================================================================
