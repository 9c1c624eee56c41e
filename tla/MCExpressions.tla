---------------------------- MODULE MCExpressions ----------------------------
EXTENDS Expressions

V(name, of, n) == [name |-> name, type |-> Type(of, n), length |-> 0]
Many(name, of, n, length) == [name |-> name, type |-> Type(of, n), length |-> length]
(* Two variables of every type that is used, and arrays.                   *)
Letters == [int |-> "i", uint |-> "u", float |-> "f", bool |-> "b", mat |-> "m"]
NameOf(of, n, second) == Letters[of] \o (IF second THEN "'" ELSE "") \o ToString(n)
Both(of, n) == <<V(NameOf(of, n, FALSE), of, n), V(NameOf(of, n, TRUE), of, n)>>
AllVariables ==
  FlattenSeq([k \in 1..12 |-> Both(<<"int", "uint", "float", "bool">>[(k - 1) \div 3 + 1], ((k - 1) % 3) + 1)])
    \o Both("mat", 2) \o Both("mat", 3) \o <<Many("ai", "int", 1, 3), Many("af", "float", 2, 2)>>

(* What they hold, by a seed.                                              *)
Seeds == 0..2
Component(of, seed, k) ==
  LET x == CASE seed = 0 -> k + 1 [] seed = 1 -> 5 * k + 3 [] OTHER -> 7 * k
  IN CASE of \in {"int", "uint"} -> x % Modulo [] of = "bool" -> (x \div 2) % 2
       [] OTHER -> ((x * 3) % 23) - 7
InputOf(seed) ==
  [name \in {AllVariables[k].name : k \in DOMAIN AllVariables} |->
     LET k == CHOOSE k \in DOMAIN AllVariables : AllVariables[k].name = name
         v == AllVariables[k]
         n == CountOf(v.type)
         Held(e) == Value(v.type, [c \in 1..n |-> Component(v.type.of, seed, 3 * k + n * e + c)])
     IN IF v.length = 0 THEN Held(0) ELSE [elements |-> [e \in 1..v.length |-> Held(e)]]]
AllInputs == {InputOf(s) : s \in Seeds}

N(name) == [kind |-> "name", name |-> name]
X(of, n) == N(NameOf(of, n, FALSE))
Y(of, n) == N(NameOf(of, n, TRUE))
L(of, x) == [kind |-> "literal", of |-> of, x |-> InBits(of, x)]
B(op, l, r) == [kind |-> "binary", op |-> op, left |-> l, right |-> r]
U(op, e) == [kind |-> "unary", op |-> op, operand |-> e]
T(c, y, n) == [kind |-> "ternary", condition |-> c, yes |-> y, no |-> n]
C(of, n, args) == [kind |-> "construct", type |-> Type(of, n), args |-> args]
F(name, args) == [kind |-> "intrinsic", name |-> name, args |-> args]
S(o, picks) == [kind |-> "swizzle", object |-> o, picks |-> picks]
E(a, i) == [kind |-> "element", array |-> a, index |-> i]
Set(place, op, value) == [kind |-> "assign", target |-> place, op |-> op, value |-> value]
Do(e) == [kind |-> "expression", value |-> e]

(* An expression shown in a variable of its type, or alone.                *)
Probe == StartFrom(CHOOSE input0 \in AllInputs : TRUE)
ShownAs(e, type) == IF type = Invalid THEN <<Do(e)>> ELSE <<Set(Y(type.of, type.n), "", e)>>
Shown(e) == ShownAs(e, Evaluate(Probe, e).out.type)

ArithmeticOps == {"ADD", "SUBTRACT", "MULTIPLY", "DIVIDE", "MODULO"}
ComparisonOps == {"EQUALS", "NOT_EQUALS", "LESS", "LESS_EQUAL", "GREATER", "GREATER_EQUAL"}
BitOps == {"BITWISE_AND", "BITWISE_OR", "BITWISE_XOR", "LEFT_SHIFT", "RIGHT_SHIFT"}
Steps == {"PRE_INCREMENT", "POST_INCREMENT", "PRE_DECREMENT", "POST_DECREMENT"}
Numbers == {"int", "uint", "float"}
Zero(of) == L(of, 0)
Unit(of) == L(of, IF of = "float" THEN One ELSE 1)
Idx == X("int", 1)

(* Operators: the kinds and widths of their operands.                      *)
Widths == {<<1, 1>>, <<1, 3>>, <<3, 1>>, <<2, 3>>, <<3, 3>>}
OfOneKind == {B(op, X(of, w[1]), Y(of, w[2])) : op \in ArithmeticOps \cup ComparisonOps, of \in Numbers, w \in Widths}
OnBits == {B(op, X(of, w[1]), Y(of, w[2])) : op \in BitOps, of \in Numbers, w \in Widths \ {<<1, 3>>}}
Promoted ==
  UNION {{B(op, X(of, 1), Y("float", n)), B(op, X("float", n), Y(of, 1))} :
         op \in {"SUBTRACT", "LESS", "MODULO"}, of \in {"int", "uint"}, n \in {1, 2}}
OfMatrices ==
  UNION {{B(op, X("mat", 2), Y("mat", 2)), B(op, X("mat", 3), Y("float", 1)), B(op, X("float", 1), Y("mat", 3)), B(op, X("int", 1), Y("mat", 2)),
          B(op, Y("mat", 2), X("uint", 1))} :
         op \in {"ADD", "SUBTRACT", "MULTIPLY", "DIVIDE"}}
    \cup {B("MULTIPLY", X("mat", 3), Y("float", 3)), B("MULTIPLY", Y("float", 2), X("mat", 2))}
OfOne ==
  {U("NEGATE", X(of, n)) : of \in Numbers, n \in {1, 2}} \cup {U("NEGATE", X("mat", 2)), U("NOT", X("bool", 2))}
    \cup {U("NOT", X(of, 1)) : of \in {"bool", "int", "float"}} \cup {U("BITWISE_NOT", X(of, n)) : of \in Numbers, n \in {1, 2}}

(* Constants, known while compiling.                                       *)
Literals == {L(of, x) : of \in Numbers, x \in {0, 1, 3, 7}} \cup {L("int", -8), L("int", -1)}
OfLiterals == {B(op, x, y) : op \in ArithmeticOps, x \in {L("int", -8), L("int", 7), L("float", 3)}, y \in {y \in Literals : y.of # "uint"}}
    \cup {B(op, L("uint", 3), y) : op \in ArithmeticOps, y \in {y \in Literals : y.of = "uint"}}
OfConstantVectors ==
  {B(op, C(of, 2, <<L(of, 3), L(of, 7)>>),
     CASE x = "unit" -> Unit(of) [] x = "wide" -> C(of, 2, <<Unit(of)>>) [] OTHER -> C(of, 2, <<Unit(of), Zero(of)>>)) : op \in ArithmeticOps, of \in Numbers,
     x \in {"unit", "wide", "vector"}}

(* What only one side of a choice evaluates.                               *)
Bump == B("GREATER", U("POST_INCREMENT", Idx), L("int", 1))
OfChoices ==
  {B(op, c, r) : op \in {"AND", "OR"}, c \in {X("bool", 1), X("int", 1), X("float", 1), B("EQUALS", Y("int", 1), Zero("int"))},
                 r \in {Y("bool", 1), Y("uint", 1), Bump, B("AND", Y("bool", 1), Bump),
                        B("LESS", B("DIVIDE", X("uint", 1), Y("uint", 1)), Unit("uint"))}}
    \cup {B(op, X("bool", 2), Y("bool", 2)) : op \in {"AND", "OR"}}
    \cup {T(c, a[1], a[2]) : c \in {X("bool", 1), Y("int", 1)},
                        a \in {<<X("float", 2), Y("float", 2)>>, <<Idx, U("PRE_DECREMENT", Idx)>>, <<X("mat", 2), Y("mat", 2)>>,
                               <<X("bool", 1), Bump>>, <<B("DIVIDE", X("int", 2), Y("int", 2)), X("int", 2)>>,
                               <<X("int", 1), X("float", 1)>>, <<T(X("bool", 1), Idx, L("int", 2)), U("NEGATE", Idx)>>}}
    \cup {T(X("bool", n), X("float", n), Y("float", n)) : n \in 2..3}

(* Constructors, functions, components and elements.                       *)
OfConstructors ==
  {C(to, 1, <<X(from, 1)>>) : to \in Numbers, from \in Numbers \cup {"bool"}}
    \cup {C(to, 1, <<L(from, x)>>) : to \in Numbers, from \in Numbers, x \in {7, 3}}
    \cup {C(to, n, <<X(from, n)>>) : to \in Numbers, from \in Numbers, n \in 2..3}
    \cup {C(of, 3, args) : of \in Numbers, args \in {<<X("float", 2), Idx>>, <<X("uint", 1), X("int", 2)>>, <<X("float", 1)>>,
            <<X("bool", 1), Idx, X("float", 1)>>, <<X("int", 2)>>, <<X("int", 2), X("int", 2)>>}}
    \cup {C("bool", 2, <<X("bool", 1), Y("bool", 1)>>), C("mat", 2, <<X("mat", 3)>>), C("mat", 3, <<X("mat", 2)>>),
          C("mat", 2, <<X("float", 2), Y("float", 2)>>), C("mat", 2, <<X("int", 1)>>), C("mat", 3, <<X("float", 1)>>),
          C("mat", 2, <<X("int", 1), X("float", 1), X("uint", 1), Y("float", 1)>>), C("mat", 2, <<X("float", 2)>>)}
Fs(names, args) == {F(name, args) : name \in names}
OfFunctions ==
  Fs({"fract", "floor", "ceil", "round", "trunc", "sqrt", "rsqrt", "exp", "exp2", "log", "log2", "log10", "sin", "cos", "tan", "asin",
      "acos", "atan", "sinh", "cosh", "tanh", "degrees", "radians", "saturate", "rcp", "abs", "sign", "normalize", "length",
      "isnan", "isinf"}, <<X("float", 2)>>)
    \cup Fs({"fract", "saturate", "rcp", "abs", "sign", "sqrt"}, <<X("float", 1)>>)
    \cup Fs({"step", "fmod", "mod", "pow", "atan2", "min", "max"}, <<X("float", 2), Y("float", 2)>>)
    \cup Fs({"dot", "distance", "reflect"}, <<X("float", 2), Y("float", 2)>>) \cup Fs({"cross", "dot"}, <<X("float", 3), Y("float", 3)>>)
    \cup Fs({"lerp", "smoothstep", "clamp", "fma", "faceforward"}, <<X("float", 2), Y("float", 2), C("float", 2, <<Unit("float")>>)>>)
    \cup Fs({"lerp", "refract"}, <<X("float", 2), Y("float", 2), Y("float", 1)>>)
    \cup Fs({"clamp", "min", "max"}, <<X("float", 2), Y("float", 1), Unit("float")>>)
    \cup UNION {Fs({"min", "max", "mod"}, <<X(of, 1), Y(of, 1)>>) \cup Fs({"clamp"}, <<X(of, 2), Zero(of), Unit(of)>>)
                  \cup Fs({"abs"}, <<X("int", 2)>>)
                  \cup Fs({"count_bits", "reverse_bits", "first_bit_low", "first_bit_high"}, <<X(of, 2)>>)
                  \cup Fs({"bitfield_extract"}, <<X(of, 1), L("int", 1), L("int", 2)>>)
                  \cup Fs({"bitfield_insert"}, <<X(of, 1), Y(of, 1), L("int", 1), L("int", 2)>>)
                  \cup Fs({"select"}, <<X(of, 2), Y(of, 2), X("bool", 2)>>) \cup Fs({"select"}, <<X(of, 2), Y(of, 2), X("bool", 1)>>)
                  : of \in {"int", "uint"}}
    \cup Fs({"transpose", "determinant", "inverse"}, <<X("mat", 2)>>) \cup Fs({"any", "all"}, <<X("bool", 3)>>)
    \cup Fs({"asfloat"}, <<X("int", 2)>>) \cup Fs({"asint", "asuint"}, <<X("float", 1)>>) \cup Fs({"ldexp"}, <<X("float", 2), X("int", 2)>>)
 \cup Fs({"min"}, <<X("int", 1), Y("float", 1)>>)
    \cup Fs({"select"}, <<X("int", 1), Y("int", 1), X("int", 1)>>)
OfParts ==
  {S(X(of, 3), p) : of \in Numbers, p \in {<<1>>, <<2, 0>>, <<0, 0, 2>>, <<3>>, <<1, 3>>}}
    \cup {S(X("bool", 3), <<2>>), S(X("int", 1), <<0>>), S(E(X("mat", 3), Idx), <<2>>)}
    \cup {E(X(of, 3), i) : of \in {"int", "float"}, i \in {Idx, L("int", 2), L("int", 3)}}
    \cup {E(X("mat", 2), i) : i \in {Idx, L("int", 1), L("int", 2)}}
    \cup {E(N(a), i) : a \in {"ai", "af"}, i \in {Idx, X("uint", 1), L("int", 1), L("int", 3)}}

Expressions0 ==
  OfOneKind \cup OnBits \cup Promoted \cup OfMatrices \cup OfOne \cup OfLiterals \cup OfConstantVectors \cup OfChoices
    \cup OfConstructors \cup OfFunctions \cup OfParts

(* Stores: to variables and to their parts, and what changes them.         *)
Places == {<<"float", 1, S(Y("float", 3), <<1>>)>>, <<"float", 2, S(Y("float", 3), <<2, 0>>)>>, <<"float", 2, S(Y("float", 3), <<1, 1>>)>>,
           <<"int", 1, E(Y("int", 3), Idx)>>, <<"float", 2, E(Y("mat", 2), Idx)>>, <<"float", 1, S(E(Y("mat", 3), L("int", 1)), <<2>>)>>,
           <<"int", 1, E(N("ai"), Idx)>>, <<"float", 2, E(N("af"), L("uint", 1))>>, <<"float", 1, S(E(N("af"), Idx), <<1>>)>>,
           <<"float", 1, Y("float", 1)>>, <<"int", 1, Y("int", 1)>>, <<"uint", 2, Y("uint", 2)>>, <<"bool", 1, Y("bool", 1)>>}
Stores ==
  {<<Set(p[3], op, X(p[1], p[2]))>> : p \in {p \in Places : p[1] # "bool"}, op \in {"", "SUBTRACT", "MULTIPLY"}}
    \cup {<<Do(U(op, p[3]))>> : op \in {"POST_INCREMENT", "PRE_DECREMENT"}, p \in {p \in Places : p[2] = 1 /\ p[1] # "bool"}}
    \cup {<<Set(Y(to, 1), "", X(from, 1))>> : to \in Numbers \cup {"bool"}, from \in Numbers \cup {"bool"}}
    \cup {<<Set(Y("float", 2), "", x)>> : x \in {X("float", 1), X("int", 2), X("float", 3)}}
Declare(name, vs) == [kind |-> "declare", name |-> name, values |-> vs]
Declarations ==
  {<<Declare("ai", <<U("POST_INCREMENT", Idx), X("float", 1), U("PRE_DECREMENT", Idx)>>)>>, <<Declare("f1", <<X("int", 1)>>)>>,
   <<Declare("f2", <<>>), Set(Y("float", 2), "", X("float", 2))>>, <<Declare("af", <<X("float", 2), X("float", 1)>>)>>}

AllPrograms == {Shown(e) : e \in Expressions0} \cup Stores \cup Declarations
=============================================================================
