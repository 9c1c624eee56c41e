---------------------------- MODULE SourceMeaning ----------------------------
(***************************************************************************)
(* What the language says an expression means (docs/spec/04-expressions.md *)
(* and 09-intrinsics-and-builtins.md): its type, its value and what it     *)
(* stores, evaluated from left to right.                                   *)
(*                                                                         *)
(* env holds the variables by name, the value of the expression evaluated  *)
(* last, and whether everything so far obeys the rules of the language.    *)
(***************************************************************************)
EXTENDS ShaderValues

Gives(env, value) == [env EXCEPT !.out = value, !.ok = @ /\ value # IllTyped]
IsArray(x) == "elements" \in DOMAIN x
IsWhole(t) == IsInteger(t) /\ t.n = 1
Fits(l, r) == l.n = r.n \/ l.n = 1 \/ r.n = 1

(* A value where a scalar of another kind is expected: by value, but never *)
(* between bool and a number, and never for a vector.                      *)
Converted(x, type) ==
  CASE x = IllTyped \/ x.type = type -> x
    [] IsNumeric(x.type) /\ x.type.n = 1 /\ IsNumeric(type) /\ type.n = 1 ->
         Value(type, EachConverted(x.type.of, type.of, x.v))
    [] OTHER -> IllTyped
Floating(x) == IF IsInteger(x.type) THEN Value(Type("float", x.type.n), EachConverted(x.type.of, "float", x.v)) ELSE x

(* A condition: a bool, or a number that is not zero.                      *)
AsTruth(x) ==
  IF IsScalar(x.type) THEN Value(Truth, EachConverted(x.type.of, "bool", x.v)) ELSE IllTyped

----------------------------------------------------------------------------
(* Operators.                                                              *)
Arithmetic == [ADD |-> "add", SUBTRACT |-> "sub", MULTIPLY |-> "mul", DIVIDE |-> "div", MODULO |-> "rem"]
Comparison == [EQUALS |-> "eq", NOT_EQUALS |-> "ne", LESS |-> "lt", LESS_EQUAL |-> "le", GREATER |-> "gt", GREATER_EQUAL |-> "ge"]
OfBits == [BITWISE_AND |-> "and", BITWISE_OR |-> "or", BITWISE_XOR |-> "xor", LEFT_SHIFT |-> "shl", RIGHT_SHIFT |-> "shr"]
OfTruth == [AND |-> "and", OR |-> "or"]

(* A scalar applies to every component of a vector.                        *)
Wider(l, r) == Type(l.of, Most(l.n, r.n))
BitsValue(op, l, r) ==
  IF /\ IsInteger(l.type) /\ IsInteger(r.type) /\ Fits(l.type, r.type)
     /\ op \in {"LEFT_SHIFT", "RIGHT_SHIFT"} \/ l.type.of = r.type.of
    THEN Value(Wider(l.type, r.type), Each(OfBits[op], l.type.of, <<l.v, r.v>>)) ELSE IllTyped
TruthValue(op, l, r) ==
  IF IsBoolVector(l.type) /\ r.type = l.type THEN Value(l.type, Each(OfTruth[op], "bool", <<l.v, r.v>>)) ELSE IllTyped
ComparedValue(op, l, r) ==
  LET of == l.type.of
  IN IF /\ of = r.type.of /\ of # "mat" /\ Fits(l.type, r.type)
        /\ of = "bool" => op \in {"EQUALS", "NOT_EQUALS"}
    THEN Value(Type("bool", Most(l.type.n, r.type.n)), Each(Comparison[op], of, <<l.v, r.v>>)) ELSE IllTyped
ArithmeticValue(op, l, r) ==
  LET of == l.type.of
      word == IF op = "MODULO" /\ of = "float" THEN "floormod" ELSE Arithmetic[op]
  IN IF IsNumeric(l.type) /\ r.type.of = of /\ Fits(l.type, r.type)
       THEN Value(Wider(l.type, r.type), Each(word, of, <<l.v, r.v>>)) ELSE IllTyped
MatrixValue(op, l, r) ==
  LET n == IF IsMatrix(l.type) THEN l.type.n ELSE r.type.n
      Fitting(t) == t \in {Type("mat", n), Scalar("float")}
  IN CASE op = "MULTIPLY" /\ IsMatrix(l.type) /\ r.type = l.type -> Value(l.type, MatrixTimesMatrix(l.v, r.v, n))
       [] op = "MULTIPLY" /\ r.type = Type("float", n) -> Value(r.type, MatrixTimesVector(l.v, r.v))
       [] op = "MULTIPLY" /\ l.type = Type("float", n) -> Value(l.type, VectorTimesMatrix(l.v, r.v))
       [] op \in DOMAIN Arithmetic \ {"MODULO"} /\ Fitting(l.type) /\ Fitting(r.type) ->
            Value(Type("mat", n), Each(Arithmetic[op], "float", <<l.v, r.v>>))
       [] OTHER -> IllTyped

BinaryValue(op, left, right) ==
  LET Like(x, y) == IF op \in DOMAIN Arithmetic \cup DOMAIN Comparison /\ IsWhole(x.type) /\ (IsFloat(y.type) \/ IsMatrix(y.type))
                      THEN Floating(x) ELSE x
      l == Like(left, right)
      r == Like(right, left)
  IN CASE IllTyped \in {left, right} -> IllTyped
       [] op \in DOMAIN OfBits -> BitsValue(op, l, r)
       [] op \in DOMAIN OfTruth -> TruthValue(op, l, r)
       [] op \in DOMAIN Comparison -> ComparedValue(op, l, r)
       [] IsMatrix(l.type) \/ IsMatrix(r.type) -> MatrixValue(op, l, r)
       [] OTHER -> ArithmeticValue(op, l, r)

UnaryValue(op, x) ==
  CASE op = "NEGATE" /\ (IsNumeric(x.type) \/ IsMatrix(x.type)) -> Value(x.type, Each("neg", ScalarOf(x.type).of, <<x.v>>))
    [] op = "BITWISE_NOT" /\ IsInteger(x.type) -> Value(x.type, Each("not", x.type.of, <<x.v>>))
    [] op = "NOT" /\ IsBoolVector(x.type) -> Value(x.type, Each("not", "bool", <<x.v>>))
    [] op = "NOT" /\ IsScalar(x.type) -> Value(Truth, Each("not", "bool", <<AsTruth(x).v>>))
    [] OTHER -> IllTyped

----------------------------------------------------------------------------
(* Constructors and functions.                                             *)
Constructed(type, xs) ==
  LET from == [k \in DOMAIN xs |-> xs[k].type]
      n == type.n
      all == FlattenSeq([k \in DOMAIN xs |-> EachConverted(ScalarOf(from[k]).of, ScalarOf(type).of, xs[k].v)])
      Unit(r, c, x) == IF r = c THEN x ELSE 0
      Cell(r, c) == IF r <= from[1].n /\ c <= from[1].n THEN xs[1].v[from[1].n * (c - 1) + r] ELSE Unit(r, c, One)
      OfCells(F(_, _)) == FlattenSeq([c \in 1..n |-> [r \in 1..n |-> F(r, c)]])
      scalars == \A k \in DOMAIN xs : IsScalar(from[k])
  IN CASE IllTyped \in Range(xs) -> IllTyped
       [] IsMatrix(type) /\ Len(xs) = 1 /\ IsMatrix(from[1]) -> Value(type, OfCells(Cell))
       [] IsMatrix(type) /\ Len(xs) = 1 /\ scalars -> Value(type, OfCells(LAMBDA r, c : Unit(r, c, all[1])))
       [] IsMatrix(type) /\ \/ Len(xs) = n * n /\ scalars
                            \/ Len(xs) = n /\ \A k \in DOMAIN xs : from[k] = Type("float", n) -> Value(type, all)
       [] ~IsMatrix(type) /\ Len(xs) = 1 /\ scalars -> Value(type, Same(n, all[1]))
       [] ~IsMatrix(type) /\ Len(all) = n /\ \A k \in DOMAIN xs : ~IsMatrix(from[k]) -> Value(type, all)
       [] OTHER -> IllTyped

OfFloats ==
  [lerp |-> "mix", smoothstep |-> "smoothstep", fract |-> "fract", step |-> "step", floor |-> "floor",
   ceil |-> "ceil", round |-> "round", trunc |-> "trunc", mod |-> "floormod", fmod |-> "rem", fma |-> "fma", pow |-> "pow",
   sqrt |-> "sqrt", rsqrt |-> "rsqrt", exp |-> "exp", exp2 |-> "exp2", log |-> "log", log2 |-> "log2", sin |-> "sin",
   cos |-> "cos", tan |-> "tan", asin |-> "asin", acos |-> "acos", atan |-> "atan", atan2 |-> "atan2", sinh |-> "sinh",
   cosh |-> "cosh", tanh |-> "tanh", degrees |-> "degrees", radians |-> "radians"]
OfNumbers == {"abs", "sign", "min", "max", "clamp"}
OfVectors == {"length", "distance", "normalize", "reflect", "refract", "cross", "faceforward"}
OfIntegers == [count_bits |-> <<"bitcount", "bitcount">>, reverse_bits |-> <<"bitreverse", "bitreverse">>,
               first_bit_low |-> <<"findlsb", "findlsb">>, first_bit_high |-> <<"findsmsb", "findumsb">>]
Viewed == [asfloat |-> "float", asint |-> "int", asuint |-> "uint"]

CallValue(name, xs) ==
  LET type == xs[1].type
      vs == [k \in DOMAIN xs |-> xs[k].v]
      n == Max({xs[k].type.n : k \in DOMAIN xs})
      alike == \A k \in DOMAIN xs : xs[k].type.of = type.of /\ xs[k].type.n \in {1, n}
      floats == alike /\ IsFloat(type)
      Lane(op) == Value(Type(type.of, n), Each(op, type.of, vs))
      Pairwise(op) == FoldLeft(LAMBDA sum, v : Each(op, type.of, <<sum, v>>), vs[1], Tail(vs))
      unit == <<One>>
  IN CASE IllTyped \in Range(xs) -> IllTyped
       [] name \in DOMAIN OfFloats /\ floats -> Lane(OfFloats[name])
       [] name = "mod" /\ alike /\ IsInteger(type) -> Lane("rem")
       [] name \in {"min", "max"} /\ alike /\ IsNumeric(type) -> Value(Type(type.of, n), Pairwise(name))
       [] name \in OfNumbers /\ alike /\ IsNumeric(type) -> Lane(name)
       [] name = "saturate" /\ floats -> Value(type, Each("clamp", "float", <<vs[1], <<0>>, unit>>))
       [] name = "rcp" /\ floats -> Value(type, Each("div", "float", <<unit, vs[1]>>))
       [] name = "log10" /\ floats -> Value(type, Each("mul", "float", <<Each("log2", "float", vs), <<1>> >>))
       [] name = "ldexp" /\ IsFloat(type) /\ xs[2].type = Type("int", n) -> Value(type, LoadExponent(vs[1], vs[2]))
       [] name = "dot" /\ floats -> Value(Scalar("float"), <<Dot(vs[1], vs[2])>>)
       [] name \in OfVectors /\ IsFloat(type) ->
            Value(IF name \in {"length", "distance"} THEN Scalar("float") ELSE type, GeometricOf(name, vs))
       [] name = "transpose" /\ IsMatrix(type) -> Value(type, Transposed(vs[1], type.n))
       [] name = "determinant" /\ IsMatrix(type) -> Value(Scalar("float"), <<Opaque(name, Append(vs[1], 1))>>)
       [] name = "inverse" /\ IsMatrix(type) -> Value(type, [c \in 1..CountOf(type) |-> Opaque(name, Append(vs[1], c))])
       [] name \in DOMAIN OfIntegers /\ IsInteger(type) -> Lane(OfIntegers[name][IF type.of = "int" THEN 1 ELSE 2])
       [] name = "bitfield_extract" /\ IsInteger(type) -> Value(type, BitFieldOf("extract", type.of, vs))
       [] name = "bitfield_insert" /\ IsInteger(type) /\ xs[2].type = type -> Value(type, BitFieldOf("insert", type.of, vs))
       [] name \in DOMAIN Viewed /\ IsNumeric(type) ->
            Value(Type(Viewed[name], type.n), Reinterpret(type.of, Viewed[name], vs[1]))
       [] name \in {"any", "all"} /\ IsBoolVector(type) -> Value(Truth, <<AnyOrAll(name, vs[1])>>)
       [] name \in {"isnan", "isinf"} /\ IsFloat(type) -> Value(Type("bool", n), Each(name, "float", vs))
       [] name = "select" /\ xs[2].type = type /\ (xs[3].type = Truth \/ (type.n > 1 /\ xs[3].type = Type("bool", type.n))) ->
            Value(type, Picked(vs[3], vs[2], vs[1]))
       [] OTHER -> IllTyped

----------------------------------------------------------------------------
(* Parts of a value: the components a swizzle names, or the element, the   *)
(* column or the component at an index.                                    *)
Picks(p) == [name |-> "", picks |-> p, index |-> 0]
At(i) == [name |-> "", picks |-> <<>>, index |-> i]

SizeOf(x) == IF IsArray(x) THEN Len(x.elements) ELSE x.type.n
Part(x, step) ==
  LET picked == step.picks # <<>>
      i == step.index
      inside == i \in 0..(SizeOf(x) - 1)
      Inside(type, v) == Value(type, IF inside THEN v ELSE Same(CountOf(type), Undefined))
  IN CASE picked -> IF IsArray(x) \/ IsMatrix(x.type) \/ \E k \in DOMAIN step.picks : step.picks[k] >= x.type.n THEN IllTyped
                    ELSE Value(Type(x.type.of, Len(step.picks)), [k \in DOMAIN step.picks |-> x.v[step.picks[k] + 1]])
       [] IsArray(x) -> IF inside THEN x.elements[i + 1] ELSE Inside(x.elements[1].type, <<>>)
       [] IsMatrix(x.type) -> Inside(ColumnOf(x.type), ColumnAt(x.v, x.type.n, i + 1))
       [] x.type.n > 1 -> Inside(ScalarOf(x.type), SubSeq(x.v, i + 1, i + 1))
       [] OTHER -> IllTyped
WithPart(x, step, y) ==
  LET i == step.index
      At0(c) == (CHOOSE k \in DOMAIN step.picks : step.picks[k] = c - 1)
  IN CASE step.picks # <<>> ->
            Value(x.type, [c \in DOMAIN x.v |-> IF c - 1 \in Range(step.picks) THEN y.v[At0(c)] ELSE x.v[c]])
       [] i \notin 0..(SizeOf(x) - 1) -> IF IsArray(x) THEN x ELSE Value(x.type, Same(CountOf(x.type), Undefined))
       [] IsArray(x) -> [x EXCEPT !.elements[i + 1] = y]
       [] OTHER -> Value(x.type, WithElement(x.v, Len(y.v), i, y.v))

(* A place is a variable and a path of parts.                              *)
ReadPath(x, path) == FoldLeft(LAMBDA y, step : IF y = IllTyped THEN y ELSE Part(y, step), x, path)
RECURSIVE WritePath(_, _, _)
WritePath(x, path, y) ==
  IF path = <<>> THEN y ELSE WithPart(x, path[1], WritePath(Part(x, path[1]), Tail(path), y))
Distinct(step) == step.picks = <<>> \/ Cardinality(Range(step.picks)) = Len(step.picks)

Write(env, place, value) ==
  LET old == env.vars[place.name]
      target == ReadPath(old, place.path)
      y == Converted(value, target.type)
  IN IF target = IllTyped \/ y = IllTyped \/ \E k \in DOMAIN place.path : ~Distinct(place.path[k]) THEN Gives(env, IllTyped)
     ELSE [Gives(env, y) EXCEPT !.vars[place.name] = WritePath(old, place.path, y)]

----------------------------------------------------------------------------
(* Expressions and statements.  What is not evaluated must still be well   *)
(* typed.                                                                  *)
RECURSIVE Evaluate(_, _)
EvaluateAll(env, es) ==
  FoldLeft(LAMBDA got, e : LET next == Evaluate(got.env, e) IN [env |-> next, outs |-> Append(got.outs, next.out)],
           [env |-> env, outs |-> <<>>], es)
Unevaluated(env, e) == [env EXCEPT !.ok = @ /\ Evaluate(env, e).ok]

IndexOf(i) == IF IsWhole(i.type) THEN NumberOf("int", i.v[1]) ELSE 0
IndexIn(x, i, e) ==
  /\ IsWhole(i.type)
  /\ e.kind = "literal" => NumberOf(i.type.of, i.v[1]) \in 0..(SizeOf(x) - 1)
AtPlace(place) == ReadPath(place.env.vars[place.name], place.path)
PlaceAt(inner, index, target) ==
  [inner EXCEPT !.path = Append(@, At(IndexOf(index.out))),
                !.env = [index EXCEPT !.ok = @ /\ AtPlace(inner) # IllTyped /\ IndexIn(AtPlace(inner), index.out, target.index)]]
PlaceInside(inner, target) == PlaceAt(inner, Evaluate(inner.env, target.index), target)
RECURSIVE PlaceOf(_, _)
PlaceOf(env, target) ==
  CASE target.kind = "name" -> [env |-> env, name |-> target.name, path |-> <<>>]
    [] target.kind = "swizzle" -> [PlaceOf(env, target.object) EXCEPT !.path = Append(@, Picks(target.picks))]
    [] target.kind = "element" -> PlaceInside(PlaceOf(env, target.array), target)

Logical(env, e) ==
  LET left == Evaluate(env, e.left)
      truth == AsTruth(left.out)
      right == Evaluate(left, e.right)
      decided == truth.v[1] = (IF e.op = "AND" THEN 0 ELSE 1)
  IN CASE ~IsScalar(left.out.type) -> Gives(right, BinaryValue(e.op, left.out, right.out))
       [] decided -> Gives([Unevaluated(left, e.right) EXCEPT !.ok = @ /\ AsTruth(right.out) # IllTyped], truth)
       [] OTHER -> Gives(right, AsTruth(right.out))

Choice(env, e) ==
  LET condition == Evaluate(env, e.condition)
      truth == AsTruth(condition.out)
      yes == Evaluate(condition, e.yes)
      both == Evaluate(yes, e.no)
      n == condition.out.type.n
      alike == Evaluate(condition, e.no).out.type = yes.out.type
  IN CASE IsBoolVector(condition.out.type) ->
            Gives(both, IF alike /\ yes.out.type.n = n THEN Value(yes.out.type, Picked(condition.out.v, yes.out.v, both.out.v))
                        ELSE IllTyped)
       [] ~IsScalar(condition.out.type) \/ ~alike -> Gives(condition, IllTyped)
       [] truth.v[1] = 1 -> Gives(Evaluate(Unevaluated(condition, e.no), e.yes), yes.out)
       [] OTHER -> Evaluate(Unevaluated(condition, e.yes), e.no)

(* x++ and the like: the place is found once.                              *)
StepTo(place, op, old, new) ==
  Gives(Write(place.env, place, new), IF op \in {"POST_INCREMENT", "POST_DECREMENT"} THEN old ELSE new)
StepFrom(place, op, old) ==
  LET one == Value(Scalar(old.type.of), <<IF IsFloat(old.type) THEN One ELSE 1>>)
  IN StepTo(place, op, old, BinaryValue(IF op \in {"PRE_INCREMENT", "POST_INCREMENT"} THEN "ADD" ELSE "SUBTRACT", old, one))
SteppedAt(place, op) == StepFrom(place, op, AtPlace(place))
Stepped(env, op, target) == SteppedAt(PlaceOf(env, target), op)

(* Statements.  A compound assignment evaluates its target once, before    *)
(* the value.                                                              *)
WriteOut(env, place) == Write(env, place, env.out)
AssignTo(place, x) == Write(place.env, place, x)
Assigned(value, s) == AssignTo(PlaceOf(value, s.target), value.out)
Update(env, place, op) == Write(env, place, BinaryValue(op, ReadPath(env.vars[place.name], place.path), env.out))
Compound(place, s) == Update(Evaluate(place.env, s.value), place, s.op)

FillArray(env, name, elements) ==
  [env EXCEPT !.vars[name].elements = elements, !.ok = @ /\ IllTyped \notin Range(elements)]
FilledFrom(all, name) ==
  FillArray(all.env, name, [k \in DOMAIN all.outs |-> Converted(all.outs[k], all.env.vars[name].elements[k].type)])
DeclaredAs(env, s) ==
  CASE s.values = <<>> -> [env EXCEPT !.vars[s.name].v = Same(Len(@), Undefined)]
    [] s.values # <<>> /\ IsArray(env.vars[s.name]) -> FilledFrom(EvaluateAll(env, s.values), s.name)
    [] OTHER -> WriteOut(Evaluate(env, s.values[1]), [name |-> s.name, path |-> <<>>])

Evaluate(env, e) ==
  LET arguments == EvaluateAll(env, e.args)
      left == Evaluate(env, e.left)
      right == Evaluate(left, e.right)
      operand == Evaluate(env, e.operand)
      place == PlaceOf(env, e)
      object == Evaluate(env, e.object)
  IN CASE ~env.ok -> env
       [] e.kind = "literal" -> Gives(env, Value(Scalar(e.of), <<e.x>>))
       [] e.kind = "name" -> Gives(env, env.vars[e.name])
       [] e.kind = "binary" /\ e.op \in DOMAIN OfTruth -> Logical(env, e)
       [] e.kind = "binary" -> Gives(right, BinaryValue(e.op, left.out, right.out))
       [] e.kind = "unary" /\ e.op \in {"NEGATE", "NOT", "BITWISE_NOT"} -> Gives(operand, UnaryValue(e.op, operand.out))
       [] e.kind = "unary" -> Stepped(env, e.op, e.operand)
       [] e.kind = "ternary" -> Choice(env, e)
       [] e.kind = "construct" -> Gives(arguments.env, Constructed(e.type, arguments.outs))
       [] e.kind = "intrinsic" -> Gives(arguments.env, CallValue(e.name, arguments.outs))
       [] e.kind = "swizzle" -> Gives(object, Part(object.out, Picks(e.picks)))
       [] e.kind = "element" ->
            LET base == Evaluate(env, e.array)
                index == Evaluate(base, e.index)
            IN Gives(index, IF IndexIn(base.out, index.out, e.index) THEN Part(base.out, At(IndexOf(index.out)))
                            ELSE IllTyped)
       [] e.kind = "expression" -> Evaluate(env, e.value)
       [] e.kind = "assign" /\ e.op = "" -> Assigned(Evaluate(env, e.value), e)
       [] e.kind = "assign" -> Compound(PlaceOf(env, e.target), e)
       [] e.kind = "declare" -> DeclaredAs(env, e)

StartFrom(vars) == [vars |-> vars, ok |-> TRUE, out |-> IllTyped]
Meaning(program, vars) == FoldLeft(Evaluate, StartFrom(vars), program)
=============================================================================
