--------------------------- MODULE SpirvOperations ---------------------------
(***************************************************************************)
(* The SPIR-V written for the operations of an expression.                 *)
(*                                                                         *)
(* Emit is the SPIR-V side: an instruction with a result type is well      *)
(* typed or not, and computes a value.  Translate follows the builder: the *)
(* instructions it writes for one IR instruction, as the value they leave  *)
(* in its destination.                                                     *)
(***************************************************************************)
EXTENDS ShaderValues

(* SPIR-V's rules for instructions that work lane by lane: what each       *)
(* computes, what it takes and what it gives.  "signed" and "unsigned"     *)
(* take integers of either sign and read them so.                          *)
Lanewise ==
  [FAdd |-> <<"add", "float", "float">>, FSub |-> <<"sub", "float", "float">>,
   FMul |-> <<"mul", "float", "float">>, FDiv |-> <<"div", "float", "float">>,
   FMod |-> <<"floormod", "float", "float">>, FRem |-> <<"rem", "float", "float">>,
   FNegate |-> <<"neg", "float", "float">>,
   IAdd |-> <<"add", "signed", "integer">>, ISub |-> <<"sub", "signed", "integer">>,
   IMul |-> <<"mul", "signed", "integer">>, SDiv |-> <<"div", "signed", "integer">>,
   SRem |-> <<"rem", "signed", "integer">>, SNegate |-> <<"neg", "signed", "integer">>,
   UDiv |-> <<"div", "uint", "uint">>, UMod |-> <<"rem", "uint", "uint">>,
   BitwiseAnd |-> <<"and", "unsigned", "integer">>, BitwiseOr |-> <<"or", "unsigned", "integer">>,
   BitwiseXor |-> <<"xor", "unsigned", "integer">>, Not |-> <<"not", "unsigned", "integer">>,
   ShiftLeftLogical |-> <<"shl", "unsigned", "integer">>, ShiftRightLogical |-> <<"shr", "unsigned", "integer">>,
   ShiftRightArithmetic |-> <<"shr", "signed", "integer">>,
   BitCount |-> <<"bitcount", "unsigned", "integer">>, BitReverse |-> <<"bitreverse", "unsigned", "integer">>,
   LogicalAnd |-> <<"and", "bool", "bool">>, LogicalOr |-> <<"or", "bool", "bool">>,
   LogicalNot |-> <<"not", "bool", "bool">>, LogicalEqual |-> <<"eq", "bool", "bool">>,
   LogicalNotEqual |-> <<"ne", "bool", "bool">>,
   FOrdEqual |-> <<"eq", "float", "bool">>, FOrdNotEqual |-> <<"ne", "float", "bool">>,
   FOrdLessThan |-> <<"lt", "float", "bool">>, FOrdLessThanEqual |-> <<"le", "float", "bool">>,
   FOrdGreaterThan |-> <<"gt", "float", "bool">>, FOrdGreaterThanEqual |-> <<"ge", "float", "bool">>,
   IEqual |-> <<"eq", "signed", "bool">>, INotEqual |-> <<"ne", "signed", "bool">>,
   SLessThan |-> <<"lt", "signed", "bool">>, SLessThanEqual |-> <<"le", "signed", "bool">>,
   SGreaterThan |-> <<"gt", "signed", "bool">>, SGreaterThanEqual |-> <<"ge", "signed", "bool">>,
   ULessThan |-> <<"lt", "unsigned", "bool">>, ULessThanEqual |-> <<"le", "unsigned", "bool">>,
   UGreaterThan |-> <<"gt", "unsigned", "bool">>, UGreaterThanEqual |-> <<"ge", "unsigned", "bool">>,
   IsNan |-> <<"isnan", "float", "bool">>, IsInf |-> <<"isinf", "float", "bool">>,
   Sqrt |-> <<"sqrt", "float", "float">>, InverseSqrt |-> <<"rsqrt", "float", "float">>,
   Exp |-> <<"exp", "float", "float">>, Exp2 |-> <<"exp2", "float", "float">>,
   Log |-> <<"log", "float", "float">>, Log2 |-> <<"log2", "float", "float">>,
   Sin |-> <<"sin", "float", "float">>, Cos |-> <<"cos", "float", "float">>, Tan |-> <<"tan", "float", "float">>,
   Asin |-> <<"asin", "float", "float">>, Acos |-> <<"acos", "float", "float">>,
   Atan |-> <<"atan", "float", "float">>, Sinh |-> <<"sinh", "float", "float">>,
   Cosh |-> <<"cosh", "float", "float">>, Tanh |-> <<"tanh", "float", "float">>,
   Floor |-> <<"floor", "float", "float">>, Ceil |-> <<"ceil", "float", "float">>,
   RoundEven |-> <<"round", "float", "float">>, Trunc |-> <<"trunc", "float", "float">>,
   Fract |-> <<"fract", "float", "float">>, FAbs |-> <<"abs", "float", "float">>,
   SAbs |-> <<"abs", "signed", "integer">>, FSign |-> <<"sign", "float", "float">>,
   SSign |-> <<"sign", "signed", "integer">>, FindILsb |-> <<"findlsb", "unsigned", "integer">>,
   FindUMsb |-> <<"findumsb", "unsigned", "integer">>, FindSMsb |-> <<"findsmsb", "signed", "integer">>,
   Degrees |-> <<"degrees", "float", "float">>, Radians |-> <<"radians", "float", "float">>,
   Pow |-> <<"pow", "float", "float">>, Atan2 |-> <<"atan2", "float", "float">>,
   FMin |-> <<"min", "float", "float">>, FMax |-> <<"max", "float", "float">>,
   SMin |-> <<"min", "signed", "integer">>, SMax |-> <<"max", "signed", "integer">>,
   UMin |-> <<"min", "unsigned", "integer">>, UMax |-> <<"max", "unsigned", "integer">>,
   Step |-> <<"step", "float", "float">>, SmoothStep |-> <<"smoothstep", "float", "float">>,
   FClamp |-> <<"clamp", "float", "float">>, SClamp |-> <<"clamp", "signed", "integer">>,
   UClamp |-> <<"clamp", "unsigned", "integer">>, Fma |-> <<"fma", "float", "float">>,
   FMix |-> <<"mix", "float", "float">>]

Kinds(takes) == IF takes \in {"signed", "unsigned", "integer"} THEN {"int", "uint"} ELSE {takes}
ReadAs(takes) == CASE takes = "signed" -> "int" [] takes = "unsigned" -> "uint" [] OTHER -> takes

Emit(op, type, args) ==
  LET rule == Lanewise[op]
  IN IF /\ type.of \in Kinds(rule[3])
        /\ \A k \in DOMAIN args : args[k].type.of \in Kinds(rule[2]) /\ args[k].type.n = type.n
       THEN Value(type, Each(rule[1], ReadAs(rule[2]), [k \in DOMAIN args |-> args[k].v]))
       ELSE IllTyped

(* The other instructions.                                                 *)
CompositeConstruct(type, args) ==
  LET all == FlattenSeq([k \in DOMAIN args |-> args[k].v])
  IN IF /\ Len(args) > 1 /\ Len(all) = CountOf(type)
        /\ \A k \in DOMAIN args : IF IsMatrix(type) THEN args[k].type = ColumnOf(type)
                                  ELSE type.n > 1 /\ args[k].type.of = type.of
       THEN Value(type, all) ELSE IllTyped
CompositeExtract(type, from, index) ==
  CASE IsMatrix(from.type) /\ index < from.type.n /\ type = ColumnOf(from.type) ->
         Value(type, ColumnAt(from.v, type.n, index + 1))
    [] ~IsMatrix(from.type) /\ 1 < from.type.n /\ index < from.type.n /\ type = ScalarOf(from.type) ->
         Value(type, <<from.v[index + 1]>>)
    [] OTHER -> IllTyped
CompositeInsert(type, x, into, index) ==
  IF type = into.type /\ type.n > 1 /\ ~IsMatrix(type) /\ index < type.n /\ x.type = ScalarOf(type)
    THEN Value(type, [into.v EXCEPT ![index + 1] = x.v[1]]) ELSE IllTyped
VectorExtractDynamic(type, from, index) ==
  IF from.type.n > 1 /\ ~IsMatrix(from.type) /\ type = ScalarOf(from.type) /\ IsInteger(index.type) /\ index.type.n = 1
    THEN Value(type, <<IF index.v[1] < from.type.n THEN from.v[index.v[1] + 1] ELSE Undefined>>) ELSE IllTyped
VectorInsertDynamic(type, into, x, index) ==
  IF type = into.type /\ type.n > 1 /\ ~IsMatrix(type) /\ x.type = ScalarOf(type) /\ IsInteger(index.type)
    THEN Value(type, IF index.v[1] < type.n THEN [into.v EXCEPT ![index.v[1] + 1] = x.v[1]]
                     ELSE Same(type.n, Undefined))
    ELSE IllTyped
VectorShuffle(type, a, b, picks) ==
  IF /\ {a.type.of, b.type.of} = {type.of} /\ ~IsMatrix(a.type) /\ ~IsMatrix(b.type)
     /\ a.type.n > 1 /\ b.type.n > 1 /\ Len(picks) = type.n
     /\ \A k \in DOMAIN picks : picks[k] < a.type.n + b.type.n
    THEN Value(type, [k \in DOMAIN picks |-> (a.v \o b.v)[picks[k] + 1]]) ELSE IllTyped
OpSelect(type, condition, yes, no) ==
  IF /\ yes.type = type /\ no.type = type /\ ~IsMatrix(type)
     /\ condition.type = Type("bool", type.n)
    THEN Value(type, Picked(condition.v, yes.v, no.v)) ELSE IllTyped
ConvertTo(type, kinds, x) ==
  IF x.type.of \in kinds /\ x.type.n = type.n THEN Value(type, EachConverted(x.type.of, type.of, x.v)) ELSE IllTyped
ConvertSToF(type, x) ==
  IF IsInteger(x.type) /\ type = Type("float", x.type.n) THEN Value(type, EachConverted("int", "float", x.v)) ELSE IllTyped
ConvertUToF(type, x) ==
  IF IsInteger(x.type) /\ type = Type("float", x.type.n) THEN Value(type, EachConverted("uint", "float", x.v)) ELSE IllTyped
Bitcast(type, x) ==
  IF IsNumeric(x.type) /\ IsNumeric(type) /\ x.type.n = type.n /\ x.type # type
    THEN Value(type, Reinterpret(x.type.of, type.of, x.v)) ELSE IllTyped
CopyObject(type, x) == IF x.type = type THEN x ELSE IllTyped

----------------------------------------------------------------------------
(* The builder.                                                            *)
ResultType(cx, i, o) == IF cx.types[i.dest] = Invalid THEN Declared(cx, o) ELSE cx.types[i.dest]
OneOf(types, type, otherwise) == IF type \in types THEN type ELSE otherwise
Matrices == {Type("mat", n) : n \in 2..4}
IsLone(cx, o) == IsConstant(o) \/ Declared(cx, o) \in {Scalar(of) : of \in {"float", "int", "uint"}}
Splat(type, x) == CompositeConstruct(type, Same(type.n, x))
Values(cx, i) == [k \in DOMAIN i.args |-> Actual(cx, i.args[k])]

(* The type of the first operand that is no lone scalar.                   *)
VectorTypeOf(cx, os) ==
  LET wide == SelectSeq(os, LAMBDA o : ~IsLone(cx, o))
  IN IF wide = <<>> THEN Scalar("float") ELSE Declared(cx, wide[1])
NumComponents(type) == IF IsNumeric(type) THEN type.n ELSE 1

(* Lone scalars made as wide as the vector among the operands.             *)
Widened(cx, i, type) ==
  [k \in DOMAIN i.args |-> IF IsLone(cx, i.args[k]) THEN Splat(type, Actual(cx, i.args[k])) ELSE Actual(cx, i.args[k])]
AnyLone(cx, os) == \E k \in DOMAIN os : IsLone(cx, os[k])
AllLone(cx, os) == \A k \in DOMAIN os : IsLone(cx, os[k])

FloatOps == [FADD |-> "FAdd", FSUB |-> "FSub", FDIV |-> "FDiv", FMOD |-> "FMod", FREM |-> "FRem"]
FloatArithmetic(cx, i) ==
  LET vector == VectorTypeOf(cx, i.args)
      to == ResultType(cx, i, i.args[IF IsLone(cx, i.args[1]) THEN 2 ELSE 1])
      splats == /\ cx.types[i.dest].of \in {"float", "int"} /\ cx.types[i.dest].n > 1
                /\ AnyLone(cx, i.args) /\ ~AllLone(cx, i.args)
  IN Emit(FloatOps[i.op], to, IF splats THEN Widened(cx, i, to) ELSE Values(cx, i))

FloatMultiply(cx, i) ==
  LET to == ResultType(cx, i, i.args[1])
      v == Values(cx, i)
      lone == [k \in 1..2 |-> IsLone(cx, i.args[k])]
  IN CASE lone[2] /\ ~lone[1] -> TimesScalar(to, v[1], v[2])
       [] lone[1] /\ ~lone[2] -> TimesScalar(to, v[2], v[1])
       [] OTHER -> Emit("FMul", to, v)

IntegerOps == [IADD |-> "IAdd", ISUB |-> "ISub", IMUL |-> "IMul", IDIV |-> "SDiv", IMOD |-> "SRem"]
UnsignedOps == [IDIV |-> "UDiv", IMOD |-> "UMod"]
IntegerArithmetic(cx, i) ==
  LET to == IF cx.types[i.dest] = Invalid THEN Scalar("int") ELSE cx.types[i.dest]
  IN Emit(IF to.of = "uint" /\ i.op \in DOMAIN UnsignedOps THEN UnsignedOps[i.op] ELSE IntegerOps[i.op], to, Values(cx, i))

(* The vector is cut to the size of the result first.                      *)
MatrixByVector(cx, i) ==
  LET to == cx.types[i.dest]
      size == IF to \in {Floats(2), Floats(3)} THEN to.n ELSE 4
      given == OneOf({Floats(2), Floats(3), Floats(4)}, Declared(cx, i.args[2]), Floats(4)).n
      v == Values(cx, i)
      cut == IF size < 4 \/ given > size THEN VectorShuffle(to, v[2], v[2], [k \in 1..size |-> k - 1]) ELSE v[2]
  IN MatrixTimes(to, v[1], cut)

MatrixOps == {"MAT_MUL", "MAT_VEC_MUL", "VEC_MAT_MUL", "MAT_SCALE", "MAT_TRANSPOSE", "MAT_INVERSE", "MAT_DET"}
MatrixInstruction(cx, i) ==
  LET to == OneOf(Matrices, cx.types[i.dest], Type("mat", 4))
      v == Values(cx, i)
  IN CASE i.op = "MAT_MUL" -> MatrixTimes(to, v[1], v[2])
       [] i.op = "MAT_VEC_MUL" -> MatrixByVector(cx, i)
       [] i.op = "VEC_MAT_MUL" -> MatrixTimes(OneOf({Floats(2), Floats(3)}, cx.types[i.dest], Floats(4)), v[1], v[2])
       [] i.op = "MAT_SCALE" -> TimesScalar(to, v[1], v[2])
       [] i.op = "MAT_TRANSPOSE" -> Transpose(to, v[1])
       [] i.op = "MAT_INVERSE" -> OfMatrix("inverse", to, v[1].type, v[1])
       [] i.op = "MAT_DET" -> OfMatrix("determinant", Scalar("float"), Scalar("float"), v[1])

(* A constant takes the kind of the other side.  For an exclusive or and a *)
(* shift the code takes that of some register instead of a constant first  *)
(* operand's, which changes the sign of the constant's type and nothing    *)
(* the instructions depend on.                                             *)
Legacy(cx, o) == IF IsConstant(o) THEN Scalar("int") ELSE Declared(cx, o)
ForBitwise(cx, o, unsigned) ==
  IF IsConstant(o) /\ o[2] \in {"int", "uint"} THEN Value(Scalar(IF unsigned THEN "uint" ELSE o[2]), <<o[3]>>)
  ELSE Actual(cx, o)

BitwiseOps == [AND |-> <<"LogicalAnd", "BitwiseAnd">>, OR |-> <<"LogicalOr", "BitwiseOr">>]
ShiftOps == [XOR |-> "BitwiseXor", SHL |-> "ShiftLeftLogical", SHR |-> "ShiftRightLogical"]
BitwiseInstruction(cx, i) ==
  LET to == ResultType(cx, i, i.args[1])
      first == IF i.op \in DOMAIN BitwiseOps THEN Declared(cx, i.args[1]) ELSE Legacy(cx, i.args[1])
      v == [k \in 1..2 |-> ForBitwise(cx, i.args[k], first = Scalar("uint"))]
  IN CASE i.op \in DOMAIN BitwiseOps /\ first.of = "bool" -> Emit(BitwiseOps[i.op][1], to, Values(cx, i))
       [] i.op \in DOMAIN BitwiseOps -> Emit(BitwiseOps[i.op][2], to, v)
       [] i.op = "ASR" -> Emit("ShiftRightArithmetic", to, Values(cx, i))
       [] OTHER -> Emit(ShiftOps[i.op], to, v)

UnaryOps == [INEG |-> "SNegate", POPCNT |-> "BitCount", REVERSE_BITS |-> "BitReverse",
             ISNAN |-> "IsNan", ISINF |-> "IsInf"]
Unary(cx, i) ==
  LET to == ResultType(cx, i, i.args[1])
      v == Values(cx, i)
  IN CASE i.op = "NOT" -> Emit(IF Declared(cx, i.args[1]).of = "bool" THEN "LogicalNot" ELSE "Not", to, v)
       [] i.op = "FNEG" /\ IsMatrix(Declared(cx, i.args[1])) -> TimesScalar(to, v[1], Float(-One))
       [] i.op = "FNEG" -> Emit("FNegate", to, v)
       [] OTHER -> Emit(UnaryOps[i.op], to, v)

(* The result of a comparison is as wide as the vector it compares.        *)
FloatComparisons == [FEQ |-> "FOrdEqual", FNE |-> "FOrdNotEqual", FLT |-> "FOrdLessThan", FLE |-> "FOrdLessThanEqual",
                     FGT |-> "FOrdGreaterThan", FGE |-> "FOrdGreaterThanEqual"]
FloatComparison(cx, i) ==
  LET vector == VectorTypeOf(cx, i.args)
      n == NumComponents(vector)
      splats == n > 1 /\ AnyLone(cx, i.args) /\ ~AllLone(cx, i.args)
  IN Emit(FloatComparisons[i.op], Type("bool", n), IF splats THEN Widened(cx, i, vector) ELSE Values(cx, i))

IntegerComparisons == [IEQ |-> "IEqual", INE |-> "INotEqual", ILT |-> "SLessThan", ILE |-> "SLessThanEqual",
                       IGT |-> "SGreaterThan", IGE |-> "SGreaterThanEqual", ULT |-> "ULessThan",
                       ULE |-> "ULessThanEqual", UGT |-> "UGreaterThan", UGE |-> "UGreaterThanEqual"]
BoolComparisons == [IEQ |-> "LogicalEqual", INE |-> "LogicalNotEqual"]
IntegerComparison(cx, i) ==
  LET first == Declared(cx, i.args[1])
      Wide(o) == LET t == Declared(cx, o) IN IF t.of \in {"int", "uint", "bool"} THEN t.n ELSE 1
      n == IF Wide(i.args[1]) = 1 THEN Wide(i.args[2]) ELSE Wide(i.args[1])
      op == IF first.of # "bool" \/ i.op \in {"ULT", "ULE", "UGT", "UGE"} THEN IntegerComparisons[i.op]
            ELSE IF i.op \in DOMAIN BoolComparisons THEN BoolComparisons[i.op] ELSE "IEqual"
  IN Emit(op, Type("bool", n), Values(cx, i))

(* The value of operand 3 picks operand 2, or operand 1 when it is false.  *)
NotZero(x) ==
  LET zero == Value(x.type, Same(x.type.n, 0))
  IN Emit(IF IsFloat(x.type) THEN "FOrdNotEqual" ELSE "INotEqual", Type("bool", x.type.n), <<x, zero>>)
Select(cx, i) ==
  LET to == Declared(cx, i.args[2])
      n == IF IsMatrix(to) THEN 1 ELSE to.n
      chosen == Declared(cx, i.args[3])
      given == Actual(cx, i.args[3])
      condition == IF chosen.of = "bool" THEN given ELSE NotZero(given)
      lane == IF chosen.n > 1 /\ chosen.n # n THEN CompositeExtract(Truth, condition, 0) ELSE condition
      wide == IF n > 1 /\ (chosen.n = 1 \/ chosen.n # n) THEN Splat(Type("bool", n), lane) ELSE lane
  IN OpSelect(to, wide, Actual(cx, i.args[2]), Actual(cx, i.args[1]))

Conversions == {"I2F", "U2F", "F2I", "F2U", "I2U", "U2I", "BITCAST"}
Conversion(cx, i) ==
  LET x == Actual(cx, i.args[1])
      from == IF IsConstant(i.args[1]) THEN "uint" ELSE Declared(cx, i.args[1]).of
  IN CASE i.op = "I2F" \/ (i.op = "U2F" /\ from = "int") -> ConvertSToF(Scalar("float"), x)
       [] i.op = "U2F" -> IF from = "float" THEN CopyObject(Scalar("float"), x) ELSE ConvertUToF(Scalar("float"), x)
       [] i.op = "F2I" -> ConvertTo(Scalar("int"), {"float"}, x)
       [] i.op = "F2U" -> ConvertTo(Scalar("uint"), {"float"}, x)
       [] i.op = "I2U" -> Bitcast(Scalar("uint"), x)
       [] i.op = "U2I" -> Bitcast(Scalar("int"), x)
       [] i.op = "BITCAST" -> Bitcast(ResultType(cx, i, i.args[1]), x)

(* Functions of the extended instruction set.                              *)
ExtendedOps ==
  [SQRT |-> "Sqrt", RSQRT |-> "InverseSqrt", EXP |-> "Exp", EXP2 |-> "Exp2", LOG |-> "Log", LOG2 |-> "Log2",
   SIN |-> "Sin", COS |-> "Cos", TAN |-> "Tan", ASIN |-> "Asin", ACOS |-> "Acos", ATAN |-> "Atan",
   SINH |-> "Sinh", COSH |-> "Cosh", TANH |-> "Tanh", FLOOR |-> "Floor", CEIL |-> "Ceil", ROUND |-> "RoundEven",
   TRUNC |-> "Trunc", FRACT |-> "Fract", FABS |-> "FAbs", IABS |-> "SAbs", SIGN |-> "FSign", CLZ |-> "FindUMsb",
   CTZ |-> "FindILsb", DEGREES |-> "Degrees", RADIANS |-> "Radians",
   POW |-> "Pow", ATAN2 |-> "Atan2", FMIN |-> "FMin", FMAX |-> "FMax", IMIN |-> "SMin", IMAX |-> "SMax",
   UMIN |-> "UMin", UMAX |-> "UMax", STEP |-> "Step",
   FCLAMP |-> "FClamp", ICLAMP |-> "SClamp", UCLAMP |-> "UClamp", SMOOTHSTEP |-> "SmoothStep", FMA |-> "Fma"]
SignedForms == [SIGN |-> "SSign", CLZ |-> "FindSMsb"]
GeometricOps == [NORMALIZE |-> "normalize", REFLECT |-> "reflect", CROSS |-> "cross", FACEFORWARD |-> "faceforward",
                 REFRACT |-> "refract", LENGTH |-> "length", DISTANCE |-> "distance"]
Applied(op, to, args) ==
  CASE op = "LDEXP" -> Scaled(to, args[1], args[2])
    [] op \in DOMAIN GeometricOps -> Geometric(GeometricOps[op], to, args)
    [] OTHER -> Emit(ExtendedOps[op], to, args)

ExtendedOne(cx, i) ==
  LET to == ResultType(cx, i, i.args[1])
      signed == i.op \in DOMAIN SignedForms /\ Declared(cx, i.args[1]).of = "int"
  IN IF signed THEN Emit(SignedForms[i.op], to, Values(cx, i)) ELSE Applied(i.op, to, Values(cx, i))

(* With two operands a lone scalar is widened only beside a vector, with   *)
(* three whenever one of them is a vector.                                 *)
ExtendedMore(cx, i) ==
  LET vector == VectorTypeOf(cx, i.args)
      wide == NumComponents(vector) > 1 /\ i.op # "REFRACT"
      splats == wide /\ (Len(i.args) = 3 \/ ~AllLone(cx, i.args))
  IN Applied(i.op, IF wide THEN vector ELSE ResultType(cx, i, i.args[1]),
             IF splats THEN Widened(cx, i, vector) ELSE Values(cx, i))

Lerp(cx, i) ==
  LET first == IF IsConstant(i.args[1]) THEN Scalar("float") ELSE Declared(cx, i.args[1])
      splats == NumComponents(first) > 1 /\ IsLone(cx, i.args[3])
      v == Values(cx, i)
  IN IF splats THEN Emit("FMix", first, [v EXCEPT ![3] = Splat(first, v[3])])
     ELSE Emit("FMix", ResultType(cx, i, i.args[1]), v)

Saturate(cx, i) ==
  LET operand == IF IsConstant(i.args[1]) THEN Scalar("float") ELSE Declared(cx, i.args[1])
      like == IF operand \in {Floats(n) : n \in 2..4} THEN operand ELSE Scalar("float")
      Bound(x) == Value(like, Same(like.n, x))
  IN Emit("FClamp", ResultType(cx, i, i.args[1]), <<Actual(cx, i.args[1]), Bound(0), Bound(One)>>)

(* Neither NaN nor infinite; and normal only when not tiny either.         *)
IsFinite(cx, i) ==
  LET to == ResultType(cx, i, i.args[1])
      v == Values(cx, i)
      either == Emit("LogicalOr", to, <<Emit("IsNan", to, v), Emit("IsInf", to, v)>>)
  IN Emit("LogicalNot", to, <<either>>)
IsNormal(cx, i) ==
  LET to == ResultType(cx, i, i.args[1])
      operand == Declared(cx, i.args[1])
      v == Values(cx, i)
      tiny == Value(operand, Same(operand.n, 1))
      large == Emit("FOrdGreaterThanEqual", to, <<Emit("FAbs", operand, v), tiny>>)
  IN Emit("LogicalAnd", to, <<large, Emit("LogicalNot", to, <<Emit("IsInf", to, v)>>)>>)

BitFields(cx, i) ==
  BitField(IF i.op = "BITFIELD_INSERT" THEN "insert" ELSE "extract",
           IF Declared(cx, i.args[1]).of = "uint" THEN "uint" ELSE "int", ResultType(cx, i, i.args[1]), Values(cx, i))

----------------------------------------------------------------------------
(* Vectors.                                                                *)
ConvertScalar(to, from, x) ==
  CASE from = to -> x
    [] from = "bool" /\ to # "bool" ->
         OpSelect(Scalar(to), x, Value(Scalar(to), <<Convert("bool", to, 1)>>), Value(Scalar(to), <<0>>))
    [] from \in {"int", "uint"} /\ to = "float" ->
         IF from = "int" THEN ConvertSToF(Scalar("float"), x) ELSE ConvertUToF(Scalar("float"), x)
    [] from = "float" /\ to \in {"int", "uint"} -> ConvertTo(Scalar(to), {"float"}, x)
    [] OTHER -> Bitcast(Scalar(to), x)

(* An operand as the scalars it adds.  A bool vector counts as one.        *)
Pieces(cx, of, o) ==
  LET type == Declared(cx, o)
      from == IF IsMatrix(type) THEN "float" ELSE type.of
      x == Actual(cx, o)
  IN [c \in 1..NumComponents(type) |->
        ConvertScalar(of, from, IF NumComponents(type) = 1 THEN x ELSE CompositeExtract(Scalar(from), x, c - 1))]

(* One scalar fills every component, fewer than needed are followed by 0.  *)
Filled(of, scalars, needed) ==
  IF Len(scalars) = 1 THEN Same(needed, scalars[1])
  ELSE scalars \o Same(needed - Len(scalars), Value(Scalar(of), <<0>>))
VecConstruct(cx, i) ==
  LET to == OneOf({Type(of, n) : of \in {"float", "int", "uint", "bool"}, n \in 1..4} \cup Matrices, cx.types[i.dest], Floats(4))
      needed == IF IsMatrix(to) THEN 1 ELSE to.n
      of == ScalarOf(to).of
      all == FlattenSeq([k \in DOMAIN i.args |-> Pieces(cx, of, i.args[k])])
      some == SubSeq(all, 1, Least(Len(all), needed))
  IN IF needed = 1 /\ Len(i.args) = 1 THEN CopyObject(to, Actual(cx, i.args[1]))
     ELSE CompositeConstruct(to, Filled(of, some, needed))

(* Two components to a byte of the mask; components of the second operand  *)
(* follow those of the first.                                              *)
Nibble(mask, k) == (mask \div 16^k) % 16
VecShuffle(cx, i) ==
  LET to == cx.types[i.dest]
      count == IF IsNumeric(to) THEN to.n ELSE 4
      v == Values(cx, i)
      first == Nibble(i.meta, 0)
  IN IF to.n = 1 THEN CompositeExtract(to, IF first < 4 THEN v[1] ELSE v[2], IF first < 4 THEN first ELSE first - 4)
     ELSE VectorShuffle(ResultType(cx, i, i.args[1]), v[1], v[2], [k \in 1..count |-> Nibble(i.meta, k - 1)])

VectorOps == {"VEC_CONSTRUCT", "MAT_CONSTRUCT", "VEC_EXTRACT", "VEC_INSERT", "VEC_INSERT_DYNAMIC", "VEC_SHUFFLE"}
VectorOperation(cx, i) ==
  LET v == Values(cx, i)
      to == ResultType(cx, i, i.args[1])
  IN CASE i.op = "VEC_CONSTRUCT" -> VecConstruct(cx, i)
       [] i.op = "MAT_CONSTRUCT" -> CompositeConstruct(cx.types[i.dest], SubSeq(v, 1, i.meta))
       [] i.op = "VEC_EXTRACT" -> CompositeExtract(ScalarOf(Declared(cx, i.args[1])), v[1], i.meta)
       [] i.op = "VEC_INSERT" -> CompositeInsert(to, v[2], v[1], i.meta)
       [] i.op = "VEC_INSERT_DYNAMIC" -> VectorInsertDynamic(to, v[1], v[2], v[3])
       [] i.op = "VEC_SHUFFLE" -> VecShuffle(cx, i)

(* An element of a vector or a column of a matrix.  Columns chosen at run  *)
(* time are compared for from the last to the first.                       *)
ColumnSelect(matrix, index) ==
  LET n == matrix.type.n
      Column(c) == CompositeExtract(Floats(n), matrix, c)
      Step(chosen, c) ==
        LET same == Emit("IEqual", Truth, <<index, Value(Scalar("uint"), <<c>>)>>)
        IN OpSelect(Floats(n), Splat(Type("bool", n), same), Column(c), chosen)
  IN FoldLeft(Step, Column(n - 1), [k \in 1..(n - 1) |-> n - 1 - k])
ElementOfValue(cx, i, base, index) ==
  LET to == cx.types[i.dest]
      known == IsConstant(i.args[2]) /\ i.args[2][2] = "int"
      at == i.args[2][3]
  IN CASE IsMatrix(base.type) -> IF known THEN CompositeExtract(Floats(base.type.n), base, at) ELSE ColumnSelect(base, index)
       [] IsVector(base.type) \/ IsBoolVector(base.type) ->
            IF known THEN CompositeExtract(to, base, at) ELSE VectorExtractDynamic(to, base, index)
       [] OTHER -> Value(to, Same(CountOf(to), Undefined))
IsIndex(x) == IsInteger(x.type) /\ x.type.n = 1
ArrayLoad(cx, i) ==
  LET v == Values(cx, i)
      length == LengthOf(cx, i.args[1])
      n == CountOf(Declared(cx, i.args[1]))
      element == IF v[2].v[1] \in 0..(length - 1) THEN ElementAt(v[1].v, n, v[2].v[1]) ELSE Same(n, Undefined)
  IN IF length = 0 THEN ElementOfValue(cx, i, v[1], v[2])
     ELSE IF v[1].type = cx.types[i.dest] /\ IsIndex(v[2]) THEN Value(v[1].type, element) ELSE IllTyped

(* A store to an array that is a variable of the function; what a store    *)
(* past the end does is undefined.                                         *)
ArrayStore(cx, i) ==
  LET v == Values(cx, i)
      n == CountOf(v[1].type)
  IN IF LengthOf(cx, i.args[1]) = 0 \/ v[3].type # v[1].type \/ ~IsIndex(v[2]) THEN IllTyped
     ELSE Value(v[1].type, IF v[2].v[1] \in 0..(LengthOf(cx, i.args[1]) - 1) THEN WithElement(v[1].v, n, v[2].v[1], v[3].v)
                           ELSE Same(Len(v[1].v), Undefined))

----------------------------------------------------------------------------
(* A copy of a constant has an instruction of its own, any other copy      *)
(* stands for what it copies.                                              *)
Copied(cx, i) ==
  IF i.op = "LOAD_REG" /\ IsConstant(i.args[1])
    THEN CopyObject(ResultType(cx, i, i.args[1]), Actual(cx, i.args[1])) ELSE Actual(cx, i.args[1])

TranslateToSpirv(cx, i) ==
  CASE i.op \in {"LOAD_REG", "STORE_REG", "LOAD_CONST"} -> Copied(cx, i)
    [] i.op \in DOMAIN FloatOps -> FloatArithmetic(cx, i)
    [] i.op = "FMUL" -> FloatMultiply(cx, i)
    [] i.op \in DOMAIN IntegerOps -> IntegerArithmetic(cx, i)
    [] i.op \in MatrixOps -> MatrixInstruction(cx, i)
    [] i.op \in DOMAIN BitwiseOps \cup DOMAIN ShiftOps \cup {"ASR"} -> BitwiseInstruction(cx, i)
    [] i.op \in DOMAIN UnaryOps \cup {"NOT", "FNEG"} -> Unary(cx, i)
    [] i.op \in DOMAIN FloatComparisons -> FloatComparison(cx, i)
    [] i.op \in DOMAIN IntegerComparisons -> IntegerComparison(cx, i)
    [] i.op = "SELECT" -> Select(cx, i)
    [] i.op \in Conversions -> Conversion(cx, i)
    [] i.op = "LERP" -> Lerp(cx, i)
    [] i.op = "SATURATE" -> Saturate(cx, i)
    [] i.op = "ISFINITE" -> IsFinite(cx, i)
    [] i.op = "ISNORMAL" -> IsNormal(cx, i)
    [] i.op = "DOT" -> OpDot(Actual(cx, i.args[1]), Actual(cx, i.args[2]))
    [] i.op \in {"LENGTH", "DISTANCE"} -> Applied(i.op, Scalar("float"), Values(cx, i))
    [] i.op \in {"BITFIELD_EXTRACT", "BITFIELD_INSERT"} -> BitFields(cx, i)
    [] i.op \in {"ANY", "ALL"} -> Reduction(IF i.op = "ANY" THEN "any" ELSE "all", Actual(cx, i.args[1]))
    [] i.op \in DOMAIN ExtendedOps \cup DOMAIN GeometricOps \cup {"LDEXP"} ->
         IF Len(i.args) = 1 THEN ExtendedOne(cx, i) ELSE ExtendedMore(cx, i)
    [] i.op \in VectorOps -> VectorOperation(cx, i)
    [] i.op = "ARRAY_LOAD" -> ArrayLoad(cx, i)
    [] i.op = "ARRAY_STORE" -> ArrayStore(cx, i)
    [] i.op = "NOP" -> IllTyped
=============================================================================
