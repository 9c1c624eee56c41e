---------------------------- MODULE WgslOperations ----------------------------
(***************************************************************************)
(* The WGSL written for the operations of an expression.                   *)
(*                                                                         *)
(* WGSL converts nothing by itself, so the builder first checks that an    *)
(* instruction fits its operands (the Prepare operators), refusing the     *)
(* shader when it does not, and then converts the operands in the text.    *)
(* The value of the text is what WGSL's rules make of it: IllTyped where   *)
(* they reject it although the builder did not.                            *)
(***************************************************************************)
EXTENDS ShaderValues

Refused == Value(Type("refused", 1), <<>>)

(* WGSL's rules.                                                           *)
Operator(op, x, y) ==
  LET wide == IF x.type.n < y.type.n THEN y.type ELSE x.type
      fits == CASE op \in Ordered -> x.type = y.type /\ (x.type.of = "bool" => op \in {"eq", "ne"})
                [] op \in {"shl", "shr"} -> IsInteger(x.type) /\ y.type = Type("uint", x.type.n)
                [] op \in {"and", "or", "xor"} -> x.type = y.type /\ ~IsFloat(x.type) /\ (x.type.of = "bool" => op # "xor")
                [] OTHER -> x.type.of = y.type.of /\ IsNumeric(x.type) /\ (x.type.n = y.type.n \/ 1 \in {x.type.n, y.type.n})
  IN IF ~fits \/ IsMatrix(x.type) \/ IsMatrix(y.type) THEN IllTyped
     ELSE Value(IF op \in Ordered THEN Type("bool", wide.n) ELSE wide, Each(op, x.type.of, <<x.v, y.v>>))

TakesIntegers == {"abs", "min", "max", "clamp"}
OnlyIntegers == {"bitcount", "bitreverse", "findlsb", "findmsb"}
Builtin(name, args) ==
  LET type == args[1].type
      lane == IF name = "findmsb" THEN [int |-> "findsmsb", uint |-> "findumsb"][type.of] ELSE name
      fits == CASE name \in OnlyIntegers -> IsInteger(type) [] name \in TakesIntegers -> IsNumeric(type)
                [] name = "sign" -> type.of \in {"float", "int"} [] OTHER -> IsFloat(type)
  IN IF ~fits \/ \E k \in DOMAIN args : args[k].type # type THEN IllTyped
     ELSE Value(type, Each(lane, type.of, [k \in DOMAIN args |-> args[k].v]))
SelectOf(no, yes, condition) ==
  IF no.type = yes.type /\ condition.type \in {Truth, Type("bool", no.type.n)} /\ ~IsMatrix(no.type)
    THEN Value(no.type, Picked(condition.v, yes.v, no.v)) ELSE IllTyped
Made(type, args) ==
  LET all == FlattenSeq([k \in DOMAIN args |-> args[k].v])
  IN IF \E k \in DOMAIN args : args[k].type.of # type.of THEN IllTyped
     ELSE IF Len(args) = 1 /\ Len(all) = 1 THEN Value(type, Same(type.n, all[1]))
     ELSE IF Len(all) = type.n THEN Value(type, all) ELSE IllTyped

----------------------------------------------------------------------------
(* What the checks rest on.                                                *)
WidthOf(t) == IF t.of \in {"bool", "int", "uint", "float"} THEN t.n ELSE 0
CanBroadcast(source, target) == source = target \/ (source.n = 1 /\ source.of = target.of)
CanBroadcastInteger(source, target) ==
  CanBroadcast(source, target) \/ (IsInteger(source) /\ IsInteger(target) /\ source.n \in {1, target.n})

BinaryOperator ==
  [FADD |-> "add", IADD |-> "add", FSUB |-> "sub", ISUB |-> "sub", FMUL |-> "mul", IMUL |-> "mul", FDIV |-> "div",
   IDIV |-> "div", IMOD |-> "rem", FREM |-> "rem", FEQ |-> "eq", IEQ |-> "eq", FNE |-> "ne", INE |-> "ne", FLT |-> "lt",
   ILT |-> "lt", ULT |-> "lt", FLE |-> "le", ILE |-> "le", ULE |-> "le", FGT |-> "gt", IGT |-> "gt", UGT |-> "gt",
   FGE |-> "ge", IGE |-> "ge", UGE |-> "ge", AND |-> "and", OR |-> "or", XOR |-> "xor", SHL |-> "shl", SHR |-> "shr",
   ASR |-> "shr"]
Binaries == DOMAIN BinaryOperator \cup {"FMOD"}
Shifts == {"SHL", "SHR", "ASR"}
SignedOrder == {"ILT", "ILE", "IGT", "IGE"}
UnsignedOrder == {"ULT", "ULE", "UGT", "UGE"}
Equalities == {"IEQ", "INE"}
WholeArithmetic == {"IADD", "ISUB", "IMUL", "IDIV", "IMOD"}
FloatingOps == {"FADD", "FSUB", "FMUL", "FDIV", "FMOD", "FREM", "FEQ", "FNE", "FLT", "FLE", "FGT", "FGE"}
Comparing == {op \in DOMAIN BinaryOperator : BinaryOperator[op] \in Ordered}

(* The kind a comparison reads its operands as.                            *)
ComparisonKind(op, left) == IF op \in SignedOrder THEN "int" ELSE IF op \in UnsignedOrder THEN "uint" ELSE left.of
OperandType(cx, i) ==
  LET type == cx.types[i.dest]
  IN IF i.op \in Comparing THEN Type(ComparisonKind(i.op, Declared(cx, i.args[1])), type.n) ELSE type

PrepareShift(type, left, right) ==
  IsInteger(type) /\ IsInteger(left) /\ left.n = type.n /\ IsInteger(right) /\ right.n \in {1, type.n}
PrepareBinary(cx, i) ==
  LET type == cx.types[i.dest]
      left == Declared(cx, i.args[1])
      right == Declared(cx, i.args[2])
      operands == OperandType(cx, i)
      kind == operands.of
      Fits(t) == IF i.op \in WholeArithmetic \cup Equalities \cup SignedOrder \cup UnsignedOrder \cup {"AND", "OR", "XOR"}
                   THEN CanBroadcastInteger(t, operands) ELSE CanBroadcast(t, operands)
  IN IF i.op \in Shifts THEN PrepareShift(type, left, right)
     ELSE /\ WidthOf(type) > 0 /\ Fits(left) /\ Fits(right)
          /\ i.op \in Comparing => type.of = "bool"
          /\ kind = "bool" => i.op \in {"IEQ", "INE", "AND", "OR"}
          /\ kind = "float" => i.op \notin {"AND", "OR", "XOR"} \cup WholeArithmetic \cup Equalities
          /\ i.op \in FloatingOps => kind = "float"

(* x as a value of type target: what is not already is converted, a scalar *)
(* also spread.                                                            *)
WriteConvertedOperand(x, target) ==
  IF x.type = target THEN x
  ELSE IF WidthOf(x.type) = 0 \/ x.type.n \notin {1, target.n} THEN IllTyped
  ELSE LET v == EachConverted(x.type.of, target.of, x.v)
       IN Value(target, IF x.type.n = target.n THEN v ELSE Same(target.n, v[1]))

(* SHR reads its bits as unsigned, ASR as signed, whatever the result is.  *)
WriteBinary(cx, i) ==
  LET type == cx.types[i.dest]
      operands == OperandType(cx, i)
      shift == CASE i.op = "SHR" -> Type("uint", type.n) [] i.op = "ASR" -> Type("int", type.n) [] OTHER -> operands
      x == WriteConvertedOperand(Actual(cx, i.args[1]), shift)
      y == WriteConvertedOperand(Actual(cx, i.args[2]), IF i.op \in Shifts THEN Type("uint", type.n) ELSE operands)
      floor == Builtin("floor", <<Operator("div", x, y)>>)
  IN CASE i.op = "FMOD" -> Operator("sub", x, Operator("mul", y, floor))
       [] i.op \in Shifts -> WriteConvertedOperand(Operator(BinaryOperator[i.op], x, y), type)
       [] OTHER -> Operator(BinaryOperator[i.op], x, y)

----------------------------------------------------------------------------
(* Builtin functions.                                                      *)
MathOperation ==
  [FABS |-> "abs", IABS |-> "abs", FMIN |-> "min", IMIN |-> "min", UMIN |-> "min", FMAX |-> "max", IMAX |-> "max",
   UMAX |-> "max", FCLAMP |-> "clamp", ICLAMP |-> "clamp", UCLAMP |-> "clamp", FLOOR |-> "floor", CEIL |-> "ceil",
   ROUND |-> "round", TRUNC |-> "trunc", FRACT |-> "fract", FMA |-> "fma", SIGN |-> "sign", SQRT |-> "sqrt",
   RSQRT |-> "rsqrt", POW |-> "pow", EXP |-> "exp", EXP2 |-> "exp2", LOG |-> "log", LOG2 |-> "log2", SIN |-> "sin",
   COS |-> "cos", TAN |-> "tan", ASIN |-> "asin", ACOS |-> "acos", ATAN |-> "atan", ATAN2 |-> "atan2", SINH |-> "sinh",
   COSH |-> "cosh", TANH |-> "tanh", DOT |-> "dot", CROSS |-> "cross", LENGTH |-> "length", NORMALIZE |-> "normalize",
   DISTANCE |-> "distance", LERP |-> "mix", SMOOTHSTEP |-> "smoothstep", STEP |-> "step", DEGREES |-> "degrees",
   RADIANS |-> "radians", POPCNT |-> "bitcount", CLZ |-> "findmsb", CTZ |-> "findlsb", REVERSE_BITS |-> "bitreverse",
   ANY |-> "any", ALL |-> "all"]
Reductions == {"DOT", "LENGTH", "DISTANCE"}
BoolReductions == {"ANY", "ALL"}
SignedMath == {"IABS", "IMIN", "IMAX", "ICLAMP"}
UnsignedMath == {"UMIN", "UMAX", "UCLAMP"}
BitMath == {"POPCNT", "CLZ", "CTZ", "REVERSE_BITS"}

ArgumentType(cx, i) ==
  IF i.op \in Reductions \cup BoolReductions THEN Declared(cx, i.args[1]) ELSE cx.types[i.dest]
PrepareMath(cx, i) ==
  LET type == cx.types[i.dest]
      first == Declared(cx, i.args[1])
      argument == ArgumentType(cx, i)
      kind == CASE i.op \in BoolReductions -> {"bool"} [] i.op \in SignedMath -> {"int"} [] i.op \in UnsignedMath -> {"uint"}
                [] i.op \in BitMath -> {"int", "uint"} [] i.op = "SIGN" -> {"int", "float"} [] OTHER -> {"float"}
  IN /\ WidthOf(type) > 0
     /\ IF i.op \in Reductions \cup BoolReductions THEN type = ScalarOf(first) ELSE CanBroadcast(first, type)
     /\ argument.of \in kind
     /\ i.op \in BoolReductions \cup {"DOT", "NORMALIZE"} => WidthOf(argument) > 1
     /\ i.op = "CROSS" => argument = Floats(3)
     /\ \A k \in 2..Len(i.args) : CanBroadcast(Declared(cx, i.args[k]), argument)
WriteCall(name, type, args) ==
  CASE name = "dot" -> OpDot(args[1], args[2])
    [] name \in {"length", "distance", "normalize", "cross"} -> Geometric(name, type, args)
    [] name \in {"any", "all"} -> Reduction(name, args[1])
    [] OTHER -> Builtin(name, args)
WriteMath(cx, i) ==
  WriteCall(MathOperation[i.op], cx.types[i.dest],
            [k \in DOMAIN i.args |-> WriteConvertedOperand(Actual(cx, i.args[k]), ArgumentType(cx, i))])

----------------------------------------------------------------------------
(* The other operations.                                                   *)
Negations == {"FNEG", "INEG", "NOT", "SATURATE"}
(* Only signed integers are negated.                                       *)
NegatesSigned(op, type, source) ==
  \/ op = "FNEG" /\ source = type /\ IsMatrix(type)
  \/ /\ source = type /\ WidthOf(type) > 0
     /\ CASE op \in {"FNEG", "SATURATE"} -> IsFloat(type) [] op = "INEG" -> type.of = "int" [] op = "NOT" -> ~IsFloat(type)
PrepareNegation(op, type, source) ==
  \/ op = "FNEG" /\ source = type /\ IsMatrix(type)
  \/ /\ source = type /\ WidthOf(type) > 0
     /\ CASE op \in {"FNEG", "SATURATE"} -> IsFloat(type) [] op = "INEG" -> IsInteger(type) [] op = "NOT" -> ~IsFloat(type)
WriteNegation(op, type, x) ==
  LET Bound(b) == Value(type, Same(type.n, b))
  IN CASE IsMatrix(type) -> TimesScalar(type, x, Float(-One))
       [] op = "SATURATE" -> Builtin("clamp", <<x, Bound(0), Bound(One)>>)
       [] op = "INEG" /\ type.of = "uint" -> Operator("sub", Bound(0), x)
       [] OTHER -> Value(type, Each(IF op = "NOT" THEN "not" ELSE "neg", type.of, <<x.v>>))

ConversionKinds ==
  [F2I |-> <<"float", "int">>, I2F |-> <<"int", "float">>, F2U |-> <<"float", "uint">>, U2F |-> <<"uint", "float">>,
   I2U |-> <<"int", "uint">>, U2I |-> <<"uint", "int">>]
PrepareConversion(op, type, source) ==
  /\ IsNumeric(source) /\ IsNumeric(type) /\ source.n = type.n
  /\ op # "BITCAST" => ConversionKinds[op] = <<source.of, type.of>>
WriteConversion(op, type, x) ==
  IF op = "BITCAST" THEN Value(type, Reinterpret(x.type.of, type.of, x.v)) ELSE WriteConvertedOperand(x, type)

PrepareSelect(type, no, yes, condition) ==
  no = type /\ yes = type /\ condition.of = "bool" /\ condition.n \in {1, IF IsMatrix(type) THEN 0 ELSE type.n}

VectorArguments(i) == IF i.meta \in 1..4 THEN SubSeq(i.args, 1, i.meta) ELSE i.args
PrepareVector(cx, i) ==
  LET type == cx.types[i.dest]
      types == [k \in DOMAIN VectorArguments(i) |-> Declared(cx, i.args[k])]
      components == FoldLeft(LAMBDA sum, t : sum + WidthOf(t), 0, types)
  IN /\ Len(types) \in 1..4 /\ WidthOf(type) > 1
     /\ components = type.n \/ (Len(types) = 1 /\ components = 1)
WriteVector(cx, i) ==
  LET type == cx.types[i.dest]
      Written(o) == WriteConvertedOperand(Actual(cx, o), Type(type.of, Declared(cx, o).n))
  IN Made(type, [k \in DOMAIN VectorArguments(i) |-> Written(i.args[k])])

(* A component read, or written in a copy of the vector.                   *)
RequireIndex(t) == t \in {Scalar("int"), Scalar("uint")}
PrepareComponent(cx, i) ==
  LET vector == Declared(cx, i.args[1])
  IN /\ WidthOf(vector) > 1
     /\ i.op # "VEC_INSERT_DYNAMIC" => i.meta < vector.n
     /\ cx.types[i.dest] = IF i.op = "VEC_EXTRACT" THEN ScalarOf(vector) ELSE vector
     /\ i.op # "VEC_EXTRACT" => Declared(cx, i.args[2]) = ScalarOf(vector)
     /\ i.op = "VEC_INSERT_DYNAMIC" => RequireIndex(Declared(cx, i.args[3]))
WriteComponent(cx, i) ==
  LET x == Actual(cx, i.args[1])
      at == IF i.op = "VEC_INSERT_DYNAMIC" THEN Actual(cx, i.args[3]).v[1] ELSE i.meta
  IN CASE i.op = "VEC_EXTRACT" -> Value(ScalarOf(x.type), <<x.v[at + 1]>>)
       [] at < x.type.n -> Value(x.type, [x.v EXCEPT ![at + 1] = Actual(cx, i.args[2]).v[1]])
       [] OTHER -> Value(x.type, Same(x.type.n, Undefined))

PickAt(i, c) == (i.meta \div 16^(c - 1)) % 16
PrepareShuffle(type, left, right, i) ==
  /\ WidthOf(left) > 1 /\ WidthOf(right) > 1 /\ WidthOf(type) > 0 /\ {left.of, right.of} = {type.of}
  /\ \A c \in 1..type.n : PickAt(i, c) < left.n + right.n
WriteShuffle(type, left, right, i) == Value(type, [c \in 1..type.n |-> (left.v \o right.v)[PickAt(i, c) + 1]])

Classes == {"ISNAN", "ISINF", "ISFINITE"}
WriteClass(op, type, x) ==
  LET Bit(name) == Value(type, Each(name, "float", <<x.v>>))
      either == Operator("or", Bit("isnan"), Bit("isinf"))
  IN CASE op = "ISNAN" -> Bit("isnan") [] op = "ISINF" -> Bit("isinf")
       [] OTHER -> Value(type, Each("not", "bool", <<either.v>>))

GeometricNames == [REFLECT |-> "reflect", REFRACT |-> "refract", FACEFORWARD |-> "faceforward"]
PrepareGeometric(cx, i) ==
  LET type == cx.types[i.dest]
  IN /\ IsFloat(type)
     /\ \A k \in DOMAIN i.args : IF i.op = "REFRACT" /\ k = 3 THEN Declared(cx, i.args[k]) = Scalar("float")
                                 ELSE CanBroadcast(Declared(cx, i.args[k]), type)
(* Of scalars, the x of vectors padded with zero.                          *)
FirstOf(x, type) == IF type.n = 1 THEN Value(type, <<x.v[1]>>) ELSE x
WriteGeometric(cx, i) ==
  LET type == cx.types[i.dest]
      wide == IF type.n = 1 THEN Floats(2) ELSE type
      Padded(x) == IF type.n = 1 THEN Value(wide, <<x.v[1], 0>>) ELSE WriteConvertedOperand(x, type)
      args == [k \in DOMAIN i.args |-> IF i.op = "REFRACT" /\ k = 3 THEN Actual(cx, i.args[k]) ELSE Padded(Actual(cx, i.args[k]))]
  IN FirstOf(Geometric(GeometricNames[i.op], wide, args), type)

PrepareScaling(type, value, exponent) ==
  value = type /\ IsFloat(type) /\ IsInteger(exponent) /\ exponent.n \in {1, type.n}
WriteScaling(type, value, exponent) == Scaled(type, value, WriteConvertedOperand(exponent, Type("int", type.n)))

PrepareBitField(cx, i) ==
  LET type == cx.types[i.dest]
      bits == IF i.op = "BITFIELD_INSERT" THEN 2 ELSE 1
  IN /\ IsInteger(type)
     /\ \A k \in DOMAIN i.args : IF k <= bits THEN Declared(cx, i.args[k]) = type ELSE RequireIndex(Declared(cx, i.args[k]))
WriteBitField(cx, i) ==
  BitField(IF i.op = "BITFIELD_INSERT" THEN "insert" ELSE "extract", cx.types[i.dest].of, cx.types[i.dest],
           [k \in DOMAIN i.args |-> Actual(cx, i.args[k])])

----------------------------------------------------------------------------
(* Matrices.                                                               *)
Products == {"MAT_MUL", "MAT_VEC_MUL", "VEC_MAT_MUL", "MAT_SCALE"}
PrepareProduct(op, type, left, right) ==
  LET matrix == IF op = "VEC_MAT_MUL" THEN right ELSE left
      vector == ColumnOf(matrix)
  IN /\ IsMatrix(matrix)
     /\ CASE op = "MAT_MUL" -> right = matrix /\ type = matrix
          [] op = "MAT_SCALE" -> right = Scalar("float") /\ type = matrix
          [] op = "VEC_MAT_MUL" -> left = vector /\ type = vector
          [] op = "MAT_VEC_MUL" -> right = vector /\ type = vector
WriteProduct(op, type, x, y) == IF op = "MAT_SCALE" THEN TimesScalar(type, x, y) ELSE MatrixTimes(type, x, y)

MatrixFunctions == {"MAT_TRANSPOSE", "MAT_DET", "MAT_INVERSE"}
PrepareMatrixFunction(op, type, matrix) == IsMatrix(matrix) /\ type = IF op = "MAT_DET" THEN Scalar("float") ELSE matrix
WriteMatrixFunction(op, type, x) ==
  CASE op = "MAT_TRANSPOSE" -> Transpose(type, x) [] op = "MAT_DET" -> OfMatrix("determinant", type, type, x)
    [] op = "MAT_INVERSE" -> OfMatrix("inverse", type, type, x)
PrepareColumns(cx, i) ==
  LET type == cx.types[i.dest]
  IN IsMatrix(type) /\ Len(i.args) = type.n /\ \A k \in DOMAIN i.args : Declared(cx, i.args[k]) = ColumnOf(type)
WriteColumns(cx, i) == Value(cx.types[i.dest], FlattenSeq([k \in DOMAIN i.args |-> Actual(cx, i.args[k]).v]))

(* An element of an array, a vector or a matrix; a store to an array.      *)
PrepareElement(cx, i) ==
  LET type == cx.types[i.dest]
      base == Declared(cx, i.args[1])
  IN /\ RequireIndex(Declared(cx, i.args[2]))
     /\ CASE LengthOf(cx, i.args[1]) > 0 -> type = base
          [] i.op = "ARRAY_STORE" -> FALSE
          [] IsMatrix(base) -> type = ColumnOf(base)
          [] OTHER -> WidthOf(base) > 1 /\ type = ScalarOf(base)
     /\ i.op = "ARRAY_STORE" => Declared(cx, i.args[3]) = base
WriteElement(cx, i) ==
  LET x == Actual(cx, i.args[1])
      length == IF LengthOf(cx, i.args[1]) > 0 THEN LengthOf(cx, i.args[1]) ELSE x.type.n
      n == CountOf(cx.types[i.dest])
      at == Actual(cx, i.args[2]).v[1]
      within == at \in 0..(length - 1)
  IN IF i.op = "ARRAY_LOAD" THEN Value(cx.types[i.dest], IF within THEN ElementAt(x.v, n, at) ELSE Same(n, Undefined))
     ELSE Value(x.type, IF within THEN WithElement(x.v, n, at, Actual(cx, i.args[3]).v) ELSE Same(Len(x.v), Undefined))

----------------------------------------------------------------------------
IsCopy(op) == op \in {"LOAD_REG", "STORE_REG", "LOAD_CONST"}
Components == {"VEC_EXTRACT", "VEC_INSERT", "VEC_INSERT_DYNAMIC"}
Elements == {"ARRAY_LOAD", "ARRAY_STORE"}

PrepareInstruction(cx, i) ==
  LET type == cx.types[i.dest]
      given == [k \in DOMAIN i.args |-> Declared(cx, i.args[k])]
  IN CASE IsCopy(i.op) -> given[1] = type
       [] i.op \in Binaries -> PrepareBinary(cx, i)
       [] i.op \in DOMAIN MathOperation -> PrepareMath(cx, i)
       [] i.op \in Negations -> PrepareNegation(i.op, type, given[1])
       [] i.op \in DOMAIN ConversionKinds \cup {"BITCAST"} -> PrepareConversion(i.op, type, given[1])
       [] i.op = "SELECT" -> PrepareSelect(type, given[1], given[2], given[3])
       [] i.op = "VEC_CONSTRUCT" -> PrepareVector(cx, i)
       [] i.op \in Components -> PrepareComponent(cx, i)
       [] i.op = "VEC_SHUFFLE" -> PrepareShuffle(type, given[1], given[2], i)
       [] i.op \in Classes -> IsFloat(given[1]) /\ type = Type("bool", given[1].n)
       [] i.op \in DOMAIN GeometricNames -> PrepareGeometric(cx, i)
       [] i.op = "LDEXP" -> PrepareScaling(type, given[1], given[2])
       [] i.op \in {"BITFIELD_EXTRACT", "BITFIELD_INSERT"} -> PrepareBitField(cx, i)
       [] i.op \in Products -> PrepareProduct(i.op, type, given[1], given[2])
       [] i.op \in MatrixFunctions -> PrepareMatrixFunction(i.op, type, given[1])
       [] i.op = "MAT_CONSTRUCT" -> PrepareColumns(cx, i)
       [] i.op \in Elements -> PrepareElement(cx, i)
       [] OTHER -> FALSE

WriteExpression(cx, i) ==
  LET type == cx.types[i.dest]
      x == [k \in DOMAIN i.args |-> Actual(cx, i.args[k])]
  IN CASE IsCopy(i.op) -> x[1]
       [] i.op \in Binaries -> WriteBinary(cx, i)
       [] i.op \in DOMAIN MathOperation -> WriteMath(cx, i)
       [] i.op \in Negations -> WriteNegation(i.op, type, x[1])
       [] i.op \in DOMAIN ConversionKinds \cup {"BITCAST"} -> WriteConversion(i.op, type, x[1])
       [] i.op = "SELECT" -> SelectOf(x[1], x[2], x[3])
       [] i.op = "VEC_CONSTRUCT" -> WriteVector(cx, i)
       [] i.op \in Components -> WriteComponent(cx, i)
       [] i.op = "VEC_SHUFFLE" -> WriteShuffle(type, x[1], x[2], i)
       [] i.op \in Classes -> WriteClass(i.op, type, x[1])
       [] i.op \in DOMAIN GeometricNames -> WriteGeometric(cx, i)
       [] i.op = "LDEXP" -> WriteScaling(type, x[1], x[2])
       [] i.op \in {"BITFIELD_EXTRACT", "BITFIELD_INSERT"} -> WriteBitField(cx, i)
       [] i.op \in Products -> WriteProduct(i.op, type, x[1], x[2])
       [] i.op \in MatrixFunctions -> WriteMatrixFunction(i.op, type, x[1])
       [] i.op = "MAT_CONSTRUCT" -> WriteColumns(cx, i)
       [] i.op \in Elements -> WriteElement(cx, i)

(* The declaration of the result states its type, which must be the text's.*)
Typed(text, type) == IF text.type = type THEN text ELSE IllTyped
TranslateToWgsl(cx, i) ==
  IF ~PrepareInstruction(cx, i) THEN Refused
  ELSE Typed(WriteExpression(cx, i), cx.types[i.dest])
=============================================================================
