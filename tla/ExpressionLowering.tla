------------------------ MODULE ExpressionLowering ------------------------
(***************************************************************************)
(* The instructions an expression and a store become.                      *)
(*                                                                         *)
(* lo is the lowering so far: the code, the declared type of each          *)
(* register, the operand of the expression lowered last and of the         *)
(* expressions remembered by their node, and the vectors known to be       *)
(* constant.  Register k holds Variables[k].                               *)
(***************************************************************************)
EXTENDS ShaderValues

CONSTANTS Locals,    \* the local variables: name, type, and length if an array
          Budget     \* nodes of an operand that may be evaluated needlessly: 16 in the code
ASSUME BudgetAssumption == Budget \in Nat

Variables == Locals
None == <<"none">>
Start(speculate) ==
  [code |-> <<>>, types |-> [k \in DOMAIN Variables |-> Variables[k].type], speculate |-> speculate,
   nodes |-> <<>>, remembers |-> FALSE, vectors |-> <<>>, out |-> None, error |-> FALSE]

TypeOf(lo, o) == IF IsConstant(o) THEN Scalar(o[2]) ELSE lo.types[o[2]]
Fresh(lo) == Len(lo.types) + 1
Result(lo, o) == [lo EXCEPT !.out = o]
Failed(lo) == [lo EXCEPT !.error = TRUE, !.out = Const("int", 0)]

Into(lo, op, dest, args, meta) ==
  [lo EXCEPT !.code = Append(@, [op |-> op, dest |-> dest, args |-> args, meta |-> meta, to |-> <<>>]), !.out = Reg(dest)]
Emitted(lo, op, type, args, meta) ==
  Into([lo EXCEPT !.types = Append(@, type)], op, Fresh(lo), args, meta)
Simple(lo, op, type, args) == Emitted(lo, op, type, args, 0)
Stored(lo, register, o) == Into(lo, "STORE_REG", register, <<o>>, 0)

StoredOut(lo, register) == Stored(lo, register, lo.out)

(* Step(lo, item) for each item, and every operand it leaves.              *)
Gather(lo, items, Step(_, _)) ==
  FoldLeft(LAMBDA got, item : LET next == Step(got.lo, item) IN [lo |-> next, outs |-> Append(got.outs, next.out)],
           [lo |-> lo, outs |-> <<>>], items)

RegisterOf(name) == CHOOSE k \in DOMAIN Variables : Variables[k].name = name
ArrayLength(o) == IF ~IsConstant(o) /\ o[2] \in DOMAIN Variables THEN Variables[o[2]].length ELSE 0

----------------------------------------------------------------------------
(* Constants.                                                              *)
ConstantOrNone(of, x) == IF x = Undefined THEN None ELSE Const(of, x)
TryConvertScalarConstant(o, to) ==
  IF ~IsConstant(o) THEN None
  ELSE IF o[2] = to.of THEN o
  ELSE IF ~IsNumeric(to) THEN None
  ELSE ConstantOrNone(to.of, Convert(o[2], to.of, o[3]))

FloatFolds == [FADD |-> "add", FSUB |-> "sub", FMUL |-> "mul", FDIV |-> "div"]
IntegerFolds == [IADD |-> "add", ISUB |-> "sub", IMUL |-> "mul", IDIV |-> "div", IMOD |-> "rem"]
Overflows(op, x, y) ==
  (CASE op = "IADD" -> x + y [] op = "ISUB" -> x - y [] op = "IMUL" -> x * y [] OTHER -> 0)
    \notin -(Modulo \div 2)..(Modulo \div 2 - 1)
TryFoldScalarArithmetic(op, a, b) ==
  IF ~IsConstant(a) \/ ~IsConstant(b) THEN None
  ELSE LET of == a[2]
           folds == CASE of = "float" -> FloatFolds [] of \in {"int", "uint"} -> IntegerFolds [] OTHER -> <<>>
       IN IF \/ b[2] # of \/ op \notin DOMAIN folds
             \/ of = "int" /\ Overflows(op, AsSigned(a[3]), AsSigned(b[3])) THEN None
          ELSE ConstantOrNone(of, Basic(folds[op], of, <<a[3], b[3]>>))

(* A vector made of constants of its own kind is remembered as such.       *)
RecordConstantVector(lo) ==
  LET made == Last(lo.code)
      type == lo.types[made.dest]
      used == SubSeq(made.args, 1, made.meta)
  IN IF type.n > 1 /\ made.meta \in {1, type.n} /\ \A k \in DOMAIN used : IsConstant(used[k]) /\ used[k][2] = type.of
       THEN [lo EXCEPT !.vectors = (made.dest :> [k \in 1..type.n |-> used[IF made.meta = 1 THEN 1 ELSE k]]) @@ @]
       ELSE lo
VectorOfConstants(lo, type, constants) ==
  RecordConstantVector(Emitted(lo, "VEC_CONSTRUCT", type, constants, type.n))

(* The arithmetic of constant operands is done at once, or emitted.        *)
FoldedParts(lo, op, left, right, type, parts) ==
  IF None \in Range(parts) THEN Simple(lo, op, type, <<left, right>>) ELSE VectorOfConstants(lo, TypeOf(lo, left), parts)
FoldedOr(lo, op, left, right, type, scalar) ==
  LET known == /\ ~IsConstant(left) /\ ~IsConstant(right) /\ {left[2], right[2]} \subseteq DOMAIN lo.vectors
               /\ TypeOf(lo, left) = TypeOf(lo, right)
      parts == [c \in DOMAIN lo.vectors[left[2]] |->
                  TryFoldScalarArithmetic(op, lo.vectors[left[2]][c], lo.vectors[right[2]][c])]
  IN CASE scalar # None -> Result(lo, scalar)
       [] known -> FoldedParts(lo, op, left, right, type, parts)
       [] OTHER -> Simple(lo, op, type, <<left, right>>)
FoldedOrEmitted(lo, op, left, right, type) ==
  FoldedOr(lo, op, left, right, type, TryFoldScalarArithmetic(op, left, right))

ConversionOf == [int |-> [float |-> "I2F", uint |-> "I2U"], uint |-> [float |-> "U2F", int |-> "U2I"],
                 float |-> [int |-> "F2I", uint |-> "F2U"]]
ConstantOr(lo, constant, op, to, o) == IF constant # None THEN Result(lo, constant) ELSE Simple(lo, op, to, <<o>>)
ConvertRegisterToType(lo, o, to) ==
  LET from == TypeOf(lo, o)
  IN IF from = to \/ from.n > 1 \/ to.n > 1 \/ from.of \notin DOMAIN ConversionOf \/ to.of \notin DOMAIN ConversionOf
       THEN Result(lo, o)
     ELSE ConstantOr(lo, TryConvertScalarConstant(o, to), ConversionOf[from.of][to.of], to, o)

(* Whether a value may be stored in a place of type to.                    *)
CheckStoreShape(lo, value, to) ==
  LET from == TypeOf(lo, value)
      Plain(t) == t.of \in {"bool", "int", "uint", "float"}
  IN \/ from = to
     \/ IsMatrix(from) /\ Plain(to)
     \/ IsScalar(from) /\ IsScalar(to) /\ (from.of = "bool" <=> to.of = "bool")

(* A condition: a number compared with zero.                               *)
EnsureBoolCondition(lo, o) ==
  LET of == TypeOf(lo, o).of
  IN CASE TypeOf(lo, o) = Truth -> Result(lo, o)
       [] of = "float" -> Simple(lo, "FNE", Truth, <<o, Const("float", 0)>>)
       [] of = "uint" -> Simple(lo, "INE", Truth, <<o, Const("uint", 0)>>)
       [] OTHER -> Simple(lo, "INE", Truth, <<o, Const("int", 0)>>)

----------------------------------------------------------------------------
(* Operators of two operands.                                              *)
Bitwise2 == {"BITWISE_AND", "BITWISE_OR", "BITWISE_XOR", "LEFT_SHIFT", "RIGHT_SHIFT"}
Logical2 == {"AND", "OR"}
Comparisons == {"EQUALS", "NOT_EQUALS", "LESS", "LESS_EQUAL", "GREATER", "GREATER_EQUAL"}

LogicalTable == [AND |-> "AND", OR |-> "OR"]
FloatTable ==
  [ADD |-> "FADD", SUBTRACT |-> "FSUB", MULTIPLY |-> "FMUL", DIVIDE |-> "FDIV", MODULO |-> "FMOD", EQUALS |-> "FEQ",
   NOT_EQUALS |-> "FNE", LESS |-> "FLT", LESS_EQUAL |-> "FLE", GREATER |-> "FGT", GREATER_EQUAL |-> "FGE"] @@ LogicalTable
IntegerTable ==
  [ADD |-> "IADD", SUBTRACT |-> "ISUB", MULTIPLY |-> "IMUL", DIVIDE |-> "IDIV", MODULO |-> "IMOD", EQUALS |-> "IEQ",
   NOT_EQUALS |-> "INE", BITWISE_AND |-> "AND", BITWISE_OR |-> "OR", BITWISE_XOR |-> "XOR", LEFT_SHIFT |-> "SHL"]
    @@ LogicalTable
UnsignedTable ==
  IntegerTable @@ [LESS |-> "ULT", LESS_EQUAL |-> "ULE", GREATER |-> "UGT", GREATER_EQUAL |-> "UGE", RIGHT_SHIFT |-> "SHR"]
SignedTable ==
  IntegerTable @@ [LESS |-> "ILT", LESS_EQUAL |-> "ILE", GREATER |-> "IGT", GREATER_EQUAL |-> "IGE", RIGHT_SHIFT |-> "ASR"]
OtherTable ==
  [EQUALS |-> "IEQ", NOT_EQUALS |-> "INE", BITWISE_AND |-> "AND", BITWISE_OR |-> "OR", BITWISE_XOR |-> "XOR",
   LEFT_SHIFT |-> "SHL", RIGHT_SHIFT |-> "SHR"] @@ LogicalTable
OpCodeOf(op, type) ==
  LET table == CASE IsFloat(type) -> FloatTable [] type.of = "uint" -> UnsignedTable
                 [] type.of = "int" -> SignedTable [] OTHER -> OtherTable
  IN IF op \in DOMAIN table THEN table[op] ELSE "NOP"

FloatLike(t) == IsFloat(t) \/ IsMatrix(t)
Width(t) == IF IsMatrix(t) THEN 1 ELSE t.n
Vectors(t) == IsVector(t) \/ IsBoolVector(t)
Pair(lo, left, right) == [lo |-> lo, left |-> left, right |-> right]
WithOut(lo, left) == Pair(lo, left, lo.out)
OutWith(lo, right) == Pair(lo, lo.out, right)

(* An integer on the left of a float stays one.                            *)
PromoteRight(lo, op, left, right) ==
  IF op \notin Bitwise2 \cup Logical2 /\ FloatLike(TypeOf(lo, left)) /\ IsInteger(TypeOf(lo, right)) /\ TypeOf(lo, right).n = 1
    THEN WithOut(ConvertRegisterToType(lo, right, Scalar("float")), left)
    ELSE Pair(lo, left, right)

(* An integer beside a float becomes a float.                              *)
FloatPromotion(lo, op, left, right) ==
  LET l == TypeOf(lo, left)
      r == TypeOf(lo, right)
      Whole(t) == IsInteger(t) /\ t.n = 1
      float == Scalar("float")
  IN CASE op \in Bitwise2 \cup Logical2 -> Pair(lo, left, right)
       [] FloatLike(l) /\ Whole(r) -> WithOut(ConvertRegisterToType(lo, right, float), left)
       [] FloatLike(r) /\ Whole(l) -> OutWith(ConvertRegisterToType(lo, left, float), right)
       [] OTHER -> Pair(lo, left, right)

(* A scalar beside a vector of its kind is widened.                        *)
SplatScalar(lo, left, right) ==
  LET l == TypeOf(lo, left)
      r == TypeOf(lo, right)
      Splat(scalar, vector) == RecordConstantVector(Emitted(lo, "VEC_CONSTRUCT", vector, Same(4, scalar), vector.n))
  IN CASE IsVector(l) /\ r = ScalarOf(l) -> WithOut(Splat(right, l), left)
       [] IsVector(r) /\ l = ScalarOf(r) -> OutWith(Splat(left, r), right)
       [] OTHER -> Pair(lo, left, right)

(* A matrix with a matrix or a scalar, column by column.                   *)
Identity(n) == [c \in 1..n |-> c - 1]
ColumnLoad(lo, matrix, c) ==
  Simple(lo, "ARRAY_LOAD", ColumnOf(TypeOf(lo, matrix)), <<matrix, Const("int", c)>>)
MatrixOfColumns(all, type) == Emitted(all.lo, "MAT_CONSTRUCT", type, all.outs, Len(all.outs))
OperationOut(lo, op, type, left) == Simple(lo, op, type, <<left, lo.out>>)
ColumnByColumn(lo, op, left, right) ==
  LET type == IF IsMatrix(TypeOf(lo, left)) THEN TypeOf(lo, left) ELSE TypeOf(lo, right)
      Spread(at, o) == IF IsMatrix(TypeOf(lo, o)) THEN Result(at, None)
                       ELSE Emitted(at, "VEC_CONSTRUCT", ColumnOf(type), Same(4, o), type.n)
      onLeft == Spread(lo, left)
      onRight == Spread(onLeft, right)
      Side(at, o, spread, c) == IF spread = None THEN ColumnLoad(at, o, c) ELSE Result(at, spread)
      WithRight(l, c) == OperationOut(Side(l, right, onRight.out, c), op, ColumnOf(type), l.out)
      Column(at, c) == WithRight(Side(at, left, onLeft.out, c), c)
  IN MatrixOfColumns(Gather(onRight, Identity(type.n), Column), type)

(* A vector shorter than the matrix is extended by zeros and the product   *)
(* cut back: a byte of the mask for each component, the width above.       *)
ByteMask(n) == FoldLeft(LAMBDA sum, c : sum + c * 256^c, n * 256^3, Identity(n))
CutTo(lo, width) == Emitted(lo, "VEC_SHUFFLE", Type("float", width), <<lo.out, lo.out>>, ByteMask(width))
MatrixWithVector(lo, op, matrix, vector) ==
  LET n == TypeOf(lo, matrix).n
      width == TypeOf(lo, vector).n
      Multiplied(at, v, type) == Simple(at, op, type, IF op = "MAT_VEC_MUL" THEN <<matrix, v>> ELSE <<v, matrix>>)
      MultipliedOut(at) == Multiplied(at, at.out, Type("float", n))
  IN IF width < n
       THEN CutTo(MultipliedOut(Emitted(lo, "VEC_CONSTRUCT", Type("float", n), <<vector>> \o Same(n - width, Const("float", 0)), n)),
                  width)
     ELSE Multiplied(lo, vector, IF op = "MAT_VEC_MUL" THEN Type("float", n) ELSE TypeOf(lo, vector))

ColumnOps == [ADD |-> "FADD", SUBTRACT |-> "FSUB", DIVIDE |-> "FDIV"]
IsMatrixOperation(op, l, r) ==
  \/ op = "MULTIPLY" /\ IsMatrix(l) /\ (IsMatrix(r) \/ IsFloat(r) \/ IsScalar(r))
  \/ op = "MULTIPLY" /\ IsMatrix(r) /\ (IsScalar(l) \/ IsFloat(l))
  \/ op \in DOMAIN ColumnOps /\ IsMatrix(l) /\ (IsMatrix(r) \/ IsScalar(r))
  \/ op \in DOMAIN ColumnOps /\ IsMatrix(r) /\ IsScalar(l)
MatrixOperation(lo, op, left, right) ==
  LET l == TypeOf(lo, left)
      r == TypeOf(lo, right)
  IN CASE op \in DOMAIN ColumnOps -> ColumnByColumn(lo, ColumnOps[op], left, right)
       [] IsMatrix(l) /\ IsMatrix(r) -> Simple(lo, "MAT_MUL", l, <<left, right>>)
       [] IsScalar(r) -> Simple(lo, "MAT_SCALE", l, <<left, right>>)
       [] IsScalar(l) -> Simple(lo, "MAT_SCALE", r, <<right, left>>)
       [] IsMatrix(l) -> MatrixWithVector(lo, "MAT_VEC_MUL", left, right)
       [] OTHER -> MatrixWithVector(lo, "VEC_MAT_MUL", right, left)

FoldedWide(wide, op, code) ==
  LET l == TypeOf(wide.lo, wide.left)
      r == TypeOf(wide.lo, wide.right)
      type == IF op \in Comparisons THEN Type("bool", Most(Width(l), Width(r)))
              ELSE IF IsScalar(l) /\ IsVector(r) THEN r ELSE l
  IN FoldedOrEmitted(wide.lo, code, wide.left, wide.right, type)
Componentwise(lo, op, left, right) == FoldedWide(SplatScalar(lo, left, right), op, OpCodeOf(op, TypeOf(lo, left)))

CombinedAlike(both, op) ==
  LET l == TypeOf(both.lo, both.left)
      r == TypeOf(both.lo, both.right)
  IN CASE Vectors(l) /\ Vectors(r) /\ l.n # r.n -> Failed(both.lo)
       [] IsMatrixOperation(op, l, r) -> MatrixOperation(both.lo, op, both.left, both.right)
       [] OTHER -> Componentwise(both.lo, op, both.left, both.right)
Combined(lo, op, left, right) ==
  IF op \in Bitwise2 /\ ~(IsInteger(TypeOf(lo, left)) /\ IsInteger(TypeOf(lo, right))) THEN Failed(lo)
  ELSE CombinedAlike(FloatPromotion(lo, op, left, right), op)
CombinedOut(lo, op, left) == Combined(lo, op, left, lo.out)

----------------------------------------------------------------------------
(* Whether an expression may be evaluated when the source would not, and   *)
(* the nodes it has.                                                       *)
Forbidden == 1000
Speculatable1 == {"NEGATE", "NOT", "BITWISE_NOT"}
IsNonzeroLiteral(e) == e.kind = "literal" /\ NumberOf(e.of, e.x) # 0 /\ e.of # "bool" /\ ~(e.of = "int" /\ AsSigned(e.x) < 0)
SpeculatableIntrinsics ==
  {"lerp", "smoothstep", "saturate", "fract", "step", "clamp", "sign", "abs", "min", "max", "floor", "ceil", "round",
   "trunc", "fma", "pow", "sqrt", "rsqrt", "rcp", "exp", "exp2", "log", "log2", "log10", "sin", "cos", "tan", "asin",
   "acos", "atan", "atan2", "sinh", "cosh", "tanh", "degrees", "radians", "dot", "cross", "normalize", "length",
   "distance", "reflect", "refract", "faceforward"}
RECURSIVE NodesOf(_)
NodesOf(e) ==
  LET Total(es) == FoldLeft(LAMBDA sum, x : sum + NodesOf(x), 1, es)
  IN CASE e.kind \in {"literal", "name"} -> 1
       [] e.kind = "swizzle" -> Total(<<e.object>>)
       [] e.kind = "unary" /\ e.op \in Speculatable1 -> Total(<<e.operand>>)
       [] e.kind = "binary" /\ e.op \notin {"LEFT_SHIFT", "RIGHT_SHIFT"}
            /\ (e.op \in {"DIVIDE", "MODULO"} => IsNonzeroLiteral(e.right)) -> Total(<<e.left, e.right>>)
       [] e.kind = "ternary" -> Total(<<e.condition, e.yes, e.no>>)
       [] e.kind = "intrinsic" /\ e.name \in SpeculatableIntrinsics -> Total(e.args)
       [] e.kind = "construct" /\ ~IsMatrix(e.type) -> Total(e.args)
       [] OTHER -> Forbidden
IsSpeculatable(lo, e) == lo.speculate /\ NodesOf(e) <= Budget
(* The second arm is not looked at.                                        *)
FirstIsSpeculatable(lo, a, b) == lo.speculate /\ NodesOf(a) <= Budget
AreSpeculatable(lo, a, b) == lo.speculate /\ NodesOf(a) + NodesOf(b) <= Budget

----------------------------------------------------------------------------
(* Functions of the language.                                              *)
IntrinsicToOpcode ==
  [lerp |-> "LERP", smoothstep |-> "SMOOTHSTEP", saturate |-> "SATURATE", fract |-> "FRACT", step |-> "STEP",
   sign |-> "SIGN", floor |-> "FLOOR", ceil |-> "CEIL", round |-> "ROUND", trunc |-> "TRUNC", fmod |-> "FREM",
   fma |-> "FMA", pow |-> "POW", sqrt |-> "SQRT", rsqrt |-> "RSQRT", exp |-> "EXP", exp2 |-> "EXP2", log |-> "LOG",
   log2 |-> "LOG2", ldexp |-> "LDEXP", sin |-> "SIN", cos |-> "COS", tan |-> "TAN", asin |-> "ASIN", acos |-> "ACOS",
   atan |-> "ATAN", atan2 |-> "ATAN2", sinh |-> "SINH", cosh |-> "COSH", tanh |-> "TANH", degrees |-> "DEGREES",
   radians |-> "RADIANS", dot |-> "DOT", cross |-> "CROSS", normalize |-> "NORMALIZE", length |-> "LENGTH",
   distance |-> "DISTANCE", reflect |-> "REFLECT", refract |-> "REFRACT", faceforward |-> "FACEFORWARD",
   transpose |-> "MAT_TRANSPOSE", determinant |-> "MAT_DET", inverse |-> "MAT_INVERSE", count_bits |-> "POPCNT",
   first_bit_high |-> "CLZ", first_bit_low |-> "CTZ", reverse_bits |-> "REVERSE_BITS", bitfield_extract |-> "BITFIELD_EXTRACT",
   bitfield_insert |-> "BITFIELD_INSERT", any |-> "ANY", all |-> "ALL", isnan |-> "ISNAN", isinf |-> "ISINF",
   isfinite |-> "ISFINITE", isnormal |-> "ISNORMAL", asfloat |-> "BITCAST", asint |-> "BITCAST",
   asuint |-> "BITCAST", select |-> "SELECT"]
ByKind == [abs |-> [float |-> "FABS", uint |-> "IABS", int |-> "IABS"],
           mod |-> [float |-> "FMOD", uint |-> "IMOD", int |-> "IMOD"],
           min |-> [float |-> "FMIN", uint |-> "UMIN", int |-> "IMIN"],
           max |-> [float |-> "FMAX", uint |-> "UMAX", int |-> "IMAX"],
           clamp |-> [float |-> "FCLAMP", uint |-> "UCLAMP", int |-> "ICLAMP"]]
OpcodeFor(name, type) ==
  IF name \in DOMAIN ByKind THEN ByKind[name][IF IsNumeric(type) THEN type.of ELSE "int"] ELSE IntrinsicToOpcode[name]
IntrinsicType(name, types) ==
  CASE name \in {"length", "distance", "dot", "determinant"} -> Scalar("float")
    [] name \in {"any", "all"} -> Truth
    [] name \in {"step", "smoothstep"} -> Last(types)
    [] name = "asfloat" -> Type("float", Width(types[1]))
    [] name = "asint" -> Type("int", Width(types[1]))
    [] name = "asuint" -> Type("uint", Width(types[1]))
    [] name \in {"isnan", "isinf", "isfinite", "isnormal"} -> Type("bool", IF IsFloat(types[1]) THEN types[1].n ELSE 1)
    [] OTHER -> types[1]

(* What select, min and max ask of their arguments.                        *)
Kind(t) == IF IsFloat(t) THEN 1 ELSE IF IsInteger(t) THEN 2 ELSE 0
Refuses(name, types) ==
  \/ /\ name \in {"min", "max"}
     /\ \E k \in DOMAIN types : Kind(types[k]) = 0 \/ Kind(types[k]) # Kind(types[1])
  \/ /\ name = "select"
     /\ \/ types[3].of # "bool" \/ types[1] # types[2]
        \/ types[3].n > 1 /\ types[3].n # Width(types[1])

(* min and max of many arguments are taken two by two.                     *)
LowerIntrinsic(lo, name, args) ==
  LET types == [k \in DOMAIN args |-> TypeOf(lo, args[k])]
      type == types[1]
      op == OpcodeFor(name, type)
      pairwise == FoldLeft(LAMBDA at, o : Simple(at, op, type, <<at.out, o>>), Result(lo, args[1]), Tail(args))
      log2 == Simple(lo, "LOG2", type, args)
  IN CASE Refuses(name, types) -> Failed(lo)
       [] name \in {"min", "max"} -> pairwise
       [] name = "rcp" -> Simple(lo, "FDIV", type, <<Const("float", One)>> \o args)
       [] name = "log10" -> Simple(log2, "FMUL", type, <<log2.out, Const("float", 1)>>)
       [] OTHER -> Simple(lo, op, IntrinsicType(name, types), args)

----------------------------------------------------------------------------
(* Constructors.                                                           *)
OneOrZero(lo, type, o) ==
  LET unit == Convert("bool", type.of, 1)
  IN Simple(lo, "SELECT", type, <<Const(type.of, 0), Const(type.of, unit), o>>)
ScalarConversion(lo, type, o) ==
  LET from == TypeOf(lo, o)
      table == [float |-> [uint |-> "U2F"], int |-> [uint |-> "U2I"], uint |-> [int |-> "I2U"]]
      usual == [float |-> "I2F", int |-> "F2I", uint |-> "F2U"]
      op == IF from = Scalar(from.of) /\ from.of \in DOMAIN table[type.of] THEN table[type.of][from.of] ELSE usual[type.of]
  IN CASE IsConstant(o) -> ConstantOr(lo, TryConvertScalarConstant(o, type), op, type, o)
       [] from = type -> Result(lo, o)
       [] from = Truth -> OneOrZero(lo, type, o)
       [] OTHER -> Simple(lo, op, type, <<o>>)

(* A column of the matrix o for a matrix of size n: cut, extended, or a    *)
(* column of the identity.                                                 *)
NibbleMask(picks) == FoldLeft(LAMBDA sum, k : sum + picks[k] * 16^(k - 1), 0, [k \in DOMAIN picks |-> k])
UnitAt(c, row) == Const("float", IF c = row THEN One ELSE 0)
VectorOfLanes(lo, lanes) == Emitted(lo, "VEC_CONSTRUCT", Type("float", Len(lanes)), lanes, Len(lanes))
ColumnFromMatrix(lo, o, n, c) ==
  LET from == TypeOf(lo, o).n
      column == ColumnLoad(lo, o, c)
      Lane(at, row) == IF row < from THEN Emitted(at, "VEC_EXTRACT", Scalar("float"), <<column.out>>, row)
                       ELSE Result(at, UnitAt(c, row))
      lanes == Gather(column, Identity(n), Lane)
  IN CASE c >= from -> VectorOfLanes(lo, [row \in 1..n |-> UnitAt(c, row - 1)])
       [] n = from -> column
       [] n < from -> Emitted(column, "VEC_SHUFFLE", Type("float", n), <<column.out, column.out>>, NibbleMask(Identity(n)))
       [] OTHER -> VectorOfLanes(lanes.lo, lanes.outs)

ConstructMatrix(lo, type, args) ==
  LET n == type.n
      types == [k \in DOMAIN args |-> TypeOf(lo, args[k])]
      Built(at, Column(_, _)) == MatrixOfColumns(Gather(at, Identity(n), Column), type)
      single == Len(args) = 1
      float == IF types[1] = Scalar("float") THEN Result(lo, args[1])
               ELSE Simple(lo, ConversionOf[types[1].of]["float"], Scalar("float"), args)
      floats == Gather(lo, args, LAMBDA at, o : ConvertRegisterToType(at, o, Scalar("float")))
      scalars == \A k \in DOMAIN args : types[k] \in {Scalar(of) : of \in {"float", "int", "uint"}}
  IN CASE single /\ IsMatrix(types[1]) -> Built(lo, LAMBDA at, c : ColumnFromMatrix(at, args[1], n, c))
       [] single /\ scalars ->
            Built(float, LAMBDA at, c :
              VectorOfLanes(at, [row \in 1..n |-> IF row = c + 1 THEN float.out ELSE Const("float", 0)]))
       [] Len(args) = n /\ \A k \in DOMAIN args : types[k] = ColumnOf(type) -> MatrixOfColumns([lo |-> lo, outs |-> args], type)
       [] Len(args) = n * n /\ scalars ->
            Built(floats.lo, LAMBDA at, c : VectorOfLanes(at, SubSeq(floats.outs, n * c + 1, n * c + n)))
       [] OTHER -> Failed(lo)

Construct(lo, type, args) ==
  LET given == FoldLeft(LAMBDA sum, o : sum + Width(TypeOf(lo, o)), 0, args)
      fits == IF Len(args) = 1 THEN given = 1 \/ given >= type.n ELSE given = type.n
  IN CASE IsMatrix(type) -> ConstructMatrix(lo, type, args)
       [] IsNumeric(type) /\ type.n = 1 /\ Len(args) = 1 -> ScalarConversion(lo, type, args[1])
       [] type.n > 1 /\ ~fits -> Failed(lo)
       [] OTHER -> RecordConstantVector(Emitted(lo, "VEC_CONSTRUCT", type, args, Len(args)))

----------------------------------------------------------------------------
(* Components and elements.                                                *)
OutOfRange(type, picks) == Vectors(type) /\ \E k \in DOMAIN picks : picks[k] >= type.n
LowerSwizzle(lo, o, picks) ==
  LET type == TypeOf(lo, o)
  IN CASE Len(picks) = 1 /\ IsScalar(type) /\ picks[1] = 0 -> Result(lo, o)
       [] OutOfRange(type, picks) -> Failed(lo)
       [] Len(picks) = 1 -> Emitted(lo, "VEC_EXTRACT", ScalarOf(type), <<o>>, picks[1])
       [] OTHER -> Emitted(lo, "VEC_SHUFFLE", Type(type.of, Len(picks)), <<o, o>>, NibbleMask(picks))

(* An index known while compiling is checked: against the columns or the   *)
(* components, or the length of an array.                                  *)
BadIndex(array, type, index) ==
  LET length == IF array > 0 THEN array ELSE type.n
  IN /\ IsConstant(index) /\ index[2] \in {"int", "uint"} /\ (array > 0 \/ length > 1)
     /\ NumberOf(index[2], index[3]) \notin 0..(length - 1)
ElementType(lo, base) ==
  LET type == TypeOf(lo, base)
  IN IF ArrayLength(base) > 0 THEN type ELSE IF IsMatrix(type) THEN ColumnOf(type)
     ELSE IF IsVector(type) THEN ScalarOf(type) ELSE type
LowerElement(lo, base, index) ==
  IF BadIndex(ArrayLength(base), TypeOf(lo, base), index) THEN Failed(lo)
  ELSE Simple(lo, "ARRAY_LOAD", ElementType(lo, base), <<base, index>>)

----------------------------------------------------------------------------
(* Stores.                                                                 *)
Replaced(type, picks) ==
  [c \in 1..type.n |-> IF c - 1 \in Range(picks) THEN (CHOOSE k \in DOMAIN picks : picks[k] = c - 1) - 1 + type.n ELSE c - 1]

(* A swizzle of a variable: one component inserted, or several shuffled in.*)
StoreSwizzle(lo, register, picks, value) ==
  LET type == lo.types[register]
      Inserted(at) == Emitted(at, "VEC_INSERT", type, <<Reg(register), at.out>>, picks[1])
  IN CASE \/ Cardinality(Range(picks)) < Len(picks) \/ OutOfRange(type, picks)
          \/ ~CheckStoreShape(lo, value, Type(type.of, Len(picks))) -> Failed(lo)
       [] Len(picks) > 1 /\ type.n = 1 -> Stored(lo, register, value)
       [] Len(picks) = 1 -> StoredOut(Inserted(ConvertRegisterToType(lo, value, ScalarOf(type))), register)
       [] OTHER -> StoredOut(Emitted(lo, "VEC_SHUFFLE", type, <<Reg(register), value>>, NibbleMask(Replaced(type, picks))), register)

(* The vector object with components of value at picks.                    *)
InsertEach(lo, object, picks, value) ==
  LET type == TypeOf(lo, object)
      Insert(at, k) ==
        LET part == IF Len(picks) = 1 THEN Result(at, value)
                    ELSE Emitted(at, "VEC_EXTRACT", ScalarOf(type), <<value>>, k - 1)
        IN Emitted(part, "VEC_INSERT", type, <<at.out, part.out>>, picks[k])
  IN FoldLeft(Insert, Result(lo, object), [k \in DOMAIN picks |-> k])

(* The matrix with the column that index names replaced.                   *)
ReplaceColumn(lo, matrix, index, value) ==
  LET type == TypeOf(lo, matrix)
      Choose(at, old) == Simple(at, "SELECT", ColumnOf(type), <<old, value, at.out>>)
      Column(at, c) ==
        LET old == ColumnLoad(at, matrix, c)
        IN Choose(OperationOut(ConvertRegisterToType(old, Const("int", c), TypeOf(lo, index)), "IEQ", Truth, index), old.out)
  IN MatrixOfColumns(Gather(lo, Identity(type.n), Column), type)

StoreName(lo, register, value) ==
  LET converted == ConvertRegisterToType(lo, value, lo.types[register])
  IN IF ~CheckStoreShape(lo, value, lo.types[register]) THEN Failed(lo) ELSE Stored(converted, register, converted.out)

----------------------------------------------------------------------------
(* A condition: its branch is aimed when both sides are known.             *)
Marked(lo) == [lo EXCEPT !.code = Append(@, [op |-> "NOP", dest |-> 0, args |-> <<>>, meta |-> 0, to |-> <<>>])]
Jumping(lo, op, args) == [lo EXCEPT !.code = Append(@, [op |-> op, dest |-> 0, args |-> args, meta |-> 0, to |-> <<>>])]
Here(lo) == Len(lo.code) + 1
Aim(lo, at, to) == [lo EXCEPT !.code[at].to = to]
Forgetting(lo, before) == [lo EXCEPT !.nodes = before.nodes]

RECURSIVE Lowered(_, _), StoreLValue(_, _, _)
EnsureBoolOut(lo) == EnsureBoolCondition(lo, lo.out)
ConditionOf(lo, e) == EnsureBoolOut(Lowered(lo, e))

(* && and ||: both operands, or the right one only where it counts.  The   *)
(* left one is lowered already.                                            *)
BothSides(lo, op, left) == Simple(lo, op, Truth, <<left, lo.out>>)
SelectedBranch(lo, op, branch) ==
  LET sides == IF op = "AND" THEN <<branch + 1, Here(lo)>> ELSE <<Here(lo), branch + 1>>
  IN Aim(Marked(lo), branch, sides)
LowerLogical(lo, op, right) ==
  LET selected == Fresh(lo)
      first == Stored([lo EXCEPT !.types = Append(@, Truth)], selected, lo.out)
      second == StoredOut(ConditionOf(Jumping(first, "BRANCH", <<lo.out>>), right), selected)
  IN IF IsSpeculatable(lo, right) THEN BothSides(ConditionOf(lo, right), op, lo.out)
     ELSE Forgetting(SelectedBranch(second, op, Here(first)), lo)

BinaryFrom(lo, op, left, right) ==
  IF op \in Logical2 /\ IsScalar(TypeOf(lo, left)) THEN LowerLogical(EnsureBoolCondition(lo, left), op, right)
  ELSE CombinedOut(Lowered(lo, right), op, left)
BinaryOut(lo, op, right) == BinaryFrom(lo, op, lo.out, right)

(* The arms are lowered in their branches, or before when yes and no are   *)
(* operands already.                                                       *)
TernaryMerge(no, selected, branch, jump) ==
  LET chosen == StoredOut(no, selected)
  IN IF TypeOf(no, no.out) # no.types[selected] THEN Failed(no)
     ELSE Aim(Aim(Marked(chosen), branch, <<branch + 1, jump + 1>>), jump, <<Here(chosen)>>)
TernaryNo(took, lo, e, known) ==
  LET other == Forgetting(Jumping(took, "JUMP", <<>>), lo)
      no == IF known = None THEN Lowered(other, e.no) ELSE Result(other, known[2])
  IN Forgetting(TernaryMerge(no, Fresh(lo), Here(lo), Here(took)), lo)
StoredAsItIs(lo, register) == StoredOut([lo EXCEPT !.types[register] = TypeOf(lo, lo.out)], register)
LowerTernaryBranches(lo, condition, e, known) ==
  LET fork == Jumping([lo EXCEPT !.types = Append(@, Invalid)], "BRANCH", <<condition>>)
      yes == IF known = None THEN Lowered(fork, e.yes) ELSE Result(fork, known[1])
  IN TernaryNo(StoredAsItIs(yes, Fresh(lo)), lo, e, known)

SelectColumns(lo, condition, yes, no) ==
  LET type == TypeOf(lo, yes)
      Column(at, c) ==
        LET a == ColumnLoad(at, yes, c)
            b == ColumnLoad(a, no, c)
        IN Simple(b, "SELECT", ColumnOf(type), <<b.out, a.out, condition>>)
  IN MatrixOfColumns(Gather(lo, Identity(type.n), Column), type)

(* Both arms are operands, of the register condition.                      *)
SelectArms(lo, condition, yes, e, scalar) ==
  LET type == TypeOf(lo, yes)
  IN CASE scalar /\ (type # TypeOf(lo, lo.out) \/ IsMatrix(type)) -> LowerTernaryBranches(lo, condition, e, <<yes, lo.out>>)
       [] IsMatrix(type) -> SelectColumns(lo, condition, yes, lo.out)
       [] OTHER -> Simple(lo, "SELECT", type, <<lo.out, yes, condition>>)
ThenArm(yes, condition, e, scalar) == SelectArms(Lowered(yes, e.no), condition, yes.out, e, scalar)
TernaryOn(lo, e, scalar) ==
  IF scalar /\ ~AreSpeculatable(lo, e.yes, e.no) THEN LowerTernaryBranches(lo, lo.out, e, None)
  ELSE ThenArm(Lowered(lo, e.yes), lo.out, e, scalar)
TernaryOf(given, e) ==
  IF IsScalar(TypeOf(given, given.out)) THEN TernaryOn(EnsureBoolOut(given), e, TRUE) ELSE TernaryOn(given, e, FALSE)
LowerTernary(lo, e) == TernaryOf(Lowered(lo, e.condition), e)

----------------------------------------------------------------------------
(* Operators of one operand.  A step stores its result where the operand   *)
(* came from, whose parts are not evaluated again.                         *)
Negated(lo, o) ==
  LET type == TypeOf(lo, o)
      least == o = Const("int", Modulo \div 2)
  IN IF IsConstant(o) /\ type.of # "bool" /\ ~least THEN Result(lo, Const(o[2], Basic("neg", o[2], <<o[3]>>)))
     ELSE Simple(lo, IF FloatLike(type) THEN "FNEG" ELSE "INEG", type, <<o>>)
Inverted(lo, o) ==
  LET truth == EnsureBoolCondition(lo, o)
  IN IF IsBoolVector(TypeOf(lo, o)) THEN Simple(lo, "NOT", TypeOf(lo, o), <<o>>) ELSE Simple(truth, "NOT", Truth, <<truth.out>>)

StepOps == [PRE_INCREMENT |-> "ADD", POST_INCREMENT |-> "ADD", PRE_DECREMENT |-> "SUB", POST_DECREMENT |-> "SUB"]
LowerStep(lo, op, target) ==
  LET read == Lowered([lo EXCEPT !.remembers = TRUE], target)
      type == TypeOf(read, read.out)
      before == IF op \in {"POST_INCREMENT", "POST_DECREMENT"} THEN Simple(read, "STORE_REG", type, <<read.out>>) ELSE read
      unit == CASE IsFloat(type) -> Const("float", One) [] type = Scalar("uint") -> Const("uint", 1) [] OTHER -> Const("int", 1)
      after == Simple(before, (IF IsFloat(type) THEN "F" ELSE "I") \o StepOps[op], type, <<read.out, unit>>)
      stored == StoreLValue(after, target, after.out)
      value == IF before = read THEN after.out ELSE before.out
  IN [Result(stored, value) EXCEPT !.remembers = lo.remembers]

LowerUnaryOp(lo, op, e) ==
  LET operand == Lowered(lo, e)
  IN CASE op \in DOMAIN StepOps -> LowerStep(lo, op, e)
       [] op = "NEGATE" -> Negated(operand, operand.out)
       [] op = "NOT" -> Inverted(operand, operand.out)
       [] op = "BITWISE_NOT" -> IF IsInteger(TypeOf(operand, operand.out))
                                  THEN Simple(operand, "NOT", TypeOf(operand, operand.out), <<operand.out>>)
                                ELSE Failed(operand)

(* The operand lowered last, into a variable or a target.                  *)
StoreInto(lo, register) == StoreName(lo, register, lo.out)
StoreOut(lo, target) == StoreLValue(lo, target, lo.out)

----------------------------------------------------------------------------
(* Statements.  The target of a compound assignment is read first, and     *)
(* stored to with the parts it was read with.                              *)
LowerCompound(old, s) ==
  [StoreOut([BinaryFrom([old EXCEPT !.nodes = <<>>, !.remembers = FALSE], s.op, old.out, s.value) EXCEPT !.nodes = old.nodes],
            s.target) EXCEPT !.nodes = <<>>]
LowerAssignment(lo, s) ==
  IF s.op = "" THEN StoreOut(Lowered(lo, s.value), s.target)
  ELSE LowerCompound(Lowered([lo EXCEPT !.remembers = TRUE], s.target), s)

(* The elements of an array are all evaluated before the first is stored.  *)
ConvertElement(lo, type) == IF CheckStoreShape(lo, lo.out, type) THEN ConvertRegisterToType(lo, lo.out, type) ELSE Failed(lo)
StoreElements(all, register) ==
  FoldLeft(LAMBDA at, k : Into(at, "ARRAY_STORE", register, <<Reg(register), Const("uint", k - 1), all.outs[k]>>, 0),
           all.lo, [k \in DOMAIN all.outs |-> k])
LowerVariableDecl(lo, s) ==
  LET register == RegisterOf(s.name)
      type == lo.types[register]
      Element(at, e) == ConvertElement(Lowered(at, e), type)
  IN CASE s.values = <<>> /\ IsFloat(type) /\ type.n > 1 ->
            Into(lo, "VEC_CONSTRUCT", register, Same(4, Const("float", 0)), type.n)
       [] s.values = <<>> -> lo
       [] Variables[register].length > 0 -> StoreElements(Gather(lo, s.values, Element), register)
       [] OTHER -> StoreInto(Lowered(lo, s.values[1]), register)

----------------------------------------------------------------------------
(* Expressions and statements.                                             *)
LowerBinaryOp(lo, e) == BinaryOut(Lowered(lo, e.left), e.op, e.right)
LowerExpression(lo, e) ==
  LET arguments == Gather(lo, e.args, Lowered)
      object == Lowered(lo, e.object)
      base == Lowered(lo, e.array)
      index == Lowered(base, e.index)
  IN CASE e.kind = "literal" -> Result(lo, Const(e.of, e.x))
       [] e.kind = "name" -> Result(lo, Reg(RegisterOf(e.name)))
       [] e.kind = "unary" -> LowerUnaryOp(lo, e.op, e.operand)
       [] e.kind = "binary" -> LowerBinaryOp(lo, e)
       [] e.kind = "ternary" -> LowerTernary(lo, e)
       [] e.kind = "construct" -> Construct(arguments.lo, e.type, arguments.outs)
       [] e.kind = "intrinsic" -> LowerIntrinsic(arguments.lo, e.name, arguments.outs)
       [] e.kind = "swizzle" -> LowerSwizzle(object, object.out, e.picks)
       [] e.kind = "element" -> LowerElement(index, base.out, index.out)
       [] e.kind = "expression" -> [Lowered(lo, e.value) EXCEPT !.nodes = <<>>]
       [] e.kind = "assign" -> LowerAssignment(lo, e)
       [] e.kind = "declare" -> LowerVariableDecl(lo, e)

(* A node already lowered is not lowered again; what is lowered while the  *)
(* target of a store is read is remembered for the store.                  *)
Remembered(lo, e, next) ==
  IF lo.error THEN lo
  ELSE IF e \in DOMAIN lo.nodes THEN Result(lo, lo.nodes[e])
  ELSE IF lo.remembers THEN [next EXCEPT !.nodes = (e :> next.out) @@ @] ELSE next
Lowered(lo, e) == Remembered(lo, e, LowerExpression(lo, e))

StorePart(object, target, value) ==
  LET type == TypeOf(object, object.out)
  IN IF \/ OutOfRange(type, target.picks) \/ Cardinality(Range(target.picks)) < Len(target.picks)
        \/ ~CheckStoreShape(object, value, Type(type.of, Len(target.picks)))
       THEN Failed(object)
     ELSE StoreOut(InsertEach(object, object.out, target.picks, value), target.object)

StoreAt(index, base, target, value) ==
  LET container == TypeOf(index, base)
      array == ArrayLength(base) > 0
      isComponent == ~array /\ Vectors(container) /\ TypeOf(index, value) = ScalarOf(container)
      isColumn == ~array /\ IsMatrix(container) /\ TypeOf(index, value) = ColumnOf(container)
  IN CASE (array \/ isComponent \/ isColumn) /\ BadIndex(ArrayLength(base), container, index.out) -> Failed(index)
       [] isComponent ->
            StoreOut(Emitted(index, "VEC_INSERT_DYNAMIC", container, <<base, value, index.out>>, 0), target.array)
       [] isColumn -> StoreOut(ReplaceColumn(index, base, index.out, value), target.array)
       [] array /\ ~CheckStoreShape(index, value, container) -> Failed(index)
       [] OTHER -> Into([index EXCEPT !.types[base[2]] = TypeOf(index, value)], "ARRAY_STORE", base[2],
                        <<base, index.out, value>>, 0)
StoreElement(base, target, value) == StoreAt(Lowered(base, target.index), base.out, target, value)

StoreLValue(lo, target, value) ==
  CASE lo.error -> lo
    [] target.kind = "name" -> StoreName(lo, RegisterOf(target.name), value)
    [] target.kind = "swizzle" /\ target.object.kind = "name" ->
         StoreSwizzle(lo, RegisterOf(target.object.name), target.picks, value)
    [] target.kind = "swizzle" -> StorePart(Lowered(lo, target.object), target, value)
    [] OTHER -> StoreElement(Lowered(lo, target.array), target, value)

Lower(program, speculate) == FoldLeft(Lowered, Start(speculate), program)
=============================================================================
