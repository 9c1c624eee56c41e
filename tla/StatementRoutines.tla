---------------------------- MODULE StatementRoutines ----------------------------
(***************************************************************************)
(* What the functions of Parser (phases/parser) are made of, and then the  *)
(* functions for expressions (bwsl_parser_soa_expressions.inl), blocks,    *)
(* statements and declarations of variables                                *)
(* (bwsl_parser_soa_statements.inl).  A function is a routine: a body of   *)
(* instructions over the token stream, the scopes of the symbol table and  *)
(* its own locals, written with the constructors below and assembled to a  *)
(* sequence with jumps; Parser runs it.  ParseStatement is cut at its      *)
(* alternatives, which are definitions of their own.                       *)
(* Tokens are their own kind, but for identifiers, numbers and strings.    *)
(***************************************************************************)
EXTENDS Integers, Sequences, FiniteSets, SequencesExt, TLC

CONSTANTS Identifiers, Numbers, Strings   \* texts of the three open classes of tokens
ASSUME TokenAssumption == /\ Identifiers \cap Numbers = {} /\ Identifiers \cap Strings = {}
                          /\ Numbers \cap Strings = {}

(* TokenMasks::CORE_TYPES, ASSIGNMENT_OPERATORS and the other words.       *)
INTEGER_TYPES == {"int", "uint", "int2", "uint2"}
CORE_TYPES == INTEGER_TYPES \cup {"float", "float2", "float3", "float4", "mat4", "bool", "enum"}
HANDLE_TYPES == {"texture2D", "sampler"}
ASSIGNMENT_OPERATORS == {"=", "+=", "-=", "*=", "/=", "%=", "&=", "|=", "^=", "<<=", ">>="}
Punctuation == ASSIGNMENT_OPERATORS \cup
  {"id", "num", "str", "@", "_", "+", "-", "*", "/", "%", "!", "<", ">", "==", "!=", "<=", ">=", "&&", "||", "&", "|", "^",
   "~", "<<", ">>", "::", "->", "..", "..=", "++", "--", "{", "}", "(", ")", "[", "]", ";", ",", ".", "?", ":", "EOF"}
Stages == {"vertex", "fragment", "compute"}
StageFunctions == {"vertex_function", "fragment_function", "compute_function"}
Keywords == CORE_TYPES \cup HANDLE_TYPES \cup Stages \cup StageFunctions \cup
  {"if", "else", "for", "foreach", "loop", "until", "while", "switch", "case", "default", "return", "break", "skip", "discard",
   "const", "shared", "eval", "self", "resources", "attributes", "variants", "rules", "require", "conflict", "true", "false",
   "null", "pass", "pass_block", "pipeline", "module", "submodule", "extends", "import", "using", "as", "struct",
   "constraint", "use", "void", "in", "by", "node", "inputs", "outputs", "readonly", "writeonly", "readwrite",
   "compute_graph", "buffer", "cbuffer"}
IsKeywordNameToken(kind) == kind \notin Punctuation

(* Texts the parser treats in a way of their own.                          *)
Decorators == {"@branch", "@flatten", "@flat", "@noperspective", "@centroid", "@bounds", "@compressed", "@instance",
               "@location"}
Components == {"x"}                      \* what @bounds can name
OutOfRange == {"99999999999"}
NoIntegers == OutOfRange \cup {"1.5"}
BadSizes == NoIntegers \cup {"0"}         \* no length of an array and no size of a workgroup
Intrinsics == {"sin", "ddx"}             \* one argument each; ddx in fragment stages only
BuiltinStructs == {"Ray"}
EmbeddedModules == {"Noise"}
RemovedMatrixAliases == {"float4x4"}

(* What a function returns: the shape of a node and what it is rooted in,  *)
(* as far as assignments ask.  Nothing can be assigned to the root "none". *)
Node(is, root) == [is |-> is, root |-> root]
Null == Node("null", "none")
Answer == Node("answer", "none")                     \* what the last call returned

(* Instructions.  The text of a token, a node or a constant can be held in *)
(* a local of the routine.  A node is passed as the result.                *)
Take == <<"take">>                                   \* Advance
Expect(S) == <<"expect", S>>                         \* Consume, which sets ok
DeclarationName == <<"name">>                        \* ConsumeDeclarationName, which sets ok
Error == <<"error">>
Report == <<"report">>                               \* ReportRecoveredError: no panic
Sync == <<"sync">>                                   \* Synchronize
Enter == <<"enter">>
Exit == <<"exit">>
Calm == <<"calm">>                                   \* panicMode = false
SetOk(value) == <<"setok", value>>
Set(slot, value) == <<"set", slot, value>>
Count(slot) == <<"count", slot, 1>>
Uncount(slot) == <<"count", slot, -1>>
Keep(slot) == <<"keep", slot>>                       \* the text of the token before,
KeepEarlier(slot) == <<"earlier", slot>>             \* or of the one before that
Hold(slot) == <<"hold", slot>>                       \* the result
Release(slot) == <<"release", slot>>                 \* and back
Make(is) == <<"make", is>>                           \* a node around the result, with its root
Result(is, root) == <<"result", Node(is, root)>>
Declare(slot, kind) == <<"declare", slot, kind>>     \* AddSymbol, which sets ok
Flag(name, value) == <<"flag", name, value>>         \* a field of the parser
Save(name) == <<"save", name>>                       \* a field kept in a local
Restore(name) == <<"restore", name>>                 \* and back
Allocate(pool) == <<"allocate", pool>>               \* a node in an array of the syntax tree,
Refer(pool, slot) == <<"refer", pool, slot>>         \* a C++ reference to it in a local,
WriteThrough(pool, slot) == <<"write", pool, slot>>  \* and a write through that reference
Collect(name, slots) == <<"collect", name, slots>>   \* locals as an element of a field
CallWith(routine, locals) == <<"call", routine, locals>>
Call(routine) == CallWith(routine, <<>>)
SkipBraces == <<"skip">>                             \* to the end of the block whose brace was read
SkipBracedDeclaration(read) == <<"skip declaration", read>>   \* read: so was its keyword
Rewind == <<"rewind">>                               \* to the start of the document
Choose == <<"choose">>                               \* a decision that rests on values, which sets ok
Return(result) == <<"return", result>>
If(c, then, else) == <<"if", c, then, else>>
When(c, then) == <<"if", c, then, <<>>>>
While(c, body) == <<"while", c, body>>
Guarded(c, body) == <<"guarded", c, body>>           \* with a ProgressGuard in its body
Break == <<"break">>
Continue == <<"continue">>
Do(body) == <<"do", body>>                           \* several instructions as one

(* Conditions.                                                             *)
At(S) == <<"at", S>>                                 \* Check
Next1(S) == <<"next", S>>                            \* PeekNext
Next2(S) == <<"third", S>>                           \* Peek3
Behind(S) == <<"behind", S>>                         \* the token before
Text(S) == <<"text", S>>                             \* the text of the token before
Here(S) == <<"here", S>>                             \* the text of the current one
Ok == <<"ok">>
Got(S) == <<"got", S>>                               \* the shape of the result
Rooted(S) == <<"rooted", S>>                         \* and its root
Held(slot, S) == <<"held", slot, S>>                 \* the shape of a held node
Is(slot, S) == <<"is", slot, S>>                     \* the value of a local
Has(name) == <<"has", name>>                         \* a field of the parser is set
Recovered == <<"recovered">>                         \* CheckRecoveredKeywordName
Known(kinds) == <<"known", kinds>>                   \* the current token names one of kinds
KnownAs(slot, kinds) == <<"knownas", slot, kinds>>   \* and so does a text in a local
Among(name, slots) == <<"among", name, slots>>       \* locals are an element of a field
AnyOf(name) == <<"anyof", name>>                     \* a field has elements
Not(c) == <<"none", <<c>>>>
Every(cs) == <<"every", cs>>
Some(cs) == <<"some", cs>>
Ahead(shape) == <<"ahead", shape>>                   \* a scan of the tokens ahead
Always == Every(<<>>)
Nothing == Got({"null"})
Panicking == <<"panicking">>                         \* panicMode

(* Frequent forms of the code.                                             *)
WhenMatch(S, then) == When(At(S), <<Take>> \o then)                       \* if (Match(..))
IfMatch(S, then, else) == If(At(S), <<Take>> \o then, else)
WhileMatch(S, body) == While(At(S), <<Take>> \o body)
Fail == Do(<<Error, Return(Null)>>)
Give == Return(Answer)
Need(S) == Do(<<Expect(S), When(Not(Ok), <<Return(Null)>>)>>)             \* if (!Consume(..)) return
Optional(S) == When(At(S), <<Take>>)                                      \* Match(..), not asked
Delegate(routine) == Do(<<Call(routine), Give>>)                          \* return Parse..()
Valid(routine) == Do(<<Call(routine), When(Nothing, <<Return(Null)>>)>>)  \* if it is not valid, return
Cases(alternatives, otherwise) ==                    \* if .. else if .. else
  FoldRight(LAMBDA a, rest : <<If(a[1], a[2], rest)>>, alternatives, otherwise)
Matched(S, body) == <<At(S), <<Take>> \o body>>      \* an alternative: if (Match(..))
Unclosed == Not(At({"}", "EOF"}))
List(body, comma, close) ==                          \* do .. while (Match(comma) && !Check(close))
  <<Set("more", TRUE), While(Is("more", {TRUE}),
      body \o <<IfMatch({comma}, <<When(At(close), <<Set("more", FALSE)>>)>>, <<Set("more", FALSE)>>)>>)>>

Kind(t) == CASE t \in Identifiers -> "id" [] t \in Numbers -> "num" [] t \in Strings -> "str"
             [] t \in Decorators -> "@" [] OTHER -> t

-----------------------------------------------------------------------------
(* Assembling: structured bodies to sequences with jumps.  Targets are     *)
(* relative to the instruction; "turn" is the jump back of a loop, where   *)
(* its guard looks whether the body consumed anything.                     *)

RECURSIVE Assembled(_), AssembledAll(_)
AssembledAll(body) == FoldLeft(LAMBDA code, i : code \o Assembled(i), <<>>, body)
LoopExit(code, k, total) ==   \* break and continue of the loop whose body this is
  CASE code[k] = <<"break">> -> <<"leave", total - k + 2>>
    [] code[k] = <<"continue">> -> <<"jump", total - k + 1>>
    [] OTHER -> code[k]
Assembled(i) ==
  CASE i[1] = "do" -> AssembledAll(i[2])
    [] i[1] = "if" ->
         LET then == AssembledAll(i[3])
             else == AssembledAll(i[4])
         IN IF else = <<>> THEN <<<<"unless", i[2], Len(then) + 1>>>> \o then
            ELSE <<<<"unless", i[2], Len(then) + 2>>>> \o then \o <<<<"jump", Len(else) + 1>>>> \o else
    [] i[1] \in {"while", "guarded"} ->
         LET body == AssembledAll(i[3])
             inner == [k \in DOMAIN body |-> LoopExit(body, k, Len(body))]
         IN <<<<"unless", i[2], Len(body) + 3>>, <<IF i[1] = "guarded" THEN "guard" ELSE "plain">>>>
            \o inner \o <<<<"turn", Len(body) + 2>>>>
    [] OTHER -> <<i>>

----------------------------------------------------------------------------
(* Expressions.                                                            *)

ParseExpression == <<Delegate("ParseAssignment")>>

(* ValidateAssignmentTarget, which sets ok: the node in the result must be *)
(* rooted in a variable that is not constant, or go through a pointer.     *)
ValidateAssignmentTarget ==
  If(Every(<<Got({"id", "member", "module member", "index", "deref"}), Not(Rooted({"none"}))>>),
     <<SetOk(TRUE)>>, <<Error, SetOk(FALSE)>>)

ParseAssignment ==
  <<Valid("ParseTernary"),
    WhenMatch(ASSIGNMENT_OPERATORS,
      <<Hold("target"), ValidateAssignmentTarget, When(Not(Ok), <<Give>>),
        Call("ParseAssignment"), Release("target"), Make("assignment"), Give>>),
    Give>>

ParseTernary ==
  <<Call("ParseOr"),
    WhenMatch({"?"}, <<Call("ParseExpression"), Expect({":"}), Call("ParseTernary"), Return(Node("node", "none"))>>),
    Give>>

(* PARSE_BINARY_OP.                                                        *)
BinaryLevel(next, operators) ==
  <<Valid(next), WhileMatch(operators, <<Valid(next), Result("node", "none")>>), Give>>
ParseOr == BinaryLevel("ParseAnd", {"||"})
ParseAnd == BinaryLevel("ParseBitwiseOr", {"&&"})
ParseBitwiseOr == BinaryLevel("ParseBitwiseXor", {"|"})
ParseBitwiseXor == BinaryLevel("ParseBitwiseAnd", {"^"})
ParseBitwiseAnd == BinaryLevel("ParseEquality", {"&"})
ParseEquality == BinaryLevel("ParseComparison", {"==", "!="})
ParseComparison == BinaryLevel("ParseBitwiseShift", {"<", ">", "<=", ">=", "==", "!="})
ParseBitwiseShift == BinaryLevel("ParseTerm", {"<<", ">>"})
ParseTerm == BinaryLevel("ParseFactor", {"+", "-"})
ParseFactor == BinaryLevel("ParseUnary", {"*", "/", "%"})

ParseUnary ==
  <<WhenMatch({"!", "-", "~"}, <<Valid("ParseUnary"), Return(Node("node", "none"))>>),
    WhenMatch({"+"}, <<Valid("ParseUnary"), Give>>),
    WhenMatch({"++", "--", "^"},
      <<Valid("ParseUnary"), ValidateAssignmentTarget, When(Not(Ok), <<Return(Null)>>), Return(Node("node", "none"))>>),
    Delegate("ParsePostfix")>>

(* A name behind `::`: a variant of a local enumeration, a constant of a   *)
(* module, or a member of one; and Module::Enum::Variant.  What an         *)
(* enumeration and a module have is chosen.                                *)
QualifiedMember ==
  <<Expect({"id"}), Choose,
    When(KnownAs("qualifier", {"enum"}), <<When(Not(Ok), <<Fail>>), Return(Node("literal", "none"))>>),
    If(Every(<<KnownAs("qualifier", {"module"}), Ok>>), <<Result("literal", "none")>>, <<Result("module member", "variable")>>)>>
QualifiedVariant ==
  <<Expect({"id"}), Choose, When(Not(Ok), <<Fail>>),
    Choose, When(Ok, <<Return(Node("literal", "none"))>>),
    Result("module variant", "variable")>>

(* `^` behind an operand is a dereference unless an operand follows.       *)
StartsOperand == {"id", "num", "(", "!", "~", "void"} \cup (CORE_TYPES \ {"enum"})

ParsePostfix ==
  <<Valid("ParsePrimary"),
    While(Always,
      Cases(<<
        Matched({"("}, <<Call("ParseFunctionCall")>>),
        Matched({"."}, <<Call("ParseMemberAccess")>>),
        Matched({"["}, <<Call("ParseArrayAccess")>>),
        <<Every(<<At({"::"}), Got({"id"})>>), <<Keep("qualifier"), Take>> \o QualifiedMember>>,
        <<Every(<<At({"::"}), Got({"module member"})>>), <<Take>> \o QualifiedVariant>>,
        Matched({"::"}, <<When(Got({"module variant"}), <<Expect({"id"})>>), Fail>>),
        Matched({"++", "--"}, <<ValidateAssignmentTarget, When(Not(Ok), <<Return(Null)>>), Result("node", "none")>>),
        <<Every(<<At({"^"}), Not(Next1(StartsOperand))>>), <<Take, Result("deref", "variable")>>>> >>,
        <<Break>>) \o
      <<When(Nothing, <<Return(Null)>>)>>),
    Give>>

(* An identifier; what it names decides whether it is a literal.           *)
Identifier ==
  Cases(<<<<Known({"constant"}), <<Take, Return(Node("literal", "none"))>>>>,
          <<Known({"const"}), <<Take, Return(Node("id", "none"))>>>>,
          <<Here({"output"}), <<Take, Return(Node("id", "output"))>>>>>>,
        <<Take, Return(Node("id", "variable"))>>)

ParsePrimary ==
  <<When(Recovered, <<Take, Return(Node("id", "variable"))>>),
    When(Every(<<At(CORE_TYPES), Next1({"["})>>), <<Delegate("ParseInlineArrayConstruction")>>),
    When(Every(<<At(CORE_TYPES), Next1({"("})>>),
      <<Take, Take, Result("id", "variable"), Delegate("ParseFunctionCall")>>),
    WhenMatch({"num"}, <<When(Text(OutOfRange), <<Fail>>), Return(Node("literal", "none"))>>),
    WhenMatch({"true", "false", "str"}, <<Return(Node("literal", "none"))>>),
    WhenMatch({"resources"}, <<Return(Node("id", "resources"))>>),
    WhenMatch({"attributes"}, <<Return(Node("id", "attributes"))>>),
    WhenMatch({"variants"}, <<Return(Node("id", "variants"))>>),
    WhenMatch({"self", "texture2D"}, <<Return(Node("id", "variable"))>>),
    When(At({"id"}), Identifier),
    WhenMatch({"("}, <<Call("ParseExpression"), Expect({")"}), Give>>),
    Fail>>

(* Intrinsics are checked against the stage and their parameters.          *)
CheckIntrinsic ==
  <<When(Every(<<Is("name", {"ddx"}), Not(Has("inFragmentStage"))>>),
      <<Error, Expect({")"}), Return(Node("call", "none"))>>),
    When(Not(Is("arguments", {1})), <<Error>>)>>

ParseFunctionCall ==
  <<When(Nothing, <<Fail>>),
    Hold("function"), KeepEarlier("name"),
    When(Not(Got({"id", "member", "module member", "module variant"})), <<Error, Give>>),
    When(Not(At({")"})), List(<<Call("ParseExpression"), When(Not(Nothing), <<Count("arguments")>>)>>, ",", {")"})),
    When(Every(<<Is("name", Intrinsics), Not(Held("function", {"member"}))>>), CheckIntrinsic),
    Expect({")"}),
    Return(Node("call", "none"))>>

(* Names behind `resources.`, `attributes.` and `variants.` must have been *)
(* declared, and be used by the pass.                                      *)
CheckResource ==
  <<When(Has("inShaderStage"),
      Cases(<<<<Every(<<Has("inPipeline"), AnyOf("resources"), Not(Among("resources", <<"member">>))>>), <<Error>>>>,
              <<Every(<<Has("inPass"), Some(<<Every(<<Has("inPipeline"), AnyOf("resources")>>), AnyOf("usedResources")>>),
                        Not(Among("usedResources", <<"member">>))>>), <<Error>>>>,
              <<Every(<<Has("inPipeline"), Not(Among("resources", <<"member">>))>>), <<Error>>>>>>,
            <<>>))>>
CheckAttribute ==
  <<When(Every(<<Has("inShaderStage"),
                 Some(<<Has("inFragmentStage"), Not(Among("usedAttributes", <<"member">>))>>)>>), <<Error>>)>>
CheckVariant == <<When(Not(Among("variants", <<"member">>)), <<Error>>)>>

ParseMemberAccess ==
  <<When(Nothing, <<Fail>>),
    If(Recovered, <<Take>>, <<Expect({"id"})>>),
    Keep("member"),
    When(Got({"id"}),
      <<When(Rooted({"resources"}), CheckResource), When(Rooted({"attributes"}), CheckAttribute),
        When(Rooted({"variants"}), CheckVariant),
        When(Rooted({"output"}), <<Return(Node("member", "output member"))>>)>>),
    Make("member"), Give>>

ParseArrayAccess ==
  <<When(Nothing, <<Fail>>),
    Hold("array"), Call("ParseExpression"),
    When(Nothing, <<Error, Release("array"), Give>>),
    Expect({"]"}), Release("array"), Make("index"), Give>>

(* The levels of expressions between which nothing else happens.           *)
Levels == {"ParseAssignment", "ParseTernary", "ParseOr", "ParseAnd", "ParseBitwiseOr", "ParseBitwiseXor", "ParseBitwiseAnd",
           "ParseEquality", "ParseComparison", "ParseBitwiseShift", "ParseTerm", "ParseFactor", "ParseUnary", "ParsePostfix",
           "ParsePrimary", "ParseMemberAccess"}

ExpressionRoutines ==
  [ParseExpression |-> ParseExpression, ParseAssignment |-> ParseAssignment, ParseTernary |-> ParseTernary,
   ParseOr |-> ParseOr, ParseAnd |-> ParseAnd, ParseBitwiseOr |-> ParseBitwiseOr, ParseBitwiseXor |-> ParseBitwiseXor,
   ParseBitwiseAnd |-> ParseBitwiseAnd, ParseEquality |-> ParseEquality, ParseComparison |-> ParseComparison,
   ParseBitwiseShift |-> ParseBitwiseShift, ParseTerm |-> ParseTerm, ParseFactor |-> ParseFactor, ParseUnary |-> ParseUnary,
   ParsePostfix |-> ParsePostfix, ParsePrimary |-> ParsePrimary, ParseFunctionCall |-> ParseFunctionCall,
   ParseMemberAccess |-> ParseMemberAccess, ParseArrayAccess |-> ParseArrayAccess]

-----------------------------------------------------------------------------
(* Statements.                                                             *)

TypeKinds == {"struct", "enum", "sum", "alias", "generic"}
DecoratedKinds == {"assignment", "flat", "noperspective", "centroid"}

ParseBlock ==
  <<When(Not(Is("bare", {TRUE})), <<Enter>>),
    Allocate("blocks"),
    Guarded(Unclosed, <<Call("ParseStatement")>>),
    Expect({"}"}),
    When(Not(Is("bare", {TRUE})), <<Exit>>),
    Return(Node("block", "none"))>>

(* What a decorator makes of the assignment behind it.  Modes that do not  *)
(* agree are an error.                                                     *)
Decorate(clashes, as) ==
  <<Call("ParseStatement"), When(Nothing, <<Give>>),
    When(Not(Every(<<Got(DecoratedKinds), Rooted({"output member"})>>)), <<Error, Give>>),
    When(Got(clashes), <<Error, Give>>), Make(as), Give>>
DecoratedStatement ==
  <<When(Text({"@branch", "@flatten"}), <<When(Not(At({"if"})), <<Fail>>), Delegate("ParseStatement")>>),
    When(Text({"@flat"}), Decorate({"noperspective", "centroid"}, "flat")),
    When(Text({"@noperspective"}), Decorate({"flat"}, "noperspective")),
    When(Text({"@centroid"}), Decorate({"flat"}, "centroid")),
    Fail>>

EvalStatement ==
  <<When(At({"{"}), <<Delegate("ParseEvalBlock")>>),
    WhenMatch({"for", "foreach"}, <<CallWith("ParseForStatement", [eval |-> TRUE]), Give>>),
    WhenMatch({"loop"}, <<Delegate("ParseLoopStatement")>>),
    WhenMatch({"while"}, <<Delegate("ParseWhileStatement")>>),
    WhenMatch({"if"}, <<Delegate("ParseEvalIf")>>),
    Delegate("ParseEvalStatement")>>

(* `return if (c) v;`, `return v if (c);` and `return v;`.                 *)
Conditional == Do(<<Allocate("blocks"), Allocate("blocks"), Return(Node("if", "none"))>>)
Condition == <<Expect({"("}), Call("ParseExpression"), Expect({")"})>>
ReturnStatement ==
  <<WhenMatch({"if"},
      Condition \o <<When(Not(At({";"})), <<Call("ParseExpression")>>), Expect({";"}), Conditional>>),
    When(Not(At({";"})),
      <<Call("ParseExpression"), WhenMatch({"if"}, Condition \o <<Expect({";"}), Conditional>>)>>),
    Expect({";"}), Return(Node("node", "none"))>>

BreakOrSkip ==
  <<WhenMatch({"if"}, Condition \o <<Expect({";"}), Conditional>>),
    Expect({";"}), Return(Node("node", "none"))>>

(* A constant whose initializer can be evaluated is a literal from now on. *)
DeclareConstant ==
  <<Hold("value"), When(Got({"literal"}), <<SetOk(TRUE)>>), When(Not(Got({"literal"})), <<Choose>>),
    If(Every(<<Ok, Is("evaluates", {TRUE})>>), <<Declare("name", "constant")>>, <<Declare("name", "const")>>),
    When(Not(Ok), <<Fail>>)>>

ConstStatement ==
  Cases(<<Matched(CORE_TYPES, <<Set("evaluates", TRUE), Set("builtin", TRUE)>>),
          <<At({"id"}),
            <<If(Known({"enum"}), <<Set("builtin", TRUE)>>, <<Set("builtin", FALSE)>>),
              If(Known(TypeKinds), <<Set("evaluates", TRUE)>>, <<Set("evaluates", FALSE)>>),
              Take, WhenMatch({"::"}, <<Expect({"id"})>>)>>>>>>,
        <<Fail>>) \o
  <<WhileMatch({"^"}, <<>>),
    When(Every(<<Is("builtin", {TRUE}), At({"["})>>),
      <<Take, CallWith("ParseArrayDeclaration", [const |-> TRUE]), Give>>),
    DeclarationName, Keep("name"),
    Expect({"="}),
    Call("ParseExpression"), When(Nothing, <<Fail>>),
    Expect({";"})>>
  \o DeclareConstant \o <<Return(Node("declaration", "none"))>>

(* The body of an `if` or `else`: a block, or one statement in a scope.    *)
Branch == If(At({"{"}), <<Take, Call("ParseBlock")>>, <<Allocate("blocks"), Enter, Call("ParseStatement"), Exit>>)
IfStatement ==
  <<Allocate("blocks")>> \o Condition \o
  <<Branch,
    WhenMatch({"else"}, <<If(At({"if"}), <<Call("ParseStatement")>>, <<Branch>>)>>),
    Return(Node("if", "none"))>>

(* A statement that begins with an identifier: the tokens behind it decide *)
(* whether it declares a variable.                                         *)
Words == {"id"} \cup Keywords
ExpressionThenSemicolon == <<Call("ParseExpression"), When(Not(Nothing), <<Expect({";"})>>), Give>>
IdentifierStatement ==
  <<When(Next1(ASSIGNMENT_OPERATORS \cup {"("}), ExpressionThenSemicolon),
    When(Some(<<Next1({"id"}), Every(<<Next1(Words), Known(TypeKinds)>>)>>), <<Delegate("ParseCustomTypeVarDecl")>>),
    When(Every(<<Next1({"["}), Ahead("array declaration")>>), <<Delegate("ParseCustomTypeVarDecl")>>),
    When(Next1({"::"}),
      <<When(Ahead("qualified call"), ExpressionThenSemicolon), Delegate("ParseCustomTypeVarDecl")>>),
    When(Every(<<Next1({"^"}), Ahead("pointer declaration")>>), <<Delegate("ParseCustomTypeVarDecl")>>)>>

VariableDeclaration ==
  <<WhenMatch({"shared"}, <<When(Not(At(CORE_TYPES)), <<Fail>>), Set("shared", TRUE)>>),
    Take,
    WhileMatch({"^"}, <<>>),
    WhenMatch({"["},
      <<If(Is("shared", {TRUE}), <<CallWith("ParseArrayDeclaration", [shared |-> TRUE])>>, <<Call("ParseArrayDeclaration")>>),
        Give>>),
    DeclarationName, Keep("name"),
    When(At({"["}), <<Error, Sync, Return(Null)>>),
    WhenMatch({"="}, <<Call("ParseExpression")>>),
    Expect({";"}),
    Declare("name", "variable"), When(Not(Ok), <<Fail>>),
    Return(Node("declaration", "none"))>>

ExpressionStatement ==
  <<Call("ParseExpression"),
    If(Nothing, <<Error, When(Not(At({"}", "EOF"})), <<Take>>)>>, <<Expect({";"})>>),
    Give>>

ParseStatement ==
  <<WhenMatch({"@"}, DecoratedStatement),
    WhenMatch({"eval"}, EvalStatement),
    WhenMatch({"return"}, ReturnStatement),
    WhenMatch({"break", "skip"}, BreakOrSkip),
    WhenMatch({"discard"}, <<Expect({";"}), Return(Node("node", "none"))>>),
    WhenMatch({"const"}, ConstStatement),
    WhenMatch({"if"}, IfStatement),
    WhenMatch({"for", "foreach"}, <<Delegate("ParseForStatement")>>),
    WhenMatch({"loop"}, <<Delegate("ParseLoopStatement")>>),
    WhenMatch({"while"}, <<Delegate("ParseWhileStatement")>>),
    WhenMatch({"switch"}, <<Delegate("ParseSwitch")>>),
    When(At({"id"}), IdentifierStatement),
    WhenMatch({"{"}, <<Delegate("ParseBlock")>>),
    WhenMatch({";"}, <<Return(Null)>>),
    When(At(CORE_TYPES \cup {"shared"}), VariableDeclaration)>>
  \o ExpressionStatement

(* `Type name`, `Module::Type name`, `Type^ name`, `Type[n][m] name`.      *)
ParseCustomTypeVarDecl ==
  <<If(Every(<<At({"id"}), Next1({"::"})>>), <<Take, Take, Expect({"id"})>>, <<Expect({"id"})>>),
    When(Text(RemovedMatrixAliases), <<Error, Sync, Return(Null)>>),
    WhileMatch({"^"}, <<>>),
    WhenMatch({"["},
      List(<<Set("array", TRUE), Call("ParseArraySizeValue"), When(Not(Ok), <<Return(Null)>>),
             Expect({"]"})>>, "[", {})),
    DeclarationName, Keep("name"),
    WhenMatch({"["}, <<Error, Sync, Return(Null)>>),
    WhenMatch({"="},
      <<If(Every(<<Is("array", {TRUE}), At({"{"})>>), <<Call("ParseArrayInitializer")>>, <<Call("ParseExpression")>>)>>),
    Expect({";"}),
    When(Is("array", {TRUE}), <<Choose, When(Not(Ok), <<Fail>>)>>),    \* the sizes are in bounds
    Declare("name", "variable"), When(Not(Ok), <<Fail>>),
    Return(Node("declaration", "none"))>>

StatementRoutines ==
  [ParseBlock |-> ParseBlock, ParseStatement |-> ParseStatement, ParseCustomTypeVarDecl |-> ParseCustomTypeVarDecl]

-----------------------------------------------------------------------------
(* Arrays, enumerations, structures and pattern matches                    *)
(* (bwsl_parser_soa_types.inl).                                            *)

(* A number, or a constant of this or another module; it sets ok.          *)
ParseArraySizeValue ==
  <<WhenMatch({"num"}, <<If(Text(BadSizes), <<Error, SetOk(FALSE)>>, <<SetOk(TRUE)>>), Give>>),
    WhenMatch({"id"},
      <<Keep("constant"),
        WhenMatch({"::"}, <<Expect({"id"}), When(Not(Ok), <<Give>>), Choose, When(Not(Ok), <<Error, SetOk(FALSE)>>), Give>>),
        If(KnownAs("constant", {"constant"}), <<SetOk(TRUE)>>, <<Error, SetOk(FALSE)>>), Give>>),
    Error, SetOk(FALSE), Give>>

Sizes(onFailure) ==   \* `n]`, and `[m]` as often as there are
  List(<<Call("ParseArraySizeValue"), When(Not(Ok), onFailure), Expect({"]"})>>, "[", {})
Initializer == WhenMatch({"="}, <<If(At({"{"}), <<Call("ParseArrayInitializer")>>, <<Call("ParseExpression")>>)>>)

(* Behind `[`.  Of a constant, exactly one value per element is given; the *)
(* sizes and the values are counted by the code, and chosen here.          *)
ParseArrayDeclaration ==
  Sizes(<<Return(Null)>>) \o
  <<DeclarationName, Keep("name"),
    Choose, When(Not(Ok), <<Fail>>),
    Result("null", "none"), Initializer,
    When(Every(<<Is("shared", {TRUE}), Not(Nothing)>>), <<Fail>>),
    When(Is("const", {TRUE}), <<When(Not(Got({"block"})), <<Fail>>), Choose, When(Not(Ok), <<Fail>>)>>),
    Expect({";"}),
    When(Not(Is("field", {TRUE})), <<Declare("name", "variable"), When(Not(Ok), <<Fail>>)>>),
    Return(Node("declaration", "none"))>>

Element == <<Call("ParseExpression"), When(Nothing, <<Fail>>)>>
ParseArrayInitializer ==
  <<Expect({"{"}), Allocate("blocks"), When(Not(At({"}"})), List(Element, ",", {"}"})), Expect({"}"}), Return(Node("block", "none"))>>

ParseInlineArrayConstruction ==
  <<When(Not(At(CORE_TYPES)), <<Fail>>), Take,
    Expect({"["}), Call("ParseArraySizeValue"), When(Not(Ok), <<Return(Null)>>), Expect({"]"}),
    Expect({"["}), Allocate("blocks"),
    When(Not(At({"]"})), List(Element \o <<Choose, When(Not(Ok), <<Fail>>)>>, ",", {"]"})),    \* no more than the size
    Expect({"]"}), Return(Node("block", "none"))>>

-----------------------------------------------------------------------------
(* Enumerations.  A second member of a name, or of a value, is an error;   *)
(* a second enumeration of a name is dropped without one.                  *)
IsFunctionDeclStart == Every(<<At({"id"} \cup CORE_TYPES), Next1({"::"}), Next2({"("})>>)

ParseEnum ==
  <<Expect({"id"}), Keep("name"),
    WhenMatch({":"}, <<If(At(INTEGER_TYPES), <<Take, When(Not(Text({"int", "uint"})), <<Error>>)>>, <<Error>>)>>),
    Expect({"{"}),
    Guarded(Unclosed,
      <<Set("eval", FALSE), WhenMatch({"eval"}, <<Set("eval", TRUE)>>),
        Do(Cases(<<<<IsFunctionDeclStart, <<Call("ParseEnumMethod")>>>>,
                   <<Is("eval", {TRUE}), <<Error>>>>>>,
                 <<Call("ParseEnumVariant"), Choose, When(Not(Ok), <<Error>>), Optional({","})>>))>>),
    Expect({"}"}),
    Declare("name", "enum"),
    When(Ok, <<Choose, When(Not(Ok), <<Error>>)>>),                  \* values in range and distinct
    Return(Node("enum", "none"))>>

ParseEnumVariant ==
  <<Expect({"id"}),
    WhenMatch({"("},
      <<When(Not(At({")"})),
          List(<<If(At(CORE_TYPES \cup {"id"}), <<Take, Optional({"id"})>>, <<Error, Break>>)>>, ",", {")"})),
        Expect({")"})>>),
    WhenMatch({"="},
      <<Optional({"-"}), IfMatch({"num"}, <<When(Text(NoIntegers), <<Error>>)>>, <<Error>>)>>),
    Return(Node("variant", "none"))>>

(* `name :: (parameters) -> type`, as far as methods have it.              *)
Parameters(pointers) ==
  Do(<<Flag("generic", FALSE), Flag("onEnum", FALSE), Flag("parameters", {}),
       CallWith("ParseFunctionParameters", [pointers |-> pointers])>>)
MethodName == <<Expect({"id"}), When(Text(Intrinsics), <<Error>>), Keep("name"), Expect({"::"}), Expect({"("})>>
RejectPointerReturnType == When(At({"^"}), <<Report, WhileMatch({"^"}, <<>>)>>)
ReturnType ==
  <<Expect({"->"})>> \o
  Cases(<<Matched({"id"}, <<WhenMatch({"::"}, <<Expect({"id"})>>)>>), Matched(CORE_TYPES \cup {"void"}, <<>>)>>, <<Fail>>) \o
  <<RejectPointerReturnType>>

ParseEnumMethod ==
  MethodName \o <<Parameters(FALSE), Expect({")"})>> \o ReturnType \o
  <<Choose, When(Not(Ok), <<Fail>>),                                  \* no overload of the same signature
    Expect({"{"}),
    If(Every(<<At({"id"}), Next1({":", "("})>>), <<Call("ParsePatternMatch")>>, <<Call("ParseBlock")>>),
    Return(Node("function", "none"))>>

(* The arms of a match on self, up to the closing brace.                   *)
Arm == If(At({"{"}), <<Take, Call("ParseBlock")>>, <<Call("ParseExpression")>>)
ParsePatternMatch ==
  <<Guarded(Unclosed,
      <<Set("default", FALSE),
        IfMatch({"default"}, <<Set("default", TRUE)>>, <<Expect({"id"})>>),
        When(Every(<<Is("default", {FALSE}), At({"("})>>),
          <<Take,
            When(Not(At({")"})), List(<<If(At({"id", "_"}), <<Take>>, <<Error, Break>>)>>, ",", {")"})),
            Expect({")"})>>),
        Expect({":"}),
        If(At({"{"}), <<Arm>>, <<Arm, Optional({";"})>>),
        When(Not(At({"id", "default", "}"})), <<Break>>)>>),
    Expect({"}"}), Return(Node("match", "none"))>>

(* The arms of a match on a type; the brace behind them is the caller's.   *)
ParseTypePatternMatch ==
  <<Guarded(Unclosed,
      <<If(At({"default"} \cup CORE_TYPES), <<Take>>, <<Break>>),
        Expect({":"}), Arm>>),
    Return(Node("match", "none"))>>

-----------------------------------------------------------------------------
(* Structures.  A second field or method of a name is an error, as is a    *)
(* second structure of a name.                                             *)
ParseStructMethod ==
  MethodName \o <<Parameters(TRUE), Expect({")"}), Optional({"const"})>> \o ReturnType \o
  <<Expect({"{"}), Call("ParseBlock"), Return(Node("function", "none"))>>

AtBounds == Here({"@bounds"})
Bounds == Do(<<Take, When(Is("bounded", {TRUE}), <<Error>>), Set("bounded", TRUE), Call("ParseBoundsDecorator")>>)
Resume == Do(<<Sync, Continue>>)
StructBody ==
  <<Set("eval", FALSE), WhenMatch({"eval"}, <<Set("eval", TRUE)>>),
    When(IsFunctionDeclStart,
      <<Call("ParseStructMethod"), When(Not(Nothing), <<Choose, When(Not(Ok), <<Error>>)>>), Continue>>),
    When(Is("eval", {TRUE}), <<Error, Continue>>),
    Set("bounded", FALSE), SetOk(TRUE),
    While(Every(<<Ok, AtBounds>>), <<Bounds>>), When(Not(Ok), <<Resume>>),
    Do(Cases(<<Matched(CORE_TYPES, <<>>),
               <<At({"id"}),
                 <<If(Known(TypeKinds), <<SetOk(TRUE)>>, <<SetOk(FALSE)>>), Take,
                   When(At({"::"}), <<Take, Expect({"id"}), Choose>>), When(Not(Ok), <<Error, Resume>>)>>>>>>,
             <<Error, Resume>>)),
    WhenMatch({"["}, <<Call("ParseArraySizeValue"), Expect({"]"})>>),
    DeclarationName,
    WhenMatch({"["}, <<Error, Resume>>),
    Choose, When(Not(Ok), <<Error>>),                                 \* bounds that fit, a new name
    Optional({";"})>>

ParseStruct ==
  <<Expect({"id"}), Keep("name"), When(Text(BuiltinStructs), <<Error>>),
    Expect({"{"}), Guarded(Unclosed, StructBody), Expect({"}"}),
    When(Not(Is("name", BuiltinStructs)), <<Declare("name", "struct"), When(Not(Ok), <<Error>>)>>),
    Return(Node("struct", "none"))>>

TypeRoutines ==
  [ParseArraySizeValue |-> ParseArraySizeValue, ParseArrayDeclaration |-> ParseArrayDeclaration,
   ParseArrayInitializer |-> ParseArrayInitializer, ParseInlineArrayConstruction |-> ParseInlineArrayConstruction,
   ParseEnum |-> ParseEnum, ParseEnumVariant |-> ParseEnumVariant, ParseEnumMethod |-> ParseEnumMethod,
   ParsePatternMatch |-> ParsePatternMatch, ParseTypePatternMatch |-> ParseTypePatternMatch,
   ParseStructMethod |-> ParseStructMethod, ParseStruct |-> ParseStruct]

-----------------------------------------------------------------------------
(* Loops, switches and what is behind `eval`                               *)
(* (bwsl_parser_soa_variants_eval.inl, from ParseEvalBlock on).            *)

(* The block is written through a reference taken before its statements    *)
(* are parsed.                                                             *)
ParseEvalBlock ==
  <<Expect({"{"}), Allocate("blocks"), Refer("blocks", "outBlock"), Enter,
    Guarded(Unclosed, <<Call("ParseStatement"), When(Not(Nothing), <<WriteThrough("blocks", "outBlock")>>)>>),
    Expect({"}"}), Exit, Return(Node("block", "none"))>>

ParseEvalStatement ==
  <<When(IsFunctionDeclStart, <<CallWith("ParseFunction", [eval |-> TRUE]), Give>>),
    If(At(CORE_TYPES), <<Take>>, <<Fail>>),
    Expect({"id"}), Keep("name"), Expect({"="}),
    Call("ParseExpression"), When(Nothing, <<Fail>>),
    Expect({";"}),
    Declare("name", "const"), When(Not(Ok), <<Fail>>),
    Return(Node("declaration", "none"))>>

ParseEvalIf ==
  <<Expect({"("}), Call("ParseExpression"), When(Nothing, <<Fail>>), Expect({")"}),
    If(At({"{"}), <<Take, Call("ParseBlock")>>, <<Call("ParseStatement")>>),
    Allocate("blocks"),
    WhenMatch({"else"},
      Cases(<<<<At({"if"}), <<Call("ParseStatement")>>>>, Matched({"{"}, <<Call("ParseBlock")>>)>>,
            <<Allocate("blocks"), Call("ParseStatement")>>)),
    Return(Node("if", "none"))>>

(* foreach (a in 0..n, b in 0..m by s) { .. }: a scope and a node for each *)
(* clause; the body of a clause is set through a pointer into its node,    *)
(* the body of the last one after the block has been parsed.               *)
LoopBody == <<Expect({"{"}), Call("ParseBlock")>>
Step == WhenMatch({"by"}, <<Call("ParseExpression")>>)
ExitClauses == <<While(Is("clauses", 1..9), <<Exit, Uncount("clauses")>>), Exit>>
Foreach ==
  List(<<Enter, Count("clauses"),
         DeclarationName, Keep("name"), Declare("name", "variable"),
         Expect({"in"}), Call("ParseExpression"),
         If(At({"..", "..="}), <<Take, Call("ParseExpression")>>, <<Error>> \o ExitClauses \o <<Return(Null)>>),
         Step, Allocate("forRanges"),
         When(Not(Is("clauses", {1})), <<WriteThrough("forRanges", "lastBody")>>),
         Refer("forRanges", "lastBody")>>, ",", {")"}) \o
  <<Expect({")"})>> \o LoopBody \o <<WriteThrough("forRanges", "lastBody")>> \o ExitClauses \o <<Return(Node("loop", "none"))>>

(* for (a in 0..n), for (x in xs), for (i = 0; c; i++) and for (xs).       *)
ForVariable ==
  <<Take, WhileMatch({"^"}, <<>>), DeclarationName, Keep("name"), WhenMatch({"="}, <<Call("ParseExpression")>>),
    Declare("name", "variable")>>
ForRange ==
  <<Call("ParseExpression"),
    IfMatch({"..", "..="}, <<Call("ParseExpression"), Step, Expect({")"})>> \o LoopBody \o <<Exit, Allocate("forRanges")>>,
            <<Set("collection", FALSE), When(Got({"id"}), <<Set("collection", TRUE)>>), Expect({")"})>> \o LoopBody \o
            <<When(Is("collection", {TRUE}), <<Choose, When(Not(Ok), <<Error>>)>>), Exit>>),
    Return(Node("loop", "none"))>>
ForClauses ==
  <<When(Not(At({";"})), <<Call("ParseExpression")>>), Expect({";"}),
    When(Not(At({")"})), <<Call("ParseExpression")>>), Expect({")"})>> \o LoopBody \o <<Exit, Return(Node("loop", "none"))>>
ParseForStatement ==
  <<Set("foreach", FALSE), When(Behind({"foreach"}), <<Set("foreach", TRUE)>>),
    Enter, Expect({"("}),
    When(Is("foreach", {TRUE}), Foreach),
    When(Not(At({";"})), <<If(At(CORE_TYPES), ForVariable, <<Call("ParseExpression")>>)>>)>> \o
  Cases(<<Matched({"in"}, ForRange), Matched({";"}, ForClauses),
          Matched({")"}, LoopBody \o <<Exit, Return(Node("loop", "none"))>>)>>,
        <<Error, Exit, Return(Null)>>)

ParseWhileStatement == Condition \o <<Enter>> \o LoopBody \o <<Exit, Return(Node("loop", "none"))>>
ParseLoopStatement ==
  <<WhenMatch({"("}, <<Call("ParseExpression"), Expect({")"})>>)>> \o LoopBody \o
  <<WhenMatch({"until"}, Condition), Return(Node("loop", "none"))>>

(* Neither the statements of a case nor the cases of a switch are written  *)
(* to nodes that are looked up again: the references are taken before      *)
(* statements are parsed.  The loop over the statements has no             *)
(* ProgressGuard.                                                          *)
CaseBody ==
  <<Expect({":"}), Allocate("blocks"), Refer("blocks", "bodyBlock"), Enter,
    While(Not(At({"case", "default", "}", "EOF"})),
      <<Call("ParseStatement"), When(Not(Nothing), <<WriteThrough("blocks", "bodyBlock")>>)>>),
    Exit, WriteThrough("switches", "switchData")>>
ParseSwitch ==
  <<Expect({"("}), Call("ParseExpression"), Expect({")"}),
    Allocate("switches"), Refer("switches", "switchData"),
    Expect({"{"}), Set("default", FALSE),
    Guarded(Unclosed,
      Cases(<<Matched({"case"},
                List(<<Call("ParseExpression"), When(Got({"literal"}), <<Choose, When(Not(Ok), <<Error>>)>>)>>, ",", {":"}) \o
                CaseBody),
              Matched({"default"}, <<When(Is("default", {TRUE}), <<Error>>), Set("default", TRUE)>> \o CaseBody)>>,
            <<Error, Take>>)),
    Expect({"}"}), Return(Node("switch", "none"))>>

LoopRoutines ==
  [ParseEvalBlock |-> ParseEvalBlock, ParseEvalStatement |-> ParseEvalStatement, ParseEvalIf |-> ParseEvalIf,
   ParseForStatement |-> ParseForStatement, ParseWhileStatement |-> ParseWhileStatement,
   ParseLoopStatement |-> ParseLoopStatement, ParseSwitch |-> ParseSwitch]
=============================================================================
