--------------------------- MODULE DeclarationRoutines ---------------------------
(***************************************************************************)
(* Functions (bwsl_parser_soa_functions.inl), what pipelines and modules   *)
(* declare (bwsl_parser_soa_decls.inl), constraints                        *)
(* (bwsl_parser_soa_modules_generics.inl), and pipelines, passes, compute  *)
(* graphs and shader stages (bwsl_parser_soa_decls.inl).                   *)
(***************************************************************************)
EXTENDS StatementRoutines

(* Parameters, `Type name` or `name: Type`.  What the function needs to    *)
(* know of them is left in fields: whether one has a constraint as its     *)
(* type, and whether one is an enumeration.                                *)
ParameterType ==
  Do(Cases(<<Matched(CORE_TYPES, <<>>),
             Matched(HANDLE_TYPES, <<Set("handle", TRUE)>>),
             <<At({"id"}),
               <<When(Not(Next1({"::"})),
                   <<When(Known({"generic"}), <<Flag("generic", TRUE)>>), When(Known({"enum"}), <<Flag("onEnum", TRUE)>>)>>),
                 Take, WhenMatch({"::"}, <<Expect({"id"}), When(Not(Ok), <<Give>>)>>)>>>>>>,
           <<Error, Give>>))
ParameterSuffix ==
  <<WhenMatch({"^"},
      <<Set("pointer", TRUE),
        When(Some(<<Not(Is("pointers", {TRUE})), Is("handle", {TRUE}), At({"^"})>>), <<Report>>), WhileMatch({"^"}, <<>>)>>),
    WhileMatch({"["},
      <<Call("ParseArraySizeValue"), When(Not(Ok), <<Give>>), Expect({"]"}), When(Not(Ok), <<Give>>),
        Choose, When(Not(Ok), <<Error, Give>>), Set("array", TRUE)>>),
    When(Every(<<Is("pointer", {TRUE}), Is("array", {TRUE})>>), <<Report>>),
    When(Every(<<Is("array", {TRUE}), At({"^"})>>), <<Report, WhileMatch({"^"}, <<>>)>>)>>
ParameterName == Do(<<DeclarationName, Keep("name"), Set("named", TRUE)>>)
ParseFunctionParameters ==
  <<When(At({")"}), <<Give>>)>> \o
  List(<<Set("named", FALSE), Set("handle", FALSE), Set("pointer", FALSE), Set("array", FALSE),
         When(Every(<<At(Words), Next1({":"})>>), <<ParameterName, Take>>),
         ParameterType>> \o ParameterSuffix \o
       <<When(Every(<<Is("named", {FALSE}), At(Words)>>), <<ParameterName>>),
         When(Is("named", {TRUE}),
           <<When(Among("parameters", <<"name">>), <<Error, Give>>), Collect("parameters", <<"name">>)>>)>>, ",", {")"}) \o
  <<Give>>

(* A pass has the names it uses, and functions may bring a pass of their   *)
(* own.                                                                    *)
PassBody(leave) ==
  Do(<<Flag("inPass", TRUE), Flag("usedAttributes", {}), Flag("usedResources", {}),
       Enter, Expect({"{"}), Call("ParsePassBody"), Expect({"}"}), Exit>> \o leave)
PassFields == <<"inPass", "usedAttributes", "usedResources">>

(* Mutant of StageFunction: an early return that forgets ExitScope.        *)
StageFunctionLeavesScope(word, stage) ==
  When(Is("returns", {word}),
    <<If(At({stage}), <<Take, CallWith("ParseShaderStage", [stage |-> stage])>>, <<Error, Return(Null)>>)>>)

StageFunction(word, stage) ==
  When(Is("returns", {word}),
    <<If(At({stage}), <<Take, CallWith("ParseShaderStage", [stage |-> stage])>>, <<Error, Exit, Return(Null)>>)>>)
ShaderFunction ==
  <<StageFunction("vertex_function", "vertex"), StageFunction("fragment_function", "fragment"),
    When(Is("returns", {"compute_function"}), <<Call("ParseComputeBody")>>),
    When(Is("returns", {"pass_block"}),
      <<If(At({"pass"}), <<Take>> \o [k \in 1..3 |-> Save(PassFields[k])] \o
                         <<PassBody([k \in 1..3 |-> Restore(PassFields[k])])>>,
           <<Error, SkipBraces, Exit, Return(Null)>>)>>),
    Expect({"}"})>>

(* The body: arms by type or by variant, or statements.                    *)
IsTypePattern == Every(<<Is("generic", {TRUE}), At({"default"} \cup CORE_TYPES), Next1({":"})>>)
StartsArm ==
  <<SetOk(FALSE),
    When(Every(<<Is("generic", {FALSE}), Is("onEnum", {TRUE})>>),
      <<When(Every(<<At({"default"}), Next1({":"})>>), <<SetOk(TRUE)>>),
        When(Every(<<At({"id"}), Next1({":", "("})>>), <<Choose>>)>>)>>
FunctionBody ==
  StartsArm \o
  Cases(<<<<Ok, <<Call("ParsePatternMatch"), Choose, When(Not(Ok), <<Error>>)>>>>,
          <<IsTypePattern, <<Call("ParseTypePatternMatch"), Expect({"}"})>>>>>>,
        <<CallWith("ParseBlock", [bare |-> TRUE]), Choose, When(Not(Ok), <<Error>>)>>)    \* every path returns a value

ParseFunction ==
  <<If(At({"id"} \cup CORE_TYPES), <<Take>>, <<Fail>>),
    When(Text(Intrinsics), <<Error>>), Keep("name"),
    Expect({"::"}), Expect({"("}),
    If(Is("eval", {TRUE}), <<Parameters(FALSE)>>, <<Parameters(TRUE)>>),
    Save("generic"), Save("onEnum"),
    Expect({")"}), Expect({"->"})>> \o
  Cases(<<<<At({"id"}),
            <<When(Every(<<Known({"generic"}), Not(Next1({"::"}))>>), <<Set("generic", TRUE)>>),
              Take, WhenMatch({"::"}, <<Expect({"id"})>>), Set("returns", "value")>>>>,
          Matched(CORE_TYPES \cup {"void", "pass_block"} \cup StageFunctions, <<Keep("returns")>>)>>, <<Fail>>) \o
  <<RejectPointerReturnType,
    When(Not(Some(<<Is("generic", {TRUE}), Has("inModule")>>)),
      <<If(KnownAs("name", {"function"}), <<Choose>>, <<Declare("name", "function")>>), When(Not(Ok), <<Fail>>)>>),
    Enter, Expect({"{"}),
    If(Is("returns", {"pass_block"} \cup StageFunctions), ShaderFunction, FunctionBody),
    Exit, Return(Node("function", "none"))>>

ParseComputeBody == <<Allocate("blocks"), Guarded(Unclosed, <<Call("ParseStatement")>>), Give>>

-----------------------------------------------------------------------------
(* Imports.  Which modules exist besides those of the document is chosen.  *)
NextModule ==
  Do(Cases(<<Matched({","}, <<When(Not(At({"id"})), <<Error, Break>>)>>),
             <<Every(<<At({"id"}), Not(Next1({"::"}))>>), <<Error, Break>>>>>>, <<Break>>))
ParseModuleImportList ==
  <<Flag("listed", {}),
    While(At({"id"}),
      <<Take, Keep("module"), Set("aliased", FALSE),
        WhenMatch({"as"}, <<Expect({"id"}), When(Ok, <<Set("aliased", TRUE), Keep("alias")>>)>>),
        When(Among("listed", <<"module">>), <<Error, If(At({","}), <<Take, Continue>>, <<Break>>)>>),
        If(KnownAs("module", {"module"}), <<SetOk(TRUE)>>, <<Choose>>),
        If(Ok,
           <<Collect("listed", <<"module">>), Collect("imports", <<"module">>), Declare("module", "module"),
             When(Is("aliased", {TRUE}),
               <<Collect("imports", <<"alias">>), Declare("alias", "module"), When(Not(Ok), <<Error>>)>>)>>,
           <<Error>>),
        NextModule>>),
    Give>>
ParseUsingModuleList ==
  <<While(At({"id"}),
      <<Take, Keep("module"), WhenMatch({"as"}, <<Error, Optional({"id"})>>),
        When(Not(Among("imports", <<"module">>)), <<Error>>),
        NextModule>>)>>
ParseUsingTypeAliasList ==
  <<While(At({"id"}),
      <<Take, Keep("alias"), Expect({"="}),
        If(At(CORE_TYPES), <<Take, SetOk(TRUE)>>,
           <<Expect({"id"}), WhenMatch({"::"}, <<Expect({"id"})>>), WhileMatch({"^"}, <<>>), Choose>>),
        When(Ok, <<Declare("alias", "alias")>>), When(Not(Ok), <<Error>>),
        IfMatch({","}, <<When(Not(At({"id"})), <<Error, Break>>)>>, <<Optional({";"}), Break>>)>>)>>
ParseUsingDeclaration ==
  <<If(Every(<<At({"id"}), Next1({"="})>>), ParseUsingTypeAliasList, ParseUsingModuleList), Give>>

(* constraint C = float2 | D;                                              *)
ParseConstraintType ==
  Do(Cases(<<Matched(CORE_TYPES, <<SetOk(TRUE)>>),
             <<At({"id"}), <<If(Known({"generic"}), <<SetOk(TRUE)>>, <<SetOk(FALSE)>>), Take, When(Not(Ok), <<Error, SetOk(FALSE)>>)>>>>>>,
           <<Error, SetOk(FALSE)>>))
ParseConstraint ==
  <<Expect({"constraint"}), Expect({"id"}), Keep("name"), Expect({"="}),
    ParseConstraintType, When(Not(Ok), <<Fail>>),
    WhileMatch({"|"}, <<ParseConstraintType, When(Not(Ok), <<Error, Break>>)>>),
    Declare("name", "generic"), When(Not(Ok), <<Fail>>),
    Expect({";"}), Return(Node("constraint", "none"))>>

-----------------------------------------------------------------------------
(* Blocks of attributes, resources and variants.  A declaration that fails *)
(* is left by synchronizing.                                               *)
Declarations(routine) ==
  <<Expect({"{"}),
    Guarded(Unclosed,
      <<Call(routine),
        When(Nothing, Cases(<<<<Panicking, <<Sync, Calm>>>>, <<Unclosed, <<Take>>>>>>, <<Break>>))>>),
    Expect({"}"})>>
ParseAttributes ==
  Declarations("ParseAttributeDecl") \o
  <<When(Every(<<Has("inPipeline"), AnyOf("attributes")>>), <<Choose, When(Not(Ok), <<Error>>)>>), Give>>    \* "position" first
ParseResources == Declarations("ParseResourceDecl") \o <<Give>>

Missing == Do(<<When(Unclosed, <<Take>>), Return(Null)>>)
NeedOrMissing(S) == Do(<<Expect(S), When(Not(Ok), <<Missing>>)>>)
LeadingBounds == <<Set("bounded", FALSE), While(AtBounds, <<Bounds, When(Not(Ok), <<Return(Null)>>)>>)>>
OnThisLine == Choose                                 \* the decorator is on the line of the type

ParseAttributeDecl ==
  LeadingBounds \o
  <<NeedOrMissing({"id"}), Keep("name"), NeedOrMissing({":"}),
    If(At(CORE_TYPES), <<Take>>, <<Error, Missing>>),
    While(At({"@"}),
      <<When(AtBounds, <<OnThisLine, When(Not(Ok), <<Break>>)>>)>> \o
      Cases(<<<<AtBounds, <<Bounds, When(Not(Ok), <<Break>>)>>>>,
              <<Here({"@instance"}), <<Take>>>>,
              <<Here({"@compressed"}),
                <<Take, Expect({"("}), When(Not(Ok), <<Break>>), When(At({")", "EOF"}), <<Error, Break>>),
                  Guarded(Not(At({")", "EOF"})), <<Take>>), Expect({")"}), When(Not(Ok), <<Break>>)>>>>>>,
            <<Take, Error>>) \o
      <<When(Panicking, <<Break>>)>>),
    When(Is("bounded", {TRUE}), <<Choose, When(Not(Ok), <<Error>>)>>),          \* ResolveBounds
    Collect("attributes", <<"name">>), Return(Node("declaration", "none"))>>

ParseResourceDecl ==
  LeadingBounds \o
  <<NeedOrMissing({"id"}), Keep("name"), NeedOrMissing({":"}),
    Set("wrapped", FALSE), WhenMatch({"buffer", "cbuffer"}, <<Set("wrapped", TRUE), Need({"<"})>>),
    Do(Cases(<<Matched({"id"}, <<WhenMatch({"::", "."}, <<Need({"id"})>>)>>),
               Matched(CORE_TYPES \cup HANDLE_TYPES \cup {"void"}, <<>>)>>, <<Fail>>)),
    WhileMatch({"["},
      <<Call("ParseArraySizeValue"), When(Not(Ok), <<Return(Null)>>), Need({"]"}),
        When(Is("wrapped", {FALSE}), <<Choose, When(Not(Ok), <<Error>>)>>)>>),
    When(Is("wrapped", {TRUE}), <<Need({">"})>>),
    While(AtBounds, <<OnThisLine, When(Not(Ok), <<Break>>), Bounds, When(Not(Ok), <<Return(Null)>>)>>),
    Optional({";"}),
    When(Is("bounded", {TRUE}), <<Choose, When(Not(Ok), <<Error>>)>>),
    Collect("resources", <<"name">>), Return(Node("declaration", "none"))>>

(* @bounds(>0, x<=1, -1<y<1), which sets ok.                               *)
Relations == {"<", "<=", ">", ">="}
Refuse == Do(<<Error, SetOk(FALSE), Give>>)
Number == Do(<<Optional({"-"}), Expect({"num"}), When(Not(Ok), <<Give>>)>>)
Component == When(Not(Text(Components)), <<Refuse>>)
Relation(S) == If(At(S), <<Take>>, <<Refuse>>)
ParseBoundsDecorator ==
  <<Expect({"("}), When(Not(Ok), <<Give>>),
    Guarded(Not(At({")", "EOF"})),
      Cases(<<Matched(Relations, <<Number>>),
              Matched({"id"}, <<Component, Relation(Relations), Number>>),
              <<At({"num", "-"}),
                <<Number, Relation({"<", "<="}), Expect({"id"}), When(Not(Ok), <<Give>>), Component, Relation({"<", "<="}), Number>>>>>>,
            <<Refuse>>) \o
      <<If(At({","}), <<Take>>, <<Break>>)>>),
    Expect({")"}), Give>>

ParseVariants ==
  <<Expect({"{"}),
    Guarded(Unclosed,
      <<WhenMatch({"rules"}, <<Call("ParseVariantRules"), Continue>>),
        Expect({"id"}), Keep("name"), When(Among("variants", <<"name">>), <<Error>>),
        Expect({":"}),
        If(At({"bool"}), <<Take>>, <<Expect({"id"}), WhenMatch({"::"}, <<Expect({"id"})>>)>>),
        Expect({"="}), Call("ParseExpression"), When(Nothing, <<Error>>), Expect({";"}),
        Collect("variants", <<"name">>)>>),
    Expect({"}"}), Give>>

Rule(separator) == <<Call("ParseExpression"), Expect({separator}), Call("ParseExpression"), Expect({";"})>>
ParseVariantRules ==
  <<Expect({"{"}),
    Guarded(Unclosed, Cases(<<Matched({"require"}, Rule("->")), Matched({"conflict"}, Rule(","))>>, <<Error, Take>>)),
    Expect({"}"}), Give>>

DeclarationRoutines ==
  [ParseFunctionParameters |-> ParseFunctionParameters, ParseFunction |-> ParseFunction,
   ParseComputeBody |-> ParseComputeBody, ParseModuleImportList |-> ParseModuleImportList,
   ParseUsingDeclaration |-> ParseUsingDeclaration, ParseConstraint |-> ParseConstraint,
   ParseAttributes |-> ParseAttributes, ParseResources |-> ParseResources, ParseAttributeDecl |-> ParseAttributeDecl,
   ParseResourceDecl |-> ParseResourceDecl, ParseBoundsDecorator |-> ParseBoundsDecorator,
   ParseVariants |-> ParseVariants, ParseVariantRules |-> ParseVariantRules]

-----------------------------------------------------------------------------
(* Pipelines, passes, compute graphs and shader stages.                    *)

(* Nothing that belongs here.  The mutant does not say so.                 *)
OtherwiseSilent == <<Take>>
Otherwise == <<Error, Take>>
Braces(turn) == <<Expect({"{"}), Guarded(Unclosed, turn), Expect({"}"})>>
Separators == WhileMatch({",", ";"}, <<>>)
MayFail == Do(<<Choose, When(Not(Ok), <<Error>>)>>)   \* an error that rests on values

-----------------------------------------------------------------------------
(* Shader stages.  The stage is kept while a stage is read, and given back *)
(* with it.                                                                *)
StageFlags == Do(<<Flag("inShaderStage", TRUE),
                   If(Is("stage", {"fragment"}), <<Flag("inFragmentStage", TRUE)>>, <<Flag("inFragmentStage", FALSE)>>)>>)
ParseShaderStage ==
  <<Save("inFragmentStage"), Save("inShaderStage"), StageFlags,
    Expect({"{"}), Allocate("blocks"), Enter,
    Guarded(Unclosed, <<Call("ParseStatement")>>),
    Expect({"}"}), Exit,
    Restore("inFragmentStage"), Restore("inShaderStage"), Return(Node("stage", "none"))>>

(* A workgroup size has three numbers; 2048 stands for those that make     *)
(* more than 1024 invocations.                                             *)
Size == Do(<<Expect({"num"}), If(Text(NoIntegers), <<Error>>, <<When(Text({"0", "2048"}), <<Set("refused", TRUE)>>)>>)>>)
ParseComputeStage ==
  <<Expect({"str"}), Expect({"["}), Size, Expect({","}), Size, Expect({","}), Size, Optional({","}), Expect({"]"}),
    When(Is("refused", {TRUE}), <<Error>>),
    CallWith("ParseShaderStage", [stage |-> "compute"]), Give>>

(* vertex = "Pass".vertex, and the same of a fragment stage.               *)
ParseShaderStageInheritance ==
  <<Expect({"str"}), Expect({"."}),
    If(Some(<<Every(<<Is("stage", {"vertex"}), At({"vertex"})>>), Every(<<Is("stage", {"fragment"}), At({"fragment"})>>)>>),
       <<Take, Allocate("blocks"), Return(Node("stage", "none"))>>, <<Fail>>)>>
ParseShaderStageExpression == Element \o <<Return(Node("stage", "none"))>>

-----------------------------------------------------------------------------
(* Passes.  A pass has stages for drawing or one for computing.            *)
ParseUseAttributes ==
  <<Expect({"attributes"}), Expect({"{"}),
    Guarded(Not(At({"}"})),
      <<Expect({"id"}), Keep("name"), Optional({"?"}),
        When(Not(Among("attributes", <<"name">>)), <<Error, Break>>),
        When(Among("usedAttributes", <<"name">>), <<Error>>),
        Collect("usedAttributes", <<"name">>),
        IfMatch({","}, <<When(At({"}"}), <<Break>>)>>, <<Break>>)>>),
    Expect({"}"}), Give>>

(* Without resources of the pipeline, those of its modules can be used.    *)
UsableResource ==
  Cases(<<<<Among("resources", <<"name">>), <<SetOk(TRUE)>>>>,
          <<Every(<<Has("inPipeline"), AnyOf("resources")>>), <<SetOk(FALSE)>>>>>>, <<Choose>>)
ParseUseResources ==
  <<Expect({"resources"}), Expect({"{"}),
    Guarded(Not(At({"}"})),
      <<Expect({"id"}), Keep("name"), Optional({"?"})>> \o UsableResource \o
      <<If(Ok, <<Collect("usedResources", <<"name">>)>>, <<Error>>),
        IfMatch({","}, <<When(At({"}"}), <<Break>>)>>, <<Break>>)>>),
    Expect({"}"}), Give>>

SkipOutput == Do(<<When(Unclosed, <<Take>>), Continue>>)
OutputLocation ==
  WhileMatch({"@"},
    <<If(Text({"@location"}),
         <<Expect({"("}), Expect({"num"}), When(Text(NoIntegers), <<Error>>), Expect({")"})>>, <<Error>>)>>)
ParsePassOutputs ==
  Braces(<<Expect({"id"}), When(Not(Ok), <<SkipOutput>>), Expect({":"}), When(Not(Ok), <<SkipOutput>>),
           If(At(CORE_TYPES), <<Take>>, <<Error, SkipOutput>>),
           OutputLocation, MayFail,                               \* type, location and name can be used
           Separators>>) \o <<Give>>

(* const Type name = value; or an array, of a pipeline or a pass.          *)
ConstDeclaration ==
  <<If(At(CORE_TYPES), <<Take>>, <<Error, Take, Continue>>),
    WhenMatch({"["}, <<CallWith("ParseArrayDeclaration", [const |-> TRUE]), Continue>>),
    Expect({"id"}), Keep("name"), Expect({"="}),
    Call("ParseExpression"), When(Nothing, <<Error, Take, Continue>>),
    Expect({";"}),
    Choose, If(Ok, <<Declare("name", "constant")>>, <<Declare("name", "const")>>),
    When(Not(Ok), <<Error>>)>>

Drawing == Some(<<Is("vertex", {TRUE}), Is("fragment", {TRUE})>>)
Computing == Is("compute", {TRUE})
SetStage(stage) == If(Nothing, <<Set(stage, FALSE)>>, <<Set(stage, TRUE)>>)
DrawingStage(stage) ==
  <<When(Computing, <<Error, Take, Continue>>),
    IfMatch({"="},
      Cases((IF stage = "fragment" THEN <<Matched({"null"}, <<Result("null", "none")>>)>> ELSE <<>>) \o
            <<<<At({"str"}), <<CallWith("ParseShaderStageInheritance", [stage |-> stage])>>>>>>,
            <<Call("ParseShaderStageExpression")>>),
      <<CallWith("ParseShaderStage", [stage |-> stage])>>),
    SetStage(stage)>>
ComputingStage ==
  <<When(Drawing, <<Error, Take, Continue>>),
    When(AnyOf("usedAttributes"), <<Error>>), When(Computing, <<Error>>),
    Call("ParseComputeStage"), Set("compute", TRUE)>>
Use ==
  Cases(<<<<At({"attributes"}), <<When(Computing, <<Error>>), Call("ParseUseAttributes")>>>>,
          <<At({"resources"}), <<Call("ParseUseResources")>>>>>>, <<Error>>)
ParsePassBody ==
  <<Guarded(Unclosed,
      Cases(<<Matched({"use"}, Use),
              Matched({"outputs"}, <<When(Is("outputs", {TRUE}), <<Error, Continue>>), Set("outputs", TRUE), Call("ParsePassOutputs")>>),
              Matched({"const"}, ConstDeclaration),
              Matched({"vertex"}, DrawingStage("vertex")), Matched({"fragment"}, DrawingStage("fragment")),
              Matched({"compute"}, ComputingStage),
              <<IsFunctionDeclStart, <<Call("ParseFunction")>>>>>>, Otherwise)),
    Give>>

(* pass "p" { .. }, or pass "p" = f(..) { mappings }.                      *)
ParsePassBlockBindingList ==
  Braces(<<Expect({"id"}), WhenMatch({"="}, <<Expect({"id"})>>), Separators>>) \o <<Give>>
ParsePassBlockInstantiationBody ==
  <<Guarded(Unclosed,
      Cases(<<Matched({"use"}, <<If(At({"attributes", "resources"}), <<Take, Call("ParsePassBlockBindingList")>>, Otherwise)>>),
              Matched({"variants"}, <<Call("ParsePassBlockBindingList")>>)>>, Otherwise)),
    Give>>
Instantiation ==
  <<Call("ParseExpression"), When(Not(Got({"call"})), <<Error>>),
    IfMatch({"{"}, <<Call("ParsePassBlockInstantiationBody"), Expect({"}"}), Optional({";"})>>, <<Expect({";"})>>),
    Return(Node("pass", "none"))>>
ParsePass ==
  <<Expect({"str"}), WhenMatch({"="}, Instantiation),
    PassBody(<<Flag("inPass", FALSE)>>), Return(Node("pass", "none"))>>

-----------------------------------------------------------------------------
(* The graph of compute passes.                                            *)
ParseComputeGraphInputs == Braces(<<Expect({"id"}), Optional({"readonly", "writeonly", "readwrite"}), Optional({","})>>) \o <<Give>>
ParseComputeGraphOutputs == Braces(<<Expect({"id"}), Optional({","})>>) \o <<Give>>
ParseComputeGraphNode ==
  <<Expect({"str"})>> \o
  Braces(Cases(<<Matched({"inputs"}, <<Call("ParseComputeGraphInputs")>>),
                 Matched({"outputs"}, <<Call("ParseComputeGraphOutputs")>>)>>, Otherwise)) \o <<Give>>
ParseComputeGraph ==
  Braces(<<IfMatch({"node"}, <<Call("ParseComputeGraphNode")>>, Otherwise)>>) \o <<Return(Node("graph", "none"))>>

(* A pipeline.  What its modules declare was merged when they were         *)
(* imported.  The pipeline stays the current one behind its brace.         *)
OnlyOnce(name, routine) == <<When(AnyOf(name), <<Error, Continue>>), Call(routine)>>
StructDeclaration == <<Call("ParseStruct"), Optional({";"})>>
ParsePipeline ==
  <<Expect({"pipeline"}), Expect({"id"}),
    Flag("inPipeline", TRUE), Flag("attributes", {}), Flag("resources", {}), Flag("variants", {}), Flag("imports", {})>> \o
  Braces(
    Cases(<<Matched({"import"}, <<Call("ParseModuleImportList")>>), Matched({"using"}, <<Call("ParseUsingDeclaration")>>),
            Matched({"attributes"}, <<Call("ParseAttributes")>>),
            Matched({"resources"}, OnlyOnce("resources", "ParseResources")),
            Matched({"variants"}, OnlyOnce("variants", "ParseVariants")),
            Matched({"compute_graph"},
              <<When(Is("graph", {TRUE}), <<Error, Continue>>), Set("graph", TRUE), Call("ParseComputeGraph")>>),
            Matched({"const"}, ConstDeclaration),
            Matched({"pass"}, <<Call("ParsePass"), When(Is("passes", {TRUE}), <<MayFail>>), Set("passes", TRUE)>>),
            Matched({"eval"}, <<Call("ParseEvalStatement")>>), Matched({"enum"}, <<Call("ParseEnum")>>),
            Matched({"module", "submodule"}, <<Error, SkipBracedDeclaration(TRUE)>>),
            Matched({"struct"}, StructDeclaration),
            <<At({"constraint"}), <<Call("ParseConstraint")>>>>,
            <<IsFunctionDeclStart, <<Call("ParseFunction")>>>>>>, Otherwise) \o <<Calm>>) \o
  <<When(AnyOf("resources"), <<MayFail>>),             \* ValidateResourceTypes, FinalizeParsedResourceBindings
    Return(Node("pipeline", "none"))>>

PipelineRoutines ==
  [ParseShaderStage |-> ParseShaderStage, ParseComputeStage |-> ParseComputeStage,
   ParseShaderStageInheritance |-> ParseShaderStageInheritance, ParseShaderStageExpression |-> ParseShaderStageExpression,
   ParseUseAttributes |-> ParseUseAttributes, ParseUseResources |-> ParseUseResources, ParsePassOutputs |-> ParsePassOutputs,
   ParsePassBody |-> ParsePassBody, ParsePassBlockBindingList |-> ParsePassBlockBindingList,
   ParsePassBlockInstantiationBody |-> ParsePassBlockInstantiationBody, ParsePass |-> ParsePass,
   ParseComputeGraphInputs |-> ParseComputeGraphInputs, ParseComputeGraphOutputs |-> ParseComputeGraphOutputs,
   ParseComputeGraphNode |-> ParseComputeGraphNode, ParseComputeGraph |-> ParseComputeGraph, ParsePipeline |-> ParsePipeline]

-----------------------------------------------------------------------------
(* Modules and submodules (bwsl_parser_soa_modules_generics.inl) and the   *)
(* document (ParseDocument).  Which modules are in other files is chosen,  *)
(* and what is in them is left out.                                        *)

SkipIt == Do(<<SkipBracedDeclaration(TRUE), Return(Null)>>)
Refused == Do(<<Error, SkipIt>>)

(* A constant of a module is known from where it is declared on, if its    *)
(* value can be computed; a second of its name is dropped without a word.  *)
ModuleConstant ==
  <<If(At(CORE_TYPES), <<Take>>, <<Error, Continue>>),
    WhenMatch({"["},
      <<CallWith("ParseArrayDeclaration", [const |-> TRUE, field |-> TRUE]), When(Nothing, <<Continue>>),
        MayFail, Continue>>),
    Expect({"id"}), Keep("name"), Expect({"="}),
    Call("ParseExpression"), When(Nothing, <<Error, Continue>>),
    Expect({";"}),
    Choose, If(Ok, <<Declare("name", "constant")>>, <<Error>>)>>

ParseModuleBody ==
  <<Guarded(Unclosed,
      Cases(<<Matched({"import"}, <<Call("ParseModuleImportList")>>), Matched({"using"}, <<Call("ParseUsingDeclaration")>>),
              Matched({"attributes"}, <<Call("ParseAttributes")>>),
              Matched({"resources"}, OnlyOnce("resources", "ParseResources")),
              Matched({"variants"}, OnlyOnce("variants", "ParseVariants")),
              <<IsFunctionDeclStart, <<Call("ParseFunction"), When(Not(Nothing), <<MayFail>>)>>>>,    \* a new overload
              Matched({"struct"}, StructDeclaration), Matched({"enum"}, <<Call("ParseEnum")>>),
              Matched({"const"}, ModuleConstant)>>, Otherwise)),
    When(AnyOf("resources"), <<MayFail>>), Give>>

(* What the parser keeps while it is inside a module: a module outside of  *)
(* another one leaves no module behind, a submodule gives back the one it  *)
(* was in.                                                                 *)
ModuleFields == <<"inPipeline", "attributes", "resources", "variants", "imports">>
KeepModule == Do([k \in DOMAIN ModuleFields |-> Save(ModuleFields[k])] \o
  <<Flag("inModule", TRUE), Flag("inPipeline", FALSE), Flag("attributes", {}), Flag("resources", {}), Flag("variants", {}),
    Flag("imports", {})>>)
ForgetModule == Do([k \in DOMAIN ModuleFields |-> Restore(ModuleFields[k])])

ParseModule ==
  <<Expect({"id"}), When(Not(Ok), <<SkipIt>>), Keep("module"),
    When(Text(EmbeddedModules), <<Refused>>),
    Declare("module", "module"), When(Not(Ok), <<Refused>>),
    KeepModule,
    Expect({"{"}), Call("ParseModuleBody"), Expect({"}"}),
    Flag("inModule", FALSE), ForgetModule, Return(Node("module", "none"))>>

ParseSubmodule ==
  <<Expect({"id"}), When(Not(Ok), <<SkipIt>>), Keep("submodule"),
    Expect({"extends"}), When(Not(Ok), <<SkipIt>>),
    Expect({"id"}), When(Not(Ok), <<SkipIt>>), Keep("parent"),
    When(Some(<<KnownAs("submodule", {"module"}), Among("submodules", <<"submodule">>)>>), <<Refused>>),
    If(KnownAs("parent", {"module"}), <<SetOk(TRUE)>>, <<Choose>>), When(Not(Ok), <<Refused>>),
    Collect("submodules", <<"submodule">>),
    Save("inModule"), KeepModule,
    Expect({"{"}), Call("ParseModuleBody"), Expect({"}"}),
    Restore("inModule"), ForgetModule, Return(Node("module", "none"))>>

(* Three passes over the document: its modules, its submodules and then    *)
(* its pipelines, each skipping the others.                                *)
SkipWhole(words) == <<At(words), <<SkipBracedDeclaration(FALSE)>>>>
PassOver(turn) == Guarded(Not(At({"EOF"})), turn \o <<Calm>>)
StartOver == Do(<<Rewind, Flag("inPipeline", FALSE), Flag("inPass", FALSE), Flag("inShaderStage", FALSE)>>)
ParseDocument ==
  <<PassOver(Cases(<<Matched({"module"}, <<Call("ParseModule")>>), SkipWhole({"submodule", "pipeline"})>>, <<Take>>)),
    StartOver,
    PassOver(Cases(<<Matched({"submodule"}, <<Call("ParseSubmodule")>>), SkipWhole({"module", "pipeline"})>>, <<Take>>)),
    StartOver,
    PassOver(Cases(<<<<At({"pipeline"}), <<Call("ParsePipeline")>>>>, SkipWhole({"module", "submodule"})>>, Otherwise)),
    Give>>

ModuleRoutines ==
  [ParseModuleBody |-> ParseModuleBody, ParseModule |-> ParseModule, ParseSubmodule |-> ParseSubmodule,
   ParseDocument |-> ParseDocument]
=============================================================================
