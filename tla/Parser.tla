--------------------------------- MODULE Parser ---------------------------------
(***************************************************************************)
(* The recursive-descent parser of BWSL at work on one document: the state *)
(* is a record with the fields of the C++ object that the control of the   *)
(* parser depends on and the stack of calls, and a step runs its routines  *)
(* from one return, turn of a loop or choice to the next.  What can go     *)
(* wrong is in its many error paths: each leaves its function early, and   *)
(* the parser goes on with the scopes, flags and references it left.       *)
(***************************************************************************)
EXTENDS DeclarationRoutines

(* The code of every routine, which TLC assembles once.                    *)
AssembledRoutines(bodies) == [routine \in DOMAIN bodies |-> AssembledAll(bodies[routine])]
Code == AssembledRoutines(ModuleRoutines @@ PipelineRoutines @@ DeclarationRoutines @@ LoopRoutines @@ TypeRoutines
                          @@ StatementRoutines @@ ExpressionRoutines)

(* The parser.  frames is the stack of calls: the routine, the place in    *)
(* its code, the tokens at which the bodies of its loops began (0 without  *)
(* a ProgressGuard), its locals and the context it was called in.  scopes  *)
(* has the symbols of every open scope, by whether a module declared them. *)
(* pools counts the nodes of arrays that grow by being moved; lost: a node *)
(* was written where its array had been.  dropped: where a ProgressGuard   *)
(* stepped over a token before any error.  rest: the instruction it is at. *)
Context(p) == [depth |-> Len(p.scopes), inPipeline |-> p.fields.inPipeline, inModule |-> p.fields.inModule,
               inPass |-> p.fields.inPass, inShaderStage |-> p.fields.inShaderStage,
               inFragmentStage |-> p.fields.inFragmentStage]
Frame(p, routine, locals) == [routine |-> routine, pc |-> 1, guards |-> <<>>, locals |-> locals, entry |-> Context(p)]
Flags == {"inPipeline", "inModule", "inPass", "inShaderStage", "inFragmentStage", "generic", "onEnum"}
Collections == {"parameters", "listed", "imports", "attributes", "resources", "variants", "usedAttributes", "usedResources",
                "submodules"}
Pools == [blocks |-> 16, switches |-> 4, forRanges |-> 4]
Fresh ==
  [current |-> 1, previous |-> 1, panicMode |-> FALSE, hadError |-> FALSE, ok |-> FALSE, result |-> Null,
   frames |-> <<>>, rest |-> <<"done">>, scopes |-> <<<<>>>>,
   fields |-> [f \in Flags |-> FALSE] @@ [f \in Collections |-> {}] @@ [recovered |-> {}],
   pools |-> [pool \in DOMAIN Pools |-> [count |-> 0, capacity |-> Pools[pool]]], lost |-> FALSE, dropped |-> {}]
Started == [Fresh EXCEPT !.frames = <<Frame(Fresh, "ParseDocument", <<>>)>>]

Top(p) == p.frames[Len(p.frames)]
WithTop(p, frame) == [p EXCEPT !.frames[Len(p.frames)] = frame]
Goto(p, delta) == [p EXCEPT !.frames[Len(p.frames)].pc = @ + delta]
Instruction(p) == Code[Top(p).routine][Top(p).pc]
SetLocal(p, slot, value) == WithTop(p, [Top(p) EXCEPT !.locals = (slot :> value) @@ @])

KindAt(tokens, k) == Kind(tokens[IF k > Len(tokens) THEN Len(tokens) ELSE k])
Key(p, name) == <<p.fields.inModule, name>>
Innermost(p, key) ==
  LET levels == {k \in DOMAIN p.scopes : key \in DOMAIN p.scopes[k]}
  IN IF levels = {} THEN "none" ELSE p.scopes[Max(levels)][key]
Lookup(p, name) ==   \* SymbolTable::Lookup: the innermost declaration, of the module first
  LET own == Innermost(p, Key(p, name))
  IN IF own = "none" THEN Innermost(p, <<FALSE, name>>) ELSE own

(* What is ahead of the current token: brackets and then a name; `^`, a    *)
(* name and the end of a declaration; Module::function( .                  *)
Depth(tokens, opening, closing, first, last) ==
  Cardinality({k \in first..last : KindAt(tokens, k) = opening}) - Cardinality({k \in first..last : KindAt(tokens, k) = closing})
BlockEnd(tokens, opening, closing, k) ==   \* the token behind the block that opens at k, or the last one
  LET ends == {j \in k..Len(tokens) : Depth(tokens, opening, closing, k, j) = 0}
  IN IF ends = {} THEN Len(tokens) ELSE Min(ends) + 1
FirstOther(tokens, kind, k) == Min({j \in k..Len(tokens) : KindAt(tokens, j) # kind})
RECURSIVE BehindBrackets(_, _)
BehindBrackets(tokens, k) ==
  IF KindAt(tokens, k) # "[" THEN k ELSE BehindBrackets(tokens, BlockEnd(tokens, "[", "]", k))
Scan(shape, tokens, current) ==
  CASE shape = "array declaration" -> KindAt(tokens, BehindBrackets(tokens, current + 1)) \in Words
    [] shape = "qualified call" -> KindAt(tokens, current + 2) = "id" /\ KindAt(tokens, current + 3) = "("
    [] shape = "pointer declaration" ->
         LET name == FirstOther(tokens, "^", current + 1)
         IN KindAt(tokens, name) \in Words /\ KindAt(tokens, name + 1) \in {"=", ";"}

Locals(p, slots) == [k \in DOMAIN slots |-> Top(p).locals[slots[k]]]

RECURSIVE Holds(_, _, _)
Holds(c, p, tokens) ==
  CASE c[1] = "at" -> KindAt(tokens, p.current) \in c[2]
    [] c[1] = "next" -> KindAt(tokens, p.current + 1) \in c[2]
    [] c[1] = "third" -> KindAt(tokens, p.current + 2) \in c[2]
    [] c[1] = "behind" -> KindAt(tokens, p.previous) \in c[2]
    [] c[1] = "text" -> tokens[p.previous] \in c[2]
    [] c[1] = "here" -> tokens[p.current] \in c[2]
    [] c[1] = "ok" -> p.ok
    [] c[1] = "panicking" -> p.panicMode
    [] c[1] = "got" -> p.result.is \in c[2]
    [] c[1] = "rooted" -> p.result.root \in c[2]
    [] c[1] = "held" -> Top(p).locals[c[2]].is \in c[3]
    [] c[1] = "is" -> c[2] \in DOMAIN Top(p).locals /\ Top(p).locals[c[2]] \in c[3]
    [] c[1] = "has" -> p.fields[c[2]]
    [] c[1] = "recovered" -> KindAt(tokens, p.current) \in p.fields.recovered
    [] c[1] = "known" -> Lookup(p, tokens[p.current]) \in c[2]
    [] c[1] = "knownas" -> Lookup(p, Top(p).locals[c[2]]) \in c[3]
    [] c[1] = "among" -> Locals(p, c[3]) \in p.fields[c[2]]
    [] c[1] = "anyof" -> p.fields[c[2]] # {}
    [] c[1] = "ahead" -> Scan(c[2], tokens, p.current)
    [] c[1] = "none" -> \A d \in Range(c[2]) : ~Holds(d, p, tokens)
    [] c[1] = "every" -> \A d \in Range(c[2]) : Holds(d, p, tokens)
    [] c[1] = "some" -> \E d \in Range(c[2]) : Holds(d, p, tokens)

Advance(p, tokens) ==
  [p EXCEPT !.previous = p.current, !.current = IF @ = Len(tokens) THEN @ ELSE @ + 1]
ErrorAt(p) == [p EXCEPT !.panicMode = TRUE, !.hadError = TRUE]

(* Where Synchronize stops: behind a semicolon, before these words or at   *)
(* the end.                                                                *)
Restarts == {"pass", "attributes", "resources", "if", "for", "foreach", "loop", "switch", "case", "return", "EOF"}
Synchronize(p, tokens) ==
  LET Stops(k) == KindAt(tokens, k) \in Restarts \/ KindAt(tokens, IF k = p.current THEN p.previous ELSE k - 1) = ";"
      n == CHOOSE k \in p.current..Len(tokens) : Stops(k) /\ \A j \in p.current..(k - 1) : ~Stops(j)
  IN [p EXCEPT !.panicMode = FALSE, !.current = n, !.previous = IF n = p.current THEN @ ELSE n - 1]

ConsumeDeclarationName(p, tokens) ==
  IF KindAt(tokens, p.current) = "id" THEN [Advance(p, tokens) EXCEPT !.ok = TRUE]
  ELSE IF IsKeywordNameToken(KindAt(tokens, p.current))
    THEN [Advance(p, tokens) EXCEPT !.ok = TRUE, !.hadError = TRUE, !.fields.recovered = @ \cup {KindAt(tokens, p.current)}]
  ELSE [ErrorAt(p) EXCEPT !.ok = FALSE]

(* Mutant of LoseUnread: a guard that does nothing.                        *)
KeepUnread(p, tokens, starts) == p

(* The end of ProgressGuards: a body that read nothing loses a token.      *)
LoseUnread(p, tokens, starts) ==
  IF p.current \notin starts \/ KindAt(tokens, p.current) = "EOF" THEN p
  ELSE [Advance(p, tokens) EXCEPT !.dropped = IF p.hadError THEN @ ELSE @ \cup {Top(p).routine}]
EndGuard(p, tokens) ==
  LET guards == Top(p).guards
  IN LoseUnread(WithTop(p, [Top(p) EXCEPT !.guards = Front(guards)]), tokens, {Last(guards)})
EndGuards(p, tokens) == LoseUnread(p, tokens, Range(Top(p).guards))

(* AddSymbol refuses a name its scope already has.                         *)
AddSymbol(p, name, kind) ==
  LET scope == p.scopes[Len(p.scopes)]
  IN IF Key(p, name) \in DOMAIN scope THEN [p EXCEPT !.ok = FALSE]
     ELSE [p EXCEPT !.ok = TRUE, !.scopes[Len(p.scopes)] = (Key(p, name) :> kind) @@ @]

(* Over a block whose brace was read, and over a declaration, which may    *)
(* have none.                                                              *)
GoTo(p, k) == [p EXCEPT !.current = k, !.previous = IF k = p.current THEN @ ELSE k - 1]
SkippedBlock(p, tokens) ==
  LET ends == {j \in p.current..Len(tokens) : Depth(tokens, "{", "}", p.current, j) = -1}
  IN GoTo(p, IF ends = {} THEN Len(tokens) ELSE Min(ends) + 1)
SkippedDeclaration(p, tokens, read) ==
  LET q == IF read THEN p ELSE Advance(p, tokens)
      k == Min({j \in q.current..Len(tokens) : KindAt(tokens, j) \in {"{", ";", "}", "EOF"}})
  IN GoTo(q, IF KindAt(tokens, k) = "{" THEN BlockEnd(tokens, "{", "}", k) ELSE k)

(* ArenaArray::Push: a full array is copied to twice the room, and         *)
(* references to its elements stay with the old one.                       *)
Push(array) == [count |-> array.count + 1, capacity |-> IF array.count = array.capacity THEN 2 * array.capacity ELSE array.capacity]

(* An instruction that stays within the routine.                           *)
Simple(i, p, tokens) ==
  CASE i[1] = "take" -> Advance(p, tokens)
    [] i[1] = "expect" -> IF KindAt(tokens, p.current) \in i[2] THEN [Advance(p, tokens) EXCEPT !.ok = TRUE]
                          ELSE [ErrorAt(p) EXCEPT !.ok = FALSE]
    [] i[1] = "name" -> ConsumeDeclarationName(p, tokens)
    [] i[1] = "error" -> ErrorAt(p)
    [] i[1] = "report" -> [p EXCEPT !.hadError = TRUE]
    [] i[1] = "sync" -> Synchronize(p, tokens)
    [] i[1] = "enter" -> [p EXCEPT !.scopes = Append(@, <<>>)]
    [] i[1] = "exit" -> [p EXCEPT !.scopes = IF Len(@) > 1 THEN Front(@) ELSE @]
    [] i[1] = "calm" -> [p EXCEPT !.panicMode = FALSE]
    [] i[1] = "set" -> SetLocal(p, i[2], i[3])
    [] i[1] = "setok" -> [p EXCEPT !.ok = i[2]]
    [] i[1] = "count" -> SetLocal(p, i[2], i[3] + (IF i[2] \in DOMAIN Top(p).locals THEN Top(p).locals[i[2]] ELSE 0))
    [] i[1] = "allocate" -> [p EXCEPT !.pools[i[2]] = Push(@)]
    [] i[1] = "refer" -> SetLocal(p, i[3], p.pools[i[2]].capacity)
    [] i[1] = "write" -> [p EXCEPT !.lost = @ \/ Top(p).locals[i[3]] # p.pools[i[2]].capacity]
    [] i[1] = "skip" -> SkippedBlock(p, tokens)
    [] i[1] = "skip declaration" -> SkippedDeclaration(p, tokens, i[2])
    [] i[1] = "rewind" -> [p EXCEPT !.current = 1, !.previous = 1]
    [] i[1] = "keep" -> SetLocal(p, i[2], tokens[p.previous])
    [] i[1] = "earlier" -> SetLocal(p, i[2], tokens[IF p.previous = 1 THEN 1 ELSE p.previous - 1])
    [] i[1] = "hold" -> SetLocal(p, i[2], p.result)
    [] i[1] = "release" -> [p EXCEPT !.result = Top(p).locals[i[2]]]
    [] i[1] = "make" -> [p EXCEPT !.result.is = i[2]]
    [] i[1] = "result" -> [p EXCEPT !.result = i[2]]
    [] i[1] = "collect" -> [p EXCEPT !.fields[i[2]] = @ \cup {Locals(p, i[3])}]
    [] i[1] = "declare" -> AddSymbol(p, Top(p).locals[i[2]], i[3])
    [] i[1] = "flag" -> [p EXCEPT !.fields[i[2]] = i[3]]
    [] i[1] = "save" -> SetLocal(p, i[2], p.fields[i[2]])
    [] i[1] = "restore" -> [p EXCEPT !.fields[i[2]] = Top(p).locals[i[2]]]
    [] i[1] = "guard" -> WithTop(p, [Top(p) EXCEPT !.guards = Append(@, p.current)])
    [] i[1] = "plain" -> WithTop(p, [Top(p) EXCEPT !.guards = Append(@, 0)])

(* Straight ahead, through calls, to the next turn of a loop, choice, or   *)
(* return of a routine that is not a level of expressions: there the       *)
(* parser rests, until the action for it takes it on.                      *)
Entered(p, i) == [p EXCEPT !.frames = Append(@, Frame(p, i[2], i[3]))]
Left(p, tokens, value) ==
  LET q == EndGuards(p, tokens)
  IN [q EXCEPT !.frames = Front(@), !.result = IF value = Answer THEN @ ELSE value]
Rests(p, i) == \/ i[1] \in {"turn", "choose"}
               \/ i[1] = "return" /\ Top(p).routine \notin Levels
Executed(i, p, tokens) ==
  CASE i[1] = "unless" -> Goto(p, IF Holds(i[2], p, tokens) THEN 1 ELSE i[3])
    [] i[1] = "jump" -> Goto(p, i[2])
    [] i[1] = "leave" -> Goto(EndGuard(p, tokens), i[2])
    [] i[1] = "call" -> Entered(p, i)
    [] i[1] = "return" -> Goto(Left(p, tokens, i[2]), 1)
    [] OTHER -> Goto(Simple(i, p, tokens), 1)
RECURSIVE Run(_, _)
Run(p, tokens) ==
  IF p.frames = <<>> THEN [p EXCEPT !.rest = <<"done">>]
  ELSE IF Rests(p, Instruction(p)) THEN [p EXCEPT !.rest = Instruction(p)]
  ELSE Run(Executed(Instruction(p), p, tokens), tokens)

AfterTurn(p, tokens) == Goto(EndGuard(p, tokens), -p.rest[2])
AfterReturn(p, tokens) ==
  LET left == Left(p, tokens, p.rest[2])
  IN IF left.frames = <<>> THEN left ELSE Goto(left, 1)
AfterChoice(p, outcome) == Goto([p EXCEPT !.ok = outcome], 1)

-----------------------------------------------------------------------------
CONSTANT Documents                       \* sequences of tokens that end with "EOF"

VARIABLES tokens, parser,
          beat                           \* alternates, so that a turn that changes nothing is a step too
vars == <<tokens, parser, beat>>

Init ==
  /\ tokens \in Documents
  /\ parser = Run(Started, tokens)
  /\ beat = 0

Done == parser.rest = <<"done">>
Beats == ~Done /\ beat' = 1 - beat
Resumes(p) == parser' = Run(p, tokens) /\ Beats /\ UNCHANGED tokens

TakeTurn == parser.rest[1] = "turn" /\ Resumes(AfterTurn(parser, tokens))
LeaveRoutine == parser.rest[1] = "return" /\ Resumes(AfterReturn(parser, tokens))
MakeChoice == parser.rest[1] = "choose" /\ \E outcome \in BOOLEAN : Resumes(AfterChoice(parser, outcome))

Next == TakeTurn \/ LeaveRoutine \/ MakeChoice
(* The parser keeps running: the steps that beat are those of Next, and one *)
(* is possible until the parser is done.                                   *)
Spec == Init /\ [][Next]_vars /\ WF_beat(Beats)

-----------------------------------------------------------------------------
(* Whatever path a function of the parser leaves by, the scopes of the     *)
(* symbol table and the flags that say where the parser is are those it    *)
(* was called with; only a pipeline stays the current one, until the next. *)
(* The early returns behind EnterScope are what could break it.            *)
ContextRestored ==
  LET now == Context(parser)
      then == Top(parser).entry
  IN parser.rest[1] = "return" =>
       \/ now = then
       \/ Top(parser).routine \in {"ParsePipeline", "ParseDocument"} /\ now = [then EXCEPT !.inPipeline = now.inPipeline]

(* The document is read to its end whatever is in it: no loop of the       *)
(* parser turns for ever without reading a token, with the ProgressGuards  *)
(* and in the loops that have none.                                        *)
Ends == <>Done

(* A document that is accepted has been read: its brackets nest, and error *)
(* recovery stepped over no token without having reported an error.  The   *)
(* arms of a match on a type are the exception: they end before a token    *)
(* that starts none, which the guard of their loop drops; and nobody looks *)
(* at the arguments of @compressed.                                        *)
Opening == [c \in {"}", ")", "]"} |-> CASE c = "}" -> "{" [] c = ")" -> "(" [] c = "]" -> "["]
Closed(open, t) ==
  CASE t \in {"{", "(", "["} -> Append(open, t)
    [] t \in DOMAIN Opening -> IF open # <<>> /\ Last(open) = Opening[t] THEN Front(open) ELSE Append(open, "wrong")
    [] OTHER -> open
Nested == FoldLeft(Closed, <<>>, tokens) = <<>>
AcceptedIsRead ==
  /\ parser.dropped \subseteq {"ParseTypePatternMatch"}
  /\ Done /\ ~parser.hadError /\ parser.dropped = {} => Nested \/ "@compressed" \in Range(tokens)

(* Every statement, case and body that was parsed is in the syntax tree:   *)
(* "Parse case body (statements until next case/default/closing brace)"    *)
(* and "Set the body on the innermost loop".  It does not hold: an array   *)
(* of the tree is moved when it is full, and the references that are held  *)
(* while statements are parsed still go to where it was.                   *)
StatementsReachTheTree == ~parser.lost
=============================================================================
