--------------------------- MODULE ControlLowering ---------------------------
(***************************************************************************)
(* The lowering of structured statements to the linear IR                  *)
(* (bwsl_ir_lowering_control.inl): jumps are emitted before their targets  *)
(* are known and patched when the construct ends; every header is          *)
(* annotated with its merge; a call is lowered in place, its returns       *)
(* becoming a flag that guards what must not run any more.                 *)
(*                                                                         *)
(* The lowering is a function of the program.  The state machine runs the  *)
(* program and its IR side by side, each at its own pace between the       *)
(* things an observer sees.                                                *)
(***************************************************************************)
EXTENDS Naturals, Sequences, FiniteSets, SequencesExt

CONSTANTS
  Programs,          \* bodies of shader stages: sequences of statements
  MaxLoopNesting,    \* MAX_LOOP_NESTING, 16 in the code
  MaxBreaksPerLoop   \* MAX_BREAKS_PER_LOOP, 32 in the code

ASSUME LimitAssumption == MaxLoopNesting \in Nat \ {0} /\ MaxBreaksPerLoop \in Nat \ {0}

(* A statement is [kind, id, blocks].  "mark" is any statement without     *)
(* control flow; "for" has a condition and an increment, "while" a         *)
(* condition, "forever" neither; "range" is a loop over a range, a         *)
(* collection or a count, "counted" one that has an until; "known" is a    *)
(* switch whose selector is a literal, with the block it selects, if any;  *)
(* the last block of a "default" switch is its default; "call" has the     *)
(* body of its callee.                                                     *)
CStyle == {"for", "while", "forever"}
Loops == CStyle \cup {"range", "counted", "loop", "until"}
Tests(s) == s.kind \in {"for", "while", "range", "counted"}
Steps(s) == s.kind \in {"for", "range", "counted"}
HasUntil(s) == s.kind \in {"counted", "until"}
HasElse(s) == Len(s.blocks) = 2

----------------------------------------------------------------------------
(* The IRLowering object: the code so far and the fields that control flow *)
(* uses; flag is inlineReturnFlagReg, 0 outside inlined calls.             *)
Start == [code |-> <<>>, loopDepth |-> 0, switchDepth |-> 0, pending |-> <<>>,
          flag |-> 0, flags |-> 0, returns |-> 0, reads |-> 0, hadError |-> FALSE]

Here(st) == Len(st.code) + 1

(* A target that is still to be patched is the first instruction.          *)
Emit(st, op, id, flag) ==
  [st EXCEPT !.code = Append(@, [op |-> op, id |-> id, to |-> <<1>>, flag |-> flag, merge |-> 0, next |-> 0])]

Target(st, at, to) == [st EXCEPT !.code[at].to = to]
Annotate(st, at, merge, next) == [st EXCEPT !.code[at].merge = merge, !.code[at].next = next]

Inlined(st) == st.flag # 0

LowerBreak(st) ==
  IF st.pending = <<>> THEN [st EXCEPT !.hadError = @ \/ st.switchDepth = 0]
  ELSE LET depth == Len(st.pending)
           recorded == Len(st.pending[depth].breaks) < MaxBreaksPerLoop
       IN [Emit(st, "jump", 0, 0) EXCEPT
             !.pending[depth].breaks = IF recorded THEN Append(@, Here(st)) ELSE @]

LowerSkip(st) ==
  IF st.pending = <<>> THEN [st EXCEPT !.hadError = TRUE]
  ELSE LET depth == Len(st.pending)
           recorded == Len(st.pending[depth].skips) < MaxBreaksPerLoop
       IN [Emit(st, "jump", 0, 0) EXCEPT
             !.pending[depth].skips = IF recorded THEN Append(@, Here(st)) ELSE @]

PushLoopContext(st) ==
  IF Len(st.pending) < MaxLoopNesting
    THEN [st EXCEPT !.pending = Append(@, [breaks |-> <<>>, skips |-> <<>>])]
    ELSE st

PatchAll(st, jumps, to) == FoldLeft(LAMBDA s, at : Target(s, at, <<to>>), st, jumps)

PopLoopContext(st, continueTarget, breakTarget) ==
  IF st.pending = <<>> THEN st
  ELSE LET top == Last(st.pending)
           popped == [st EXCEPT !.pending = Front(@)]
       IN PatchAll(PatchAll(popped, top.skips, continueTarget), top.breaks, breakTarget)

(* Mutant of LowerReturn: what follows is not told.                        *)
ReturnsUncounted(st) ==
  IF Inlined(st) THEN Emit(st, "set", 0, st.flag) ELSE Emit(st, "ret", 0, 0)

LowerReturn(st) ==
  IF Inlined(st) THEN [Emit(st, "set", 0, st.flag) EXCEPT !.returns = @ + 1]
                 ELSE Emit(st, "ret", 0, 0)

(* Mutant of LoopBranch: the condition alone decides.                      *)
BranchUncombined(s, st) == Emit(st, IF Tests(s) THEN "test" ELSE "enter", s.id, 0)

(* The branch of a loop, whose condition CombineLoopCondition joins with   *)
(* the return flag.                                                        *)
LoopBranch(s, st) ==
  [Emit(st, IF Tests(s) THEN "test" ELSE "enter", s.id, st.flag) EXCEPT
     !.reads = IF Inlined(st) THEN @ + 1 ELSE @]

(* Mutant of SwitchMerge: a switch never has a merge of its own.           *)
MergesAnywhere(st) == st

SwitchMerge(st) == IF st.loopDepth > 0 THEN Emit(st, "nop", 0, 0) ELSE st

(* The stores of a flag that nothing reads become NOPs.                    *)
DropUnreadReturnFlag(st, first) ==
  IF st.reads # 0 THEN st
  ELSE [st EXCEPT !.code =
          [i \in DOMAIN @ |-> IF i >= first /\ @[i].op \in {"set", "clear"} /\ @[i].flag = st.flag
                                THEN [@[i] EXCEPT !.op = "nop"] ELSE @[i]]]

RECURSIVE ReturnsAtEnd(_)
ReturnsAtEnd(block) ==
  /\ block # <<>>
  /\ LET s == Last(block) IN
       \/ s.kind = "return"
       \/ s.kind = "if" /\ HasElse(s) /\ ReturnsAtEnd(s.blocks[1]) /\ ReturnsAtEnd(s.blocks[2])

ThenReturns(s) == ReturnsAtEnd(s.blocks[1])
ElseReturns(s) == HasElse(s) /\ ReturnsAtEnd(s.blocks[2])

RECURSIVE LowerStatement(_, _), LowerBlock(_, _)

LowerStatementsWithReturnGuard(rest, st) ==
  LET branch == Here(st)
      body == LowerBlock(rest, [Emit(st, "returned", 0, st.flag) EXCEPT !.reads = @ + 1])
      merge == Here(body)
  IN Annotate(Target(Emit(body, "nop", 0, 0), branch, <<merge, branch + 1>>), branch, merge, 0)

(* A branch of an if whose other branch returns, and the rest of the block *)
(* behind it.                                                              *)
LowerBranchAndRest(block, rest, st) ==
  LET after == LowerBlock(block, st) IN
  IF after.returns # st.returns THEN LowerStatementsWithReturnGuard(rest, after)
                                ELSE LowerBlock(rest, after)

(* LowerIfWithRest, "where" the rest goes: in no branch for an ordinary    *)
(* if.                                                                     *)
LowerIf(s, rest, where, st) ==
  LET branch == Here(st)
      opened == Emit(st, "test", s.id, 0)
      then == IF where = "then" THEN LowerBranchAndRest(s.blocks[1], rest, opened)
                                ELSE LowerBlock(s.blocks[1], opened)
      jumps == HasElse(s) \/ where = "else"
      jumped == IF jumps THEN Emit(then, "jump", 0, 0) ELSE then
      elseBlock == IF HasElse(s) THEN s.blocks[2] ELSE <<>>
      both == IF where = "else" THEN LowerBranchAndRest(elseBlock, rest, jumped)
                                ELSE LowerBlock(elseBlock, jumped)
      merge == Here(both)
      closed == Annotate(Target(Emit(both, "nop", 0, 0), branch, <<branch + 1, Here(jumped)>>),
                         branch, merge, 0)
  IN IF jumps THEN Target(closed, Here(then), <<merge>>) ELSE closed

(* LowerForCStyle, LowerForRange, LowerForCollection and LowerLoop.  The   *)
(* conditions are straight-line, so that the jump in front of one becomes  *)
(* a NOP.                                                                  *)
LowerLoop(s, st) ==
  LET header == Here(st)
      branches == s.kind # "forever" \/ Inlined(st)
      opened == IF ~branches THEN Target(Emit(st, "jump", 0, 0), header, <<header + 1>>)
                ELSE IF s.kind \in CStyle THEN Emit(st, "nop", 0, 0) ELSE st
      branch == IF branches THEN Here(opened) ELSE header
      tested == IF branches THEN LoopBranch(s, opened) ELSE opened
      body == LowerBlock(s.blocks[1], PushLoopContext([tested EXCEPT !.loopDepth = @ + 1]))
      until == IF HasUntil(s) THEN Emit(body, "until", s.id, st.flag) ELSE body
      left == [until EXCEPT !.loopDepth = @ - 1]
      continueTarget == Here(left)
      stepped == IF Steps(s) THEN Emit(left, "step", s.id, st.flag) ELSE left
      back == Here(stepped)
      loopEnd == back + 1
      looped == Target(Emit(Emit(stepped, "jump", 0, 0), "nop", 0, 0), back, <<header>>)
      popped == PopLoopContext(looped, continueTarget, loopEnd)
      entered == IF branches THEN Target(popped, branch, <<branch + 1, loopEnd>>) ELSE popped
      untilled == IF HasUntil(s) THEN Target(entered, Here(body), <<loopEnd, continueTarget>>) ELSE entered
  IN Annotate(untilled, branch, loopEnd, continueTarget)

(* One arm after the other, each with a jump behind it.                    *)
LowerArms(s, st) ==
  FoldLeft(LAMBDA a, block :
             LET body == LowerBlock(block, a.st)
             IN [st |-> Emit(body, "jump", 0, 0), starts |-> Append(a.starts, Here(a.st)),
                 jumps |-> Append(a.jumps, Here(body))],
           [st |-> st, starts |-> <<>>, jumps |-> <<>>], s.blocks)

LowerSwitch(s, st) ==
  LET switch == Here(st)
      arms == LowerArms(s, [Emit(st, "switch", s.id, 0) EXCEPT !.switchDepth = @ + 1])
      left == [arms.st EXCEPT !.switchDepth = @ - 1]
      merge == Here(left)
      targets == IF s.kind = "default" THEN arms.starts ELSE Append(arms.starts, merge)
  IN Annotate(Target(PatchAll(SwitchMerge(left), arms.jumps, merge), switch, targets), switch, merge, 0)

(* Only the arm that a literal selects is lowered.                         *)
LowerKnownSwitch(s, st) ==
  IF s.blocks = <<>> THEN st
  ELSE [LowerBlock(s.blocks[1], [st EXCEPT !.switchDepth = @ + 1]) EXCEPT !.switchDepth = @ - 1]

(* The call is inlined with a flag of its own; what it leaves of the       *)
(* caller's bookkeeping is what it found, the loops excepted, which the    *)
(* callee sees.                                                            *)
LowerCall(s, st) ==
  LET flag == st.flags + 1
      opened == [Emit(st, "clear", 0, flag) EXCEPT !.flag = flag, !.flags = flag, !.returns = 0, !.reads = 0]
      closed == DropUnreadReturnFlag(LowerBlock(s.blocks[1], opened), Here(st))
  IN [closed EXCEPT !.flag = st.flag, !.returns = st.returns, !.reads = st.reads]

LowerStatement(s, st) ==
  CASE s.kind = "break" -> LowerBreak(st)
    [] s.kind = "skip" -> LowerSkip(st)
    [] s.kind = "return" -> LowerReturn(st)
    [] s.kind = "if" -> LowerIf(s, <<>>, "none", st)
    [] s.kind \in Loops -> LowerLoop(s, st)
    [] s.kind \in {"switch", "default"} -> LowerSwitch(s, st)
    [] s.kind = "known" -> LowerKnownSwitch(s, st)
    [] s.kind = "call" -> LowerCall(s, st)
    [] s.kind \in {"mark", "discard"} -> Emit(st, s.kind, s.id, 0)

(* LowerStatements: in an inlined call, what follows a statement that may  *)
(* have returned goes into the branch that did not, or behind one guard    *)
(* for the rest of the block.                                              *)
LowerBlock(block, st) ==
  IF block = <<>> THEN st
  ELSE LET s == Head(block)
           rest == Tail(block)
           guards == Inlined(st) /\ rest # <<>>
           after == LowerStatement(s, st)
       IN IF guards /\ s.kind = "if" /\ ThenReturns(s) # ElseReturns(s)
            THEN LowerIf(s, rest, IF ElseReturns(s) THEN "then" ELSE "else", st)
          ELSE IF guards /\ after.returns # st.returns
            THEN LowerStatementsWithReturnGuard(rest, after)
          ELSE LowerBlock(rest, after)

LowerShaderStage(body) == Emit(LowerBlock(body, Start), "ret", 0, 0)

----------------------------------------------------------------------------
VARIABLES
  program,  \* the stage's body
  lowered,  \* what the lowering made of it
  pc,       \* the instruction the IR is at
  raised,   \* the return flags that hold
  todo      \* what the program has still to do, statements and marks

vars == <<program, lowered, pc, raised, todo>>

At == lowered.code[pc]

(* A raised flag leaves a loop whatever its condition says; what it still  *)
(* evaluates then, conditions and the step of an iterator, dies with the   *)
(* call.                                                                   *)
Returned == At.op \in {"test", "enter", "until", "step"} /\ At.flag \in raised

IRVisible == At.op \in {"mark", "discard", "ret", "test", "until", "step", "switch"} /\ ~Returned

(* What a silent instruction does: the next one and the flags.             *)
IRStep ==
  /\ ~lowered.hadError /\ ~IRVisible
  /\ pc' = CASE At.op = "jump" -> At.to[1]
             [] At.op = "returned" -> IF At.flag \in raised THEN At.to[1] ELSE At.to[2]
             [] At.op \in {"enter", "test"} -> IF Returned THEN At.to[2] ELSE At.to[1]
             [] At.op = "until" -> At.to[2]
             [] OTHER -> pc + 1
  /\ raised' = CASE At.op = "set" -> raised \cup {At.flag}
                 [] At.op = "clear" -> raised \ {At.flag}
                 [] OTHER -> raised
  /\ UNCHANGED <<program, lowered, todo>>

(* Marks in the program's agenda: a loop about to test, to check its       *)
(* until, at the point skip goes on from; the end of a call.               *)
Mark(kind, s) == [kind |-> kind, id |-> s.id, of |-> s]

EnterBody(s) ==
  s.blocks[1] \o (IF HasUntil(s) THEN <<Mark("checking", s)>> ELSE <<>>) \o <<Mark("turning", s)>>

(* break and skip concern the innermost loop of their own function; a      *)
(* break in a switch outside any loop does nothing.                        *)
InnerLoop(rest) ==
  LET k == SelectInSeq(rest, LAMBDA item : item.kind \in {"turning", "leaving"})
  IN IF k # 0 /\ rest[k].kind = "turning" THEN k ELSE 0

From(rest, k) == SubSeq(rest, k, Len(rest))

EndOfCall(rest) ==
  LET k == SelectInSeq(rest, LAMBDA item : item.kind = "leaving")
  IN IF k = 0 THEN <<>> ELSE From(rest, k + 1)

Label ==
  IF todo = <<>> THEN <<"ret", 0>>
  ELSE LET item == Head(todo) IN
       CASE item.kind \in {"mark", "discard"} -> <<item.kind, item.id>>
         [] item.kind = "if" -> <<"test", item.id>>
         [] item.kind \in {"switch", "default"} -> <<"switch", item.id>>
         [] item.kind = "testing" /\ Tests(item.of) -> <<"test", item.id>>
         [] item.kind = "checking" -> <<"until", item.id>>
         [] item.kind = "turning" /\ Steps(item.of) -> <<"step", item.id>>
         [] OTHER -> <<>>

SourceVisible == Label # <<>>

SourceStep ==
  /\ ~lowered.hadError /\ ~SourceVisible
  /\ LET item == Head(todo)
         rest == Tail(todo)
     IN todo' = CASE item.kind = "break" -> IF InnerLoop(rest) = 0 THEN rest ELSE From(rest, InnerLoop(rest) + 1)
                  [] item.kind = "skip" -> From(rest, InnerLoop(rest))
                  [] item.kind = "return" -> EndOfCall(rest)
                  [] item.kind = "call" -> item.blocks[1] \o <<Mark("leaving", item)>> \o rest
                  [] item.kind = "known" -> FlattenSeq(item.blocks) \o rest
                  [] item.kind \in Loops -> <<Mark("testing", item)>> \o rest
                  [] item.kind = "testing" -> EnterBody(item.of) \o rest
                  [] item.kind = "turning" -> <<Mark("testing", item.of)>> \o rest
                  [] item.kind = "leaving" -> rest
  /\ UNCHANGED <<program, lowered, pc, raised>>

(* What an observer sees, on both sides, with the same outcome: the first  *)
(* of a test enters, of an until leaves.                                   *)
Follow(choice) ==
  LET item == Head(todo)
      rest == Tail(todo)
  IN CASE item.kind = "mark" -> rest
       [] item.kind \in {"if", "switch", "default"} ->
            (IF choice <= Len(item.blocks) THEN item.blocks[choice] ELSE <<>>) \o rest
       [] item.kind = "testing" -> (IF choice = 1 THEN EnterBody(item.of) ELSE <<>>) \o rest
       [] item.kind = "checking" -> IF choice = 1 THEN Tail(rest) ELSE rest
       [] item.kind = "turning" -> <<Mark("testing", item.of)>> \o rest

Observe(choice) ==
  /\ ~lowered.hadError /\ IRVisible /\ SourceVisible
  /\ Label = <<At.op, At.id>> /\ At.op \notin {"ret", "discard"}
  /\ todo' = Follow(choice)
  /\ pc' = IF At.op \in {"test", "until", "switch"} THEN At.to[choice] ELSE pc + 1
  /\ UNCHANGED <<program, lowered, raised>>

Init ==
  /\ program \in Programs
  /\ lowered = LowerShaderStage(program)
  /\ pc = 1 /\ raised = {} /\ todo = program

Next == SourceStep \/ IRStep \/ \E choice \in DOMAIN At.to : Observe(choice)

Spec == Init /\ [][Next]_vars
FairSpec == Spec /\ WF_vars(SourceStep) /\ WF_vars(IRStep)

----------------------------------------------------------------------------
RECURSIVE Legal(_, _, _)
(* break and skip stand in a loop, a break may in a switch.                *)
Legal(block, inLoop, inSwitch) ==
  \A k \in DOMAIN block :
    LET s == block[k] IN
    /\ s.kind = "break" => inLoop \/ inSwitch
    /\ s.kind = "skip" => inLoop
    /\ \A b \in DOMAIN s.blocks :
         Legal(s.blocks[b], s.kind # "call" /\ (inLoop \/ s.kind \in Loops),
               s.kind # "call" /\ (inSwitch \/ s.kind \in {"switch", "default", "known"}))

(* The IR does what the program does: at whatever point both have          *)
(* something to show it is the same thing, through every break, skip and   *)
(* return out of nested loops, switches and inlined calls; a program is    *)
(* rejected only for a break or a skip out of place (lines 74-186,         *)
(* 1039-1228).                                                             *)
RunsAgree ==
  IF lowered.hadError THEN ~Legal(program, FALSE, FALSE)
  ELSE IRVisible /\ SourceVisible => Label = <<At.op, At.id>>

Headers == {i \in DOMAIN lowered.code : lowered.code[i].merge # 0}

(* The structure SPIR-V asks for: no two constructs merge at the same      *)
(* instruction and none merges where a loop continues (lines 255, 534-537, *)
(* 992-996, 1167-1182).  A switch outside loops has no merge of its own    *)
(* and is left out.                                                        *)
MergesAreDistinct ==
  LET code == lowered.code
      inLoop(i) == \E h \in Headers : code[h].next # 0 /\ h < i /\ i < code[h].merge
      owned == {i \in Headers : code[i].op = "switch" => inLoop(i)}
  IN /\ \A i, j \in owned : i # j => code[i].merge # code[j].merge
     /\ \A i, j \in Headers : code[i].merge # code[j].next

(* The IR never turns in circles of its own: when the program shows        *)
(* something again and again, or ends, so does the IR, however many        *)
(* returns its loops must be left through (lines 1283-1300).               *)
KeepsPace == []<>SourceVisible => []<>IRVisible

(* The comment of lines 120-121, "Inside a switch (outside any loop),      *)
(* `break` is a no-op": a function whose switch has a break does the same  *)
(* wherever it is called.                                                  *)
SwitchBreakIsNoOp ==
  ~lowered.hadError /\ IRVisible /\ SourceVisible => Label = <<At.op, At.id>>
=============================================================================
