------------------------------ MODULE WgslText ------------------------------
(***************************************************************************)
(* What the WGSL backend writes for the body of a stage with control flow  *)
(* (bwsl_wgsl_backend_control.inl and the expression planning of           *)
(* bwsl_wgsl_backend.cpp), for stages without memory.                      *)
(*                                                                         *)
(* A value that is read in another block than the one it is computed in    *)
(* becomes a variable of the function, a copy is its source, a value that  *)
(* is read once is written where it is read, and a phi is a variable that  *)
(* every edge into its block assigns.  w is what has been written: the     *)
(* text, the blocks visited, and the message of the first failure; p is    *)
(* the plan.                                                               *)
(***************************************************************************)
EXTENDS StructuredText

ExecutableIn(program, reachable) ==
  SelectSeq(PlacesOf(program), LAMBDA q : q[1] \in reachable /\ InsOf(program, q).op # "nop")

(* PrepareControl: the phis that what runs reads, directly or through a    *)
(* phi.                                                                    *)
RECURSIVE LivePhis(_, _, _)
LivePhis(program, reachable, names) ==
  LET carried == UNION {{program.phis[k].vals[j] : j \in {i \in DOMAIN program.phis[k].vals :
                            program.phis[k].from[i] \in reachable}} :
                         k \in {i \in DOMAIN program.phis : program.phis[i].result \in names}}
  IN IF carried \subseteq names THEN {k \in DOMAIN program.phis : program.phis[k].result \in names}
     ELSE LivePhis(program, reachable, names \cup carried)

ReadByCode(program, reachable) ==
  UNION {Elems(OperandsOf(InsOf(program, q))) : q \in Elems(ExecutableIn(program, reachable))}
    \cup {program.term[b].arg : b \in reachable}

(* A copy is the value it copies.                                          *)
RECURSIVE AliasOf(_, _)
AliasOf(copies, operand) ==
  IF operand \in DOMAIN copies THEN AliasOf(copies, copies[operand]) ELSE operand

(* CountUse for every operand that is written: which value, in which block.*)
UsesIn(program, reachable, live, copies) ==
  LET written == SelectSeq(ExecutableIn(program, reachable), LAMBDA q : InsOf(program, q).op # "copy")
      mentions(ins) == IF ins.op # "shuffle" THEN OperandsOf(ins)
                       ELSE [c \in DOMAIN ins.lit |-> ins.args[IF ins.lit[c] <= Count(ins.args[1]) THEN 1 ELSE 2]]
      inCode == FlattenSeq([i \in DOMAIN written |->
                  LET q == written[i] IN [k \in DOMAIN mentions(InsOf(program, q)) |->
                                           <<mentions(InsOf(program, q))[k], q[1]>>]])
      inTerms == [b \in DOMAIN program.term |-> <<program.term[b].arg, b>>]
      onEdges == FlattenSeq([k \in DOMAIN program.phis |->
                   [j \in DOMAIN program.phis[k].from |-> <<program.phis[k].vals[j], program.phis[k].from[j], k>>]])
      counted == inCode \o SelectSeq(inTerms, LAMBDA u : u[2] \in reachable)
                   \o SelectSeq(onEdges, LAMBDA u : u[3] \in live /\ u[2] \in reachable)
  IN [i \in DOMAIN counted |-> <<AliasOf(copies, counted[i][1]), counted[i][2]>>]

(* PlanExpressions: the depth of the expression written at the only use of *)
(* a value, 0 for a value with a name of its own.                          *)
StaysWhereItIs(ins) == ins.op \in {"insert", "putat", "input"} \/ ins.args = <<>>
DeepestInlined == 4
InlineDepths(program, places, uses, variables, copies) ==
  LET one(depths, q) ==
        LET ins == InsOf(program, q)
            deeper == Max({0} \cup {depths[a] : a \in {AliasOf(copies, x) : x \in Elems(ins.args)} \cap DOMAIN depths}) + 1
            once == Len(SelectSeq(uses, LAMBDA u : u[1] = ins.dest)) = 1
            inlines == ~StaysWhereItIs(ins) /\ once /\ ins.dest \notin variables /\ deeper <= DeepestInlined
        IN IF Defines(ins) THEN (ins.dest :> IF inlines THEN deeper ELSE 0) @@ depths ELSE depths
  IN FoldLeft(one, [r \in {} |-> 0], places)

(* What a value of the stage is made by, by its register.                  *)
MadeIn(program, places) ==
  [r \in {InsOf(program, q).dest : q \in {x \in Elems(places) : Defines(InsOf(program, x))}} |->
     InsOf(program, CHOOSE q \in Elems(places) : InsOf(program, q).dest = r /\ Defines(InsOf(program, q)))]
CopySources(program, places) ==
  [r \in {InsOf(program, q).dest : q \in {x \in Elems(places) : InsOf(program, x).op = "copy"}} |->
     InsOf(program, CHOOSE q \in Elems(places) : InsOf(program, q).op = "copy" /\ InsOf(program, q).dest = r).args[1]]
VariablesOf(program, places, live, uses) ==
  LET elsewhere(q) == \E i \in DOMAIN uses : uses[i][1] = InsOf(program, q).dest /\ uses[i][2] # q[1]
  IN {program.phis[k].result : k \in live} \cup program.undef
       \cup {InsOf(program, q).dest : q \in {x \in Elems(places) : Defines(InsOf(program, x)) /\ elsewhere(x)}}

PlanOf(program, reachable) ==
  LET places == ExecutableIn(program, reachable)
      live == LivePhis(program, reachable, ReadByCode(program, reachable))
      counted(plan) == [plan EXCEPT !.uses = UsesIn(program, reachable, plan.live, plan.copies)]
      named(plan) == [plan EXCEPT !.variables = VariablesOf(program, plan.places, plan.live, plan.uses)]
      planned(plan) == [plan EXCEPT !.depths = InlineDepths(program, plan.places, plan.uses, plan.variables, plan.copies),
                                    !.made = MadeIn(program, plan.places)]
  IN planned(named(counted([program |-> program, reachable |-> reachable, places |-> places, live |-> live,
                            copies |-> CopySources(program, places), uses |-> <<>>, variables |-> {},
                            depths |-> <<>>, made |-> <<>>])))

----------------------------------------------------------------------------
RECURSIVE WriteOperand(_, _)
WriteExpression(p, ins) == Compound(ins, [k \in DOMAIN ins.args |-> WriteOperand(p, ins.args[k])])
WriteOperand(p, operand) ==
  LET r == AliasOf(p.copies, operand)
  IN IF r \in DOMAIN p.depths /\ p.depths[r] # 0 THEN WriteExpression(p, p.made[r]) ELSE Leaf(r)

Written(w, s) == [w EXCEPT !.text = Append(@, s)]
Failed(w, message) == [w EXCEPT !.fail = IF @ = "" THEN message ELSE @]
EmptyText(w) == [w EXCEPT !.text = <<>>]
Around(w, inner, s) == [inner EXCEPT !.text = Append(w.text, s)]

WriteInstruction(p, w, ins) ==
  IF ins.op \in {"nop", "copy"} THEN w
  ELSE IF ins.op = "out" THEN Written(w, Output(WriteOperand(p, ins.dest)))
  ELSE IF p.depths[ins.dest] # 0 THEN w
  ELSE LET names(value) == IF ins.dest \in p.variables THEN Assign(ins.dest, value) ELSE Declare(ins.dest, value)
       IN Written(w, names(WriteExpression(p, ins)))

(* All the sources of an edge's phis are read before any is assigned.      *)
CopiesOnEdge(p, from, phis) ==
  LET operand(phi) == phi.vals[Min({j \in DOMAIN phi.from : phi.from[j] = from})]
  IN [i \in DOMAIN phis |-> Declare(EdgeName(phis[i]), WriteOperand(p, operand(p.program.phis[phis[i]])))]
       \o [i \in DOMAIN phis |-> Assign(p.program.phis[phis[i]].result, Leaf(EdgeName(phis[i])))]
WritePhiCopies(p, w, from, to) ==
  LET phis == SelectSeq([k \in DOMAIN p.program.phis |-> k], LAMBDA k : k \in p.live /\ p.program.phis[k].block = to)
  IN IF phis = <<>> THEN w
     ELSE IF \E i \in DOMAIN phis : from \notin Elems(p.program.phis[phis[i]].from)
       THEN Failed(w, "phi is missing an incoming CFG edge")
     ELSE Written(w, Braces(CopiesOnEdge(p, from, phis)))

NoScope == [header |-> NO_BLOCK, next |-> NO_BLOCK, merge |-> NO_BLOCK, inContinuing |-> FALSE]

(* w, and the arms written after it, each in a text of its own.            *)
Joined(w, value, yes, no) == Around(w, no, IfElse(value, yes.text, no.text))

RECURSIVE WriteRegion(_, _, _, _, _)
Onward(p, w, block, stop, scope) == IF w.fail # "" THEN w ELSE WriteRegion(p, w, block, stop, scope)
TransferCopied(p, copied, target, stop, scope) ==
  LET goes(how) == IF scope.inContinuing THEN Failed(copied, "continuing cannot be left this way")
                   ELSE Written(copied, Leave(how))
  IN IF copied.fail # "" \/ target = stop THEN copied
     ELSE IF target = scope.merge THEN goes("break")
     ELSE IF target \in {scope.next, scope.header} THEN goes("continue")
     ELSE WriteRegion(p, copied, target, stop, scope)
WriteTransfer(p, w, from, target, stop, scope) ==
  TransferCopied(p, WritePhiCopies(p, w, from, target), target, stop, scope)

(* The conditional exit at the end of a continuing block: the condition is *)
(* read before the phi copies of either edge are made.                     *)
EndsContinuing(t, scope) ==
  scope.inContinuing /\ t.op = "branch" /\ Elems(t.to) = {scope.merge, scope.header}
BreakIfNot(p, w, yes, block, to) == Joined(w, Leaf(BreakName(block)), yes, WritePhiCopies(p, EmptyText(yes), block, to))
WriteBreakIf(p, w, block, scope) ==
  LET t == p.program.term[block]
      name == Leaf(BreakName(block))
      read == Written(w, Declare(BreakName(block), WriteOperand(p, t.arg)))
  IN Written(BreakIfNot(p, read, WritePhiCopies(p, EmptyText(w), block, t.to[1]), block, t.to[2]),
             BreakIf(IF t.to[1] = scope.merge THEN name ELSE NotTrue(name)))

WriteElse(p, w, yes, block, stop, scope) ==
  LET t == p.program.term[block]
  IN Joined(w, WriteOperand(p, t.arg), yes, WriteTransfer(p, EmptyText(yes), block, t.to[2], stop, scope))
WriteBranch(p, w, block, stop, scope) ==
  LET t == p.program.term[block]
      yes(start) == WriteTransfer(p, start, block, t.to[1], stop, scope)
  IN IF t.to[1] = t.to[2] THEN yes(w) ELSE WriteElse(p, w, yes(EmptyText(w)), block, stop, scope)

(* if / else if / else over the cases, one arm for each target.            *)
RECURSIVE WriteCases(_, _, _, _, _)
WriteOtherCases(p, w, arm, block, item, scope) ==
  LET t == p.program.term[block]
      values == SelectSeq([k \in DOMAIN t.cases |-> k], LAMBDA k : t.to[k] = t.to[item])
      test == IsOneOf(WriteOperand(p, t.arg), [k \in DOMAIN values |-> t.cases[values[k]]])
  IN IF item > Len(t.cases) THEN [arm EXCEPT !.text = w.text \o @]
     ELSE Joined(w, test, arm, WriteCases(p, EmptyText(arm), block, item + 1, scope))
WriteCases(p, w, block, item, scope) ==
  LET t == p.program.term[block]
  IN IF item <= Len(t.cases) /\ \E k \in 1..(item - 1) : t.to[k] = t.to[item] THEN WriteCases(p, w, block, item + 1, scope)
     ELSE WriteOtherCases(p, w, WriteTransfer(p, EmptyText(w), block, t.to[item], t.merge, scope), block, item, scope)

WriteCode(p, w, block) ==
  FoldLeft(LAMBDA u, ins : WriteInstruction(p, u, ins), [w EXCEPT !.visited = @ \cup {block}], p.program.code[block])

(* A block of a loop, or the block a loop starts with: to where the        *)
(* region's text ends, or on to the merge of its selection.                *)
WriteSelection(p, w, block, stop, scope) ==
  LET t == p.program.term[block]
      merges == t.op = "switch" \/ (t.mark = "if" /\ t.to[1] # t.to[2])
      arms == IF t.op = "switch" THEN WriteCases(p, w, block, 1, scope)
              ELSE WriteBranch(p, w, block, IF merges THEN t.merge ELSE stop, scope)
  IN IF merges THEN Onward(p, arms, t.merge, stop, scope) ELSE arms
WriteEnd(p, w, block, stop, scope) ==
  LET t == p.program.term[block]
  IN CASE t.op = "ret" -> IF scope.inContinuing THEN Failed(w, "continuing cannot return") ELSE Written(w, Leave("return"))
       [] t.op = "jump" -> WriteTransfer(p, w, block, t.to[1], stop, scope)
       [] IsConditional(t) -> IF EndsContinuing(t, scope) THEN WriteBreakIf(p, w, block, scope)
                              ELSE WriteSelection(p, w, block, stop, scope)
WriteBlock(p, w, block, stop, scope) == WriteEnd(p, WriteCode(p, w, block), block, stop, scope)

WriteContinuing(p, w, body, stop, scope) ==
  LET continuing == IF scope.next = scope.header THEN EmptyText(body)
                    ELSE Onward(p, EmptyText(body), scope.next, scope.header, [scope EXCEPT !.inContinuing = TRUE])
      closed(end) == IF end.fail # "" THEN end ELSE Around(w, end, EndlessLoop(body.text, end.text))
  IN closed(continuing)
WriteLoop(p, w, header, stop, scope) ==
  LET t == p.program.term[header]
      inner == [header |-> header, next |-> t.next, merge |-> t.merge, inContinuing |-> FALSE]
  IN Onward(p, WriteContinuing(p, w, WriteBlock(p, EmptyText(w), header, t.next, inner), stop, inner), t.merge, stop, scope)

WriteRegion(p, w, block, stop, scope) ==
  IF block = stop \/ block \notin p.reachable THEN w
  ELSE IF block \in w.visited THEN Failed(w, "CFG cannot be represented by its structured regions")
  ELSE IF p.program.term[block].mark = "loop" THEN WriteLoop(p, w, block, stop, scope)
  ELSE WriteBlock(p, w, block, stop, scope)

(* Every variable of a WGSL function starts at zero.                       *)
TextOf(plan, w) == [text |-> w.text, zeroed |-> plan.variables, declared |-> {}, fail |-> w.fail]
WgslOf(plan) ==
  TextOf(plan, WriteRegion(plan, [text |-> <<>>, visited |-> {}, fail |-> ""], EntryBlock, NO_BLOCK, NoScope))
EmitWgsl(program) == WgslOf(PlanOf(program, Reachable(SuccOf(program))))
=============================================================================
