------------------------------ MODULE GlesText ------------------------------
(***************************************************************************)
(* What the GLSL ES backend writes for the body of a stage with control    *)
(* flow (bwsl_gles_backend.cpp), for stages without memory.  Every         *)
(* register is a variable of main, every instruction an assignment, and a  *)
(* loop is for (;;) that its edges leave with break and continue; an edge  *)
(* to the continue target of a loop carries a copy of what is there.       *)
(*                                                                         *)
(* g is [text, falls, fail]: what is written, whether its end is reached,  *)
(* and the first failure.                                                  *)
(***************************************************************************)
EXTENDS StructuredText

GlesAdd(g, s) == [g EXCEPT !.text = Append(@, s)]
GlesStop(g, how) == [GlesAdd(g, Leave(how)) EXCEPT !.falls = FALSE]
GlesFresh(g) == [g EXCEPT !.text = <<>>]
GlesOutside == [header |-> NO_BLOCK, next |-> NO_BLOCK, merge |-> NO_BLOCK, inContinuation |-> FALSE]

GlesExpr(ins) == Compound(ins, [k \in DOMAIN ins.args |-> Leaf(ins.args[k])])
EmitStatement(ins) ==
  IF ins.op = "out" THEN Output(Leaf(ins.dest)) ELSE Assign(ins.dest, GlesExpr(ins))

(* The operands an edge brings to the phis of its target, by phi.          *)
EdgeOperands(program, from, to) ==
  FlattenSeq([k \in DOMAIN program.phis |->
    LET phi == program.phis[k]
    IN IF phi.block # to THEN <<>>
       ELSE [i \in 1..Len(SelectSeq(phi.from, LAMBDA b : b = from)) |->
               <<k, phi.vals[CHOOSE j \in DOMAIN phi.from :
                               phi.from[j] = from /\ Len(SelectSeq(SubSeq(phi.from, 1, j), LAMBDA b : b = from)) = i]>>]])

(* Mutant of EmitPhiAssignments: each phi is assigned as it is read.       *)
EmitPhiAssignmentsInTurn(program, from, to) ==
  LET operands == EdgeOperands(program, from, to)
  IN [i \in DOMAIN operands |-> Assign(program.phis[operands[i][1]].result, Leaf(operands[i][2]))]

(* Every source is saved before any phi is assigned.                       *)
EmitPhiAssignments(program, from, to) ==
  LET operands == EdgeOperands(program, from, to)
      save(i) == Declare(EdgeName(operands[i][1]), Leaf(operands[i][2]))
      assign(i) == Assign(program.phis[operands[i][1]].result, Leaf(EdgeName(operands[i][1])))
  IN [i \in DOMAIN operands |-> save(i)] \o [i \in DOMAIN operands |-> assign(i)]

(* The text of g, and after it the arms yes and no of a selection.         *)
Selected(g, value, yes, no) ==
  [no EXCEPT !.text = Append(g.text, IfElse(value, yes.text, @)), !.falls = @ \/ yes.falls]

RECURSIVE EmitStructuredRegion(_, _, _, _, _, _, _)
FollowEdge(program, copied, to, stop, loop, depth) ==
  LET continues == to = loop.next /\ ~loop.inContinuation
      onward == EmitStructuredRegion(program, copied, to, IF continues THEN NO_BLOCK ELSE stop,
                                     [loop EXCEPT !.inContinuation = @ \/ continues], depth + 1, 0)
  IN IF to = loop.merge THEN GlesStop(copied, "break")
     ELSE IF to = loop.header THEN GlesStop(copied, "continue")
     ELSE IF to = stop /\ ~continues THEN [copied EXCEPT !.falls = TRUE]
     ELSE [onward EXCEPT !.falls = @ /\ ~continues]
EmitBlockEdge(program, g, from, to, stop, loop, depth) ==
  FollowEdge(program, GlesAdd(g, Braces(EmitPhiAssignments(program, from, to))), to, stop, loop, depth)

GlesLooped(g, body) == [body EXCEPT !.text = Append(g.text, EndlessLoop(@, <<>>))]
GlesLoop(program, g, block, depth) ==
  LET t == program.term[block]
      inner == [header |-> block, next |-> t.next, merge |-> t.merge, inContinuation |-> FALSE]
  IN GlesLooped(g, EmitStructuredRegion(program, GlesFresh(g), block, NO_BLOCK, inner, depth + 1, 0))

(* Both arms end where the selection merges, if it has a merge.            *)
GlesElse(program, g, yes, block, stop, loop, depth) ==
  LET t == program.term[block]
  IN Selected(g, Leaf(t.arg), yes, EmitBlockEdge(program, GlesFresh(yes), block, t.to[2], stop, loop, depth))
GlesBranch(program, g, block, stop, loop, depth) ==
  GlesElse(program, g, EmitBlockEdge(program, GlesFresh(g), block, program.term[block].to[1], stop, loop, depth),
           block, stop, loop, depth)

(* if / else if / else over all the cases, the default last.               *)
RECURSIVE GlesCases(_, _, _, _, _, _)
GlesOtherCases(program, g, arm, block, item, loop, depth) ==
  LET t == program.term[block]
  IN IF item > Len(t.cases) THEN [arm EXCEPT !.text = g.text \o @]
     ELSE Selected(g, IsOneOf(Leaf(t.arg), <<t.cases[item]>>), arm,
                   GlesCases(program, GlesFresh(arm), block, item + 1, loop, depth))
GlesCases(program, g, block, item, loop, depth) ==
  LET t == program.term[block]
  IN GlesOtherCases(program, g, EmitBlockEdge(program, GlesFresh(g), block, t.to[item], t.merge, loop, depth),
                    block, item, loop, depth)

GlesCode(program, g, block) ==
  LET code == SelectSeq(program.code[block], LAMBDA ins : ins.op # "nop")
  IN [g EXCEPT !.text = @ \o [i \in DOMAIN code |-> EmitStatement(code[i])]]

(* The end of a block: the edges it takes.                                 *)
EmitEnd(program, g, block, stop, loop, depth) ==
  LET t == program.term[block]
      taken == IF t.op = "jump" THEN t.to[1] ELSE GetConstantTarget(t)
      onward == IF t.op = "jump" \/ t.merge = NO_BLOCK THEN stop ELSE t.merge
  IN IF t.op = "ret" THEN GlesStop(g, "return")
     ELSE IF taken # NO_BLOCK THEN EmitBlockEdge(program, g, block, taken, onward, loop, depth)
     ELSE IF t.op = "switch" THEN GlesCases(program, g, block, 1, loop, depth)
     ELSE GlesBranch(program, g, block, onward, loop, depth)

(* A loop, or a block with the edges it takes; what merges them follows.   *)
AfterRegion(program, written, block, stop, loop, depth, walked) ==
  LET t == program.term[block]
      opened == t.mark = "loop" /\ block # loop.header
      follows == t.merge # NO_BLOCK /\ written.fail = "" /\ (opened \/ written.falls)
  IN IF follows THEN EmitStructuredRegion(program, written, t.merge, stop, loop, depth, walked + 1) ELSE written
EmitStructuredRegion(program, g, block, stop, loop, depth, walked) ==
  LET t == program.term[block]
      opens == t.mark = "loop" /\ block # loop.header
      written == IF opens THEN GlesLoop(program, g, block, depth)
                 ELSE EmitEnd(program, GlesCode(program, g, block), block, stop, loop, depth)
  IN IF g.fail # "" THEN g
     ELSE IF depth > 2 * Len(program.code) + 1 THEN [g EXCEPT !.fail = "cannot structure this control-flow graph"]
     ELSE IF block \in {stop, NO_BLOCK} THEN [g EXCEPT !.falls = block = stop]
     ELSE IF walked >= Len(program.code) THEN [g EXCEPT !.fail = "unannotated control-flow cycle"]
     ELSE IF opens \/ IsConditional(t) THEN AfterRegion(program, written, block, stop, loop, depth, walked)
     ELSE written

(* Undefined registers start at zero; the others start as anything.        *)
GlesTextOf(program, g) == [text |-> g.text, zeroed |-> program.undef, declared |-> Regs \ program.undef, fail |-> g.fail]
EmitGles(program) ==
  GlesTextOf(program,
             EmitStructuredRegion(program, [text |-> <<>>, falls |-> TRUE, fail |-> ""], EntryBlock, NO_BLOCK, GlesOutside, 0, 0))
=============================================================================
