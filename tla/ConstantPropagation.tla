------------------------ MODULE ConstantPropagation ------------------------
(***************************************************************************)
(* The analysis of bwsl_constant_propagation.cpp on a stage in SSA form:   *)
(* sparse conditional constant propagation with a worklist of blocks and   *)
(* one of registers; the range of every register, narrowed by the branches *)
(* a block runs under and widened at phis; pinning of registers whose      *)
(* range is one number; and loops with constant inputs, which are run at   *)
(* compile time and whose header phis are pinned to their last values.     *)
(* It takes a step per worklist item, per block of a pass and per loop     *)
(* header.                                                                 *)
(* Behind the analysis are the rewrites of a stage: loads that see one     *)
(* store, identities, cheaper operations, dead code, folded branches.      *)
(*                                                                         *)
(* A program has, per block, its instructions [op, of, dest, args, lit]    *)
(* (of is the operands' scalar type) and its terminator                    *)
(* [op, arg, cases, to, mark, merge, next] (mark is the structure          *)
(* annotation, merge and next its merge block and its continue target),    *)
(* and the phis [block, result, from, vals, web] (web is the source        *)
(* variable), the undefined registers and the integer constants interned   *)
(* so far.                                                                 *)
(***************************************************************************)
EXTENDS IrValues, Dominance

CONSTANTS
  Functions,       \* programs with, in types, each register's scalar type and number of
                   \* components, in memory the registers with storage behind them, and
                   \* in room how many integer constants the pool takes
  WidenAfter,      \* WIDEN_AFTER
  MaxPasses,       \* passes over the blocks before the ranges are given up: 32
  MaxRounds,       \* rounds of folding loops: 16
  LoopBudget       \* LOOP_EVALUATION_BUDGET

VARIABLES
  fn,       \* the program as it was
  ir,       \* the program as it is
  stage,
  cursor,   \* position of the pass that runs, in its own order
  graph,    \* what the block graph builder left: preds, dom, idom, order, and the
            \* constraints of each block
  info,     \* FindDefinitions, BuildUseLists, FindReads
  sccp,     \* value, blocks, edges, blockWork, regWork, appended
  bounds,   \* ranges, changes, todo, changed, pass, again, ready
  fold      \* pinned, operand, folded, round, any, final

analysisVars == <<graph, info, sccp, bounds, fold>>

Blocks == DOMAIN fn.code
Regs == DOMAIN fn.types
Of(r) == fn.types[r].of
Count(r) == fn.types[r].n
Elems(s) == {s[k] : k \in DOMAIN s}
InOrder(S) == SelectSeq([k \in 1..(Cardinality(Regs) + Len(fn.code)) |-> k - 1], LAMBDA x : x \in S)
IsRegister(operand) == operand >= 0
SuccOf(program) == [b \in DOMAIN program.term |-> program.term[b].to]

ScalarTypes == {"int", "uint", "bool"}   \* IsFoldedType; the others are "struct" and "ptr"
Nop == [op |-> "nop", of |-> "int", dest |-> 0, args |-> <<>>, lit |-> <<>>]
IsTerminatorPlace(q) == q[2] > Len(ir.code[q[1]])
Ins(q) == ir.code[q[1]][q[2]]

(* Every instruction, in order.                                            *)
PlacesOf(program) ==
  FlattenSeq([b \in DOMAIN program.code |-> [i \in DOMAIN program.code[b] |-> <<b, i>>]])
Defines(ins) == ins.op \notin {"nop", "out", "lstore", "poke"}

----------------------------------------------------------------------------
(* The constant pool: interning fails when an integer finds it full.       *)

CanIntern(program, type, bits) ==
  type = "bool" \/ <<type, bits>> \in program.pool \/ Cardinality(program.pool) < fn.room
Intern(program, type, bits) ==
  IF type = "bool" THEN program ELSE [program EXCEPT !.pool = @ \cup {<<type, bits>>}]
OperandType(operand, type) == IF IsRegister(operand) THEN Of(operand) ELSE type
ConstantsIn(program) ==
  UNION {{<<Ins(q).of, ConstantBits(a)>> : a \in {x \in Elems(Ins(q).args) : IsConstant(x)}} :
           q \in Elems(PlacesOf(program))}

----------------------------------------------------------------------------
(* The block graph.                                                        *)

RECURSIVE Finish(_, _, _)
Finish(g, walk, b) ==
  IF b \in walk.seen THEN walk
  ELSE LET inner == FoldLeft(LAMBDA w, s : Finish(g, w, s), [walk EXCEPT !.seen = @ \cup {b}], g[b])
       IN [inner EXCEPT !.order = Append(@, b)]

GraphOf(g) ==
  LET reached == Reachable(g)
      dom == {e \in (DOMAIN g) \X reached : Dominates(g, e[1], e[2])} \cup {<<b, b>> : b \in DOMAIN g}
      strict(b) == {a \in DOMAIN g : <<a, b>> \in dom /\ a # b}
  IN [preds |-> [b \in DOMAIN g |-> PredecessorsOf(g, b)],
      dom |-> dom,
      idom |-> [b \in DOMAIN g |-> IF strict(b) = {} \/ b \notin reached THEN NO_BLOCK
                                   ELSE CHOOSE a \in strict(b) : \A c \in strict(b) : <<c, a>> \in dom],
      order |-> Reverse(Finish(g, [seen |-> {}, order |-> <<>>], EntryBlock).order
                          \o SelectSeq([b \in DOMAIN g |-> b], LAMBDA b : b \notin reached)),
      constraints |-> [b \in DOMAIN g |-> <<>>]]

----------------------------------------------------------------------------
(* FindDefinitions, BuildUseLists, FindReads.  A definition is the place   *)
(* of an instruction, <<0, k>> for the k-th phi, <<>> for none.            *)

Uses(place) == IF IsTerminatorPlace(place) THEN <<ir.term[place[1]].arg>> ELSE Ins(place).args
AllPlaces == FlattenSeq([b \in Blocks |-> [i \in 1..(Len(ir.code[b]) + 1) |-> <<b, i>>]])

InfoOf(program, straight) ==
  LET places == PlacesOf(program)
      defs(r) == SelectSeq(places, LAMBDA q : Defines(Ins(q)) /\ Ins(q).dest = r)
      phis(r) == SelectSeq([k \in DOMAIN program.phis |-> k], LAMBDA k : program.phis[k].result = r)
      count(r) == Len(defs(r)) + Len(phis(r))
      users(r) == SelectSeq(AllPlaces, LAMBDA q : r \in Elems(Uses(q)))
      phiUsers(r) == SelectSeq([k \in DOMAIN program.phis |-> k], LAMBDA k : r \in Elems(program.phis[k].vals))
  IN [definition |-> [r \in Regs |-> IF phis(r) # <<>> THEN <<0, Last(phis(r))>>
                                     ELSE IF defs(r) # <<>> THEN Last(defs(r)) ELSE <<>>],
      count |-> [r \in Regs |-> count(r)],
      straight |-> straight,
      tracked |-> {r \in Regs : /\ straight \/ count(r) = 1
                               /\ r \notin program.undef /\ r \notin fn.memory /\ Of(r) \in ScalarTypes},
      uses |-> [r \in Regs |-> users(r) \o [k \in DOMAIN phiUsers(r) |-> <<0, phiUsers(r)[k]>>]],
      read |-> {r \in Regs : \/ users(r) # <<>> \/ phiUsers(r) # <<>>
                             \/ \E q \in Elems(places) : Ins(q).op = "out" /\ Ins(q).dest = r}]

IsPhiDefinition(r) == info.definition[r] # <<>> /\ info.definition[r][1] = 0
PhisOf(b) == SelectSeq([k \in DOMAIN ir.phis |-> k], LAMBDA k : ir.phis[k].block = b)

----------------------------------------------------------------------------
(* Propagation.  s is the lattice with its worklists.                      *)

Bottom == [value |-> [r \in Regs |-> <<>>], blocks |-> {EntryBlock}, edges |-> {},
           blockWork |-> <<EntryBlock>>, regWork |-> <<>>, appended |-> 0]

GetValue(s, operand) ==
  IF IsConstant(operand) THEN <<ConstantBits(operand)>>
  ELSE IF operand \in info.tracked THEN s.value[operand]
  ELSE Overdefined(Count(operand))

UpdateRegister(s, r, v) ==
  LET next == Meet(s.value[r], v)
  IN IF next = s.value[r] THEN s
     ELSE [s EXCEPT !.value[r] = next, !.regWork = Append(@, r), !.appended = @ + 1]

(* An undefined operand stands for a path that never assigned the          *)
(* variable: any value will do for it.                                     *)
EvaluatePhi(s, k) ==
  LET phi == ir.phis[k]
      counts(j) == <<phi.from[j], phi.block>> \in s.edges /\ phi.vals[j] \notin ir.undef
      of == [j \in DOMAIN phi.vals |-> IF counts(j) THEN GetValue(s, phi.vals[j]) ELSE <<>>]
  IN IF phi.result \notin info.tracked THEN s
     ELSE IF phi.result \in DOMAIN fold.pinned THEN UpdateRegister(s, phi.result, fold.pinned[phi.result])
     ELSE UpdateRegister(s, phi.result, FoldLeft(Meet, <<>>, of))

(* A new edge into a block already visited can change its phis.            *)
MarkEdgeExecutable(s, from, to) ==
  LET marked == [s EXCEPT !.edges = @ \cup {<<from, to>>}]
  IN IF <<from, to>> \in s.edges THEN s
     ELSE IF to \notin s.blocks THEN [marked EXCEPT !.blocks = @ \cup {to}, !.blockWork = Append(@, to)]
     ELSE FoldLeft(EvaluatePhi, marked, PhisOf(to))

(* Where a branch or a switch goes for a value of its operand.             *)
TargetFor(t, bits) ==
  IF t.op = "branch" THEN IF bits # 0 THEN t.to[1] ELSE t.to[2]
  ELSE IF bits \in Elems(t.cases) THEN t.to[CHOOSE c \in DOMAIN t.cases :
                                              t.cases[c] = bits /\ \A d \in 1..(c - 1) : t.cases[d] # bits]
  ELSE Last(t.to)
IsConditional(t) == t.op \in {"branch", "switch"}

VisitTerminator(s, b) ==
  LET t == ir.term[b]
      v == GetValue(s, t.arg)
  IN IF IsConditional(t) /\ IsUndefined(v) THEN s
     ELSE IF IsConditional(t) /\ AllKnown(v) THEN MarkEdgeExecutable(s, b, TargetFor(t, v[1]))
     ELSE FoldLeft(LAMBDA u, to : MarkEdgeExecutable(u, b, to), s, t.to)

VisitInstruction(s, place) ==
  LET ins == Ins(place)
      in == [k \in DOMAIN ins.args |-> GetValue(s, ins.args[k])]
  IN IF IsTerminatorPlace(place) THEN VisitTerminator(s, place[1])
     ELSE IF ~Defines(ins) \/ ins.dest \notin info.tracked \/ info.definition[ins.dest] # place THEN s
     ELSE IF ins.dest \in DOMAIN fold.pinned THEN UpdateRegister(s, ins.dest, fold.pinned[ins.dest])
     ELSE UpdateRegister(s, ins.dest, EvaluateInstruction(ins, in, Count(ins.dest)))

VisitBlock(s, b) ==
  LET places == [i \in 1..(Len(ir.code[b]) + 1) |-> <<b, i>>]
  IN FoldLeft(VisitInstruction, FoldLeft(EvaluatePhi, s, PhisOf(b)), places)

(* Blocks first, then the uses of a register whose value changed.          *)
PropagateBlock ==
  /\ stage = "propagate" /\ sccp.blockWork # <<>>
  /\ sccp' = VisitBlock([sccp EXCEPT !.blockWork = Tail(@)], Head(sccp.blockWork))
  /\ UNCHANGED <<fn, ir, stage, cursor, graph, info, bounds, fold>>

PropagateRegister ==
  /\ stage = "propagate" /\ sccp.blockWork = <<>> /\ sccp.regWork # <<>>
  /\ LET runs(u) == IF u[1] = 0 THEN ir.phis[u[2]].block \in sccp.blocks ELSE u[1] \in sccp.blocks
         users == info.uses[Head(sccp.regWork)]
         visit(s, u) == IF u[1] = 0
                          THEN IF ir.phis[u[2]].block \in s.blocks THEN EvaluatePhi(s, u[2]) ELSE s
                          ELSE IF u[1] \in s.blocks THEN VisitInstruction(s, u) ELSE s
     IN sccp' = FoldLeft(visit, [sccp EXCEPT !.regWork = Tail(@)], users)
  /\ UNCHANGED <<fn, ir, stage, cursor, graph, info, bounds, fold>>

----------------------------------------------------------------------------
(* Ranges.                                                                 *)

HasRange(r) == r \in info.tracked
Unknown == [ranges |-> [r \in Regs |-> [c \in 1..Count(r) |-> <<>>]], changes |-> [r \in Regs |-> 0],
            todo |-> <<>>, changed |-> TRUE, pass |-> 0, again |-> FALSE, ready |-> FALSE]

(* What a condition being so says of the registers it compares: through a  *)
(* negation, and through a conjunction that holds and a disjunction that   *)
(* does not, four levels deep.                                             *)
RECURSIVE ConditionConstraints(_, _, _)
ConditionConstraints(condition, holds, depth) ==
  LET known == IsRegister(condition) /\ info.count[condition] = 1 /\ ~IsPhiDefinition(condition)
      ins == Ins(info.definition[condition])
      through(a, h) == ConditionConstraints(a, h, depth + 1)
      on(r, op, other) == IF IsRegister(r) /\ Count(r) = 1
                            THEN <<[reg |-> r, op |-> op, of |-> ins.of, other |-> other, holds |-> holds]>>
                            ELSE <<>>
  IN IF depth > 4 \/ ~known THEN <<>>
     ELSE CASE ins.op = "not" -> through(ins.args[1], ~holds)
            [] (ins.op = "and" /\ holds) \/ (ins.op = "or" /\ ~holds) ->
                 through(ins.args[1], holds) \o through(ins.args[2], holds)
            [] ins.op = "copy" -> through(ins.args[1], holds)
            [] ins.op \in Comparisons ->
                 on(ins.args[1], ins.op, ins.args[2]) \o on(ins.args[2], SwapComparison(ins.op), ins.args[1])
            [] OTHER -> <<>>

(* The constraints of the branch that is the block's only way in, latest   *)
(* first.                                                                  *)
OwnConstraints(b) ==
  IF Len(graph.preds[b]) # 1 THEN <<>>
  ELSE LET t == ir.term[graph.preds[b][1]]
       IN IF t.op # "branch" \/ t.to[1] = t.to[2] THEN <<>>
          ELSE Reverse(ConditionConstraints(t.arg, b = t.to[1], 0))

(* A block's constraints: its own and its dominators'.                     *)
RECURSIVE BuildConstraints(_)
BuildConstraints(b) ==
  OwnConstraints(b) \o IF graph.idom[b] = NO_BLOCK THEN <<>> ELSE BuildConstraints(graph.idom[b])

(* A known component, else what the ranges say; <<>> when they say nothing *)
(* yet.                                                                    *)
GetStoredRange(ranges, operand, type, c) ==
  IF IsConstant(operand) THEN PointRange(type, ConstantBits(operand))
  ELSE IF operand \notin info.tracked THEN FullRange(Of(operand))
  ELSE IF ~IsUndefined(sccp.value[operand]) /\ sccp.value[operand][c] # Varies
    THEN PointRange(Of(operand), sccp.value[operand][c])
  ELSE IF info.straight /\ ~IsKnown(ranges[operand][c]) THEN FullRange(Of(operand))
  ELSE ranges[operand][c]

GetOperandRange(ranges, operand, type, c, b) ==
  LET apply(range, k) ==
        IF k.reg # operand THEN range
        ELSE ApplyRelation(range, k.op, GetStoredRange(ranges, k.other, k.of, 1), k.holds, Of(operand))
  IN IF IsConstant(operand) THEN GetStoredRange(ranges, operand, type, c)
     ELSE FoldLeft(apply, GetStoredRange(ranges, operand, type, c), graph.constraints[b])

WidthOf(operand) == IF IsConstant(operand) THEN 1 ELSE Count(operand)

(* The argument of a construction that gives a component, and which of its *)
(* components; a lone scalar fills the vector, the rest is zero.           *)
ConstructSource(ins, c) ==
  LET before(k) == FoldLeft(LAMBDA n, a : n + WidthOf(a), 0, SubSeq(ins.args, 1, k - 1))
      from == {k \in DOMAIN ins.args : c > before(k) /\ c <= before(k) + WidthOf(ins.args[k])}
  IN IF Len(ins.args) = 1 /\ WidthOf(ins.args[1]) = 1 THEN <<ins.args[1], 1>>
     ELSE IF from = {} THEN <<C(0), 1>>
     ELSE LET k == CHOOSE x \in from : TRUE IN <<ins.args[k], c - before(k)>>

ModeledOps == {"add", "sub", "mul", "neg", "abs", "min", "max", "clamp", "div", "mod", "and", "shr"}

(* One component of a result from its operands' ranges in the block; <<>>  *)
(* when one of those it reads is not known yet.                            *)
ResultRange(ins, c, in, Read(_, _)) ==
  LET decided == DecideComparison(ins.op, in[1], in[2])
      unknown == \E k \in DOMAIN in : ~IsKnown(in[k])
      source == ConstructSource(ins, c)
  IN CASE ins.op = "input" -> Normalize(ins.lit, ins.of)
       [] ins.op = "copy" -> in[1]
       [] ins.op = "extract" -> Read(ins.args[1], ins.lit[1])
       [] ins.op = "insert" -> IF c = ins.lit[1] THEN Read(ins.args[2], 1) ELSE Read(ins.args[1], c)
       [] ins.op = "construct" -> Read(source[1], source[2])
       [] ins.op = "shuffle" -> IF ins.lit[c] <= WidthOf(ins.args[1]) THEN Read(ins.args[1], ins.lit[c])
                                ELSE Read(ins.args[2], ins.lit[c] - WidthOf(ins.args[1]))
       [] ins.op = "select" -> IF unknown THEN <<>>
                               ELSE IF IsPoint(in[3]) THEN IF Low(in[3]) # 0 THEN in[2] ELSE in[1]
                               ELSE Hull(in[1], in[2])
       [] ins.op \in Comparisons -> IF unknown THEN <<>>
                                    ELSE IF decided = <<>> THEN FullRange("bool") ELSE <<decided[1], decided[1]>>
       [] ins.op \in ModeledOps /\ ins.of # "bool" -> IF unknown THEN <<>> ELSE OperationRange(ins.op, ins.of, in)
       [] OTHER -> FullRange(Of(ins.dest))

(* The ranges of an instruction's operands for a component of its result.  *)
OperandRanges(ranges, ins, c, b) ==
  [k \in DOMAIN ins.args |->
     GetOperandRange(ranges, ins.args[k], ins.of, IF WidthOf(ins.args[k]) = 1 THEN 1 ELSE c, b)]
EvaluateComponentRange(ranges, ins, c, b) ==
  ResultRange(ins, c, OperandRanges(ranges, ins, c, b), LAMBDA operand, k : GetOperandRange(ranges, operand, ins.of, k, b))

EvaluatePhiRange(ranges, k, c) ==
  LET phi == ir.phis[k]
      counts(j) == <<phi.from[j], phi.block>> \in sccp.edges /\ phi.vals[j] \notin ir.undef
  IN FoldLeft(Hull, <<>>, [j \in DOMAIN phi.vals |->
                             IF counts(j) THEN GetOperandRange(ranges, phi.vals[j], Of(phi.result), c, phi.from[j])
                             ELSE <<>>])

(* An end of a phi's range that keeps moving goes to the end of the type.  *)
StoreRange(f, r, c, range) ==
  LET stored == f.ranges[r][c]
      next == Hull(stored, range)
      widens == IsPhiDefinition(r) /\ IsKnown(stored) /\ f.changes[r] >= WidenAfter
      widened == <<IF Low(next) < Low(stored) THEN TypeMinimum(Of(r)) ELSE Low(next),
                   IF High(next) > High(stored) THEN TypeMaximum(Of(r)) ELSE High(next)>>
  IN IF ~IsKnown(range) \/ next = stored THEN f
     ELSE [f EXCEPT !.ranges[r][c] = IF widens THEN widened ELSE next, !.changes[r] = @ + 1, !.changed = TRUE]

RangePassOver(f, b) ==
  LET each(g, r, evaluate(_, _)) ==
        FoldLeft(LAMBDA h, c : StoreRange(h, r, c, evaluate(h.ranges, c)), g, [c \in 1..Count(r) |-> c])
      phi(g, k) == IF ~HasRange(ir.phis[k].result) THEN g
                   ELSE each(g, ir.phis[k].result, LAMBDA ranges, c : EvaluatePhiRange(ranges, k, c))
      instruction(g, i) ==
        LET ins == ir.code[b][i]
        IN IF ~Defines(ins) \/ ~HasRange(ins.dest) \/ info.definition[ins.dest] # <<b, i>> THEN g
           ELSE each(g, ins.dest, LAMBDA ranges, c : EvaluateComponentRange(ranges, ins, c, b))
  IN FoldLeft(instruction, FoldLeft(phi, f, PhisOf(b)), [i \in DOMAIN ir.code[b] |-> i])

BeginRanges ==
  /\ stage = "propagate" /\ sccp.blockWork = <<>> /\ sccp.regWork = <<>>
  /\ stage' = "ranges"
  /\ graph' = [graph EXCEPT !.constraints = [b \in Blocks |-> BuildConstraints(b)]]
  /\ bounds' = Unknown
  /\ UNCHANGED <<fn, ir, cursor, info, sccp, fold>>

SettlesRanges == stage = "ranges" /\ bounds.todo = <<>>

BeginPass ==
  /\ SettlesRanges /\ bounds.changed /\ bounds.pass < MaxPasses
  /\ bounds' = [bounds EXCEPT !.changed = FALSE, !.pass = @ + 1,
                              !.todo = SelectSeq(graph.order, LAMBDA b : b \in sccp.blocks)]
  /\ UNCHANGED <<fn, ir, stage, cursor, graph, info, sccp, fold>>

IterateRanges ==
  /\ stage = "ranges" /\ bounds.todo # <<>>
  /\ bounds' = RangePassOver([bounds EXCEPT !.todo = Tail(@)], Head(bounds.todo))
  /\ UNCHANGED <<fn, ir, stage, cursor, graph, info, sccp, fold>>

AfterRanges ==
  /\ stage' = IF fold.final THEN "rewrite" ELSE "pin"
  /\ cursor' = 1
  /\ UNCHANGED <<fn, ir, graph, info, sccp, fold>>

DefinedIn(r) == IF IsPhiDefinition(r) THEN ir.phis[info.definition[r][2]].block ELSE info.definition[r][1]

(* A register without a range read something that never got one, and a phi *)
(* took it for no value at all: it counts as anything, and the ranges are  *)
(* worked out again.                                                       *)
FillUnknown ==
  /\ SettlesRanges /\ ~bounds.changed
  /\ LET bare == {r \in Regs : /\ HasRange(r) /\ info.definition[r] # <<>> /\ DefinedIn(r) \in sccp.blocks
                               /\ \E c \in 1..Count(r) : bounds.ranges[r][c] = <<>>}
     IN IF bare = {} \/ bounds.again THEN bounds' = [bounds EXCEPT !.ready = TRUE] /\ AfterRanges
        ELSE /\ bounds' = [bounds EXCEPT
                  !.ranges = [r \in Regs |-> [c \in 1..Count(r) |->
                                IF r \in bare /\ @[r][c] = <<>> THEN FullRange(Of(r)) ELSE @[r][c]]],
                  !.changes = [r \in Regs |-> IF r \in bare THEN WidenAfter ELSE @[r]],
                  !.changed = TRUE, !.pass = 0, !.again = TRUE]
             /\ UNCHANGED <<fn, ir, stage, cursor, graph, info, sccp, fold>>

(* Ranges that did not settle are not trusted.                             *)
GiveUpRanges ==
  /\ SettlesRanges /\ bounds.changed /\ bounds.pass = MaxPasses
  /\ bounds' = [bounds EXCEPT !.ready = FALSE]
  /\ AfterRanges

(* Registers whose range is one number become constants; a phi then takes  *)
(* the constant on every edge.                                             *)
PinPointRanges ==
  /\ stage = "pin"
  /\ LET points(r) == /\ HasRange(r) /\ r \notin DOMAIN fold.pinned /\ ~AllKnown(sccp.value[r])
                      /\ info.definition[r] # <<>> /\ (IsPhiDefinition(r) \/ DefinedIn(r) \in sccp.blocks)
                      /\ \A c \in 1..Count(r) : IsPoint(bounds.ranges[r][c])
                      /\ IsPhiDefinition(r) => Count(r) = 1
         bitsOf(r) == [c \in 1..Count(r) |-> BitsOf(Low(bounds.ranges[r][c]))]
         pin(s, r) ==
           IF Count(r) = 1 /\ ~CanIntern(s.ir, Of(r), bitsOf(r)[1]) THEN s
           ELSE [ir |-> IF Count(r) = 1 THEN Intern(s.ir, Of(r), bitsOf(r)[1]) ELSE s.ir,
                 fold |-> [s.fold EXCEPT !.pinned = @ @@ (r :> bitsOf(r)), !.any = TRUE,
                             !.operand = IF IsPhiDefinition(r)
                                           THEN (info.definition[r][2] :> C(bitsOf(r)[1])) @@ @ ELSE @]]
         all == FoldLeft(pin, [ir |-> ir, fold |-> fold],
                         InOrder(IF bounds.ready THEN {r \in Regs : points(r)} ELSE {}))
     IN ir' = all.ir /\ fold' = all.fold
  /\ stage' = "loops" /\ cursor' = 1
  /\ UNCHANGED <<fn, graph, info, sccp, bounds>>

----------------------------------------------------------------------------
(* Loops.                                                                  *)

Latches(h) == {q \in Elems(graph.preds[h]) : <<h, q>> \in graph.dom}
HasBackEdge(h) == Latches(h) # {}

(* CollectLoop: the blocks that reach a back edge without passing through  *)
(* the header.                                                             *)
NaturalLoop(h) ==
  LET grown[n \in 0..Len(fn.code)] ==
        IF n = 0 THEN Latches(h) \ {h}
        ELSE LET inside == grown[n - 1] IN inside \cup UNION {Elems(graph.preds[b]) \ {h} : b \in inside}
  IN {h} \cup grown[Len(fn.code)]

IsUnreadCopy(ins) == ins.op = "copy" /\ ins.dest \notin info.tracked /\ ins.dest \notin info.read

IsPureLoop(loop) ==
  /\ \A k \in DOMAIN ir.phis : ir.phis[k].block \in loop => ir.phis[k].result \in info.tracked
  /\ \A b \in loop : \A i \in DOMAIN ir.code[b] :
       LET ins == ir.code[b][i]
       IN ins.op = "nop" \/ (IsLoopValueOp(ins.op) /\ (ins.dest \in info.tracked \/ IsUnreadCopy(ins)))

(* One visit of a block by RunLoop: the phis read their operands before    *)
(* any is assigned; a value that is not a constant ends the run.           *)
LoopVisit(loop, run) ==
  LET phis == PhisOf(run.block)
      incoming(k) == LET js == {j \in DOMAIN ir.phis[k].from : ir.phis[k].from[j] = run.from}
                         v == ir.phis[k].vals[CHOOSE j \in js : \A i \in js : j <= i]
                     IN IF js = {} \/ v \in ir.undef THEN <<>> ELSE GetValue(run, v)
      bad == \E k \in Elems(phis) : Varies \in Elems(incoming(k))
      entered == [run EXCEPT !.value = [r \in Regs |->
                    IF \E k \in Elems(phis) : ir.phis[k].result = r
                      THEN incoming(CHOOSE k \in Elems(phis) : ir.phis[k].result = r) ELSE @[r]]]
      evaluate(s, i) ==
        LET ins == ir.code[run.block][i]
            v == EvaluateInstruction(ins, [k \in DOMAIN ins.args |-> GetValue(s, ins.args[k])], Count(ins.dest))
        IN IF s.result # "runs" \/ ~IsLoopValueOp(ins.op) \/ ins.dest \notin info.tracked THEN s
           ELSE IF s.budget = 0 \/ ~AllKnown(v) THEN [s EXCEPT !.result = "fails"]
           ELSE [s EXCEPT !.budget = @ - 1, !.value[ins.dest] = v]
      done == FoldLeft(evaluate, entered, [i \in DOMAIN ir.code[run.block] |-> i])
      t == ir.term[run.block]
      condition == GetValue(done, t.arg)
      stuck == done.budget = 0 \/ t.op = "ret" \/ (IsConditional(t) /\ ~AllKnown(condition))
      next == IF IsConditional(t) THEN TargetFor(t, condition[1]) ELSE t.to[1]
  IN IF bad THEN [run EXCEPT !.result = "fails"]
     ELSE IF done.result # "runs" THEN done
     ELSE IF stuck THEN [done EXCEPT !.result = "fails"]
     ELSE [done EXCEPT !.budget = @ - 1, !.from = run.block, !.block = next,
                       !.result = IF next \in loop THEN "runs" ELSE "leaves"]

RECURSIVE RunLoop(_, _)
RunLoop(loop, run) == IF run.result # "runs" THEN run ELSE RunLoop(loop, LoopVisit(loop, run))

DefinedInLoop(loop) ==
  {ir.phis[k].result : k \in {j \in DOMAIN ir.phis : ir.phis[j].block \in loop}}
    \cup {ir.code[q[1]][q[2]].dest : q \in {x \in Elems(PlacesOf(ir)) :
            x[1] \in loop /\ IsLoopValueOp(Ins(x).op) /\ Ins(x).dest \in info.tracked}}

(* FoldLoop: the header's phis are pinned to their values on the last      *)
(* visit when the loop ran through on constants from its one entry; a      *)
(* vector phi must not have changed, as it stays a phi of its entry        *)
(* operand.  A loop that does not fold loses its phis' pinned operands.    *)
FoldedWith(h, entry, run) ==
  LET entryOperand(k) == ir.phis[k].vals[CHOOSE j \in DOMAIN ir.phis[k].from : ir.phis[k].from[j] = entry]
      pin(s, k) ==
        LET r == ir.phis[k].result
            v == run.value[r]
            same == IsRegister(entryOperand(k)) /\ entryOperand(k) \in info.tracked /\ sccp.value[entryOperand(k)] = v
        IN IF ~s.ok \/ ~AllKnown(v) THEN s
           ELSE IF Count(r) = 1
             THEN IF CanIntern(s.ir, Of(r), v[1])
                    THEN [s EXCEPT !.ir = Intern(@, Of(r), v[1]), !.operand = (k :> C(v[1])) @@ @]
                    ELSE [s EXCEPT !.ok = FALSE]
           ELSE [s EXCEPT !.ok = same, !.operand = (k :> entryOperand(k)) @@ @]
      phis == PhisOf(h)
      all == FoldLeft(pin, [ir |-> ir, operand |-> fold.operand, ok |-> TRUE], phis)
      known == {ir.phis[k].result : k \in {j \in Elems(phis) : AllKnown(run.value[ir.phis[j].result])}}
      unpinned(f) == [k \in DOMAIN f \ Elems(phis) |-> f[k]]
  IN IF run.result = "leaves" /\ all.ok
       THEN [ir |-> all.ir,
             fold |-> [fold EXCEPT !.pinned = [r \in known |-> run.value[r]] @@ @, !.operand = all.operand,
                                   !.folded = @ \cup {h}, !.any = TRUE]]
     ELSE [ir |-> IF run.result = "leaves" THEN all.ir ELSE ir, fold |-> [fold EXCEPT !.operand = unpinned(@)]]

FoldedLoop(h) ==
  LET loop == NaturalLoop(h)
      entries == {q \in Elems(graph.preds[h]) \ loop : <<q, h>> \in sccp.edges}
      entry == CHOOSE q \in entries : TRUE
      tried == Latches(h) \ {h} # {} /\ IsPureLoop(loop) /\ Cardinality(entries) = 1
      start == [value |-> [r \in Regs |-> IF r \in DefinedInLoop(loop) THEN <<>> ELSE sccp.value[r]],
                from |-> entry, block |-> h, budget |-> LoopBudget, result |-> "runs"]
  IN IF tried THEN FoldedWith(h, entry, RunLoop(loop, start)) ELSE [ir |-> ir, fold |-> fold]

FoldLoop ==
  /\ stage = "loops" /\ cursor <= Len(fn.code)
  /\ IF cursor \in sccp.blocks \ fold.folded /\ HasBackEdge(cursor)
       THEN \E folded \in {FoldedLoop(cursor)} : ir' = folded.ir /\ fold' = folded.fold
       ELSE UNCHANGED <<ir, fold>>
  /\ cursor' = cursor + 1
  /\ UNCHANGED <<fn, stage, graph, info, sccp, bounds>>

(* PropagateWithLoops: again with the results of what folded, and ranges   *)
(* for the rewrites when nothing did.                                      *)
NextRound ==
  /\ stage = "loops" /\ cursor > Len(fn.code)
  /\ LET again == fold.any
     IN /\ sccp' = IF again THEN Bottom ELSE sccp
        /\ stage' = "propagate"
        /\ fold' = [fold EXCEPT !.any = FALSE, !.round = @ + 1,
                                !.final = ~again \/ fold.round + 1 = MaxRounds]
  /\ UNCHANGED <<fn, ir, cursor, graph, info, bounds>>

----------------------------------------------------------------------------
(* ForwardLocalStores: a load of a field of a local struct becomes a copy  *)
(* of the value every path stored there last.  A field is named by an      *)
(* address, the register its chain of field pointers starts from and the   *)
(* field indices; what a block has stored is a bounded sequence of         *)
(* addresses with their values, oldest first.                              *)

CONSTANT LocalStoresTracked   \* LOCAL_STORES_TRACKED

PointerOps == {"varptr", "field", "index"}
KeepsLocalMemory(op) == op # "poke"
Straight(program) == Len(program.code) = 1

DefinitionsIn(program) ==
  {q \in Elems(PlacesOf(program)) : Defines(program.code[q[1]][q[2]])}
InsOf(program, q) == program.code[q[1]][q[2]]

(* What the pass knows of the registers before it walks.  Copies and phis  *)
(* of pointers are pointers too, and selects of them.                      *)
RegistersOf(program) ==
  LET defs == DefinitionsIn(program)
      by(r) == {q \in defs : InsOf(program, q).dest = r}
      phis(r) == {k \in DOMAIN program.phis : program.phis[k].result = r}
      sources(r) ==
        UNION ({{InsOf(program, q).args[1]} : q \in {x \in by(r) : InsOf(program, x).op = "copy"}}
               \cup {{InsOf(program, q).args[2], InsOf(program, q).args[3]} :
                        q \in {x \in by(r) : InsOf(program, x).op = "select"}}
               \cup {Elems(program.phis[k].vals) : k \in phis(r)})
      direct == {r \in Regs : \E q \in by(r) : InsOf(program, q).op \in PointerOps}
      grown[n \in 0..Cardinality(Regs)] ==
        IF n = 0 THEN direct
        ELSE LET known == grown[n - 1] IN known \cup {r \in Regs : sources(r) \cap known # {}}
  IN [addressed |-> {InsOf(program, q).args[1] : q \in {x \in defs : InsOf(program, x).op \in PointerOps}},
      count |-> [r \in Regs |-> Cardinality(by(r)) + 2 * Cardinality(phis(r))],
      pointerLike |-> grown[Cardinality(Regs)],
      definedBy |-> [r \in Regs |-> IF by(r) = {} THEN Nop ELSE InsOf(program, CHOOSE q \in by(r) : TRUE)]]

(* The address a field pointer register holds, <<>> when it is not one: it *)
(* is assigned once, by a field pointer of a struct or of a pointer        *)
(* assigned once.                                                          *)
RECURSIVE Resolve(_, _, _)
Resolve(regs, r, depth) ==
  LET ins == regs.definedBy[r]
      base == ins.args[1]
      parent == Resolve(regs, base, depth + 1)
  IN IF depth > 4 \/ regs.count[r] # 1 \/ ins.op # "field" THEN <<>>
     ELSE IF parent # <<>> THEN IF Len(parent) < 5 THEN Append(parent, ins.lit[1]) ELSE <<>>
     ELSE IF base \notin regs.pointerLike \/ regs.count[base] = 1 THEN <<base, ins.lit[1]>>
     ELSE <<>>

(* Addresses of one root whose paths part.                                 *)
Disjoint(a, b) ==
  a[1] = b[1] /\ \E d \in 2..Lesser(Len(a), Len(b)) : a[d] # b[d]

(* Two structs are separate memory; a pointer may point to any struct.     *)
Separate(regs, a, b) ==
  Disjoint(a, b) \/ (a[1] # b[1] /\ a[1] \notin regs.pointerLike /\ b[1] \notin regs.pointerLike)

(* A store forgets what overlaps it and, when its value stays what it is,  *)
(* is remembered; the oldest goes when there is no room.                   *)
Store(program, regs, stored, ins) ==
  LET target == Resolve(regs, ins.args[1], 0)
      value == ins.args[2]
      kept == SelectSeq(stored, LAMBDA s : Separate(regs, s.address, target))
      room == IF Len(kept) = LocalStoresTracked THEN Tail(kept) ELSE kept
      forwardable == IsConstant(value) \/ /\ value \notin regs.addressed \cup regs.pointerLike \cup fn.memory
                                          /\ Straight(program) \/ regs.count[value] = 1
  IN IF target = <<>> THEN <<>>
     ELSE IF forwardable THEN Append(room, [address |-> target, value |-> value]) ELSE kept

(* The load as it becomes: a copy of the stored value where the backends   *)
(* can alias it.                                                           *)
ForwardedLoad(regs, stored, ins) ==
  LET address == Resolve(regs, ins.args[1], 0)
      same == SelectSeq(stored, LAMBDA s : s.address = address)
      value == same[1].value
      fits == IF IsConstant(value) THEN Count(ins.dest) = 1 /\ ins.dest \notin fn.memory
              ELSE fn.types[value] = fn.types[ins.dest] /\ {value, ins.dest} \cap fn.memory = {}
  IN IF address = <<>> \/ same = <<>> \/ ~fits THEN ins
     ELSE [ins EXCEPT !.op = "copy", !.args = <<value>>, !.lit = <<>>]

(* Mutant of AfterDefinition: a value that changes stays remembered.       *)
KeepsValue(regs, stored, r) == SelectSeq(stored, LAMBDA s : s.address[1] # r)

(* Assigning a register forgets what depends on it; a struct a pointer     *)
(* takes the address of, the fields of pointers too.                       *)
AfterDefinition(regs, stored, r) ==
  SelectSeq(stored, LAMBDA s : /\ s.value # r /\ s.address[1] # r
                               /\ ~(r \in regs.addressed /\ s.address[1] \in regs.pointerLike))

(* One instruction; w is the program and what has been stored.             *)
WalkInstruction(regs, w, q, rewrite) ==
  LET read == InsOf(w.program, q)
      ins == IF rewrite /\ read.op = "lload" THEN ForwardedLoad(regs, w.stored, read) ELSE read
      stored == IF ins.op = "lstore" THEN Store(w.program, regs, w.stored, ins)
                ELSE IF KeepsLocalMemory(ins.op) THEN w.stored ELSE <<>>
  IN [program |-> [w.program EXCEPT !.code[q[1]][q[2]] = ins],
      stored |-> IF Defines(ins) THEN AfterDefinition(regs, stored, ins.dest) ELSE stored]

(* What all predecessors walked so far stored; out holds <<>> for a block  *)
(* not walked yet, which keeps everything.                                 *)
EntryStored(out, b) ==
  LET walked == SelectSeq(graph.preds[b], LAMBDA q : out[q] # <<>>)
      everywhere(s) == \A k \in DOMAIN walked : s \in Elems(out[walked[k]][1])
  IN IF b = EntryBlock \/ walked = <<>> THEN <<>>
     ELSE SelectSeq(out[walked[1]][1], everywhere)

WalkBlock(regs, w, b, rewrite) ==
  LET places == [i \in DOMAIN w.program.code[b] |-> <<b, i>>]
      start == [program |-> w.program, stored |-> EntryStored(w.out, b)]
      end == FoldLeft(LAMBDA s, q : WalkInstruction(regs, s, q, rewrite), start, places)
  IN [program |-> end.program, out |-> [w.out EXCEPT ![b] = <<end.stored>>]]

WalkAll(program, out, rewrite) ==
  LET regs == RegistersOf(program)
  IN FoldLeft(LAMBDA w, b : WalkBlock(regs, w, b, rewrite), [program |-> program, out |-> out], graph.order)

-----------------------------------------------------------------------------
(* Rewrites: what constant propagation makes of one instruction: constants *)
(* for operands, algebraic identities, component reads of vectors that were *)
(* just put together, and operations their operands' ranges decide         *)
(* (bwsl_constant_propagation.cpp and _ranges.inl).  An alternative that   *)
(* does not apply is Nop; the first that applies is taken.                 *)

FirstOf(alternatives, ins) ==
  LET apply == SelectSeq(alternatives, LAMBDA x : x # Nop)
  IN IF apply = <<>> THEN ins ELSE apply[1]

GetKnownValue(operand) == GetValue(sccp, operand)
IsSplat(operand, bits) ==
  LET v == GetKnownValue(operand) IN AllKnown(v) /\ \A c \in DOMAIN v : v[c] = bits

(* RewriteAs: the first operand is a register of the result's type, and a  *)
(* copy must not alias memory.                                             *)
As(ins, op, args) ==
  LET allowed == /\ IsRegister(args[1]) /\ fn.types[args[1]] = fn.types[ins.dest]
                 /\ op = "copy" => {args[1], ins.dest} \cap fn.memory = {}
  IN IF allowed THEN [ins EXCEPT !.op = op, !.args = args, !.lit = <<>>, !.of = Of(ins.dest)] ELSE Nop
CopyOf(ins, a) == As(ins, "copy", <<a>>)

MakeConstantCopy(ins, bits) ==
  IF ins.op = "copy" THEN ins
  ELSE [ins EXCEPT !.op = "copy", !.args = <<C(bits)>>, !.lit = <<>>, !.of = Of(ins.dest)]
ConstantCopy(program, ins, bits) ==
  IF Count(ins.dest) = 1 /\ CanIntern(program, Of(ins.dest), bits) THEN MakeConstantCopy(ins, bits) ELSE Nop

(* RewriteOperands: scalar registers with a constant value.                *)
IsRewritableOp(op) ==
  ~KeepsRegisterOperands(op) /\ (GetFoldArity(op) # 0 \/ IsPureValueOp(op) \/ op \in {"branch", "switch"})
RewriteOperand(program, operand) ==
  LET v == sccp.value[operand]
      replaces == /\ IsRegister(operand) /\ operand \in info.tracked
                  /\ AllKnown(v) /\ Count(operand) = 1 /\ CanIntern(program, Of(operand), v[1])
  IN IF replaces THEN [operand |-> C(v[1]), program |-> Intern(program, Of(operand), v[1])]
     ELSE [operand |-> operand, program |-> program]

RewriteOperands(program, q) ==
  LET ins == InsOf(program, q)
      next(w, k) == LET one == RewriteOperand(w.program, ins.args[k])
                    IN [program |-> one.program, args |-> Append(w.args, one.operand)]
      all == FoldLeft(next, [program |-> program, args |-> <<>>], [k \in DOMAIN ins.args |-> k])
  IN IF IsRewritableOp(ins.op) THEN [all.program EXCEPT !.code[q[1]][q[2]].args = all.args] ELSE program

RewriteCondition(program, b) ==
  LET one == RewriteOperand(program, program.term[b].arg)
  IN IF IsConditional(program.term[b]) THEN [one.program EXCEPT !.term[b].arg = one.operand] ELSE program

----------------------------------------------------------------------------
(* RewriteBitwiseIdentity and RewriteAlgebraicIdentity.                    *)

RewriteBitwiseIdentity(ins) ==
  LET keeps(k) == /\ IsConstant(ins.args[k]) /\ IsRegister(ins.args[3 - k])
                  /\ Keeps(ins.op, ins.of, ConstantBits(ins.args[k]))
  IN IF ins.op \notin {"and", "or", "xor"} THEN ins
     ELSE FirstOf([k \in 1..2 |-> IF keeps(k) THEN CopyOf(ins, ins.args[3 - k]) ELSE Nop], ins)

(* The instruction whose value a register holds where it is read, and      *)
(* whether a register still holds what it held there.                      *)
GetReachingDefinition(r) ==
  IF ~IsRegister(r) \/ IsPhiDefinition(r) \/ (~info.straight /\ info.count[r] # 1) THEN <<>>
  ELSE info.definition[r]
Earlier(p, q) == p[1] < q[1] \/ (p[1] = q[1] /\ p[2] < q[2])
IsUnchangedSince(r, q) ==
  /\ IsRegister(r) /\ r \notin fn.memory
  /\ IF info.straight THEN info.definition[r] = <<>> \/ Earlier(info.definition[r], q) ELSE info.count[r] <= 1

(* Where a component of a vector just put together came from, <<>> when    *)
(* that is not a register.                                                 *)
ComponentSource(program, q, c) ==
  LET ins == InsOf(program, q)
  IN CASE ins.op = "construct" -> ConstructSource(ins, c)
       [] ins.op = "insert" -> IF c = ins.lit[1] THEN <<ins.args[2], 1>> ELSE <<ins.args[1], c>>
       [] ins.op = "copy" -> <<ins.args[1], c>>
       [] ins.op = "shuffle" /\ ins.lit[c] <= Count(ins.args[1]) -> <<ins.args[1], ins.lit[c]>>
       [] OTHER -> <<C(0), 1>>

(* A component read follows the vector back, at most 8 steps.              *)
RECURSIVE RewriteComponentRead(_, _, _)
RewriteComponentRead(program, ins, steps) ==
  LET vector == ins.args[1]
      definition == GetReachingDefinition(vector)
      source == ComponentSource(program, definition, ins.lit[1])
      r == source[1]
  IN IF steps = 0 \/ vector \in fn.memory \/ definition = <<>> \/ ins.lit[1] > Count(vector) THEN ins
     ELSE IF ~IsUnchangedSince(r, definition) THEN ins
     ELSE IF Count(r) = 1 THEN FirstOf(<<CopyOf(ins, r)>>, ins)
     ELSE IF Of(r) # Of(ins.dest) THEN ins
     ELSE RewriteComponentRead(program, [ins EXCEPT !.args = <<r>>, !.lit = <<source[2]>>], steps - 1)

(* The operand of the one instruction op that defines a register.          *)
GetUnaryInput(program, r, op) ==
  LET q == info.definition[r]
  IN IF ~IsRegister(r) \/ r \in fn.memory \/ info.count[r] # 1 \/ IsPhiDefinition(r) THEN <<>>
     ELSE IF InsOf(program, q).op # op THEN <<>> ELSE <<InsOf(program, q).args[1]>>

AlgebraicAlternatives(program, ins) ==
  LET a == ins.args[1]
      b == ins.args[2]
      of == Of(ins.dest)
      when(condition, alternative) == IF condition THEN alternative ELSE Nop
      zero == ConstantCopy(program, ins, 0)
      inner == GetUnaryInput(program, a, ins.op)
      condition == GetKnownValue(ins.args[3])
      index(operand, n) == LET v == GetKnownValue(operand) IN AllKnown(v) /\ v[1] < n
  IN CASE ins.op = "add" -> <<when(IsSplat(b, 0), CopyOf(ins, a)), when(IsSplat(a, 0), CopyOf(ins, b))>>
       [] ins.op = "sub" -> <<when(a = b /\ IsRegister(a), zero), when(IsSplat(b, 0), CopyOf(ins, a)),
                              when(of = "int" /\ IsSplat(a, 0), As(ins, "neg", <<b>>))>>
       [] ins.op = "mul" -> FlattenSeq([k \in 1..2 |->
            LET known == ins.args[3 - k]
                other == ins.args[k]
            IN <<when(IsSplat(known, 1), CopyOf(ins, other)), when(IsSplat(known, 0), zero),
                 when(of = "int" /\ IsSplat(known, Modulus - 1), As(ins, "neg", <<other>>))>>])
       [] ins.op = "div" -> <<when(IsSplat(b, 1), CopyOf(ins, a))>>
       [] ins.op \in {"shl", "shr"} -> <<when(IsSplat(b, 0), CopyOf(ins, a))>>
       [] ins.op \in {"and", "or", "min", "max"} -> <<when(a = b, CopyOf(ins, a))>>
       [] ins.op = "xor" -> <<when(a = b /\ IsRegister(a), zero)>>
       [] ins.op = "select" -> <<when(a = b, CopyOf(ins, a)), when(AllKnown(condition) /\ 1 \notin Elems(condition), CopyOf(ins, a)),
                                 when(AllKnown(condition) /\ 0 \notin Elems(condition), CopyOf(ins, b))>>
       [] ins.op \in {"not", "neg"} -> <<when(inner # <<>>, CopyOf(ins, inner[1]))>>
       [] ins.op = "at" -> <<when(IsRegister(a) /\ a \notin fn.memory /\ index(b, Count(a)),
                                  RewriteComponentRead(program,
                                    [ins EXCEPT !.op = "extract", !.args = <<a>>, !.lit = <<GetKnownValue(b)[1] + 1>>], 8))>>
       [] ins.op = "putat" -> <<when(a \notin fn.memory /\ fn.types[a] = fn.types[ins.dest] /\ index(ins.args[3], Count(a)),
                                     [ins EXCEPT !.op = "insert", !.args = <<a, b>>,
                                                 !.lit = <<GetKnownValue(ins.args[3])[1] + 1>>])>>
       [] ins.op = "extract" -> <<RewriteComponentRead(program, ins, 8)>>
       [] OTHER -> <<>>

RewriteAlgebraicIdentity(program, ins) == FirstOf(AlgebraicAlternatives(program, ins), ins)

----------------------------------------------------------------------------
(* RewriteWithRanges.                                                      *)

RewriteAsOperand(ins, operand) ==
  IF IsRegister(operand) THEN CopyOf(ins, operand)
  ELSE IF Count(ins.dest) = 1 THEN MakeConstantCopy(ins, ConstantBits(operand)) ELSE Nop

IsPowerOfTwo(d) == d \in {2^k : k \in 1..(Width - 2)}
Log2(d) == CHOOSE k \in 1..Width : 2^k = d

(* The alternatives that hold by the operands' ranges, in[c][k] that of    *)
(* operand k for component c.  An absolute value, a remainder and a        *)
(* division need the constant zero; a remainder or a division of what is   *)
(* not negative by a power of two becomes a mask or a shift.               *)
DecidedByRanges(program, ins, in) ==
  LET a == ins.args[1]
      b == ins.args[2]
      c == ins.args[3]
      each == DOMAIN in
      AllAtMost(x, y) == \A k \in each : /\ IsKnown(in[k][x]) /\ IsKnown(in[k][y])
                                         /\ IsBelow(in[k][x], in[k][y], TRUE)
      notNegative == \A k \in each : IsKnown(in[k][1]) /\ Low(in[k][1]) >= 0
      when(condition, alternative) == IF condition THEN alternative ELSE Nop
      divisor == GetKnownValue(b)
      operand == IF ins.op = "mod" THEN divisor[1] - 1 ELSE Log2(divisor[1])
  IN CASE ins.op = "min" -> <<when(AllAtMost(1, 2), RewriteAsOperand(ins, a)), when(AllAtMost(2, 1), RewriteAsOperand(ins, b))>>
       [] ins.op = "max" -> <<when(AllAtMost(2, 1), RewriteAsOperand(ins, a)), when(AllAtMost(1, 2), RewriteAsOperand(ins, b))>>
       [] ins.op = "clamp" ->
            <<IF AllAtMost(2, 1) /\ AllAtMost(1, 3) THEN RewriteAsOperand(ins, a)
              ELSE IF AllAtMost(1, 2) THEN RewriteAsOperand(ins, b)
              ELSE IF AllAtMost(3, 1) THEN RewriteAsOperand(ins, c)
              ELSE IF AllAtMost(2, 1) THEN As(ins, "min", <<a, c>>)
              ELSE IF AllAtMost(1, 3) THEN As(ins, "max", <<a, b>>) ELSE Nop>>
       [] ins.op = "abs" ->
            <<IF notNegative THEN CopyOf(ins, a)
              ELSE IF \A k \in each : IsKnown(in[k][1]) /\ High(in[k][1]) <= 0 /\ Low(in[k][1]) > TypeMinimum("int")
                THEN As(ins, "neg", <<a>>) ELSE Nop>>
       [] ins.op \in {"mod", "div"} ->
            <<when(/\ notNegative /\ Count(ins.dest) = 1 /\ AllKnown(divisor) /\ IsPowerOfTwo(divisor[1])
                   /\ CanIntern(program, "int", operand),
                   As(ins, IF ins.op = "mod" THEN "and" ELSE "shr", <<a, C(operand)>>))>>
       [] OTHER -> <<>>

(* The program with next in the place of ins, and its new constants.       *)
ReplacedBy(program, q, ins, next) ==
  LET constants == {ConstantBits(x) : x \in {y \in Elems(next.args) \ Elems(ins.args) : IsConstant(y)}}
  IN [program EXCEPT !.code[q[1]][q[2]] = next, !.pool = @ \cup {<<"int", n>> : n \in constants}]

RewriteWithRanges(program, q, block) ==
  LET ins == InsOf(program, q)
      needsZero == ins.op = "abs" \/ (ins.op \in {"mod", "div"} /\ Of(ins.dest) = "int")
      skips == (ins.op \in {"mod", "div"} /\ Of(ins.dest) # "int") \/ (needsZero /\ ~CanIntern(program, "int", 0))
      pooled == IF needsZero THEN Intern(program, "int", 0) ELSE program
      in == [c \in 1..Count(ins.dest) |-> OperandRanges(bounds.ranges, ins, c, block)]
  IN IF skips THEN program ELSE ReplacedBy(pooled, q, ins, FirstOf(DecidedByRanges(pooled, ins, in), ins))

(* The identities an instruction whose value is not a constant goes        *)
(* through; a constant an identity leaves is interned.                     *)
RewriteIdentities(program, q) ==
  LET ins == InsOf(program, q)
      next == RewriteAlgebraicIdentity(program, RewriteBitwiseIdentity(ins))
      rewritten == [program EXCEPT !.code[q[1]][q[2]] = next]
  IN IF next.op = "copy" /\ IsConstant(next.args[1]) /\ ins.op # "copy"
       THEN Intern(rewritten, Of(next.dest), ConstantBits(next.args[1])) ELSE rewritten

----------------------------------------------------------------------------
(* MaterializeConstant: the definition of a register with a constant value *)
(* becomes a copy of the constant, or a vector built from constants; a     *)
(* copy stays one.  A full pool leaves it alone.                           *)
MaterializeConstant(program, q) ==
  LET ins == InsOf(program, q)
      v == sccp.value[ins.dest]
      n == Count(ins.dest)
      all == FoldLeft(LAMBDA w, c : IF w.ok /\ CanIntern(w.program, Of(ins.dest), v[c])
                                      THEN [w EXCEPT !.program = Intern(@, Of(ins.dest), v[c])] ELSE [w EXCEPT !.ok = FALSE],
                      [ok |-> TRUE, program |-> program], [c \in 1..n |-> c])
      vector == [ins EXCEPT !.op = "construct", !.of = Of(ins.dest), !.args = [c \in 1..n |-> C(v[c])], !.lit = <<>>]
  IN IF ins.op = "copy" THEN program
     ELSE IF ~all.ok THEN all.program
     ELSE [all.program EXCEPT !.code[q[1]][q[2]] = IF n = 1 THEN MakeConstantCopy(ins, v[1]) ELSE vector]
=============================================================================
