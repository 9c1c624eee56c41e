------------------------------ MODULE Optimise ------------------------------
(***************************************************************************)
(* PropagateConstants (bwsl_constant_propagation.cpp) from end to end: the *)
(* forwarding of local stores, the analysis of ConstantPropagation, the    *)
(* rewriting of what it found, the removal of edges, loops, phis and       *)
(* values this leaves without use, and then the elimination of common      *)
(* subexpressions (bwsl_cse.cpp).  A stage of one block takes its own way: *)
(* a single forward walk that knows the current assignment of a register.  *)
(*                                                                         *)
(* At the end the stage as it was and the stage as it became run on the    *)
(* same inputs, a block a step.                                            *)
(***************************************************************************)
EXTENDS ConstantPropagation

CONSTANT MaxSteps   \* bound: blocks the stage as it was may run through

VARIABLES
  stored,   \* what each block has stored at its end, <<>> before it is walked
  table,    \* the subexpressions available: values, versions, counts, entries, next, frames
  run       \* the two programs: which, block, from, env, out, expected, steps, status, inputs

vars == <<fn, ir, stage, cursor, analysisVars, stored, table, run>>

NoTable == [values |-> <<>>, versions |-> <<>>, counts |-> <<>>, entries |-> <<>>, next |-> 1, frames |-> <<>>]
NoRun == [which |-> "none", block |-> EntryBlock, from |-> NO_BLOCK, env |-> <<>>, out |-> <<>>,
          expected |-> <<>>, steps |-> 0, status |-> "runs", inputs |-> <<>>]
NoFold == [pinned |-> <<>>, operand |-> <<>>, folded |-> {}, round |-> 0, any |-> FALSE, final |-> FALSE]

Program(f) == [code |-> f.code, term |-> f.term, phis |-> f.phis, undef |-> f.undef, pool |-> f.pool]

Init ==
  /\ fn \in Functions
  /\ ir = Program(fn)
  /\ stage = "forward" /\ cursor = 1
  /\ graph = GraphOf(SuccOf(fn))
  /\ info = InfoOf(fn, Straight(fn))
  /\ sccp = Bottom
  /\ bounds = Unknown
  /\ fold = NoFold
  /\ stored = [b \in Blocks |-> <<>>]
  /\ table = NoTable
  /\ run = NoRun

----------------------------------------------------------------------------
(* ForwardLocalStores: walks until what the blocks store settles, then one *)
(* that rewrites the loads.                                                *)

MaxWalks == 64
ForwardWalk ==
  /\ stage = "forward" /\ cursor <= MaxWalks
  /\ LET out == WalkAll(ir, stored, FALSE).out
     IN IF out # stored THEN stored' = out /\ cursor' = cursor + 1 /\ UNCHANGED <<ir, stage>>
        ELSE /\ ir' = WalkAll(ir, stored, TRUE).program
             /\ stage' = "define"
             /\ UNCHANGED <<stored, cursor>>
  /\ UNCHANGED <<fn, analysisVars, table, run>>

(* FindDefinitions and the start of either way.                            *)
FindDefinitions ==
  /\ stage = "define"
  /\ LET straight == Straight(fn)
     IN /\ info' = IF straight THEN [InfoOf(ir, TRUE) EXCEPT !.definition = [r \in Regs |-> <<>>]] ELSE InfoOf(ir, FALSE)
        /\ sccp' = IF straight THEN [Bottom EXCEPT !.value = [r \in Regs |-> Overdefined(Count(r))]] ELSE Bottom
        /\ bounds' = [Unknown EXCEPT !.ready = straight]
        /\ stage' = IF straight THEN "walk" ELSE "propagate"
        /\ cursor' = 1
  /\ UNCHANGED <<fn, ir, graph, fold, stored, table, run>>

Analyse ==
  /\ \/ PropagateBlock \/ PropagateRegister
     \/ BeginRanges \/ BeginPass \/ IterateRanges \/ FillUnknown \/ GiveUpRanges \/ PinPointRanges
     \/ FoldLoop \/ NextRound
  /\ UNCHANGED <<stored, table, run>>

----------------------------------------------------------------------------
(* PropagateStraightLine: an instruction is rewritten with the values of   *)
(* the registers so far, and then its result gets its value, and its       *)
(* ranges, from what the instruction has become.                           *)

Here == <<EntryBlock, cursor>>
ToEnd(next) == IF cursor < Len(ir.code[EntryBlock])
                 THEN stage' = "walk" /\ cursor' = cursor + 1
                 ELSE stage' = next /\ cursor' = 1

WalkNothing == stage = "walk" /\ ir.code[EntryBlock] = <<>> /\ stage' = "counts" /\ cursor' = 1
               /\ UNCHANGED <<fn, ir, analysisVars, stored, table, run>>

WalkStraightLineWith(program, ins, value) ==
  IF Ins(Here).op = "nop" \/ ~Defines(ins)
    THEN ir' = (IF Ins(Here).op = "nop" THEN ir ELSE program) /\ ToEnd("counts") /\ UNCHANGED <<info, sccp>>
    ELSE /\ ir' = program
         /\ info' = [info EXCEPT !.definition[ins.dest] = Here]
         /\ IF ins.dest \in info.tracked
              THEN /\ sccp' = [sccp EXCEPT !.value[ins.dest] =
                                 IF IsUndefined(value) THEN Overdefined(Count(ins.dest)) ELSE value]
                   /\ stage' = "range" /\ UNCHANGED cursor
              ELSE ToEnd("counts") /\ UNCHANGED sccp

RewriteStraightLine(program) == RewriteWithRanges(RewriteIdentities(program, Here), Here, EntryBlock)
ValueNow(ins) == EvaluateInstruction(ins, [k \in DOMAIN ins.args |-> GetValue(sccp, ins.args[k])], Count(ins.dest))

WalkStraightLine ==
  /\ stage = "walk" /\ cursor <= Len(ir.code[EntryBlock])
  /\ \E program \in {RewriteStraightLine(RewriteOperands(ir, Here))} : \E ins \in {InsOf(program, Here)} :
       WalkStraightLineWith(program, ins, ValueNow(ins))
  /\ UNCHANGED <<fn, graph, bounds, fold, stored, table, run>>

(* One that is a single number is a constant, too.                         *)
RangesNow(ins, value) ==
  [c \in 1..Count(ins.dest) |-> IF AllKnown(value) THEN PointRange(Of(ins.dest), value[c])
                               ELSE EvaluateComponentRange(bounds.ranges, ins, c, EntryBlock)]
RangeStraightLine ==
  /\ stage = "range"
  /\ LET r == Ins(Here).dest
     IN \E ranges \in {RangesNow(Ins(Here), sccp.value[r])} :
          LET point == \A c \in 1..Count(r) : IsPoint(ranges[c])
          IN /\ bounds' = [bounds EXCEPT !.ranges[r] = ranges]
             /\ sccp' = IF point THEN [sccp EXCEPT !.value[r] = [c \in 1..Count(r) |-> BitsOf(Low(ranges[c]))]] ELSE sccp
             /\ IF point THEN stage' = "materialise" /\ UNCHANGED cursor ELSE ToEnd("counts")
  /\ UNCHANGED <<fn, ir, graph, info, fold, stored, table, run>>

MaterializeStraightLine ==
  /\ stage = "materialise"
  /\ ir' = MaterializeConstant(ir, Here)
  /\ ToEnd("counts")
  /\ UNCHANGED <<fn, analysisVars, stored, table, run>>

----------------------------------------------------------------------------
(* RewriteConstants: an instruction or terminator a step, then every       *)
(* register with a constant value.                                         *)

RewriteResult(program, q) ==
  IF bounds.ready /\ q[1] \in sccp.blocks THEN RewriteWithRanges(program, q, q[1]) ELSE program
RewriteInstruction(program, q) ==
  LET ins == InsOf(program, q)
      known == Defines(ins) /\ AllKnown(GetKnownValue(ins.dest))
      operands == RewriteOperands(program, q)
  IN IF ins.op = "nop" \/ known \/ ~Defines(ins) THEN operands
     ELSE RewriteResult(RewriteIdentities(operands, q), q)

RewritePlace ==
  /\ stage = "rewrite" /\ cursor <= Len(AllPlaces)
  /\ LET q == AllPlaces[cursor]
     IN ir' = IF IsTerminatorPlace(q) THEN RewriteCondition(ir, q[1]) ELSE RewriteInstruction(ir, q)
  /\ cursor' = cursor + 1
  /\ UNCHANGED <<fn, stage, analysisVars, stored, table, run>>

(* A phi with a constant scalar result gets the constant on every edge; a  *)
(* pinned one what its loop or its range left.  A vector phi keeps its     *)
(* operands.                                                               *)
MaterializePhi(program, r) ==
  LET k == info.definition[r][2]
      everywhere(operand) == [program EXCEPT !.phis[k].vals = [j \in DOMAIN @ |-> operand]]
  IN IF r \in DOMAIN fold.pinned
       THEN IF k \in DOMAIN fold.operand THEN everywhere(fold.operand[k]) ELSE program
     ELSE IF Count(r) = 1 /\ CanIntern(program, Of(r), sccp.value[r][1])
       THEN Intern(everywhere(C(sccp.value[r][1])), Of(r), sccp.value[r][1])
     ELSE program

MaterializeConstants ==
  /\ stage = "rewrite" /\ cursor > Len(AllPlaces)
  /\ LET known == {r \in info.tracked : AllKnown(sccp.value[r]) /\ info.definition[r] # <<>>}
         one(program, r) == IF IsPhiDefinition(r) THEN MaterializePhi(program, r)
                            ELSE MaterializeConstant(program, info.definition[r])
     IN ir' = FoldLeft(one, ir, InOrder(known))
  /\ stage' = "edges"
  /\ UNCHANGED <<fn, cursor, analysisVars, stored, table, run>>

----------------------------------------------------------------------------
(* The edges that are gone.  A phi left without operands is gone too: its  *)
(* result is undefined.                                                    *)

GetDecidedTarget(t) ==
  IF t.op = "jump" THEN t.to[1]
  ELSE IF IsConditional(t) /\ IsConstant(t.arg) THEN TargetFor(t, ConstantBits(t.arg)) ELSE NO_BLOCK

(* TryGetConstantTarget: a loop header keeps its branch.                   *)
GetConstantTarget(t) ==
  IF IsConditional(t) /\ t.mark # "loop" THEN GetDecidedTarget(t) ELSE NO_BLOCK

KeepPhiOperands(program, Kept(_, _)) ==
  LET part(phi) == SelectSeq([j \in DOMAIN phi.from |-> j], LAMBDA j : Kept(phi.from[j], phi.block))
      only(phi) == [phi EXCEPT !.from = [j \in DOMAIN part(phi) |-> phi.from[part(phi)[j]]],
                               !.vals = [j \in DOMAIN part(phi) |-> phi.vals[part(phi)[j]]]]
      emptied == {k \in DOMAIN program.phis : part(program.phis[k]) = <<>>}
  IN [program EXCEPT !.phis = [k \in DOMAIN @ |-> only(@[k])],
                     !.undef = @ \cup {program.phis[k].result : k \in emptied}]

DropFoldedBranchEdges(program) ==
  LET kept(from, block) == LET target == GetConstantTarget(program.term[from]) IN target \in {NO_BLOCK, block}
  IN KeepPhiOperands(program, kept)

DropEdges ==
  /\ stage = "edges"
  /\ ir' = DropFoldedBranchEdges(ir)
  /\ stage' = "deadloops" /\ cursor' = Len(fn.code)
  /\ UNCHANGED <<fn, analysisVars, stored, table, run>>

(* The blocks from a loop's header to its merge when every branch on the   *)
(* way is decided, <<>> when the way comes back, leaves the loop's blocks, *)
(* passes another loop's header or is not decided.                         *)
RECURSIVE DecidedPath(_, _, _)
DecidedPath(header, merge, path) ==
  LET b == Last(path)
      target == GetDecidedTarget(ir.term[b])
  IN IF target = NO_BLOCK THEN <<>>
     ELSE IF target = merge THEN path
     ELSE IF target < header \/ target >= merge \/ target \in Elems(path) \/ ir.term[target].mark = "loop" THEN <<>>
     ELSE DecidedPath(header, merge, Append(path, target))

AsJump(t, target) == [t EXCEPT !.op = "jump", !.arg = 0, !.cases = <<>>, !.to = <<target>>, !.mark = "", !.merge = NO_BLOCK, !.next = NO_BLOCK]

(* RemoveDeadLoops, innermost loops first.                                 *)
RemoveDeadLoop ==
  /\ stage = "deadloops" /\ cursor >= EntryBlock
  /\ LET t == ir.term[cursor]
         path == IF t.mark = "loop" /\ t.merge # cursor THEN DecidedPath(cursor, t.merge, <<cursor>>) ELSE <<>>
     IN ir' = [ir EXCEPT !.term = [b \in Blocks |->
                 IF b \in Elems(path) THEN AsJump(@[b], GetDecidedTarget(@[b])) ELSE @[b]]]
  /\ cursor' = cursor - 1
  /\ UNCHANGED <<fn, stage, analysisVars, stored, table, run>>

(* The selections that are decided become jumps, and the phis keep only    *)
(* the operands of edges that still exist.                                 *)
RemoveDeadSelections ==
  /\ stage = "deadloops" /\ cursor < EntryBlock
  /\ LET decided(t) == t.mark \in {"if", "switch"} /\ GetConstantTarget(t) # NO_BLOCK
         program == [ir EXCEPT !.term = [b \in Blocks |->
                       IF decided(@[b]) THEN AsJump(@[b], GetConstantTarget(@[b])) ELSE @[b]]]
         succ == SuccOf(program)
         kept(from, block) == block \in Elems(succ[from])
     IN IF succ = SuccOf(fn) THEN UNCHANGED <<ir, graph>>
        ELSE /\ ir' = KeepPhiOperands(program, kept)
             /\ graph' = [graph EXCEPT !.preds = [b \in Blocks |-> PredecessorsOf(succ, b)]]
  /\ stage' = "collapse" /\ cursor' = 1
  /\ UNCHANGED <<fn, info, sccp, bounds, fold, stored, table, run>>

(* CollapseSingleValuePhis: a phi whose emitted edges all carry one value  *)
(* gets it on every edge; a sweep a step.                                  *)
EmittedSuccessors(program) ==
  [b \in Blocks |-> LET target == GetConstantTarget(program.term[b])
                    IN IF target = NO_BLOCK THEN program.term[b].to ELSE <<target>>]

CollapsePhi(emitted, reached, program, k) ==
  LET phi == program.phis[k]
      counts(j) == phi.vals[j] # phi.result /\ phi.from[j] \in reached /\ phi.block \in Elems(emitted[phi.from[j]])
      values == {phi.vals[j] : j \in {i \in DOMAIN phi.vals : counts(i)}}
  IN IF Cardinality(values) # 1 THEN program
     ELSE [program EXCEPT !.phis[k].vals = [j \in DOMAIN @ |-> CHOOSE v \in values : TRUE]]

CollapseSweep ==
  /\ stage = "collapse"
  /\ LET emitted == EmittedSuccessors(ir)
         reached == Reachable(emitted)
         swept == FoldLeft(LAMBDA p, k : CollapsePhi(emitted, reached, p, k), ir, [k \in DOMAIN ir.phis |-> k])
     IN /\ ir' = swept
        /\ stage' = IF swept = ir THEN "counts" ELSE stage
  /\ UNCHANGED <<fn, cursor, analysisVars, stored, table, run>>

----------------------------------------------------------------------------
(* RemoveDeadValues.  Walking a straight-line stage has left definition at *)
(* the last assignment of each register, where FindDefinitions had it.     *)

UsesOf(program) ==
  UNION ({Elems(InsOf(program, q).args) \cup (IF InsOf(program, q).op = "out" THEN {InsOf(program, q).dest} ELSE {}) :
             q \in {x \in Elems(PlacesOf(program)) : InsOf(program, x).op # "nop"}}
          \cup {Elems(program.phis[k].vals) : k \in DOMAIN program.phis}
          \cup {{program.term[b].arg} : b \in DOMAIN program.term})

IsRemovableOp(op) == GetFoldArity(op) # 0 \/ IsPureValueOp(op) \/ op \in {"extract", "shuffle"}
IsRemovableDefinition(program, r) ==
  /\ info.count[r] = 1 /\ r \notin fn.memory
  /\ IsPhiDefinition(r) \/ IsRemovableOp(InsOf(program, info.definition[r]).op)

RemoveDefinitions(program, gone) ==
  LET removed(q) == \E r \in gone : info.definition[r] = q
  IN [program EXCEPT
        !.code = [b \in DOMAIN @ |-> [i \in DOMAIN @[b] |-> IF removed(<<b, i>>) THEN Nop ELSE @[b][i]]],
        !.phis = [k \in DOMAIN @ |-> IF removed(<<0, k>>) THEN [@[k] EXCEPT !.from = <<>>, !.vals = <<>>] ELSE @[k]]]

(* What nothing reads goes, and what only that read.                       *)
RECURSIVE RemoveUnread(_)
RemoveUnread(program) ==
  LET uses == UsesOf(program)
      present(r) == IF IsPhiDefinition(r) THEN program.phis[info.definition[r][2]].vals # <<>>
                    ELSE InsOf(program, info.definition[r]).op # "nop"
      gone == {r \in Regs : r \notin uses /\ IsRemovableDefinition(program, r) /\ present(r)}
  IN IF gone = {} THEN program ELSE RemoveUnread(RemoveDefinitions(program, gone))

RemoveUnreadValues ==
  /\ stage = "counts"
  /\ ir' = RemoveUnread(ir)
  /\ stage' = "live"
  /\ UNCHANGED <<fn, cursor, analysisVars, stored, table, run>>

IsCopyInto(ins) == ins.op = "copy" /\ ins.dest \notin fn.memory
Live(program) ==
  LET places == {q \in Elems(PlacesOf(program)) : InsOf(program, q).op # "nop"}
      ins(q) == InsOf(program, q)
      registers(s) == {a \in Elems(s) : IsRegister(a)}
      defining(q) == Defines(ins(q)) /\ info.definition[ins(q).dest] = q
      roots == {q \in places : ~IsCopyInto(ins(q)) /\ ~(defining(q) /\ IsRemovableDefinition(program, ins(q).dest))}
      start == UNION ({registers(ins(q).args) \cup (IF defining(q) \/ ins(q).op \in {"lstore", "poke"} THEN {} ELSE {ins(q).dest}) : q \in roots}
                      \cup {registers(<<program.term[b].arg>>) : b \in DOMAIN program.term}
                      \cup {registers(program.phis[k].vals) :
                               k \in {j \in DOMAIN program.phis : ~IsRemovableDefinition(program, program.phis[j].result)}})
      single(r) == info.definition[r] # <<>> /\ info.count[r] = 1
      reads(r) == (IF ~single(r) THEN {}
                   ELSE IF IsPhiDefinition(r) THEN registers(program.phis[info.definition[r][2]].vals)
                   ELSE registers(ins(info.definition[r]).args))
                  \cup UNION {registers(ins(q).args) : q \in {x \in places : IsCopyInto(ins(x)) /\ ins(x).dest = r}}
      grown[n \in 0..Cardinality(Regs)] ==
        IF n = 0 THEN start ELSE LET known == grown[n - 1] IN known \cup UNION {reads(r) : r \in known}
  IN grown[Cardinality(Regs)]

(* Values that only read each other; copies into registers nothing reads,  *)
(* except of constants, which name them.                                   *)
RemoveUnmarked(program) ==
  LET live == Live(program)
      idle(ins) == IsCopyInto(ins) /\ ins.dest \notin live /\ ~IsConstant(ins.args[1])
      copies == [program EXCEPT !.code = [b \in DOMAIN @ |-> [i \in DOMAIN @[b] |-> IF idle(@[b][i]) THEN Nop ELSE @[b][i]]]]
      dead == {r \in Regs \ live : IsRemovableDefinition(program, r)}
      removed == RemoveDefinitions(copies, dead)
  IN [removed EXCEPT !.phis = SelectSeq(@, LAMBDA phi : phi.vals # <<>>)]

RemoveUnmarkedValues ==
  /\ stage = "live"
  /\ ir' = RemoveUnmarked(ir)
  /\ stage' = IF info.straight THEN "backward" ELSE "cse"
  /\ UNCHANGED <<fn, cursor, analysisVars, stored, table, run>>

(* RemoveUnreadAssignments, from the end of a straight-line stage; w is    *)
(* the code and the registers something later reads.                       *)
UnreadAssignment(w, i) ==
  LET ins == w.code[i]
      namesConstant == ins.op = "copy" /\ IsConstant(ins.args[1]) /\ ins.dest \in fn.named
      removable == /\ Defines(ins) /\ ins.dest \notin fn.memory /\ ~namesConstant
                   /\ GetFoldArity(ins.op) # 0 \/ IsPureValueOp(ins.op) \/ IsVectorFoldOp(ins.op)
      carried == IF ins.op = "out" THEN {ins.dest} ELSE {}
  IN IF ins.op = "nop" THEN w
     ELSE IF removable /\ ins.dest \notin w.live THEN [w EXCEPT !.code[i] = Nop]
     ELSE [w EXCEPT !.live = (@ \ (IF removable THEN {ins.dest} ELSE {})) \cup Elems(ins.args) \cup carried]

RemoveUnreadAssignments ==
  /\ stage = "backward"
  /\ LET code == ir.code[EntryBlock]
     IN ir' = [ir EXCEPT !.code[EntryBlock] =
                 FoldLeft(UnreadAssignment, [code |-> code, live |-> {}], Reverse([i \in DOMAIN code |-> i])).code]
  /\ stage' = "cse"
  /\ UNCHANGED <<fn, cursor, analysisVars, stored, table, run>>

----------------------------------------------------------------------------
(* EliminateCommonSubexpressions.  A register's value is <<0, number>> or  *)
(* <<1, constant>>; t is the table.                                        *)

NO_VALUE == <<>>

AssignValue(t, r, value) ==
  [t EXCEPT !.values[r] = IF value = NO_VALUE THEN <<0, t.next>> ELSE value,
            !.next = IF value = NO_VALUE THEN @ + 1 ELSE @,
            !.versions[r] = @ + 1]

CannotBeNamed(t, operand) == operand \in fn.memory \/ (~info.straight /\ t.counts[operand] > 1)

(* A register gets a number when it is first read.                         *)
Numbered(t, operand) ==
  IF IsConstant(operand) \/ CannotBeNamed(t, operand) \/ t.values[operand] # NO_VALUE THEN t
  ELSE [t EXCEPT !.values[operand] = <<0, t.next>>, !.next = @ + 1]
GetOperandValue(t, operand) ==
  IF IsConstant(operand) THEN <<1, ConstantBits(operand)>>
  ELSE IF CannotBeNamed(t, operand) THEN NO_VALUE
  ELSE t.values[operand]

(* The operands take three slots; those of a commutative operation come in *)
(* the order of their values.                                              *)
KeyOf(t, ins) ==
  LET slot(k) == IF k <= Len(ins.args) THEN GetOperandValue(t, ins.args[k]) ELSE <<2, 0>>
      in == <<slot(1), slot(2), slot(3)>>
      swaps == ins.op \in Commutative /\ (in[1][1] > in[2][1] \/ (in[1][1] = in[2][1] /\ in[1][2] > in[2][2]))
  IN IF NO_VALUE \in Elems(in) THEN NO_VALUE
     ELSE [op |-> ins.op, of |-> ins.of, lit |-> ins.lit, type |-> fn.types[ins.dest],
           operands |-> IF swaps THEN <<in[2], in[1], in[3]>> ELSE in]

IsAvailable(t, key, ins) ==
  /\ key \in DOMAIN t.entries /\ t.entries[key].reg # ins.dest
  /\ info.straight => t.versions[t.entries[key].reg] = t.entries[key].version

(* A copy gets the value of its source; a value instruction whose key is   *)
(* available becomes a copy; any other assignment gets a new value.        *)
CseInstruction(w, q) ==
  LET ins == InsOf(w.program, q)
      memory == ins.dest \in fn.memory
      numbered == IF memory /\ ins.op = "copy" THEN w.table ELSE FoldLeft(Numbered, w.table, ins.args)
      key == KeyOf(numbered, ins)
      other == numbered.entries[key]
      fresh == AssignValue(numbered, ins.dest, NO_VALUE)
      entry == [reg |-> ins.dest, version |-> fresh.versions[ins.dest], value |-> fresh.values[ins.dest]]
      entered == [fresh EXCEPT !.entries = (key :> entry) @@ @,
                    !.frames = IF @ = <<>> \/ key \in DOMAIN fresh.entries THEN @
                               ELSE [@ EXCEPT ![Len(@)].undo = @ \cup {key}]]
  IN IF ins.op = "nop" \/ ~Defines(ins) THEN w
     ELSE IF ins.op = "copy"
       THEN [w EXCEPT !.table = AssignValue(numbered, ins.dest,
                                            IF memory THEN NO_VALUE ELSE GetOperandValue(numbered, ins.args[1]))]
     ELSE IF ~IsCseOp(ins.op) \/ CannotBeNamed(w.table, ins.dest)
       THEN [w EXCEPT !.table = AssignValue(@, ins.dest, NO_VALUE)]
     ELSE IF key = NO_VALUE THEN [w EXCEPT !.table = fresh]
     ELSE IF IsAvailable(numbered, key, ins)
       THEN [program |-> [w.program EXCEPT !.code[q[1]][q[2]] =
                            [ins EXCEPT !.op = "copy", !.args = <<other.reg>>, !.lit = <<>>]],
             table |-> AssignValue(numbered, ins.dest, other.value)]
     ELSE [w EXCEPT !.table = entered]

CseBlock(t, b) ==
  LET phis == SelectSeq(ir.phis, LAMBDA phi : phi.block = b)
      entered == FoldLeft(LAMBDA u, phi : AssignValue(u, phi.result, NO_VALUE), t, phis)
  IN FoldLeft(CseInstruction, [program |-> ir, table |-> entered], [i \in DOMAIN ir.code[b] |-> <<b, i>>])

DomChildren(b) == InOrder({c \in Blocks : graph.idom[c] = b})
Frame(b) == [block |-> b, child |-> 1, undo |-> {}]

BeginCse ==
  /\ stage = "cse"
  /\ LET definitions(r) == Cardinality({q \in DefinitionsIn(ir) : InsOf(ir, q).dest = r})
                             + Cardinality({k \in DOMAIN ir.phis : ir.phis[k].result = r})
         start == [NoTable EXCEPT !.values = [r \in Regs |-> NO_VALUE], !.versions = [r \in Regs |-> 0],
                                  !.counts = [r \in Regs |-> definitions(r)],
                                  !.frames = IF info.straight THEN <<>> ELSE <<Frame(EntryBlock)>>]
         entry == CseBlock(start, EntryBlock)
     IN ir' = entry.program /\ table' = entry.table
  /\ stage' = "cse tree"
  /\ UNCHANGED <<fn, cursor, analysisVars, stored, run>>

(* Down the dominator tree; what a block computed is forgotten on the way  *)
(* back up.                                                                *)
Frames == table.frames
EnterDominated ==
  /\ stage = "cse tree" /\ Frames # <<>>
  /\ LET top == Len(Frames)
         children == DomChildren(Frames[top].block)
         next == children[Frames[top].child]
         into == CseBlock([table EXCEPT !.frames = Append([@ EXCEPT ![top].child = @ + 1], Frame(next))], next)
     IN /\ Frames[top].child <= Len(children)
        /\ ir' = into.program /\ table' = into.table
  /\ UNCHANGED <<fn, stage, cursor, analysisVars, stored, run>>

Forgotten(t) ==
  [t EXCEPT !.frames = Front(@),
            !.entries = [key \in DOMAIN @ \ Last(t.frames).undo |-> @[key]]]

LeaveDominated ==
  /\ stage = "cse tree" /\ Frames # <<>>
  /\ Last(Frames).child > Len(DomChildren(Last(Frames).block))
  /\ table' = Forgotten(table)
  /\ UNCHANGED <<fn, ir, stage, cursor, analysisVars, stored, run>>

----------------------------------------------------------------------------
(* The two programs run.                                                   *)

Inputs(f) ==
  {q \in Elems(PlacesOf(f)) : InsOf(f, q).op = "input"}

(* Bound: every end of a declared range, and the numbers next to zero.     *)
InputValues(lit) == {lit[1], lit[2]} \cup (lit[1]..lit[2] \cap {-1, 0, 1, 2})

BeginRun ==
  /\ stage = "cse tree" /\ Frames = <<>>
  /\ \E choice \in UNION {[{InsOf(fn, q).dest : q \in Inputs(fn)} -> UNION {InputValues(InsOf(fn, q).lit) : q \in Inputs(fn)}]} :
       /\ \A q \in Inputs(fn) : choice[InsOf(fn, q).dest] \in InputValues(InsOf(fn, q).lit)
       /\ run' = [NoRun EXCEPT !.which = "before", !.env = fn.start, !.inputs = choice]
  /\ stage' = "run"
  /\ UNCHANGED <<fn, ir, cursor, analysisVars, stored, table>>

Value(env, operand) ==
  IF IsConstant(operand) THEN <<ConstantBits(operand)>>
  ELSE IF operand \in DOMAIN env THEN env[operand]
  ELSE [c \in 1..Count(operand) |-> Poison]

RunFold(op, type, in, n) ==
  [c \in 1..n |-> Meaning(op, type, [k \in DOMAIN in |-> Component(in[k], c)])]
RunSelect(in) ==
  IF Len(in[3]) = 1 /\ in[3][1] # Poison THEN IF in[3][1] = 1 THEN in[2] ELSE in[1]
  ELSE [c \in DOMAIN in[1] |-> CASE Component(in[3], c) = Poison -> Poison
                                 [] Component(in[3], c) = 1 -> in[2][c]
                                 [] OTHER -> in[1][c]]

(* A pointer is <<register, path>>.                                        *)
AsPointer(env, r) == IF Of(r) = "ptr" THEN env[r] ELSE <<r, <<>>>>
ReadAt(v, path) == FoldLeft(LAMBDA w, k : w[k], v, path)
RECURSIVE WriteAt(_, _, _)
WriteAt(v, path, new) ==
  IF path = <<>> THEN new ELSE [v EXCEPT ![path[1]] = WriteAt(@, Tail(path), new)]
Extended(pointer, k) == <<pointer[1], Append(pointer[2], k)>>

RunInstruction(m, ins) ==
  LET in == [k \in DOMAIN ins.args |-> Value(m.env, ins.args[k])]
      defined(v) == [m EXCEPT !.env = (ins.dest :> v) @@ @]
      pointer == AsPointer(m.env, ins.args[1])
      inRange(v) == in[2][1] # Poison /\ in[2][1] < Len(v)
  IN CASE ins.op = "nop" -> m
       [] ins.op = "out" -> [m EXCEPT !.out = Append(@, Value(m.env, ins.dest))]
       [] ins.op = "input" -> defined(<<BitsOf(m.inputs[ins.dest])>>)
       [] ins.op = "copy" -> defined(in[1])
       [] ins.op = "select" -> defined(RunSelect(in))
       [] IsVectorFoldOp(ins.op) -> defined(EvaluateVector(ins.op, in, ins.lit, Count(ins.dest)))
       [] ins.op = "at" -> defined(<<IF inRange(in[1]) THEN in[1][in[2][1] + 1] ELSE Poison>>)
       [] ins.op = "putat" -> defined(IF in[3][1] # Poison /\ in[3][1] < Len(in[1])
                                        THEN [in[1] EXCEPT ![in[3][1] + 1] = in[2][1]] ELSE [c \in DOMAIN in[1] |-> Poison])
       [] ins.op = "varptr" -> defined(pointer)
       [] ins.op = "field" -> defined(Extended(pointer, ins.lit[1]))
       [] ins.op = "index" -> IF inRange(ReadAt(m.env[pointer[1]], pointer[2]))
                                THEN defined(Extended(pointer, in[2][1] + 1)) ELSE [m EXCEPT !.status = "stuck"]
       [] ins.op = "lload" -> defined(ReadAt(m.env[pointer[1]], pointer[2]))
       [] ins.op \in {"lstore", "poke"} -> [m EXCEPT !.env[pointer[1]] = WriteAt(@, pointer[2], in[2])]
       [] OTHER -> defined(RunFold(ins.op, ins.of, in, Count(ins.dest)))

(* Phis read before any is assigned; no operand for the edge is an error.  *)
RunPhis(program, m) ==
  LET here == {k \in DOMAIN program.phis : program.phis[k].block = m.block}
      operand(k) == {j \in DOMAIN program.phis[k].from : program.phis[k].from[j] = m.from}
      value(k) == Value(m.env, program.phis[k].vals[CHOOSE j \in operand(k) : TRUE])
      results == {program.phis[k].result : k \in here}
  IN IF \E k \in here : operand(k) = {} THEN [m EXCEPT !.status = "broken"]
     ELSE [m EXCEPT !.env = [r \in results |-> value(CHOOSE k \in here : program.phis[k].result = r)] @@ @]

RunBlock(program, m) ==
  LET step(w, i) == IF w.status = "runs" THEN RunInstruction(w, program.code[m.block][i]) ELSE w
      end == FoldLeft(step, RunPhis(program, m), [i \in DOMAIN program.code[m.block] |-> i])
      t == program.term[m.block]
      condition == Value(end.env, t.arg)
  IN IF end.status # "runs" THEN end
     ELSE IF t.op = "ret" THEN [end EXCEPT !.status = "done"]
     ELSE IF IsConditional(t) /\ condition[1] = Poison THEN [end EXCEPT !.status = "stuck"]
     ELSE [end EXCEPT !.from = m.block, !.steps = @ + 1,
                      !.block = IF IsConditional(t) THEN TargetFor(t, condition[1]) ELSE t.to[1]]

RunStep ==
  /\ stage = "run" /\ run.status = "runs" /\ run.steps < MaxSteps
  /\ run' = RunBlock(IF run.which = "before" THEN fn ELSE ir, run)
  /\ UNCHANGED <<fn, ir, stage, cursor, analysisVars, stored, table>>

(* Only what the stage as it was did to its end is compared.               *)
RunOptimised ==
  /\ stage = "run" /\ run.which = "before" /\ run.status = "done"
  /\ run' = [NoRun EXCEPT !.which = "after", !.env = fn.start, !.inputs = run.inputs, !.expected = run.out]
  /\ UNCHANGED <<fn, ir, stage, cursor, analysisVars, stored, table>>

CompareEnds ==
  /\ stage = "run"
  /\ \/ run.which = "after" /\ run.status # "runs"
     \/ run.status = "stuck" \/ run.steps >= MaxSteps
  /\ stage' = "done"
  /\ UNCHANGED <<fn, ir, cursor, analysisVars, stored, table, run>>

Finished == stage = "done" /\ UNCHANGED vars

----------------------------------------------------------------------------
Next ==
  \/ ForwardWalk \/ FindDefinitions \/ Analyse
  \/ WalkNothing \/ WalkStraightLine \/ RangeStraightLine \/ MaterializeStraightLine
  \/ RewritePlace \/ MaterializeConstants \/ DropEdges \/ RemoveDeadLoop \/ RemoveDeadSelections
  \/ CollapseSweep \/ RemoveUnreadValues \/ RemoveUnmarkedValues \/ RemoveUnreadAssignments
  \/ BeginCse \/ EnterDominated \/ LeaveDominated
  \/ BeginRun \/ RunStep \/ RunOptimised \/ CompareEnds \/ Finished

Spec == Init /\ [][Next]_vars

----------------------------------------------------------------------------
(* Types; and the register worklist keeps to the room it was given: each   *)
(* register is appended once per component it may lose and twice more.     *)
TypeOK ==
  /\ DOMAIN ir.code = Blocks /\ DOMAIN ir.term = Blocks
  /\ \A q \in Elems(PlacesOf(ir)) : InsOf(ir, q).op = "nop" \/ InsOf(ir, q).dest \in Regs
  /\ \A k \in DOMAIN ir.phis : Len(ir.phis[k].from) = Len(ir.phis[k].vals)
  /\ sccp.blocks \subseteq Blocks /\ info.tracked \subseteq Regs
  /\ Cardinality(ir.pool) <= fn.room \/ ir.pool = fn.pool
  /\ sccp.appended <= MapThenSumSet(LAMBDA r : Count(r) + 2, Regs)
  /\ cursor \in 0..(MaxWalks + Len(fn.code) + Cardinality(Regs) * 4) /\ run.steps \in 0..MaxSteps

(* The optimised stage gives the outputs the stage as it was gives, within *)
(* as many blocks, wherever every target defines what the latter gives.    *)
ResultsAgree ==
  run.which = "after" =>
    /\ run.status \notin {"broken", "stuck"} /\ run.steps < MaxSteps
    /\ run.status = "done" =>
         /\ Len(run.out) = Len(run.expected)
         /\ \A k \in DOMAIN run.out : \A c \in DOMAIN run.out[k] :
              run.expected[k][c] \in {Poison, run.out[k][c]}

(* What the analysis says is so when the optimised stage runs: it only     *)
(* enters blocks that can run, a register holds the constants it is known  *)
(* to hold, and otherwise a value within its range.                        *)
AnalysisHolds ==
  (run.which = "after" /\ ~info.straight) =>
    /\ run.block \in sccp.blocks
    /\ \A r \in DOMAIN run.env \cap info.tracked : \A c \in 1..Count(r) :
         LET bits == run.env[r][c]
             known == ~IsUndefined(sccp.value[r]) /\ sccp.value[r][c] # Varies
         IN bits # Poison =>
              IF known THEN sccp.value[r][c] = bits
              ELSE (bounds.ready /\ IsKnown(bounds.ranges[r][c])) => Inside(Of(r), bits, bounds.ranges[r][c])
=============================================================================
