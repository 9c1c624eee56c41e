---------------------------- MODULE SpirvModule ----------------------------
(***************************************************************************)
(* What the SPIR-V backend emits for the body of a stage with control flow *)
(* (bwsl_spirv_backend_control.inl, GetSpirvId), for stages without        *)
(* memory, and how a device runs it.                                       *)
(*                                                                         *)
(* An id is a number from 1 on, and a constant is its own id.  q is what   *)
(* is emitted of the graph: [program, to, reached, back]; and s the state  *)
(* of the emission: the ids of the registers, the next id, the ids that    *)
(* are undefined values or variables with their components (blank), the    *)
(* registers whose id was given out before its definition (pre), those     *)
(* read from a variable (loads), what edges store, the id, or the ids,     *)
(* asked for last (got, all), the code of the block at hand, and the       *)
(* blocks and phis emitted.                                                *)
(***************************************************************************)
EXTENDS StructuredText

(* TakesConstantEdge: not when a phi elsewhere reads the edge not taken.   *)
DropsPhiEdge(program, b, target) ==
  \E k \in DOMAIN program.phis : program.phis[k].block # target /\ b \in Elems(program.phis[k].from)
EmittedTargets(program, b) ==
  LET t == program.term[b]
      target == GetConstantTarget(t)
  IN IF target # NO_BLOCK /\ ~DropsPhiEdge(program, b, target) THEN <<target>> ELSE t.to

(* FindEmittedBlocks: the edges that run, and the continue targets that    *)
(* nothing reaches but whose loop is emitted, with its header.             *)
FindEmittedBlocks(program) ==
  LET to == [b \in DOMAIN program.term |-> EmittedTargets(program, b)]
      reached == Reachable(to)
      left == {h \in reached : program.term[h].mark = "loop" /\ program.term[h].next \notin reached}
  IN [program |-> program, to |-> to, reached |-> reached,
      back |-> [b \in {program.term[h].next : h \in left} |-> Min({h \in left : program.term[h].next = b})]]

IsEdgeEmitted(q, from, to) == from \in q.reached /\ to \in Elems(q.to[from])
IsBackEdgeOnly(q, from, to) == from \in DOMAIN q.back /\ q.back[from] = to
LiveOperands(q, phi) == {j \in DOMAIN phi.from : IsEdgeEmitted(q, phi.from[j], phi.block)}
LiveValues(q, phi) == {phi.vals[j] : j \in LiveOperands(q, phi)}
GetPhiShape(q, phi) ==
  CASE LiveValues(q, phi) = {} -> "undefined"
    [] Cardinality(LiveValues(q, phi)) = 1 -> "trivial"
    [] OTHER -> "mixed"
TrivialValue(q, phi) == CHOOSE v \in LiveValues(q, phi) : TRUE

----------------------------------------------------------------------------
(* PlanPhiVariables: the phis of a source variable share one variable when *)
(* it holds the right one wherever one of them is read.                    *)

Candidates(q) ==
  {k \in DOMAIN q.program.phis : q.program.phis[k].block \in q.reached /\ GetPhiShape(q, q.program.phis[k]) = "mixed"}
Member(q, web, operand) == {k \in web : q.program.phis[k].result = operand}
EmittedPreds(q, b) == {p \in q.reached : b \in Elems(q.to[p])}

(* Which member the variable holds at the end of each block: {} before     *)
(* anything is known, several when the ways to the block disagree.         *)
RECURSIVE HeldIn(_, _, _)
HeldIn(q, web, held) ==
  LET here(b) == {k \in web : q.program.phis[k].block = b}
      next == [b \in DOMAIN held |-> IF b \notin q.reached THEN {}
                                     ELSE IF here(b) # {} THEN here(b)
                                     ELSE UNION {held[p] : p \in EmittedPreds(q, b)}]
  IN IF next = held THEN held ELSE HeldIn(q, web, next)

HoldsMember(held, b, member) == held[b] = member

(* The values edges bring from outside the web, in the order of the phis.  *)
StoresOf(q, web) ==
  FlattenSeq([k \in DOMAIN q.program.phis |->
    LET phi == q.program.phis[k]
        leaves(j) == j \in LiveOperands(q, phi) /\ Member(q, web, phi.vals[j]) = {} /\ phi.vals[j] \notin q.program.undef
        from == SelectSeq([j \in DOMAIN phi.from |-> j], leaves)
    IN IF k \notin web THEN <<>> ELSE [i \in DOMAIN from |-> <<phi.from[from[i]], phi.vals[from[i]]>>]])

StaysInVariable(q, web) ==
  LET program == q.program
      held == HeldIn(q, web, [b \in DOMAIN program.term |-> {}])
      readsHeld(b, operand) == Member(q, web, operand) # {} => HoldsMember(held, b, Member(q, web, operand))
      places == {p \in Elems(PlacesOf(program)) : p[1] \in q.reached /\ InsOf(program, p).op # "nop"}
  IN /\ Cardinality(web) >= 2
     /\ \A j, k \in web : j # k => program.phis[j].block # program.phis[k].block
     /\ \A k \in web : \A j \in LiveOperands(q, program.phis[k]) : readsHeld(program.phis[k].from[j], program.phis[k].vals[j])
     /\ \A store \in Elems(StoresOf(q, web)) : Cardinality(Elems(q.to[store[1]])) = 1
     /\ \A p \in places : LET ins == InsOf(program, p)
                          IN \A a \in Elems(ins.args) \cup (IF ins.op = "out" THEN {ins.dest} ELSE {}) : readsHeld(p[1], a)
     /\ \A b \in q.reached : /\ readsHeld(b, program.term[b].arg)
                             /\ program.term[b].op = "switch" => Member(q, web, program.term[b].arg) = {}
     /\ \A k \in DOMAIN program.phis \ web : \A v \in Elems(program.phis[k].vals) : Member(q, web, v) = {}

(* The webs kept in variables.                                             *)
PlanPhiVariables(q) ==
  LET web(k) == {j \in Candidates(q) : q.program.phis[j].web = q.program.phis[k].web}
  IN {w \in {web(k) : k \in Candidates(q)} : StaysInVariable(q, w)}

----------------------------------------------------------------------------
(* Ids.                                                                    *)

NO_ID == 0
NewId(s) == [s EXCEPT !.next = @ + 1, !.got = s.next]
Emitted(s, id, ins, args) == [s EXCEPT !.code = Append(@, [id |-> id, ins |-> ins, args |-> args])]
Copying == [Nop EXCEPT !.op = "copy"]
Gives(s, r) == [s EXCEPT !.ids[r] = s.got]
Blank(s, r) == [s EXCEPT !.blank = (s.got :> Count(r)) @@ @]
Noted(s) == [s EXCEPT !.all = Append(@, s.got)]

(* A register without an id gets one when it is first asked for.           *)
GetDefinedId(s, program, r) ==
  IF IsConstant(r) THEN [s EXCEPT !.got = r]
  ELSE IF s.ids[r] # NO_ID THEN [s EXCEPT !.got = s.ids[r]]
  ELSE IF r \in program.undef THEN Blank(Gives(NewId(s), r), r)
  ELSE Gives(NewId(s), r)
Loaded(s, variable) == Emitted(s, s.got, Copying, <<variable>>)
GetSpirvId(s, program, r) ==
  IF r \in DOMAIN s.loads THEN Loaded(NewId(s), s.loads[r]) ELSE GetDefinedId(s, program, r)
GetSpirvIds(s, program, operands) ==
  FoldLeft(LAMBDA w, r : Noted(GetSpirvId(w, program, r)), [s EXCEPT !.all = <<>>], operands)

(* SimplifyTrivialPhis: a phi with one value has the id of the value.      *)
SimplifyTrivialPhi(q, s, phi) ==
  IF GetPhiShape(q, phi) # "trivial" THEN s
  ELSE Gives(GetSpirvId(s, q.program, TrivialValue(q, phi)), phi.result)

(* EmitFunctionBody: ids for the phis that have none, and then for what    *)
(* they read.                                                              *)
PreallocateResult(s, phi) ==
  IF s.ids[phi.result] # NO_ID THEN s ELSE Gives(NewId(s), phi.result)
PreallocateOperand(program, s, r) ==
  IF IsConstant(r) \/ s.ids[r] # NO_ID THEN s
  ELSE IF r \in program.undef THEN GetSpirvId(s, program, r)
  ELSE GetSpirvId([s EXCEPT !.pre = @ \cup {r}], program, r)

AddVariable(q, s, web, pending) ==
  [Blank(s, q.program.phis[Min(web)].result) EXCEPT
     !.loads = [r \in {q.program.phis[k].result : k \in web} |-> s.got] @@ @,
     !.stores = @ \o [i \in DOMAIN pending |-> <<pending[i][1], pending[i][2], s.got>>]]

NothingEmitted ==
  [ids |-> [r \in Regs |-> NO_ID], next |-> 1, blank |-> [id \in {} |-> 0], pre |-> {}, loads |-> [r \in {} |-> NO_ID],
   stores |-> <<>>, got |-> NO_ID, all |-> <<>>, code |-> <<>>, phis |-> <<>>, blocks |-> <<>>, terms |-> <<>>]
BeforeFunction(q, usePhiVariables) ==
  LET phis == q.program.phis
      webs == IF usePhiVariables THEN PlanPhiVariables(q) ELSE {}
      inOrder == SelectSeq([k \in DOMAIN phis |-> {w \in webs : Min(w) = k}], LAMBDA first : first # {})
      simplified == FoldLeft(LAMBDA s, phi : SimplifyTrivialPhi(q, s, phi), NothingEmitted, phis)
      results == FoldLeft(PreallocateResult, simplified, phis)
      given == FoldLeft(LAMBDA s, r : PreallocateOperand(q.program, s, r), results, FlattenSeq([k \in DOMAIN phis |-> phis[k].vals]))
      variable(s, w) == AddVariable(q, NewId(s), w, StoresOf(q, w))
  IN FoldLeft(LAMBDA s, first : variable(s, CHOOSE w \in first : TRUE), given, inOrder)

----------------------------------------------------------------------------
(* Blocks.                                                                 *)

(* EmitPhiNodes, a phi at a time.  A continue target that nothing reaches  *)
(* brings an undefined value.                                              *)
WithPhi(s, phi, from) ==
  [s EXCEPT !.phis = Append(@, [block |-> phi.block, id |-> s.ids[phi.result],
                                pairs |-> [i \in DOMAIN from |-> <<phi.from[from[i]], s.all[i]>>]])]
EmitMixedPhi(q, s, phi) ==
  LET brings(j) == j \in LiveOperands(q, phi) \/ IsBackEdgeOnly(q, phi.from[j], phi.block)
      from == SelectSeq([j \in DOMAIN phi.from |-> j], brings)
      value(w, j) == IF j \in LiveOperands(q, phi) THEN GetSpirvId(w, q.program, phi.vals[j]) ELSE Blank(NewId(w), phi.result)
  IN WithPhi(FoldLeft(LAMBDA w, j : Noted(value(w, j)), [s EXCEPT !.all = <<>>], from), phi, from)
EmitPhiNode(q, s, phi) ==
  LET shape == GetPhiShape(q, phi)
  IN IF phi.vals = <<>> \/ phi.result \in DOMAIN s.loads THEN s
     ELSE CASE shape = "trivial" -> Gives(GetSpirvId(s, q.program, TrivialValue(q, phi)), phi.result)
            [] shape = "undefined" -> Blank([s EXCEPT !.got = s.ids[phi.result]], phi.result)
            [] shape = "mixed" -> EmitMixedPhi(q, s, phi)
EmitPhiNodes(q, s, b) ==
  FoldLeft(LAMBDA w, phi : EmitPhiNode(q, w, phi), s, SelectSeq(q.program.phis, LAMBDA phi : phi.block = b))

(* TranslateInstruction: a copy is its source unless its id was given out. *)
Translated(s, ins) ==
  CASE ins.op = "out" -> Emitted(s, NO_ID, ins, s.all)
    [] ins.op = "copy" /\ ins.dest \notin s.pre -> [s EXCEPT !.ids[ins.dest] = s.all[1]]
    [] ins.op = "copy" /\ ins.dest \in s.pre /\ s.ids[ins.dest] = s.all[1] -> [s EXCEPT !.pre = @ \ {ins.dest}]
    [] OTHER -> Emitted([s EXCEPT !.pre = IF ins.op = "copy" THEN @ \ {ins.dest} ELSE @], s.ids[ins.dest], ins, s.all)
TranslateInstruction(program, s, ins) ==
  IF ins.op = "nop" THEN s
  ELSE Translated(GetSpirvIds(GetDefinedId(s, program, ins.dest), program, OperandsOf(ins)), ins)
TranslateCode(program, s, b) ==
  FoldLeft(LAMBDA w, ins : TranslateInstruction(program, w, ins), s, program.code[b])

(* DropBlockBody: translated for what it declares, and dropped.            *)
Terminator(op, arg, cases, to) == [op |-> op, arg |-> arg, cases |-> cases, to |-> to]
Closed(s, terminator) ==
  [s EXCEPT !.blocks = Append(@, s.code), !.terms = Append(@, terminator), !.code = <<>>]
DropBlockBody(q, s, b) ==
  LET results == {ins.dest : ins \in Elems(q.program.code[b])}
      restored(w) == [w EXCEPT !.ids = [r \in DOMAIN @ |-> IF r \in results THEN s.ids[r] ELSE @[r]], !.code = <<>>]
  IN Closed(restored(TranslateCode(q.program, s, b)),
            IF b \in DOMAIN q.back THEN Terminator("jump", C(0), <<>>, <<q.back[b]>>) ELSE Terminator("unreachable", C(0), <<>>, <<>>))

EmitPhiEdgeStores(program, s, b) ==
  LET written(w, variable) == Emitted(w, variable, Copying, <<w.got>>)
  IN FoldLeft(LAMBDA w, pending : written(GetSpirvId(w, program, pending[2]), pending[3]), s,
              SelectSeq(s.stores, LAMBDA pending : pending[1] = b))
ClosedBy(s, t) == Closed(s, Terminator(t.op, s.got, t.cases, t.to))
EmitBranch(q, s, b) ==
  LET t == q.program.term[b]
      decides == IsConditional(t) /\ Cardinality(Elems(q.to[b])) > 1
  IN IF decides THEN ClosedBy(GetSpirvId(s, q.program, t.arg), t)
     ELSE Closed(s, Terminator(IF t.op = "ret" THEN "ret" ELSE "jump", C(0), <<>>, q.to[b]))

EmitBlock(q, s, b) ==
  IF b # EntryBlock /\ b \notin q.reached THEN DropBlockBody(q, s, b)
  ELSE EmitBranch(q, EmitPhiEdgeStores(q.program, TranslateCode(q.program, EmitPhiNodes(q, s, b), b), b), b)

(* The block to emit is the one behind those that are.                     *)
EmitFunctionBody(q, usePhiVariables) ==
  FoldLeft(LAMBDA s, term : EmitBlock(q, s, Len(s.blocks) + 1), BeforeFunction(q, usePhiVariables), q.program.term)
ModuleOf(s) == [code |-> s.blocks, term |-> s.terms, phis |-> s.phis, blank |-> s.blank]
EmitSpirv(program, usePhiVariables) == ModuleOf(EmitFunctionBody(FindEmittedBlocks(program), usePhiVariables))

----------------------------------------------------------------------------
(* What a module must be: every id it uses is defined, on the way to its   *)
(* use, and a phi names the blocks that branch to its own.                 *)

DefinitionsOfIds(m) ==
  {<<m.phis[k].id, m.phis[k].block>> : k \in DOMAIN m.phis}
    \cup UNION {{<<m.code[b][i].id, b>> : i \in DOMAIN m.code[b]} : b \in DOMAIN m.code}
UsesOfIds(m) ==
  UNION {UNION {{<<id, b>> : id \in Elems(m.code[b][i].args)} : i \in DOMAIN m.code[b]} : b \in DOMAIN m.code}
    \cup UNION {{<<pair[2], pair[1]>> : pair \in Elems(m.phis[k].pairs)} : k \in DOMAIN m.phis}
    \cup {<<m.term[b].arg, b>> : b \in DOMAIN m.term}

IdsAreDefined(m) ==
  LET succ == [b \in DOMAIN m.term |-> m.term[b].to]
      without(d) == [b \in DOMAIN succ |-> IF b = d THEN <<>> ELSE succ[b]]
      reaches(d, u) == d = u \/ u \notin Reachable(succ) \/ u \notin Reachable(without(d))
  IN \A use \in UsesOfIds(m) : \/ IsConstant(use[1]) \/ use[1] \in DOMAIN m.blank
                          \/ \E d \in DefinitionsOfIds(m) : d[1] = use[1] /\ (d[2] = use[2] \/ (d[2] # use[2] /\ reaches(d[2], use[2])))
PhisFollowTheGraph(m) ==
  \A k \in DOMAIN m.phis :
    {pair[1] : pair \in Elems(m.phis[k].pairs)} = {b \in DOMAIN m.term : m.phis[k].block \in Elems(m.term[b].to)}

(* A device runs it; w is [env, out, inputs, status, block, from, rounds]. *)
Operand(env, id) == IF IsConstant(id) THEN <<ConstantBits(id)>> ELSE env[id]
RunCode(w, item) ==
  LET in == [k \in DOMAIN item.args |-> Operand(w.env, item.args[k])]
  IN IF w.status # "runs" THEN w
     ELSE IF \E a \in Elems(item.args) : ~IsConstant(a) /\ a \notin DOMAIN w.env THEN [w EXCEPT !.status = "unknown id"]
     ELSE IF item.ins.op = "out" THEN [w EXCEPT !.out = Append(@, in[1])]
     ELSE [w EXCEPT !.env = (item.id :> Compute(w, item.ins, in)) @@ @]

RunPhiNodes(m, w) ==
  LET here == {k \in DOMAIN m.phis : m.phis[k].block = w.block}
      brought(k) == (CHOOSE pair \in Elems(m.phis[k].pairs) : pair[1] = w.from)[2]
  IN [w EXCEPT !.env = [id \in {m.phis[k].id : k \in here} |->
                          Operand(w.env, brought(CHOOSE k \in here : m.phis[k].id = id))] @@ @]

RECURSIVE RunModule(_, _)
RunOnward(m, end, t) ==
  LET truth == Operand(end.env, t.arg)[1]
      to(b) == RunModule(m, [end EXCEPT !.rounds = @ - 1, !.from = end.block, !.block = b])
  IN IF end.status # "runs" THEN end
     ELSE IF t.op = "ret" THEN [end EXCEPT !.status = "done"]
     ELSE IF end.rounds = 0 THEN [end EXCEPT !.status = "endless"]
     ELSE IF t.op # "jump" /\ truth = Poison THEN [end EXCEPT !.status = "stuck"]
     ELSE to(IF t.op = "jump" THEN t.to[1] ELSE TargetFor(t, truth))
RunModule(m, w) == RunOnward(m, FoldLeft(RunCode, RunPhiNodes(m, w), m.code[w.block]), m.term[w.block])

RunSpirv(m, inputs) ==
  RunModule(m, [env |-> [id \in DOMAIN m.blank |-> [c \in 1..m.blank[id] |-> Poison]], out |-> <<>>, inputs |-> inputs,
                status |-> "runs", block |-> EntryBlock, from |-> NO_BLOCK, rounds |-> MaxSteps])
=============================================================================
