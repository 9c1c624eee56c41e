-------------------------------- MODULE Ssa --------------------------------
(***************************************************************************)
(* SSAConstructor (bwsl_ssa.cpp): which registers need SSA form, phis at   *)
(* the iterated dominance frontier, renaming along the dominator tree with *)
(* one bounded stack per variable, the repair of unreachable blocks, and   *)
(* the removal of phis nothing reads.                                      *)
(*                                                                         *)
(* The conversion takes one step per worklist item, instruction, successor *)
(* and tree edge.  When it has finished, the program as it was and the     *)
(* program as it became run side by side along one path: every definition  *)
(* that executes makes a value of its own in both, so two registers agree  *)
(* exactly when they hold the result of the same execution.                *)
(*                                                                         *)
(* Registers are numbered from 0 as in the code, blocks and positions from *)
(* 1.  The dominator tree and the frontiers are those Cfg builds.          *)
(***************************************************************************)
EXTENDS Dominance

CONSTANTS
  Functions,      \* records [succ, code, regs, memory]: block graph, block -> sequence of
                  \* instructions, number of registers, those that are address-taken
  RegisterLimit,  \* IR::RegisterLimit
  MaxSteps        \* bound: instructions and edges the two programs execute

(* "def" computes dest from srcs; "const" and "copy" are OP_STORE_REG of a *)
(* constant and of a register; "load" is what the former becomes; "out"    *)
(* (OP_STORE_OUTPUT) reads the register in dest.  A block may end in a     *)
(* "branch" that reads a condition, a "ret", or a "discard", which has the *)
(* register number 0 for want of a destination and ends the invocation.    *)
Ops == {"def", "const", "copy", "out", "branch", "ret", "discard", "nop"}
Instruction(regs) ==
  {ins \in [op : Ops, dest : 0..(regs - 1), srcs : Seq(0..(regs - 1))] :
     (ins.op = "copy" => Len(ins.srcs) = 1) /\ (ins.op \in {"const", "out", "nop"} => ins.srcs = <<>>)}

NoReg == 65535

ASSUME SsaAssumption ==
  /\ RegisterLimit \in 1..(NoReg - 1) /\ MaxSteps \in Nat
  /\ \A f \in Functions :
       /\ f.succ \in Seq(Seq(DOMAIN f.succ)) /\ f.succ # <<>>
       /\ f.regs \in 1..RegisterLimit /\ f.memory \subseteq 0..(f.regs - 1)
       /\ f.code \in Seq(Seq(Instruction(f.regs))) /\ DOMAIN f.code = DOMAIN f.succ
       /\ \A b \in DOMAIN f.code : \A i \in DOMAIN f.code[b] :
            f.code[b][i].op = "discard" => i = Len(f.code[b]) /\ f.succ[b] = <<>>

VARIABLES
  fn,          \* the lowered function
  stage,       \* "variables", "phis", "rename", "cleanup", "mark", "run", "rejected"
  tree,        \* [frontier, children] of the block graph
  variableInfo,\* register that gets SSA form -> [defBlocks, definitionCount]
  unplaced,    \* variables whose phis are not placed yet
  placing,     \* the one being placed
  worklist, queued,
  phis,        \* [block, var, result, blocks, values] in order of insertion
  regStack,    \* variable -> registers pushed and not popped
  nextReg, limitExceeded,
  undefs,      \* registers marked undefined
  walk,        \* frames of RenameBlock: [block, pc, pushed, todo]
  visited,     \* blocks RenameBlock has entered
  code,        \* the instructions as they are rewritten
  held,        \* history: the current registers in front of every instruction passed
  live,        \* positions of the phis known to be read
  at, old, new, steps   \* where both programs are, their registers, steps taken

phiVars == <<variableInfo, unplaced, placing, worklist, queued>>
renameVars == <<regStack, nextReg, limitExceeded, undefs, walk, visited, code, held>>
runVars == <<at, old, new, steps>>
vars == <<fn, stage, tree, phiVars, phis, renameVars, live, runVars>>

Blocks == DOMAIN fn.succ
variables == DOMAIN variableInfo
Preds(b) == PredecessorsOf(fn.succ, b)
Elems(s) == {s[k] : k \in DOMAIN s}
Least(S) == CHOOSE x \in S : \A y \in S : x <= y
Rank(x, S) == Cardinality({y \in S : y <= x})
InOrder(S) == [k \in 1..Cardinality(S) |-> CHOOSE x \in S : Rank(x, S) = k]

(* All instructions of the function, in order.                             *)
Places == UNION {{<<b, i>> : i \in DOMAIN fn.code[b]} : b \in Blocks}

(* What counts as a definition; a discard does as well, of register 0.     *)
Defines(ins) == ins.op \in {"def", "const", "copy", "load", "discard"}
Reads(ins) == IF ins.op = "out" THEN {ins.dest} ELSE Elems(ins.srcs)

----------------------------------------------------------------------------
(* Init and IdentifyVariables.                                             *)

(* The dominators of every block; an unreachable one has only itself.      *)
IdomChains == LET reached == Reachable(fn.succ)
              IN [b \in Blocks |-> {b} \cup IF b \notin reached THEN {}
                                            ELSE {a \in reached : Dominates(fn.succ, a, b)}]

(* The blocks whose dominators are a's and themselves.                     *)
ChildrenOf(chain, a) == {b \in Blocks : chain[b] \ {b} = chain[a] /\ b # a}

(* A runner that starts at a predecessor stops at the join's immediate     *)
(* dominator; the entry is its own.                                        *)
FrontierOf(chain, a) ==
  {b \in Blocks : /\ Len(Preds(b)) > 1
                  /\ \E q \in Elems(Preds(b)) :
                       a \in chain[q] \ (IF b = EntryBlock THEN {b} ELSE chain[b] \ {b})}

DefinitionsOf(r) == {q \in Places : Defines(fn.code[q[1]][q[2]]) /\ fn.code[q[1]][q[2]].dest = r}
RegDefs(r) == [defBlocks |-> {q[1] : q \in DefinitionsOf(r)}, definitionCount |-> Cardinality(DefinitionsOf(r))]

(* Register 0 is never seen to be used, nor is the register an output      *)
(* store reads.                                                            *)
HasExternalUse(r) ==
  \E p \in Places : /\ r # 0 /\ p[1] \notin RegDefs(r).defBlocks
                    /\ fn.code[p[1]][p[2]].op # "out"
                    /\ r \in Elems(fn.code[p[1]][p[2]].srcs)

IdentifyVariables ==
  /\ stage = "variables"
  /\ LET chain == IdomChains
     IN tree' = [frontier |-> [b \in Blocks |-> FrontierOf(chain, b)],
                 children |-> [b \in Blocks |-> ChildrenOf(chain, b)]]
  /\ LET needsSSA(r) == /\ DefinitionsOf(r) # {}
                        /\ \/ RegDefs(r).definitionCount > 1
                           \/ HasExternalUse(r) /\ \E b \in RegDefs(r).defBlocks : tree'.frontier[b] # {}
     IN variableInfo' = [r \in {q \in (0..(fn.regs - 1)) \ fn.memory : needsSSA(q)} |-> RegDefs(r)]
  /\ unplaced' = DOMAIN variableInfo'
  /\ stage' = "phis"
  /\ UNCHANGED <<fn, placing, worklist, queued, phis, renameVars, live, runVars>>

----------------------------------------------------------------------------
(* PlacePhis, ComputeIDF, InsertPhi.                                       *)

StartVariable ==
  /\ stage = "phis" /\ worklist = <<>> /\ unplaced # {}
  /\ placing' = Least(unplaced)
  /\ unplaced' = unplaced \ {placing'}
  /\ worklist' = InOrder(variableInfo[placing'].defBlocks)
  /\ queued' = variableInfo[placing'].defBlocks
  /\ UNCHANGED <<fn, stage, tree, variableInfo, phis, renameVars, live, runVars>>

HasPhiFor(b, v) == \E p \in Elems(phis) : p.block = b /\ p.var = v

NewPhi(b, v) == [block |-> b, var |-> v, result |-> NoReg,
                 blocks |-> Preds(b), values |-> [k \in DOMAIN Preds(b) |-> NoReg]]

(* Mutant of SpreadPhis: a phi is not taken for a definition of its        *)
(* variable.                                                               *)
PlaceOnce ==
  /\ stage = "phis" /\ worklist # <<>>
  /\ LET order == InOrder({b \in tree.frontier[Head(worklist)] : ~HasPhiFor(b, placing)})
     IN phis' = phis \o [k \in DOMAIN order |-> NewPhi(order[k], placing)]
  /\ worklist' = Tail(worklist)
  /\ UNCHANGED <<fn, stage, tree, variableInfo, unplaced, placing, queued, renameVars, live, runVars>>

SpreadPhis ==
  /\ stage = "phis" /\ worklist # <<>>
  /\ LET fresh == {b \in tree.frontier[Head(worklist)] : ~HasPhiFor(b, placing)}
         order == InOrder(fresh)
     IN /\ phis' = phis \o [k \in DOMAIN order |-> NewPhi(order[k], placing)]
        /\ worklist' = Tail(worklist) \o InOrder(fresh \ queued)
        /\ queued' = queued \cup fresh
  /\ UNCHANGED <<fn, stage, tree, variableInfo, unplaced, placing, renameVars, live, runVars>>

----------------------------------------------------------------------------
(* Rename.  The k-th register allocated by a step, and what is left then;  *)
(* register 0 is handed out once the limit is reached.                     *)

Allocated(k) == IF nextReg + k - 1 < RegisterLimit THEN nextReg + k - 1 ELSE 0

(* Mutant of Allocate: running out of registers is not recorded.           *)
AllocateSilently(n) ==
  /\ nextReg' = IF nextReg + n <= RegisterLimit THEN nextReg + n ELSE RegisterLimit
  /\ UNCHANGED limitExceeded

Allocate(n) ==
  /\ nextReg' = IF nextReg + n <= RegisterLimit THEN nextReg + n ELSE RegisterLimit
  /\ limitExceeded' = (limitExceeded \/ nextReg + n > RegisterLimit)

(* Mutant of StackCap: no room for the undefined value below the           *)
(* definitions.                                                            *)
StackCapTight(v) == variableInfo[v].definitionCount + Cardinality({k \in DOMAIN phis : phis[k].var = v})

(* A variable's stack has room for its definitions, its phis and an undef. *)
StackCap(v) == variableInfo[v].definitionCount + Cardinality({k \in DOMAIN phis : phis[k].var = v}) + 1

Push(stacks, v, r) ==
  IF Len(stacks[v]) < StackCap(v) THEN [stacks EXCEPT ![v] = Append(@, r)] ELSE stacks

CurrentRegister(stacks, v) == IF stacks[v] = <<>> THEN NoReg ELSE Last(stacks[v])

Frame(b) == [block |-> b, pc |-> 0, pushed |-> <<>>, todo |-> tree.children[b]]

(* Variables without a definition in the entry block start undefined.      *)
InsertUndefs ==
  /\ stage = "phis" /\ worklist = <<>> /\ unplaced = {}
  /\ LET bare == {v \in variables : EntryBlock \notin variableInfo[v].defBlocks} IN
       /\ regStack' = [v \in variables |-> IF v \in bare THEN <<Allocated(Rank(v, bare))>> ELSE <<>>]
       /\ undefs' = {Allocated(Rank(v, bare)) : v \in bare}
       /\ Allocate(Cardinality(bare))
  /\ IF variables = {} THEN stage' = "mark" /\ UNCHANGED walk
                       ELSE stage' = "rename" /\ walk' = <<Frame(EntryBlock)>>
  /\ UNCHANGED <<fn, tree, phiVars, phis, visited, code, held, live, runVars>>

Renaming == stage = "rename" /\ walk # <<>>
Top == Last(walk)
SetTop(frame) == walk' = Append(Front(walk), frame)
Remember == held' = [held EXCEPT ![Top.block] = Append(@, [v \in variables |-> CurrentRegister(regStack', v)])]

(* RenameBlock, part 1: the phis of the block define new registers.        *)
EnterBlock ==
  /\ Renaming /\ Top.pc = 0
  /\ LET mine == {p \in DOMAIN phis : phis[p].block = Top.block}
         hers(v) == {p \in mine : phis[p].var = v}
     IN /\ phis' = [p \in DOMAIN phis |->
                      IF p \in mine THEN [phis[p] EXCEPT !.result = Allocated(Rank(p, mine))] ELSE phis[p]]
        /\ regStack' = [v \in variables |->
                          IF hers(v) = {} THEN regStack[v]
                          ELSE Push(regStack, v, Allocated(Rank(Least(hers(v)), mine)))[v]]
        /\ Allocate(Cardinality(mine))
        /\ SetTop([Top EXCEPT !.pc = 1, !.pushed = [k \in 1..Cardinality(mine) |-> phis[InOrder(mine)[k]].var]])
  /\ visited' = visited \cup {Top.block}
  /\ Remember
  /\ UNCHANGED <<fn, stage, tree, phiVars, undefs, code, live, runVars>>

(* A read of a variable becomes a read of its current register.            *)
Renamed(r) == IF r \in variables /\ CurrentRegister(regStack, r) # NoReg
                THEN CurrentRegister(regStack, r) ELSE r
RenamedReads(ins) ==
  IF ins.op = "out" THEN [ins EXCEPT !.dest = Renamed(ins.dest)]
  ELSE [ins EXCEPT !.srcs = [k \in DOMAIN ins.srcs |-> Renamed(ins.srcs[k])]]

(* Part 2: a copy from a register makes that register the current one of   *)
(* the variable; every other definition, a copy of a constant or out of    *)
(* memory included, gets a register of its own.                            *)
RenameInstruction ==
  /\ Renaming /\ Top.pc \in DOMAIN code[Top.block]
  /\ LET ins == code[Top.block][Top.pc]
         read == RenamedReads(ins)
         tracked == Defines(ins) /\ ins.dest \in variables
         aliases == ins.op = "copy" /\ ins.srcs[1] \notin fn.memory
         value == IF aliases THEN read.srcs[1] ELSE Allocated(1)
         written == IF ~tracked \/ aliases THEN read
                    ELSE [read EXCEPT !.dest = value,
                                      !.op = IF @ \in {"const", "copy"} THEN "load" ELSE @]
     IN /\ code' = [code EXCEPT ![Top.block][Top.pc] = written]
        /\ regStack' = IF tracked THEN Push(regStack, ins.dest, value) ELSE regStack
        /\ Allocate(IF tracked /\ ~aliases THEN 1 ELSE 0)
        /\ SetTop([Top EXCEPT !.pc = @ + 1,
                              !.pushed = IF tracked THEN Append(@, ins.dest) ELSE @])
  /\ Remember
  /\ UNCHANGED <<fn, stage, tree, phiVars, phis, undefs, visited, live, runVars>>

(* Part 3: one successor; only the first operand of a phi that names this  *)
(* block is filled.                                                        *)
OperandFor(p, b) == Least({k \in DOMAIN phis[p].blocks : phis[p].blocks[k] = b})

SuccessorIndex == Top.pc - Len(code[Top.block])

FillSuccessor ==
  /\ Renaming /\ SuccessorIndex \in DOMAIN fn.succ[Top.block]
  /\ LET s == fn.succ[Top.block][SuccessorIndex]
         fed == {p \in DOMAIN phis : phis[p].block = s}
         bare == {p \in fed : regStack[phis[p].var] = <<>>}
         value(p) == IF p \in bare THEN Allocated(Rank(p, bare)) ELSE Last(regStack[phis[p].var])
     IN /\ phis' = [p \in DOMAIN phis |->
                      IF p \in fed THEN [phis[p] EXCEPT !.values[OperandFor(p, Top.block)] = value(p)]
                                   ELSE phis[p]]
        /\ undefs' = undefs \cup {Allocated(Rank(p, bare)) : p \in bare}
        /\ Allocate(Cardinality(bare))
  /\ SetTop([Top EXCEPT !.pc = @ + 1])
  /\ UNCHANGED <<fn, stage, tree, phiVars, regStack, visited, code, held, live, runVars>>

BlockRenamed == Renaming /\ Top.pc > 0 /\ SuccessorIndex > Len(fn.succ[Top.block])

(* Part 4: the children in the dominator tree, one after another.          *)
VisitChild ==
  /\ BlockRenamed /\ Top.todo # {}
  /\ LET child == Least(Top.todo)
     IN walk' = Front(walk) \o <<[Top EXCEPT !.todo = @ \ {child}], Frame(child)>>
  /\ UNCHANGED <<fn, stage, tree, phiVars, phis, regStack, nextReg, limitExceeded, undefs,
                 visited, code, held, live, runVars>>

(* Mutant of LeaveBlock: a variable defined twice in the block is popped   *)
(* once.                                                                   *)
PopOnce ==
  /\ BlockRenamed /\ Top.todo = {}
  /\ regStack' = [v \in variables |-> IF v \in Elems(Top.pushed) THEN Front(regStack[v]) ELSE regStack[v]]
  /\ walk' = Front(walk)
  /\ stage' = IF Len(walk) = 1 THEN "cleanup" ELSE stage
  /\ UNCHANGED <<fn, tree, phiVars, phis, nextReg, limitExceeded, undefs, visited, code, held, live, runVars>>

(* Part 5: what the block pushed is popped.                                *)
LeaveBlock ==
  /\ BlockRenamed /\ Top.todo = {}
  /\ regStack' = [v \in variables |->
                    LET n == Cardinality({k \in DOMAIN Top.pushed : Top.pushed[k] = v})
                    IN SubSeq(regStack[v], 1, Len(regStack[v]) - n)]
  /\ walk' = Front(walk)
  /\ stage' = IF Len(walk) = 1 THEN "cleanup" ELSE stage
  /\ UNCHANGED <<fn, tree, phiVars, phis, nextReg, limitExceeded, undefs, visited, code, held, live, runVars>>

(* Blocks the walk did not visit: their phis get results, operands nobody  *)
(* filled become undefined registers, their instructions go except returns *)
(* and branches, and the branches read one shared undefined register.      *)
CleanUnreachable ==
  /\ stage = "cleanup"
  /\ LET missed == Blocks \ visited
         bare == {p \in DOMAIN phis : phis[p].block \in missed}
         holes == UNION {{<<p, k>> : k \in {j \in DOMAIN phis[p].values : phis[p].values[j] = NoReg}} :
                           p \in DOMAIN phis}
         nth(p, k) == Cardinality(bare) + Cardinality({h \in holes : h[1] < p \/ (h[1] = p /\ h[2] <= k)})
         tests == {q \in Places : q[1] \in missed /\ code[q[1]][q[2]].op = "branch"}
         filled == Cardinality(bare) + Cardinality(holes)
         shared == Allocated(filled + 1)
     IN /\ phis' = [p \in DOMAIN phis |->
                      [phis[p] EXCEPT
                         !.result = IF p \in bare THEN Allocated(Rank(p, bare)) ELSE @,
                         !.values = [k \in DOMAIN @ |-> IF @[k] = NoReg THEN Allocated(nth(p, k)) ELSE @[k]]]]
        /\ code' = [b \in Blocks |->
                      IF b \in visited THEN code[b]
                      ELSE [i \in DOMAIN code[b] |->
                              CASE <<b, i>> \in tests -> [code[b][i] EXCEPT !.srcs = <<shared>>]
                                [] code[b][i].op = "ret" -> code[b][i]
                                [] OTHER -> [op |-> "nop", dest |-> 0, srcs |-> <<>>]]]
        /\ undefs' = undefs \cup {Allocated(nth(h[1], h[2])) : h \in holes}
                            \cup (IF tests = {} THEN {} ELSE {shared})
        /\ Allocate(filled + (IF tests = {} THEN 0 ELSE 1))
  /\ stage' = "mark"
  /\ UNCHANGED <<fn, tree, phiVars, regStack, walk, visited, held, live, runVars>>

----------------------------------------------------------------------------
(* EliminateDeadPhis.                                                      *)

(* Any appearance in an instruction counts, destinations included.         *)
Appears(r) == \E q \in Places : LET ins == code[q[1]][q[2]]
                                IN ins.op # "nop" /\ r \in Elems(ins.srcs) \cup {ins.dest}

(* Mutant of KeepsAlive: a phi that any phi reads is kept, so a dead       *)
(* cycle keeps itself.                                                     *)
KeepsCycles(p) == Appears(phis[p].result) \/ \E q \in DOMAIN phis : phis[p].result \in Elems(phis[q].values)

KeepsAlive(p) == \/ Appears(phis[p].result)
                 \/ \E q \in live : phis[p].result \in Elems(phis[q].values)

MarkPhi ==
  /\ stage = "mark"
  /\ \E p \in DOMAIN phis \ live :
       /\ KeepsAlive(p)
       /\ \A q \in DOMAIN phis \ live : KeepsAlive(q) => p <= q
       /\ live' = live \cup {p}
  /\ UNCHANGED <<fn, stage, tree, phiVars, phis, renameVars, runVars>>

(* What is left is kept, and the callers reject the function when the      *)
(* register limit was exceeded.                                            *)
SweepPhis ==
  /\ stage = "mark"
  /\ \A p \in DOMAIN phis \ live : ~KeepsAlive(p)
  /\ phis' = [k \in 1..Cardinality(live) |-> phis[InOrder(live)[k]]]
  /\ live' = 1..Cardinality(live)
  /\ stage' = IF limitExceeded THEN "rejected" ELSE "run"
  /\ at' = [block |-> EntryBlock, pc |-> 1]
  /\ old' = [r \in 0..(fn.regs - 1) |-> 0]
  /\ new' = [r \in 0..(nextReg - 1) |-> 0]
  /\ UNCHANGED <<fn, tree, phiVars, renameVars, steps>>

----------------------------------------------------------------------------
(* The two programs, side by side: what the backends make of each.  Value  *)
(* 0 is undefined; step n makes value n.                                   *)

Running == stage = "run" /\ steps < MaxSteps

OldIns == fn.code[at.block][at.pc]
NewIns == code[at.block][at.pc]

Discarded == at.pc \in DOMAIN fn.code[at.block] /\ OldIns.op = "discard"

(* A renamed copy is only the trace of an alias and does nothing.          *)
Execute ==
  /\ Running /\ at.pc \in DOMAIN fn.code[at.block] /\ ~Discarded
  /\ steps' = steps + 1
  /\ at' = [at EXCEPT !.pc = @ + 1]
  /\ old' = IF ~Defines(OldIns) THEN old
            ELSE [old EXCEPT ![OldIns.dest] = IF OldIns.op = "copy" THEN old[OldIns.srcs[1]] ELSE steps']
  /\ new' = IF ~Defines(NewIns) \/ (NewIns.op = "copy" /\ NewIns.dest \in variables) THEN new
            ELSE [new EXCEPT ![NewIns.dest] =
                    IF NewIns.op \in {"copy", "load"} /\ NewIns.srcs # <<>> THEN new[NewIns.srcs[1]] ELSE steps']
  /\ UNCHANGED <<fn, stage, tree, phiVars, phis, renameVars, live>>

(* All phis of the successor read before any is written.                   *)
TakeEdge ==
  /\ Running /\ at.pc > Len(fn.code[at.block])
  /\ \E k \in DOMAIN fn.succ[at.block] :
       LET s == fn.succ[at.block][k] IN
         /\ at' = [block |-> s, pc |-> 1]
         /\ new' = [r \in DOMAIN new |->
                      IF \E p \in DOMAIN phis : phis[p].block = s /\ phis[p].result = r
                        THEN LET p == CHOOSE q \in DOMAIN phis : phis[q].block = s /\ phis[q].result = r
                             IN new[phis[p].values[OperandFor(p, at.block)]]
                        ELSE new[r]]
  /\ steps' = steps + 1
  /\ UNCHANGED <<fn, stage, tree, phiVars, phis, renameVars, live, old>>

Stopped ==
  /\ \/ stage = "rejected"
     \/ /\ stage = "run"
        /\ steps = MaxSteps \/ Discarded \/ (at.pc > Len(fn.code[at.block]) /\ fn.succ[at.block] = <<>>)
  /\ UNCHANGED vars

Init ==
  /\ fn \in Functions
  /\ stage = "variables"
  /\ tree = <<>>
  /\ variableInfo = <<>> /\ unplaced = {} /\ placing = NoReg /\ worklist = <<>> /\ queued = {}
  /\ phis = <<>>
  /\ regStack = <<>> /\ nextReg = fn.regs /\ limitExceeded = FALSE /\ undefs = {}
  /\ walk = <<>> /\ visited = {} /\ code = fn.code /\ held = [b \in Blocks |-> <<>>]
  /\ live = {}
  /\ at = [block |-> EntryBlock, pc |-> 1] /\ old = <<>> /\ new = <<>> /\ steps = 0

Next ==
  \/ IdentifyVariables
  \/ StartVariable \/ SpreadPhis
  \/ InsertUndefs
  \/ EnterBlock \/ RenameInstruction \/ FillSuccessor \/ VisitChild \/ LeaveBlock
  \/ CleanUnreachable
  \/ MarkPhi \/ SweepPhis
  \/ Execute \/ TakeEdge
  \/ Stopped

Spec == Init /\ [][Next]_vars
FairSpec == Spec /\ WF_vars(Next)

----------------------------------------------------------------------------
(* What the source language promises of the function and the proofs rest   *)
(* on: a register is written before it is read on every path, earlier in   *)
(* the block or in blocks that no path to it avoids.                       *)
DefinesAt(f, b, i, r) == Defines(f.code[b][i]) /\ f.code[b][i].dest = r
DefinesIn(f, b, r) == \E i \in DOMAIN f.code[b] : DefinesAt(f, b, i, r)
AssignedAt(f, b, i, r) ==
  \/ \E j \in 1..(i - 1) : DefinesAt(f, b, j, r)
  \/ b \notin ReachedAvoiding(f.succ, {c \in DOMAIN f.code \ {b} : DefinesIn(f, c, r)})
DefinitelyAssigned(f) ==
  \A b \in DOMAIN f.code : \A i \in DOMAIN f.code[b] : \A r \in Reads(f.code[b][i]) : AssignedAt(f, b, i, r)

(* The conversion changes no value: whenever the program reads a register  *)
(* it has written, the converted instruction reads a register with the     *)
(* result of the same execution, through loops, copies and swaps (the      *)
(* whole of ConvertToSSA).                                                 *)
ReadsAgree ==
  stage = "run" /\ at.pc \in DOMAIN fn.code[at.block] =>
    /\ \A k \in DOMAIN OldIns.srcs : old[OldIns.srcs[k]] # 0 => new[NewIns.srcs[k]] = old[OldIns.srcs[k]]
    /\ OldIns.op = "out" /\ old[OldIns.dest] # 0 => new[NewIns.dest] = old[OldIns.dest]

(* What defines register r in the converted function.                      *)
Definers(r) ==
  {<<"undef", 0, 0>> : u \in undefs \cap {r}}
  \cup {<<"phi", p, 0>> : p \in {q \in DOMAIN phis : phis[q].result = r}}
  \cup {<<"ins", q[1], q[2]>> : q \in {x \in Places : LET ins == code[x[1]][x[2]]
                                                     IN Defines(ins) /\ ins.dest = r
                                                        /\ (ins.op = "copy" => r \notin variables)}}

(* The result is in SSA form, what VerifySSA checks: no register is        *)
(* defined twice, and what a phi reads is defined unless it is a register  *)
(* no reachable block writes.                                              *)
SingleDefinition ==
  stage = "run" =>
    /\ \A r \in (0..(nextReg - 1)) \ fn.memory : Cardinality(Definers(r)) < 2
    /\ \A p \in Elems(phis) : \A k \in DOMAIN p.values :
         \/ Definers(p.values[k]) # {}
         \/ p.values[k] < fn.regs /\ \A q \in DefinitionsOf(p.values[k]) : q[1] \notin visited

(* Definition d comes before position i of block b on every path.          *)
Above(d, b, i) == CASE d[1] = "undef" -> TRUE
                    [] d[1] = "phi" -> Dominates(fn.succ, phis[d[2]].block, b)
                    [] OTHER -> IF d[2] = b THEN d[3] < i ELSE Dominates(fn.succ, d[2], b)

(* Every read of the result is dominated by the definition of what it      *)
(* reads, at the end of the predecessor for the operand of a phi, so that  *)
(* the backends never name a value that is not there yet; a register no    *)
(* reachable block writes has none.                                        *)
DefinitionsDominateReads ==
  stage = "run" /\ steps = 0 =>
    LET provided(r, b, i) == \/ r \in fn.memory \/ Definers(r) = {}
                             \/ \E d \in Definers(r) : Above(d, b, i)
    IN /\ \A q \in Places : LET ins == code[q[1]][q[2]] IN
            q[1] \in visited /\ ins.op # "nop" => \A r \in Reads(ins) : provided(r, q[1], q[2])
       /\ \A p \in Elems(phis) : \A k \in DOMAIN p.values :
            p.blocks[k] \in visited => provided(p.values[k], p.blocks[k], Len(code[p.blocks[k]]) + 1)

(* The stacks of renaming hold what the blocks on the way from the entry   *)
(* pushed, nothing dropped for want of room and nothing left over by a     *)
(* sibling (PushRegister, PopVersion and the two capacities).              *)
StacksFollowTheTree ==
  stage \in {"rename", "cleanup"} =>
    \A v \in variables :
      Len(regStack[v]) =
        (IF EntryBlock \in variableInfo[v].defBlocks THEN 0 ELSE 1)
        + Cardinality(UNION {{<<f, k>> : k \in {j \in DOMAIN walk[f].pushed : walk[f].pushed[j] = v}} :
                               f \in DOMAIN walk})

(* A phi is dead when it is in a set of phis without readers outside, none *)
(* of whose values an instruction reads.                                   *)
DeadPhis ==
  LET closed(S) == \A q \in S : \A r \in DOMAIN phis : phis[q].result \in Elems(phis[r].values) => r \in S
  IN {p \in DOMAIN phis : \E S \in SUBSET DOMAIN phis :
        p \in S /\ closed(S) /\ \A q \in S : ~Appears(phis[q].result)}

(* The sweep removes exactly the dead phis: what it leaves, in the order   *)
(* it was in, are the phis whose value an instruction reads, directly or   *)
(* through other phis (EliminateDeadPhis).                                 *)
ExactlyDeadPhisGo ==
  [][ stage = "mark" /\ stage' # "mark" =>
        LET order == InOrder(DOMAIN phis \ DeadPhis)
        IN phis' = [k \in DOMAIN order |-> phis[order[k]]] ]_vars

=============================================================================
