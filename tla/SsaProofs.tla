----------------------------- MODULE SsaProofs -----------------------------
(***************************************************************************)
(* Proofs about the SSA construction, for all functions, all limits and    *)
(* all runs of the two programs: what every field holds, that only dead    *)
(* phis are swept, which blocks the walk over the dominator tree enters    *)
(* and what the stacks of the variables hold.                              *)
(***************************************************************************)
EXTENDS Ssa, DominanceProofs
----------------------------------------------------------------------------
(* Finite sets of numbers in order.                                        *)

LEMMA RankFacts ==
  ASSUME NEW S \in SUBSET Nat, IsFiniteSet(S)
  PROVE  /\ Cardinality(S) \in Nat
         /\ \A x \in S : Rank(x, S) \in 1..Cardinality(S)
         /\ \A x, y \in S : Rank(x, S) = Rank(y, S) => x = y
         /\ \A k \in 1..Cardinality(S) : \E x \in S : Rank(x, S) = k
<1> DEFINE Upto(x) == {y \in S : y <= x}
<1>0. Cardinality(S) \in Nat
  BY FS_CardinalityType
<1>1. ASSUME NEW x \in S PROVE /\ IsFiniteSet(Upto(x)) /\ Cardinality(Upto(x)) \in Nat
                               /\ Rank(x, S) = Cardinality(Upto(x))
                               /\ Rank(x, S) \in 1..Cardinality(S)
  <2>1. Upto(x) \in SUBSET S /\ x \in Upto(x)
    OBVIOUS
  <2>2. IsFiniteSet(Upto(x)) /\ Cardinality(Upto(x)) <= Cardinality(S)
    BY <2>1, FS_Subset
  <2>3. Cardinality(Upto(x)) \in Nat /\ Cardinality(Upto(x)) # 0
    BY <2>1, <2>2, FS_CardinalityType, FS_EmptySet
  <2>4. Rank(x, S) = Cardinality(Upto(x))
    BY DEF Rank
  <2> QED
    BY <1>0, <2>2, <2>3, <2>4
<1>2. ASSUME NEW x \in S, NEW y \in S, x < y PROVE Rank(x, S) # Rank(y, S)
  <2>0. \A z \in S : z \in Nat
    OBVIOUS
  <2>1. Upto(x) \in SUBSET Upto(y) /\ y \in Upto(y) /\ y \notin Upto(x)
    <3>1. \A z \in S : z <= x => z <= y
      BY <1>2, <2>0
    <3>2. y <= y /\ ~(y <= x)
      BY <1>2, <2>0
    <3> QED
      BY <3>1, <3>2
  <2>2. Cardinality(Upto(x)) # Cardinality(Upto(y))
    BY <1>1, <2>1, FS_Subset
  <2> QED
    BY <1>1, <2>2
<1>3. \A x, y \in S : Rank(x, S) = Rank(y, S) => x = y
  <2> TAKE x, y \in S
  <2>1. x \in Nat /\ y \in Nat
    OBVIOUS
  <2>2. x < y \/ y < x \/ x = y
    BY <2>1
  <2> QED
    BY <1>2, <2>2
<1>4. ASSUME NEW k \in 1..Cardinality(S) PROVE \E x \in S : Rank(x, S) = k
  <2> DEFINE rank == [x \in S |-> Rank(x, S)]
  <2>1. rank \in Injection(S, 1..Cardinality(S))
    BY <1>1, <1>3 DEF Injection, IsInjective
  <2>2. IsFiniteSet(1..Cardinality(S)) /\ Cardinality(1..Cardinality(S)) = Cardinality(S)
    <3>1. 1 \in Int /\ Cardinality(S) \in Int
      BY <1>0
    <3>2. Cardinality(1..Cardinality(S)) = IF 1 > Cardinality(S) THEN 0 ELSE Cardinality(S) - 1 + 1
      BY ONLY <3>1, FS_Interval
    <3> QED
      BY <1>0, <3>1, <3>2, FS_Interval
  <2>3. rank \in Surjection(S, 1..Cardinality(S))
    BY <2>1, <2>2, FS_Injection
  <2> QED
    BY <2>3 DEF Surjection
<1> QED
  BY <1>0, <1>1, <1>3, <1>4

LEMMA InOrderFacts ==
  ASSUME NEW S \in SUBSET Nat, IsFiniteSet(S)
  PROVE  /\ Cardinality(S) \in Nat
         /\ InOrder(S) \in Seq(S) /\ DOMAIN InOrder(S) = 1..Cardinality(S) /\ Len(InOrder(S)) = Cardinality(S)
         /\ \A k \in 1..Cardinality(S) : InOrder(S)[k] \in S /\ Rank(InOrder(S)[k], S) = k
         /\ \A x \in S : Rank(x, S) \in 1..Cardinality(S) /\ InOrder(S)[Rank(x, S)] = x
<1> PICK n : n = Cardinality(S)
  OBVIOUS
<1>1. /\ n \in Nat
      /\ \A x \in S : Rank(x, S) \in 1..n
      /\ \A x, y \in S : Rank(x, S) = Rank(y, S) => x = y
      /\ \A k \in 1..n : \E x \in S : Rank(x, S) = k
  BY RankFacts
<1>2. InOrder(S) = [k \in 1..n |-> CHOOSE x \in S : Rank(x, S) = k]
  BY DEF InOrder
<1>3. \A k \in 1..n : InOrder(S)[k] \in S /\ Rank(InOrder(S)[k], S) = k
  BY <1>1, <1>2
<1>4. InOrder(S) \in Seq(S) /\ DOMAIN InOrder(S) = 1..n /\ Len(InOrder(S)) = n
  BY <1>1, <1>2, <1>3
<1>5. \A x \in S : InOrder(S)[Rank(x, S)] = x
  BY <1>1, <1>3
<1> QED
  BY <1>1, <1>3, <1>4, <1>5

----------------------------------------------------------------------------
(* Sequences.                                                              *)

LEMMA FrontFacts ==
  ASSUME NEW T, NEW s \in Seq(T), s # <<>>
  PROVE  /\ Len(s) \in Nat \ {0} /\ Last(s) = s[Len(s)] /\ Last(s) \in T /\ DOMAIN s = 1..Len(s)
         /\ Front(s) \in Seq(T) /\ Len(Front(s)) = Len(s) - 1
         /\ \A k \in 1..(Len(s) - 1) : Front(s)[k] = s[k]
<1>1. Len(s) \in Nat /\ Len(s) # 0
  OBVIOUS
<1>2. Last(s) = s[Len(s)] /\ Front(s) = SubSeq(s, 1, Len(s) - 1)
  BY DEF Last, Front
<1>3. Len(s) - 1 \in Nat /\ Len(s) - 1 <= Len(s)
  BY <1>1
<1>4. /\ SubSeq(s, 1, Len(s) - 1) \in Seq(T) /\ Len(SubSeq(s, 1, Len(s) - 1)) = Len(s) - 1
      /\ \A k \in 1..(Len(s) - 1) : SubSeq(s, 1, Len(s) - 1)[k] = s[k]
  BY <1>1, <1>3
<1>5. s[Len(s)] \in T /\ DOMAIN s = 1..Len(s)
  BY <1>1
<1> QED
  BY <1>1, <1>2, <1>4, <1>5

LEMMA SetLast ==
  ASSUME NEW T, NEW s \in Seq(T), s # <<>>, NEW x \in T, NEW t, t = Append(Front(s), x)
  PROVE  /\ t \in Seq(T) /\ t # <<>> /\ Len(t) = Len(s) /\ DOMAIN t = DOMAIN s /\ Last(t) = x
         /\ t[Len(s)] = x /\ \A k \in 1..(Len(s) - 1) : t[k] = s[k]
<1> PICK f : f = Front(s)
  OBVIOUS
<1>1. /\ Len(s) \in Nat \ {0} /\ f \in Seq(T) /\ Len(f) = Len(s) - 1 /\ DOMAIN s = 1..Len(s)
      /\ \A k \in 1..(Len(s) - 1) : f[k] = s[k]
  BY FrontFacts
<1>2. t = Append(f, x)
  OBVIOUS
<1>3. t \in Seq(T) /\ Len(t) = Len(f) + 1 /\ t[Len(f) + 1] = x /\ \A k \in 1..Len(f) : t[k] = f[k]
  BY <1>1, <1>2
<1>4. DOMAIN t = 1..Len(t) /\ Last(t) = t[Len(t)]
  BY <1>3 DEF Last
<1> QED
  BY <1>1, <1>3, <1>4

Extended(t, s, x, y) ==
  /\ Len(t) = Len(s) + 1 /\ t[Len(s) + 1] = y /\ t[Len(s)] = x /\ Last(t) = y
  /\ \A k \in 1..(Len(s) - 1) : t[k] = s[k]

LEMMA AddFrame ==
  ASSUME NEW T, NEW s \in Seq(T), s # <<>>, NEW x \in T, NEW y \in T, NEW t, t = Front(s) \o <<x, y>>
  PROVE  t \in Seq(T) /\ t # <<>> /\ Extended(t, s, x, y)
<1> PICK f : f = Front(s)
  OBVIOUS
<1>1. /\ Len(s) \in Nat \ {0} /\ f \in Seq(T) /\ Len(f) = Len(s) - 1
      /\ \A k \in 1..(Len(s) - 1) : f[k] = s[k]
  BY FrontFacts
<1>2. t = f \o <<x, y>>
  OBVIOUS
<1> PICK u : u = <<x, y>>
  OBVIOUS
<1>5. u \in Seq(T) /\ Len(u) = 2 /\ u[1] = x /\ u[2] = y
  OBVIOUS
<1>6. /\ f \o u \in Seq(T) /\ Len(f \o u) = Len(f) + 2
      /\ \A k \in 1..(Len(f) + 2) : (f \o u)[k] = IF k <= Len(f) THEN f[k] ELSE u[k - Len(f)]
  BY <1>1, <1>5
<1>7. /\ Len(f) + 1 \in 1..(Len(f) + 2) /\ ~(Len(f) + 1 <= Len(f)) /\ (Len(f) + 1) - Len(f) = 1
      /\ Len(f) + 2 \in 1..(Len(f) + 2) /\ ~(Len(f) + 2 <= Len(f)) /\ (Len(f) + 2) - Len(f) = 2
      /\ \A k \in 1..Len(f) : k \in 1..(Len(f) + 2) /\ k <= Len(f)
  BY <1>1
<1>3. /\ t \in Seq(T) /\ Len(t) = Len(f) + 2
      /\ t[Len(f) + 1] = x /\ t[Len(f) + 2] = y /\ \A k \in 1..Len(f) : t[k] = f[k]
  BY <1>2, <1>5, <1>6, <1>7
<1>4. Last(t) = t[Len(t)]
  BY DEF Last
<1> QED
  BY <1>1, <1>3, <1>4 DEF Extended

LEMMA SequenceWidens ==
  ASSUME NEW S, NEW T, S \subseteq T, NEW s \in Seq(S)
  PROVE  s \in Seq(T) /\ Elems(s) \subseteq S /\ DOMAIN s = 1..Len(s) /\ Len(s) \in Nat
<1>1. \A k \in 1..Len(s) : s[k] \in S
  OBVIOUS
<1>2. DOMAIN s = 1..Len(s) /\ Len(s) \in Nat
  OBVIOUS
<1>3. Elems(s) \subseteq S
  BY <1>1, <1>2 DEF Elems
<1>4. s \in Seq(T)
  BY <1>1
<1> QED
  BY <1>2, <1>3, <1>4

LEMMA SequenceFrom ==
  ASSUME NEW T, NEW n \in Nat, NEW f, DOMAIN f = 1..n, f = [k \in DOMAIN f |-> f[k]],
         \A k \in 1..n : f[k] \in T
  PROVE  f \in Seq(T) /\ Len(f) = n
OBVIOUS

----------------------------------------------------------------------------
(* Functions.                                                              *)

LEMMA FnFacts ==
  ASSUME NEW f \in Functions
  PROVE  /\ IsGraph(f.succ) /\ \A b \in DOMAIN f.succ : f.succ[b] \in Seq(DOMAIN f.succ)
         /\ RegisterLimit \in Nat \ {0} /\ RegisterLimit < NoReg /\ f.regs \in 1..RegisterLimit
         /\ f.memory \subseteq 0..(f.regs - 1)
         /\ DOMAIN f.code = DOMAIN f.succ
         /\ \A b \in DOMAIN f.code : f.code[b] \in Seq(Instruction(f.regs))
<1>1. /\ f.succ \in Seq(Seq(DOMAIN f.succ)) /\ f.succ # <<>>
      /\ f.regs \in 1..RegisterLimit /\ f.memory \subseteq 0..(f.regs - 1)
      /\ f.code \in Seq(Seq(Instruction(f.regs))) /\ DOMAIN f.code = DOMAIN f.succ
      /\ RegisterLimit \in 1..(NoReg - 1)
  BY SsaAssumption
<1>2. RegisterLimit \in Nat \ {0} /\ RegisterLimit < NoReg
  <2>1. NoReg \in Nat
    BY DEF NoReg
  <2>2. RegisterLimit \in 1..(NoReg - 1)
    BY <1>1
  <2> QED
    BY ONLY <2>1, <2>2
<1>3. \A b \in DOMAIN f.code : f.code[b] \in Seq(Instruction(f.regs))
  BY <1>1
<1>4. \A b \in DOMAIN f.succ : f.succ[b] \in Seq(DOMAIN f.succ)
  BY <1>1
<1>5. DOMAIN f.succ = 1..Len(f.succ) /\ Len(f.succ) \in Nat \ {0}
  BY <1>1
<1>6. \A b \in DOMAIN f.succ : f.succ[b] \in Seq((DOMAIN f.succ) \cup {NO_BLOCK})
  BY <1>4
<1>7. IsGraph(f.succ)
  BY <1>5, <1>6 DEF IsGraph
<1> QED
  BY <1>1, <1>2, <1>3, <1>4, <1>7

LEMMA InstructionFacts ==
  ASSUME NEW f \in Functions, NEW b \in DOMAIN f.succ, NEW i \in DOMAIN f.code[b], NEW ins, ins = f.code[b][i]
  PROVE  /\ ins \in [op : Ops, dest : 0..(f.regs - 1), srcs : Seq(0..(f.regs - 1))]
         /\ ins.op = "copy" => Len(ins.srcs) = 1 /\ ins.srcs[1] \in 0..(f.regs - 1)
         /\ ins.op \in {"const", "out", "nop"} => ins.srcs = <<>>
         /\ ins.dest \in Nat /\ ins.srcs \in Seq(Nat) /\ Elems(ins.srcs) \subseteq 0..(f.regs - 1)
<1>1. ins \in Instruction(f.regs)
  BY FnFacts
<1>2. /\ ins \in [op : Ops, dest : 0..(f.regs - 1), srcs : Seq(0..(f.regs - 1))]
      /\ ins.op = "copy" => Len(ins.srcs) = 1
      /\ ins.op \in {"const", "out", "nop"} => ins.srcs = <<>>
  BY <1>1 DEF Instruction
<1>3. f.regs \in Nat
  BY FnFacts
<1> PICK S : S = 0..(f.regs - 1)
  OBVIOUS
<1> PICK reads : reads = ins.srcs
  OBVIOUS
<1>4. reads \in Seq(S) /\ ins.dest \in S
  BY <1>2
<1>6. S \subseteq Nat
  BY <1>3
<1>5. Elems(reads) \subseteq S /\ reads \in Seq(Nat) /\ DOMAIN reads = 1..Len(reads)
  BY ONLY <1>4, <1>6, SequenceWidens
<1>8. Len(reads) = 1 => reads[1] \in S
  BY <1>5 DEF Elems
<1> QED
  BY <1>2, <1>4, <1>5, <1>6, <1>8

----------------------------------------------------------------------------
(* The shape of the state.                                                 *)

Stages == {"variables", "phis", "rename", "cleanup", "mark", "run", "rejected"}
Written == {ins \in [op : Ops \cup {"load"}, dest : Nat, srcs : Seq(Nat)] :
              (ins.op = "copy" => Len(ins.srcs) = 1) /\ (ins.op = "const" => ins.srcs = <<>>)}
Frames == [block : Blocks, pc : Nat, pushed : Seq(variables), todo : SUBSET Blocks]
PhiRecords == [block : Blocks, var : variables, result : Nat, blocks : Seq(Blocks), values : Seq(Nat)]

NeedsSSA(r) == /\ DefinitionsOf(r) # {}
               /\ \/ RegDefs(r).definitionCount > 1
                  \/ HasExternalUse(r) /\ \E b \in RegDefs(r).defBlocks : tree.frontier[b] # {}

FnPart == fn \in Functions /\ stage \in Stages
EarlyPart ==
  /\ stage = "variables" => variables = {} /\ phis = <<>> /\ worklist = <<>>
  /\ stage \in {"variables", "phis"} =>
       /\ walk = <<>> /\ visited = {} /\ code = fn.code /\ held = [b \in Blocks |-> <<>>]
       /\ nextReg = fn.regs /\ ~limitExceeded /\ undefs = {}
TreePart ==
  stage # "variables" => tree = [frontier |-> [b \in Blocks |-> FrontierOf(IdomChains, b)],
                                 children |-> [b \in Blocks |-> ChildrenOf(IdomChains, b)]]
VariablePart ==
  /\ variables \subseteq (0..(fn.regs - 1)) \ fn.memory
  /\ stage # "variables" => \A r \in (0..(fn.regs - 1)) \ fn.memory : r \in variables <=> NeedsSSA(r)
  /\ \A v \in variables : variableInfo[v] = RegDefs(v)
PlacePart == unplaced \subseteq variables /\ worklist \in Seq(Blocks) /\ (worklist # <<>> => placing \in variables)
PhiPart ==
  /\ phis \in Seq(PhiRecords)
  /\ \A p \in DOMAIN phis : phis[p].blocks = Preds(phis[p].block) /\ DOMAIN phis[p].values = DOMAIN phis[p].blocks
  /\ \A p, q \in DOMAIN phis : phis[p].block = phis[q].block /\ phis[p].var = phis[q].var => p = q
RegisterPart == nextReg \in fn.regs..RegisterLimit /\ limitExceeded \in BOOLEAN /\ undefs \subseteq Nat
StackPart == stage \in {"rename", "cleanup"} => regStack \in [variables -> Seq(Nat)]
WalkPart == walk \in Seq(Frames) /\ (stage = "rename" <=> walk # <<>>) /\ visited \subseteq Blocks
CodePart == DOMAIN code = Blocks /\ \A b \in Blocks : code[b] \in Seq(Written) /\ Len(code[b]) = Len(fn.code[b])
HeldPart == held \in [Blocks -> Seq([variables -> Nat])]
LivePart == live \subseteq DOMAIN phis /\ (stage \notin {"mark", "run", "rejected"} => live = {})
RunPart == /\ steps \in Nat /\ at \in [block : Blocks, pc : Nat \ {0}]
           /\ stage = "run" => old \in [0..(fn.regs - 1) -> Nat] /\ new = [r \in 0..(nextReg - 1) |-> new[r]]

Shape == /\ FnPart /\ EarlyPart /\ TreePart /\ VariablePart /\ PlacePart /\ PhiPart /\ RegisterPart
         /\ StackPart /\ WalkPart /\ CodePart /\ HeldPart /\ LivePart /\ RunPart

LEMMA FnState ==
  ASSUME fn \in Functions
  PROVE  /\ IsGraph(fn.succ) /\ EntryBlock \in Blocks /\ Blocks \subseteq Nat /\ IsFiniteSet(Blocks)
         /\ fn.regs \in Nat \ {0} /\ fn.regs <= RegisterLimit /\ RegisterLimit \in Nat \ {0} /\ RegisterLimit < NoReg
         /\ DOMAIN fn.code = Blocks
         /\ \A b \in Blocks : /\ fn.succ[b] \in Seq(Blocks) /\ Preds(b) \in Seq(Blocks)
                              /\ ToSet(Preds(b)) = EdgesTo(fn.succ, b)
                              /\ fn.code[b] \in Seq(Instruction(fn.regs))
<1> PICK f : f = fn
  OBVIOUS
<1>1. f \in Functions
  OBVIOUS
<1>2. /\ IsGraph(f.succ) /\ f.regs \in 1..RegisterLimit /\ RegisterLimit \in Nat \ {0} /\ RegisterLimit < NoReg
      /\ DOMAIN f.code = DOMAIN f.succ /\ \A b \in DOMAIN f.succ : f.succ[b] \in Seq(DOMAIN f.succ)
      /\ \A b \in DOMAIN f.code : f.code[b] \in Seq(Instruction(f.regs))
  BY ONLY <1>1, FnFacts
<1> PICK g : g = f.succ
  OBVIOUS
<1>3. EntryBlock \in DOMAIN g /\ DOMAIN g \subseteq Nat /\ IsFiniteSet(DOMAIN g)
  BY <1>2, GraphDomain
<1>4. \A b \in DOMAIN g : PredecessorsOf(g, b) \in Seq(DOMAIN g) /\ ToSet(PredecessorsOf(g, b)) = EdgesTo(g, b)
  BY <1>2, PredecessorFacts
<1> PICK regs : regs = f.regs
  OBVIOUS
<1>5. regs \in Nat \ {0} /\ regs <= RegisterLimit
  BY <1>2
<1> QED
  BY <1>1, <1>2, <1>3, <1>4, <1>5 DEF Blocks, Preds

(* What depends on the function alone does not change.                     *)
LEMMA FixedFn ==
  ASSUME fn' = fn
  PROVE  /\ Blocks' = Blocks /\ Places' = Places /\ IdomChains' = IdomChains
         /\ \A b : Preds(b)' = Preds(b)
         /\ \A r : DefinitionsOf(r)' = DefinitionsOf(r) /\ RegDefs(r)' = RegDefs(r)
                   /\ HasExternalUse(r)' = HasExternalUse(r)
         /\ \A c, b : FrontierOf(c, b)' = FrontierOf(c, b) /\ ChildrenOf(c, b)' = ChildrenOf(c, b)
<1>1. Blocks' = Blocks
  BY DEF Blocks
<1>2. Places' = Places
  BY <1>1 DEF Places
<1>3. IdomChains' = IdomChains
  BY <1>1 DEF IdomChains
<1>4. \A b : Preds(b)' = Preds(b)
  BY DEF Preds
<1>5. \A r : DefinitionsOf(r)' = DefinitionsOf(r)
  BY <1>2 DEF DefinitionsOf
<1>6. \A r : RegDefs(r)' = RegDefs(r)
  BY <1>5 DEF RegDefs
<1>7. \A r : HasExternalUse(r)' = HasExternalUse(r)
  BY <1>2, <1>6 DEF HasExternalUse
<1>8. \A c, b : FrontierOf(c, b)' = FrontierOf(c, b)
  BY <1>1, <1>4 DEF FrontierOf
<1>9. \A c, b : ChildrenOf(c, b)' = ChildrenOf(c, b)
  BY <1>1 DEF ChildrenOf
<1> QED
  BY <1>1, <1>2, <1>3, <1>4, <1>5, <1>6, <1>7, <1>8, <1>9

LEMMA AllocateFacts ==
  ASSUME fn \in Functions, RegisterPart, NEW n \in Nat, Allocate(n)
  PROVE  /\ nextReg' \in nextReg..RegisterLimit /\ nextReg' \in fn.regs..RegisterLimit /\ limitExceeded' \in BOOLEAN
         /\ \A k \in 1..n : Allocated(k) \in Nat /\ Allocated(k) < nextReg'
         /\ ~limitExceeded' => /\ ~limitExceeded /\ nextReg' = nextReg + n
                               /\ \A k \in 1..n : Allocated(k) = nextReg + k - 1
<1> PICK regs : regs = fn.regs
  OBVIOUS
<1>1. /\ regs \in Nat \ {0} /\ RegisterLimit \in Nat \ {0} /\ nextReg \in regs..RegisterLimit
      /\ limitExceeded \in BOOLEAN
  BY FnState DEF RegisterPart
<1>2. nextReg' = IF nextReg + n <= RegisterLimit THEN nextReg + n ELSE RegisterLimit
  BY DEF Allocate
<1>3. limitExceeded' = (limitExceeded \/ nextReg + n > RegisterLimit)
  BY DEF Allocate
<1>4. nextReg' \in nextReg..RegisterLimit /\ nextReg' \in regs..RegisterLimit
  BY <1>1, <1>2
<1>5. ASSUME NEW k \in 1..n PROVE Allocated(k) \in Nat /\ Allocated(k) < nextReg'
  BY <1>1, <1>2 DEF Allocated
<1>6. limitExceeded' \in BOOLEAN
  BY <1>3
<1>7. ~limitExceeded' => ~limitExceeded /\ ~(nextReg + n > RegisterLimit)
  BY <1>3
<1>8. ~(nextReg + n > RegisterLimit) => nextReg' = nextReg + n /\ \A k \in 1..n : Allocated(k) = nextReg + k - 1
  BY <1>1, <1>2 DEF Allocated
<1> QED
  BY <1>4, <1>5, <1>6, <1>7, <1>8

LEMMA InitShape == Init => Shape
<1> SUFFICES ASSUME Init PROVE Shape
  OBVIOUS
<1> USE DEF Init
<1>0. /\ fn \in Functions /\ IsGraph(fn.succ) /\ EntryBlock \in Blocks
      /\ fn.regs \in Nat /\ RegisterLimit \in Nat
      /\ fn.regs <= RegisterLimit /\ DOMAIN fn.code = Blocks
  BY FnState
<1>1. FnPart
  BY DEF FnPart, Stages
<1>2. variables = {}
  BY DEF variables
<1>3. EarlyPart /\ TreePart /\ VariablePart /\ PlacePart /\ StackPart
  BY <1>2 DEF EarlyPart, TreePart, VariablePart, PlacePart, StackPart
<1>4. PhiPart
  BY DEF PhiPart
<1>5. RegisterPart
  <2>1. nextReg \in fn.regs..RegisterLimit
    <3> PICK regs : regs = fn.regs
      OBVIOUS
    <3> QED
      BY <1>0
  <2> QED
    BY <2>1 DEF RegisterPart
<1>6. WalkPart /\ LivePart
  BY DEF WalkPart, LivePart
<1>7. ASSUME NEW b \in Blocks PROVE code[b] \in Seq(Written) /\ Len(code[b]) = Len(fn.code[b])
  <2>1. fn.code[b] \in Seq(Instruction(fn.regs)) /\ code[b] = fn.code[b]
    BY <1>0, FnFacts
  <2>2. Instruction(fn.regs) \subseteq Written
    <3>1. SUFFICES ASSUME NEW ins \in Instruction(fn.regs) PROVE ins \in Written
      OBVIOUS
    <3> PICK S : S = 0..(fn.regs - 1)
      OBVIOUS
    <3>2. /\ ins \in [op : Ops, dest : S, srcs : Seq(S)]
          /\ (ins.op = "copy" => Len(ins.srcs) = 1) /\ (ins.op = "const" => ins.srcs = <<>>)
      BY DEF Instruction
    <3>3. S \subseteq Nat
      BY <1>0
    <3> PICK reads : reads = ins.srcs
      OBVIOUS
    <3>5. reads \in Seq(S)
      BY <3>2
    <3>4. reads \in Seq(Nat)
      BY ONLY <3>5, <3>3, SequenceWidens
    <3> QED
      BY <3>2, <3>3, <3>4 DEF Written
  <2> HIDE DEF Init
  <2>3. fn.code[b] \in Seq(Written)
    BY <2>1, <2>2, SequenceWidens
  <2> QED
    BY <2>1, <2>3
<1>8. CodePart
  BY <1>0, <1>7 DEF CodePart
<1>9. HeldPart
  BY DEF HeldPart
<1>10. RunPart
  BY <1>0 DEF RunPart
<1> QED
  BY <1>1, <1>3, <1>4, <1>5, <1>6, <1>8, <1>9, <1>10 DEF Shape

LEMMA ShapeVariables == Shape /\ IdentifyVariables => Shape'
<1> SUFFICES ASSUME Shape, IdentifyVariables PROVE Shape'
  OBVIOUS
<1> USE DEF phiVars, renameVars, runVars
<1>1. /\ stage = "variables" /\ stage' = "phis"
      /\ fn' = fn /\ worklist' = worklist /\ phis' = phis /\ renameVars' = renameVars /\ live' = live /\ runVars' = runVars
      /\ unplaced' = DOMAIN variableInfo'
  BY DEF IdentifyVariables
<1>2. /\ FnPart /\ EarlyPart /\ PhiPart /\ RegisterPart /\ WalkPart /\ CodePart /\ HeldPart /\ LivePart /\ RunPart
  BY DEF Shape
<1>3. /\ phis = <<>> /\ worklist = <<>> /\ walk = <<>> /\ visited = {} /\ code = fn.code
      /\ held = [b \in Blocks |-> <<>>] /\ nextReg = fn.regs /\ ~limitExceeded /\ undefs = {}
  BY <1>1, <1>2 DEF EarlyPart
<1>4. Blocks' = Blocks /\ IdomChains' = IdomChains
  BY <1>1, FixedFn
<1>5. FnPart' /\ EarlyPart'
  BY <1>1, <1>2, <1>3, <1>4 DEF FnPart, EarlyPart, Stages
<1>6. TreePart'
  <2>1. tree' = [frontier |-> [b \in Blocks |-> FrontierOf(IdomChains, b)],
                 children |-> [b \in Blocks |-> ChildrenOf(IdomChains, b)]]
    BY DEF IdentifyVariables
  <2>2. \A c, b : FrontierOf(c, b)' = FrontierOf(c, b) /\ ChildrenOf(c, b)' = ChildrenOf(c, b)
    BY <1>1, FixedFn
  <2> QED
    BY <2>1, <2>2, <1>4 DEF TreePart
<1>7. VariablePart'
  <2> DEFINE need(r) == /\ DefinitionsOf(r) # {}
                        /\ \/ RegDefs(r).definitionCount > 1
                           \/ HasExternalUse(r) /\ \E b \in RegDefs(r).defBlocks : tree'.frontier[b] # {}
  <2>1. variableInfo' = [r \in {q \in (0..(fn.regs - 1)) \ fn.memory : need(q)} |-> RegDefs(r)]
    BY DEF IdentifyVariables
  <2>2. \A r : /\ DefinitionsOf(r)' = DefinitionsOf(r) /\ RegDefs(r)' = RegDefs(r)
               /\ HasExternalUse(r)' = HasExternalUse(r)
    BY <1>1, FixedFn
  <2>3. \A r : NeedsSSA(r)' <=> need(r)
    BY <2>2 DEF NeedsSSA
  <2> HIDE DEF need
  <2>4. variables' = {q \in (0..(fn.regs - 1)) \ fn.memory : need(q)}
    BY <2>1 DEF variables
  <2>5. \A v \in variables' : variableInfo'[v] = RegDefs(v)
    BY <2>1, <2>4
  <2>6. /\ variables' \subseteq (0..(fn.regs - 1)) \ fn.memory
        /\ \A r \in (0..(fn.regs - 1)) \ fn.memory : r \in variables' <=> NeedsSSA(r)'
        /\ \A v \in variables' : variableInfo'[v] = RegDefs(v)'
    BY <2>2, <2>3, <2>4, <2>5
  <2> QED
    BY <1>1, <2>6 DEF VariablePart
<1>8. PlacePart'
  BY <1>1, <1>3 DEF PlacePart, variables
<1>9. PhiPart'
  BY <1>1, <1>3 DEF PhiPart
<1>10. RegisterPart' /\ StackPart'
  BY <1>1, <1>2, <1>4 DEF RegisterPart, StackPart
<1>11. WalkPart'
  BY <1>1, <1>2, <1>3, <1>4 DEF WalkPart
<1>12. CodePart'
  BY <1>1, <1>2, <1>4 DEF CodePart, Written
<1>13. HeldPart'
  <2>1. <<>> \in Seq([variables' -> Nat])
    OBVIOUS
  <2> QED
    BY <1>1, <1>3, <1>4, <2>1 DEF HeldPart
<1>14. LivePart' /\ RunPart'
  BY <1>1, <1>2, <1>4 DEF LivePart, RunPart
<1> QED
  BY <1>5, <1>6, <1>7, <1>8, <1>9, <1>10, <1>11, <1>12, <1>13, <1>14 DEF Shape

(* The parts that a step of phi placement leaves alone.                    *)
LEMMA ShapePlacingStable ==
  ASSUME Shape, stage = "phis", fn' = fn, stage' = stage, tree' = tree, variableInfo' = variableInfo,
         renameVars' = renameVars, live' = live, runVars' = runVars,
         DOMAIN phis \subseteq DOMAIN phis'
  PROVE  /\ FnPart' /\ EarlyPart' /\ TreePart' /\ VariablePart' /\ RegisterPart' /\ StackPart' /\ WalkPart'
         /\ CodePart' /\ HeldPart' /\ LivePart' /\ RunPart'
<1> USE DEF renameVars, runVars
<1>1. /\ FnPart /\ EarlyPart /\ TreePart /\ VariablePart /\ RegisterPart /\ WalkPart
      /\ CodePart /\ HeldPart /\ LivePart /\ RunPart
  BY DEF Shape
<1>2. /\ Blocks' = Blocks /\ IdomChains' = IdomChains /\ variables' = variables
      /\ \A r : DefinitionsOf(r)' = DefinitionsOf(r) /\ RegDefs(r)' = RegDefs(r)
                /\ HasExternalUse(r)' = HasExternalUse(r)
      /\ \A c, b : FrontierOf(c, b)' = FrontierOf(c, b) /\ ChildrenOf(c, b)' = ChildrenOf(c, b)
  BY FixedFn DEF variables
<1>3. FnPart' /\ EarlyPart'
  BY <1>1, <1>2 DEF FnPart, EarlyPart
<1>4. TreePart'
  BY <1>1, <1>2 DEF TreePart
<1>5. VariablePart'
  <2>1. \A r : NeedsSSA(r)' <=> NeedsSSA(r)
    BY <1>2 DEF NeedsSSA
  <2> QED
    BY <1>1, <1>2, <2>1 DEF VariablePart
<1>6. RegisterPart' /\ StackPart' /\ LivePart' /\ RunPart'
  BY <1>1, <1>2 DEF RegisterPart, StackPart, LivePart, RunPart
<1>7. WalkPart'
  BY <1>1, <1>2 DEF WalkPart, Frames
<1>8. CodePart' /\ HeldPart'
  BY <1>1, <1>2 DEF CodePart, HeldPart, Written
<1> QED
  BY <1>3, <1>4, <1>5, <1>6, <1>7, <1>8

LEMMA PlacesAreFinite ==
  ASSUME fn \in Functions
  PROVE  IsFiniteSet(Places)
<1>1. \A b \in Blocks : IsFiniteSet({<<b, i>> : i \in DOMAIN fn.code[b]})
  <2> TAKE b \in Blocks
  <2> PICK c : c = fn.code[b]
    OBVIOUS
  <2>1. c \in Seq(Instruction(fn.regs))
    BY FnState
  <2>2. DOMAIN c = 1..Len(c) /\ Len(c) \in Nat
    BY <2>1
  <2>3. IsFiniteSet(DOMAIN c)
    <3>1. 1 \in Int /\ Len(c) \in Int
      BY <2>2
    <3> QED
      BY <3>1, <2>2, FS_Interval
  <2>4. IsFiniteSet({b} \X DOMAIN c)
    BY <2>3, FS_Singleton, FS_Product
  <2>5. {b} \X DOMAIN c = {<<b, i>> : i \in DOMAIN c}
    OBVIOUS
  <2> QED
    BY <2>4, <2>5
<1> DEFINE parts == {{<<b, i>> : i \in DOMAIN fn.code[b]} : b \in Blocks}
<1>2. IsFiniteSet(parts)
  <2> DEFINE part == [b \in Blocks |-> {<<b, i>> : i \in DOMAIN fn.code[b]}]
  <2>1. part \in Surjection(Blocks, parts)
    BY DEF Surjection
  <2>2. IsFiniteSet(Blocks)
    BY FnState
  <2> HIDE DEF part, parts
  <2> QED
    BY <2>1, <2>2, FS_Surjection
<1>3. \A T \in parts : IsFiniteSet(T)
  BY <1>1
<1> QED
  BY <1>2, <1>3, FS_UNION DEF Places

LEMMA DefBlocksFacts ==
  ASSUME Shape, NEW v \in variables
  PROVE  /\ variableInfo[v].defBlocks \subseteq Blocks /\ variableInfo[v].definitionCount \in Nat
         /\ variableInfo[v].definitionCount = Cardinality(DefinitionsOf(v))
         /\ IsFiniteSet(DefinitionsOf(v)) /\ DefinitionsOf(v) \subseteq Places
         /\ variableInfo[v].defBlocks = {q[1] : q \in DefinitionsOf(v)}
<1>0. fn \in Functions
  BY DEF Shape, FnPart
<1>1. variableInfo[v] = [defBlocks |-> {q[1] : q \in DefinitionsOf(v)},
                         definitionCount |-> Cardinality(DefinitionsOf(v))]
  BY DEF Shape, VariablePart, RegDefs
<1>2. IsFiniteSet(Places)
  BY <1>0, PlacesAreFinite
<1>3. DefinitionsOf(v) \subseteq Places
  BY DEF DefinitionsOf
<1>4. IsFiniteSet(DefinitionsOf(v)) /\ Cardinality(DefinitionsOf(v)) \in Nat
  BY <1>2, <1>3, FS_Subset, FS_CardinalityType
<1>5. \A q \in Places : q[1] \in Blocks
  BY DEF Places
<1> QED
  BY <1>1, <1>3, <1>4, <1>5

LEMMA LeastFacts ==
  ASSUME NEW S \in SUBSET Nat, S # {}
  PROVE  Least(S) \in S /\ \A x \in S : Least(S) <= x
<1> DEFINE R == OpToRel(<, Nat)
<1>1. PICK x \in S : \A y \in S : ~ (<<y, x>> \in R)
  <2>1. IsWellFoundedOn(R, Nat) /\ S \subseteq Nat
    BY NatLessThanWellFounded, Zenon
  <2> HIDE DEF R
  <2> QED
    BY <2>1, WFMin
<1>2. \A y \in S : x <= y
  <2> TAKE y \in S
  <2>1. ~(y < x)
    BY <1>1 DEF OpToRel
  <2> QED
    BY <2>1
<1>3. \E z \in S : \A y \in S : z <= y
  BY <1>2
<1> QED
  BY <1>3 DEF Least

LEMMA ConcatFacts ==
  ASSUME NEW T, NEW s \in Seq(T), NEW u \in Seq(T), NEW t, t = s \o u
  PROVE  /\ t \in Seq(T) /\ Len(t) = Len(s) + Len(u) /\ Len(s) \in Nat /\ Len(u) \in Nat
         /\ DOMAIN t = 1..(Len(s) + Len(u)) /\ DOMAIN s = 1..Len(s) /\ DOMAIN u = 1..Len(u)
         /\ \A k \in DOMAIN s : k \in DOMAIN t /\ t[k] = s[k]
         /\ \A k \in DOMAIN u : Len(s) + k \in DOMAIN t /\ t[Len(s) + k] = u[k]
         /\ \A k \in DOMAIN t : k \in DOMAIN s \/ (k - Len(s) \in DOMAIN u /\ t[k] = u[k - Len(s)])
<1>1. /\ s \o u \in Seq(T) /\ Len(s \o u) = Len(s) + Len(u)
      /\ \A k \in 1..(Len(s) + Len(u)) : (s \o u)[k] = IF k <= Len(s) THEN s[k] ELSE u[k - Len(s)]
      /\ Len(s) \in Nat /\ Len(u) \in Nat
  OBVIOUS
<1>2. DOMAIN t = 1..(Len(s) + Len(u)) /\ DOMAIN s = 1..Len(s) /\ DOMAIN u = 1..Len(u)
  BY <1>1
<1>3. \A k \in 1..Len(s) : k \in 1..(Len(s) + Len(u)) /\ k <= Len(s)
  BY <1>1
<1>4. \A k \in 1..Len(u) : /\ Len(s) + k \in 1..(Len(s) + Len(u)) /\ ~(Len(s) + k <= Len(s))
                           /\ (Len(s) + k) - Len(s) = k
  BY <1>1
<1>5. \A k \in 1..(Len(s) + Len(u)) : IF k <= Len(s) THEN k \in 1..Len(s) ELSE k - Len(s) \in 1..Len(u)
  BY <1>1
<1>6. \A k \in 1..Len(s) : k \in 1..(Len(s) + Len(u)) /\ t[k] = s[k]
  BY <1>1, <1>3
<1>7. \A k \in 1..Len(u) : Len(s) + k \in 1..(Len(s) + Len(u)) /\ t[Len(s) + k] = u[k]
  BY <1>1, <1>4
<1>8. \A k \in 1..(Len(s) + Len(u)) : k \in 1..Len(s) \/ (k - Len(s) \in 1..Len(u) /\ t[k] = u[k - Len(s)])
  BY <1>1, <1>5
<1> QED
  BY <1>1, <1>2, <1>6, <1>7, <1>8

LEMMA ShapeStart == Shape /\ StartVariable => Shape'
<1> SUFFICES ASSUME Shape, StartVariable PROVE Shape'
  OBVIOUS
<1>1. /\ stage = "phis" /\ worklist = <<>> /\ unplaced # {} /\ placing' = Least(unplaced)
      /\ unplaced' = unplaced \ {placing'} /\ worklist' = InOrder(variableInfo[placing'].defBlocks)
      /\ fn' = fn /\ stage' = stage /\ tree' = tree /\ variableInfo' = variableInfo
      /\ renameVars' = renameVars /\ live' = live /\ runVars' = runVars /\ phis' = phis
  BY DEF StartVariable
<1>2. /\ FnPart' /\ EarlyPart' /\ TreePart' /\ VariablePart' /\ RegisterPart' /\ StackPart' /\ WalkPart'
      /\ CodePart' /\ HeldPart' /\ LivePart' /\ RunPart'
  BY <1>1, ShapePlacingStable
<1>3. fn \in Functions /\ PlacePart /\ PhiPart /\ variables \subseteq Nat
  <2>1. fn \in Functions /\ PlacePart /\ PhiPart /\ variables \subseteq 0..(fn.regs - 1)
    BY DEF Shape, FnPart, VariablePart
  <2>2. fn.regs \in Nat
    BY <2>1, FnState
  <2> QED
    BY <2>1, <2>2
<1>4. Blocks' = Blocks /\ variables' = variables /\ \A b : Preds(b)' = Preds(b)
  BY <1>1, FixedFn DEF variables
<1>5. PhiPart'
  BY <1>1, <1>3, <1>4 DEF PhiPart, PhiRecords
<1>6. placing' \in unplaced /\ placing' \in variables
  BY <1>1, <1>3, LeastFacts DEF PlacePart
<1> PICK S : S = variableInfo[placing'].defBlocks
  OBVIOUS
<1>7. S \subseteq Blocks
  BY <1>6, DefBlocksFacts
<1>8. S \in SUBSET Nat /\ IsFiniteSet(S)
  BY <1>3, <1>7, FnState, FS_Subset
<1>9. InOrder(S) \in Seq(Blocks)
  BY <1>7, <1>8, InOrderFacts, SequenceWidens
<1>10. PlacePart'
  BY <1>1, <1>3, <1>4, <1>6, <1>9 DEF PlacePart
<1> QED
  BY <1>2, <1>5, <1>10 DEF Shape

LEMMA NewPhiFacts ==
  ASSUME fn \in Functions, NEW b \in Blocks, NEW v \in variables
  PROVE  /\ NewPhi(b, v) \in PhiRecords
         /\ NewPhi(b, v).block = b /\ NewPhi(b, v).var = v /\ NewPhi(b, v).result = NoReg
         /\ NewPhi(b, v).blocks = Preds(b) /\ DOMAIN NewPhi(b, v).values = DOMAIN Preds(b)
         /\ \A k \in DOMAIN NewPhi(b, v).values : NewPhi(b, v).values[k] = NoReg
<1> PICK bs : bs = Preds(b)
  OBVIOUS
<1>1. bs \in Seq(Blocks)
  BY FnState
<1>2. NoReg \in Nat
  BY DEF NoReg
<1>3. [k \in DOMAIN bs |-> NoReg] \in Seq(Nat)
  BY <1>1, <1>2
<1>4. NewPhi(b, v) = [block |-> b, var |-> v, result |-> NoReg, blocks |-> bs, values |-> [k \in DOMAIN bs |-> NoReg]]
  BY DEF NewPhi
<1> QED
  BY <1>1, <1>2, <1>3, <1>4 DEF PhiRecords

(* What a step of the worklist adds.                                       *)
LEMMA SpreadFactsOf ==
  ASSUME Shape, SpreadPhis, NEW fresh, fresh = {b \in tree.frontier[Head(worklist)] : ~HasPhiFor(b, placing)}
  PROVE  /\ stage = "phis" /\ worklist # <<>> /\ placing \in variables /\ Head(worklist) \in Blocks
         /\ fresh \subseteq Blocks /\ fresh \in SUBSET Nat /\ IsFiniteSet(fresh)
         /\ DOMAIN phis' = 1..(Len(phis) + Cardinality(fresh)) /\ DOMAIN phis = 1..Len(phis)
         /\ Len(phis) \in Nat /\ Cardinality(fresh) \in Nat
         /\ phis' \in Seq(PhiRecords) /\ DOMAIN phis \subseteq DOMAIN phis'
         /\ \A k \in DOMAIN phis : phis'[k] = phis[k]
         /\ \A k \in DOMAIN phis' : \/ k \in DOMAIN phis
                                    \/ \E b \in fresh : phis'[k] = NewPhi(b, placing) /\ k = Len(phis) + Rank(b, fresh)
         /\ \A b \in fresh : \E k \in DOMAIN phis' \ DOMAIN phis : phis'[k] = NewPhi(b, placing)
<1>1. stage = "phis" /\ worklist # <<>> /\ fn \in Functions /\ PlacePart /\ PhiPart /\ TreePart
  BY DEF SpreadPhis, Shape, FnPart
<1>2. placing \in variables /\ Head(worklist) \in Blocks
  <2>1. worklist \in Seq(Blocks)
    BY <1>1 DEF PlacePart
  <2> QED
    BY <1>1, <2>1 DEF PlacePart
<1>3. tree.frontier[Head(worklist)] = FrontierOf(IdomChains, Head(worklist))
  BY <1>1, <1>2 DEF TreePart
<1>4. fresh \subseteq Blocks
  BY <1>3 DEF FrontierOf
<1>5. fresh \in SUBSET Nat /\ IsFiniteSet(fresh)
  BY <1>1, <1>4, FnState, FS_Subset
<1> PICK order : order = InOrder(fresh)
  OBVIOUS
<1> PICK n : n = Cardinality(fresh)
  OBVIOUS
<1>6. /\ n \in Nat /\ DOMAIN order = 1..n
      /\ \A k \in 1..n : order[k] \in fresh /\ Rank(order[k], fresh) = k
      /\ \A b \in fresh : Rank(b, fresh) \in 1..n /\ order[Rank(b, fresh)] = b
  BY <1>5, InOrderFacts
<1> PICK more : more = [k \in 1..n |-> NewPhi(order[k], placing)]
  OBVIOUS
<1>7. phis' = phis \o more
  BY <1>6 DEF SpreadPhis
<1>8. more \in Seq(PhiRecords) /\ Len(more) = n /\ DOMAIN more = 1..n
  <2>1. \A k \in 1..n : NewPhi(order[k], placing) \in PhiRecords
    BY <1>1, <1>2, <1>4, <1>6, NewPhiFacts
  <2> QED
    BY <1>6, <2>1
<1>9. phis \in Seq(PhiRecords)
  BY <1>1 DEF PhiPart
<1>10. /\ phis' \in Seq(PhiRecords) /\ Len(phis) \in Nat
       /\ DOMAIN phis' = 1..(Len(phis) + n) /\ DOMAIN phis = 1..Len(phis)
       /\ \A k \in DOMAIN phis : k \in DOMAIN phis' /\ phis'[k] = phis[k]
       /\ \A k \in DOMAIN more : Len(phis) + k \in DOMAIN phis' /\ phis'[Len(phis) + k] = more[k]
       /\ \A k \in DOMAIN phis' : k \in DOMAIN phis \/ (k - Len(phis) \in DOMAIN more /\ phis'[k] = more[k - Len(phis)])
  <2> PICK s : s = phis
    OBVIOUS
  <2> PICK t : t = phis'
    OBVIOUS
  <2>1. s \in Seq(PhiRecords) /\ more \in Seq(PhiRecords) /\ t = s \o more
    BY <1>7, <1>8, <1>9
  <2>2. /\ t \in Seq(PhiRecords) /\ Len(s) \in Nat
        /\ DOMAIN t = 1..(Len(s) + Len(more)) /\ DOMAIN s = 1..Len(s)
        /\ \A k \in DOMAIN s : k \in DOMAIN t /\ t[k] = s[k]
        /\ \A k \in DOMAIN more : Len(s) + k \in DOMAIN t /\ t[Len(s) + k] = more[k]
        /\ \A k \in DOMAIN t : k \in DOMAIN s \/ (k - Len(s) \in DOMAIN more /\ t[k] = more[k - Len(s)])
    BY ONLY <2>1, ConcatFacts
  <2> QED
    BY <2>2, <1>8
<1>11. ASSUME NEW k \in DOMAIN phis', k \notin DOMAIN phis
       PROVE  \E b \in fresh : phis'[k] = NewPhi(b, placing) /\ k = Len(phis) + Rank(b, fresh)
  <2>1. k - Len(phis) \in 1..n /\ phis'[k] = NewPhi(order[k - Len(phis)], placing)
    BY <1>8, <1>10, <1>11
  <2>2. order[k - Len(phis)] \in fresh /\ Rank(order[k - Len(phis)], fresh) = k - Len(phis)
    BY <1>6, <2>1
  <2>3. k = Len(phis) + (k - Len(phis))
    BY <1>10
  <2> QED
    BY <2>1, <2>2, <2>3
<1>12. ASSUME NEW b \in fresh PROVE \E k \in DOMAIN phis' \ DOMAIN phis : phis'[k] = NewPhi(b, placing)
  <2>1. Rank(b, fresh) \in 1..n /\ order[Rank(b, fresh)] = b
    BY <1>6
  <2>2. Len(phis) + Rank(b, fresh) \in DOMAIN phis' /\ phis'[Len(phis) + Rank(b, fresh)] = NewPhi(b, placing)
    BY <1>8, <1>10, <2>1
  <2>3. Len(phis) + Rank(b, fresh) \notin DOMAIN phis
    BY <1>10, <1>6, <2>1
  <2> QED
    BY <2>2, <2>3
<1> QED
  BY <1>1, <1>2, <1>4, <1>5, <1>6, <1>10, <1>11, <1>12

LEMMA ShapeSpread == Shape /\ SpreadPhis => Shape'
<1> SUFFICES ASSUME Shape, SpreadPhis PROVE Shape'
  OBVIOUS
<1> PICK fresh : fresh = {b \in tree.frontier[Head(worklist)] : ~HasPhiFor(b, placing)}
  OBVIOUS
<1>1. /\ fn' = fn /\ stage' = stage /\ tree' = tree /\ variableInfo' = variableInfo /\ placing' = placing
      /\ renameVars' = renameVars /\ live' = live /\ runVars' = runVars /\ unplaced' = unplaced
      /\ worklist' = Tail(worklist) \o InOrder(fresh \ queued)
  BY DEF SpreadPhis
<1>2. /\ stage = "phis" /\ worklist # <<>> /\ placing \in variables
      /\ fresh \subseteq Blocks /\ fresh \in SUBSET Nat /\ IsFiniteSet(fresh)
      /\ phis' \in Seq(PhiRecords) /\ DOMAIN phis \subseteq DOMAIN phis'
      /\ \A k \in DOMAIN phis : phis'[k] = phis[k]
      /\ \A k \in DOMAIN phis' : \/ k \in DOMAIN phis
                                 \/ \E b \in fresh : phis'[k] = NewPhi(b, placing) /\ k = Len(phis) + Rank(b, fresh)
  BY SpreadFactsOf
<1>3. /\ FnPart' /\ EarlyPart' /\ TreePart' /\ VariablePart' /\ RegisterPart' /\ StackPart' /\ WalkPart'
      /\ CodePart' /\ HeldPart' /\ LivePart' /\ RunPart'
  BY <1>1, <1>2, ShapePlacingStable
<1>4. fn \in Functions /\ PlacePart /\ PhiPart
  BY DEF Shape, FnPart
<1>5. Blocks' = Blocks /\ variables' = variables /\ \A b : Preds(b)' = Preds(b)
  BY <1>1, FixedFn DEF variables
<1>6. PhiPart'
  <2>1. ASSUME NEW k \in DOMAIN phis'
        PROVE  phis'[k].blocks = Preds(phis'[k].block) /\ DOMAIN phis'[k].values = DOMAIN phis'[k].blocks
    <3>1. CASE k \in DOMAIN phis
      BY <3>1, <1>2, <1>4 DEF PhiPart
    <3>2. CASE \E b \in fresh : phis'[k] = NewPhi(b, placing)
      BY <3>2, <1>2, <1>4, NewPhiFacts
    <3> QED
      BY <3>1, <3>2, <1>2
  <2>2. ASSUME NEW p \in DOMAIN phis', NEW q \in DOMAIN phis',
               phis'[p].block = phis'[q].block, phis'[p].var = phis'[q].var
        PROVE  p = q
    <3>1. ASSUME NEW x \in DOMAIN phis, NEW y \in DOMAIN phis', y \notin DOMAIN phis
          PROVE  ~(phis'[x].block = phis'[y].block /\ phis'[x].var = phis'[y].var)
      <4>1. PICK b \in fresh : phis'[y] = NewPhi(b, placing)
        BY <1>2, <3>1
      <4>2. phis'[y].block = b /\ phis'[y].var = placing
        BY <4>1, <1>2, <1>4, NewPhiFacts
      <4>3. \A z \in DOMAIN phis : ~(phis[z].block = b /\ phis[z].var = placing)
        BY DEF HasPhiFor, Elems
      <4> QED
        BY <4>2, <4>3, <1>2
    <3>2. CASE p \in DOMAIN phis /\ q \in DOMAIN phis
      BY <3>2, <2>2, <1>2, <1>4 DEF PhiPart
    <3>3. CASE p \notin DOMAIN phis /\ q \notin DOMAIN phis
      <4>1. PICK b \in fresh : phis'[p] = NewPhi(b, placing) /\ p = Len(phis) + Rank(b, fresh)
        BY <1>2, <3>3
      <4>2. PICK c \in fresh : phis'[q] = NewPhi(c, placing) /\ q = Len(phis) + Rank(c, fresh)
        BY <1>2, <3>3
      <4>3. phis'[p].block = b /\ phis'[q].block = c
        BY <4>1, <4>2, <1>2, <1>4, NewPhiFacts
      <4> QED
        BY <4>1, <4>2, <4>3, <2>2
    <3> QED
      BY <3>1, <3>2, <3>3, <2>2
  <2> QED
    BY <2>1, <2>2, <1>2, <1>5 DEF PhiPart, PhiRecords
<1>7. PlacePart'
  <2>1. worklist \in Seq(Blocks)
    BY <1>4 DEF PlacePart
  <2>2. Tail(worklist) \in Seq(Blocks)
    BY <2>1, <1>2
  <2> PICK S : S = fresh \ queued
    OBVIOUS
  <2>3. S \in SUBSET Nat /\ IsFiniteSet(S) /\ S \subseteq Blocks
    BY <1>2, FS_Subset
  <2>4. InOrder(S) \in Seq(Blocks)
    BY <2>3, InOrderFacts, SequenceWidens
  <2>5. worklist' \in Seq(Blocks)
    BY <2>2, <2>4, <1>1
  <2> QED
    BY <2>5, <1>1, <1>2, <1>4, <1>5 DEF PlacePart
<1> QED
  BY <1>3, <1>6, <1>7 DEF Shape

(* The parts that no step after the placement of phis changes.             *)
LEMMA ShapeLaterStable ==
  ASSUME Shape, fn' = fn, tree' = tree, phiVars' = phiVars, stage # "variables",
         stage' \in Stages \ {"variables", "phis"}
  PROVE  /\ FnPart' /\ EarlyPart' /\ TreePart' /\ VariablePart' /\ PlacePart'
         /\ Blocks' = Blocks /\ variables' = variables /\ IdomChains' = IdomChains /\ Places' = Places
         /\ \A b : Preds(b)' = Preds(b)
         /\ Frames' = Frames /\ PhiRecords' = PhiRecords
<1> USE DEF phiVars
<1>1. FnPart /\ EarlyPart /\ TreePart /\ VariablePart /\ PlacePart
  BY DEF Shape
<1>2. /\ Blocks' = Blocks /\ IdomChains' = IdomChains /\ variables' = variables /\ Places' = Places
      /\ \A b : Preds(b)' = Preds(b)
      /\ \A r : DefinitionsOf(r)' = DefinitionsOf(r) /\ RegDefs(r)' = RegDefs(r)
                /\ HasExternalUse(r)' = HasExternalUse(r)
      /\ \A c, b : FrontierOf(c, b)' = FrontierOf(c, b) /\ ChildrenOf(c, b)' = ChildrenOf(c, b)
  BY FixedFn DEF variables
<1>3. FnPart' /\ EarlyPart' /\ PlacePart'
  BY <1>1, <1>2 DEF FnPart, EarlyPart, PlacePart
<1>4. TreePart'
  BY <1>1, <1>2 DEF TreePart
<1>5. VariablePart'
  <2>1. \A r : NeedsSSA(r)' <=> NeedsSSA(r)
    BY <1>2 DEF NeedsSSA
  <2> QED
    BY <1>1, <1>2, <2>1 DEF VariablePart
<1>6. Frames' = Frames /\ PhiRecords' = PhiRecords
  BY <1>2 DEF Frames, PhiRecords
<1> QED
  BY <1>2, <1>3, <1>4, <1>5, <1>6

LEMMA PhisKeepShape ==
  ASSUME PhiPart, PhiRecords' = PhiRecords, \A b : Preds(b)' = Preds(b),
         phis' = [p \in DOMAIN phis |-> phis'[p]],
         \A p \in DOMAIN phis : /\ phis'[p] \in PhiRecords
                                /\ phis'[p].block = phis[p].block /\ phis'[p].var = phis[p].var
                                /\ phis'[p].blocks = phis[p].blocks
                                /\ DOMAIN phis'[p].values = DOMAIN phis[p].values
  PROVE  PhiPart' /\ DOMAIN phis' = DOMAIN phis
<1>1. DOMAIN phis = 1..Len(phis) /\ Len(phis) \in Nat
  BY DEF PhiPart
<1>2. DOMAIN phis' = DOMAIN phis
  OBVIOUS
<1>3. phis' \in Seq(PhiRecords)
  <2>1. \A k \in 1..Len(phis) : phis'[k] \in PhiRecords
    BY <1>1
  <2>2. phis' = [k \in 1..Len(phis) |-> phis'[k]]
    BY <1>1
  <2> QED
    BY <1>1, <2>1, <2>2
<1>4. \A p \in DOMAIN phis : phis[p].blocks = Preds(phis[p].block) /\ DOMAIN phis[p].values = DOMAIN phis[p].blocks
  BY DEF PhiPart
<1>5. \A p, q \in DOMAIN phis : phis[p].block = phis[q].block /\ phis[p].var = phis[q].var => p = q
  BY DEF PhiPart
<1> QED
  BY <1>2, <1>3, <1>4, <1>5 DEF PhiPart

LEMMA PhiTyped ==
  ASSUME Shape, NEW p \in DOMAIN phis
  PROVE  /\ phis[p] \in PhiRecords /\ phis[p].block \in Blocks /\ phis[p].var \in variables /\ p \in Nat
         /\ phis[p].blocks = Preds(phis[p].block) /\ DOMAIN phis[p].values = DOMAIN phis[p].blocks
         /\ phis[p].values \in Seq(Nat) /\ phis[p].result \in Nat
         /\ \A q \in DOMAIN phis : phis[p].block = phis[q].block /\ phis[p].var = phis[q].var => p = q
<1>1. PhiPart
  BY DEF Shape
<1>2. DOMAIN phis = 1..Len(phis) /\ Len(phis) \in Nat /\ phis[p] \in PhiRecords
  BY <1>1 DEF PhiPart
<1> QED
  BY <1>1, <1>2 DEF PhiPart, PhiRecords

LEMMA PhisAreFinite ==
  ASSUME Shape, NEW S \in SUBSET DOMAIN phis
  PROVE  IsFiniteSet(S) /\ S \in SUBSET Nat /\ Cardinality(S) \in Nat
<1>1. DOMAIN phis = 1..Len(phis) /\ Len(phis) \in Nat
  BY DEF PhiPart, Shape
<1>2. IsFiniteSet(DOMAIN phis)
  <2>1. 1 \in Int /\ Len(phis) \in Int
    BY <1>1
  <2> QED
    BY <2>1, <1>1, FS_Interval
<1>3. \A p \in S : p \in Nat
  BY <1>1
<1> QED
  BY <1>2, <1>3, FS_Subset, FS_CardinalityType

(* The frame on top.                                                       *)
LEMMA TopFacts ==
  ASSUME Shape, Renaming, NEW n, n = Len(walk)
  PROVE  /\ n \in Nat \ {0} /\ DOMAIN walk = 1..n /\ Top = walk[n] /\ Top \in Frames /\ walk \in Seq(Frames)
         /\ Top.block \in Blocks /\ Top.pc \in Nat /\ Top.pushed \in Seq(variables) /\ Top.todo \subseteq Blocks
         /\ stage = "rename" /\ walk # <<>> /\ fn \in Functions
         /\ regStack \in [variables -> Seq(Nat)]
         /\ Len(code[Top.block]) = Len(fn.code[Top.block])
         /\ Len(code[Top.block]) \in Nat /\ DOMAIN code[Top.block] = 1..Len(code[Top.block])
         /\ DOMAIN fn.code[Top.block] = DOMAIN code[Top.block]
<1>1. stage = "rename" /\ walk # <<>> /\ walk \in Seq(Frames) /\ fn \in Functions
      /\ regStack \in [variables -> Seq(Nat)]
  BY DEF Renaming, Shape, WalkPart, FnPart, StackPart
<1>2. n \in Nat \ {0} /\ DOMAIN walk = 1..n /\ Top = walk[n] /\ Top \in Frames
  BY <1>1, FrontFacts DEF Top
<1>3. Top.block \in Blocks /\ Top.pc \in Nat /\ Top.pushed \in Seq(variables) /\ Top.todo \subseteq Blocks
  BY <1>2 DEF Frames
<1> PICK b : b = Top.block
  OBVIOUS
<1> PICK c : c = code[b]
  OBVIOUS
<1> PICK d : d = fn.code[b]
  OBVIOUS
<1>4. c \in Seq(Written) /\ Len(c) = Len(d)
  BY <1>3 DEF Shape, CodePart
<1>5. d \in Seq(Instruction(fn.regs))
  BY <1>1, <1>3, FnState
<1>6. Len(c) \in Nat /\ DOMAIN c = 1..Len(c) /\ DOMAIN d = DOMAIN c
  BY <1>4, <1>5
<1> QED
  BY <1>1, <1>2, <1>3, <1>4, <1>6

LEMMA PushFacts ==
  ASSUME NEW V, NEW stacks \in [V -> Seq(Nat)], NEW v \in V, NEW r \in Nat
  PROVE  /\ Push(stacks, v, r) \in [V -> Seq(Nat)]
         /\ Len(stacks[v]) < StackCap(v) => Push(stacks, v, r)[v] = Append(stacks[v], r)
         /\ \A w \in V \ {v} : Push(stacks, v, r)[w] = stacks[w]
<1>1. Append(stacks[v], r) \in Seq(Nat)
  <2> PICK s : s = stacks[v]
    OBVIOUS
  <2>1. s \in Seq(Nat)
    OBVIOUS
  <2> QED
    BY <2>1
<1> QED
  BY <1>1 DEF Push

LEMMA CurrentFacts ==
  ASSUME NEW V, NEW stacks \in [V -> Seq(Nat)], NEW v \in V
  PROVE  /\ CurrentRegister(stacks, v) \in Nat
         /\ Len(stacks[v]) \in Nat
         /\ CurrentRegister(stacks, v) = IF Len(stacks[v]) = 0 THEN NoReg ELSE stacks[v][Len(stacks[v])]
<1> PICK s : s = stacks[v]
  OBVIOUS
<1>1. s \in Seq(Nat)
  OBVIOUS
<1>2. Len(s) \in Nat /\ (s = <<>> <=> Len(s) = 0)
  BY <1>1
<1>3. s # <<>> => Last(s) = s[Len(s)] /\ Last(s) \in Nat
  BY <1>1, FrontFacts
<1>4. NoReg \in Nat
  BY DEF NoReg
<1> QED
  BY <1>2, <1>3, <1>4 DEF CurrentRegister

----------------------------------------------------------------------------
(* What the steps of renaming do.                                          *)

PhisOf(b) == {p \in DOMAIN phis : phis[p].block = b}
Now(stacks) == [v \in variables |-> CurrentRegister(stacks, v)]

LEMMA NowFacts ==
  ASSUME NEW V, V = variables, NEW stacks \in [V -> Seq(Nat)]
  PROVE  Now(stacks) \in [V -> Nat]
BY CurrentFacts DEF Now

LEMMA HeldGrows ==
  ASSUME Shape, Renaming, Remember, variables' = variables, Blocks' = Blocks, regStack' \in [variables -> Seq(Nat)],
         NEW b, b = Top.block
  PROVE  /\ HeldPart'
         /\ held'[b] = Append(held[b], [v \in variables |-> CurrentRegister(regStack', v)])
         /\ Len(held'[b]) = Len(held[b]) + 1 /\ Len(held[b]) \in Nat
         /\ held'[b][Len(held[b]) + 1] = [v \in variables |-> CurrentRegister(regStack', v)]
         /\ \A k \in 1..Len(held[b]) : held'[b][k] = held[b][k]
         /\ \A c \in Blocks \ {b} : held'[c] = held[c]
<1> PICK h : h = held[b]
  OBVIOUS
<1> PICK now : now = [v \in variables |-> CurrentRegister(regStack', v)]
  OBVIOUS
<1>1. b \in Blocks /\ held \in [Blocks -> Seq([variables -> Nat])]
  BY TopFacts DEF Shape, HeldPart
<1>2. now \in [variables -> Nat]
  BY CurrentFacts
<1>3. h \in Seq([variables -> Nat])
  BY <1>1
<1>4. Append(h, now) \in Seq([variables -> Nat])
  BY <1>2, <1>3
<1>5. held' = [held EXCEPT ![b] = Append(h, now)]
  BY DEF Remember
<1>6. held'[b] = Append(h, now) /\ \A c \in Blocks \ {b} : held'[c] = held[c]
  BY <1>1, <1>5
<1>7. held' \in [Blocks -> Seq([variables -> Nat])]
  BY <1>1, <1>4, <1>5
<1>8. Len(h) \in Nat /\ Len(Append(h, now)) = Len(h) + 1 /\ Append(h, now)[Len(h) + 1] = now
      /\ \A k \in 1..Len(h) : Append(h, now)[k] = h[k]
  BY <1>2, <1>3
<1> QED
  BY <1>6, <1>7, <1>8 DEF HeldPart

Entering(b, mine) ==
  /\ Renaming /\ Top.pc = 0 /\ b \in Blocks
  /\ IsFiniteSet(mine) /\ mine \in SUBSET Nat /\ mine \subseteq DOMAIN phis /\ Cardinality(mine) \in Nat
  /\ \A p \in mine : Rank(p, mine) \in 1..Cardinality(mine)
  /\ Allocate(Cardinality(mine))
  /\ phis' = [p \in DOMAIN phis |-> IF p \in mine THEN [phis[p] EXCEPT !.result = Allocated(Rank(p, mine))]
                                                  ELSE phis[p]]
  /\ regStack' \in [variables -> Seq(Nat)]
  /\ \A v \in variables : (\A p \in mine : phis[p].var # v) => regStack'[v] = regStack[v]
  /\ \A p \in mine : /\ Allocated(Rank(p, mine)) \in Nat
                     /\ regStack'[phis[p].var] = Push(regStack, phis[p].var, Allocated(Rank(p, mine)))[phis[p].var]
  /\ \E pushed \in Seq(variables) :
       /\ walk' = Append(Front(walk), [Top EXCEPT !.pc = 1, !.pushed = pushed])
       /\ DOMAIN pushed = 1..Cardinality(mine)
       /\ \A k \in DOMAIN pushed : InOrder(mine)[k] \in mine /\ pushed[k] = phis[InOrder(mine)[k]].var
  /\ visited' = visited \cup {b} /\ Remember
  /\ UNCHANGED <<fn, stage, tree, phiVars, undefs, code, live, runVars>>

LEMMA EnterFacts ==
  ASSUME Shape, EnterBlock, NEW b, b = Top.block, NEW mine, mine = PhisOf(b)
  PROVE  Entering(b, mine)
<1>1. Renaming /\ Top.pc = 0
  BY DEF EnterBlock
<1>2. /\ b \in Blocks /\ fn \in Functions /\ regStack \in [variables -> Seq(Nat)] /\ RegisterPart
  BY <1>1, TopFacts DEF Shape
<1>3. mine \in SUBSET DOMAIN phis
  BY DEF PhisOf
<1>4. IsFiniteSet(mine) /\ mine \in SUBSET Nat /\ Cardinality(mine) \in Nat
  BY <1>3, PhisAreFinite
<1>5. \A p \in mine : Rank(p, mine) \in 1..Cardinality(mine)
  BY <1>4, RankFacts
<1>6. Allocate(Cardinality(mine))
  BY DEF EnterBlock, PhisOf
<1>7. \A p \in mine : Allocated(Rank(p, mine)) \in Nat
  BY <1>2, <1>4, <1>5, <1>6, AllocateFacts
<1>8. phis' = [p \in DOMAIN phis |-> IF p \in mine THEN [phis[p] EXCEPT !.result = Allocated(Rank(p, mine))]
                                                   ELSE phis[p]]
  BY DEF EnterBlock, PhisOf
<1> DEFINE hers(v) == {p \in mine : phis[p].var = v}
<1>9. regStack' = [v \in variables |-> IF hers(v) = {} THEN regStack[v]
                                       ELSE Push(regStack, v, Allocated(Rank(Least(hers(v)), mine)))[v]]
  BY DEF EnterBlock, PhisOf
<1>10. ASSUME NEW p \in mine PROVE hers(phis[p].var) = {p} /\ phis[p].var \in variables /\ Least({p}) = p
  <2>1. p \in DOMAIN phis /\ phis[p].block = b
    BY DEF PhisOf
  <2>2. \A q \in hers(phis[p].var) : q \in DOMAIN phis /\ phis[q].block = b /\ phis[q].var = phis[p].var
    BY DEF PhisOf
  <2>3. hers(phis[p].var) = {p} /\ phis[p].var \in variables
    BY <2>1, <2>2, PhiTyped
  <2>4. p \in Nat
    BY <1>4
  <2> QED
    BY <2>3, <2>4, LeastFacts
<1>11. \A p \in mine : regStack'[phis[p].var] = Push(regStack, phis[p].var, Allocated(Rank(p, mine)))[phis[p].var]
  BY <1>9, <1>10
<1>12. \A v \in variables : (\A p \in mine : phis[p].var # v) => regStack'[v] = regStack[v]
  BY <1>9
<1>13. \A v \in variables : regStack'[v] \in Seq(Nat)
  <2> TAKE v \in variables
  <2>1. CASE \A p \in mine : phis[p].var # v
    BY <2>1, <1>2, <1>12
  <2>2. CASE \E p \in mine : phis[p].var = v
    <3>1. PICK p \in mine : phis[p].var = v
      BY <2>2
    <3>2. Push(regStack, v, Allocated(Rank(p, mine))) \in [variables -> Seq(Nat)]
      BY <1>2, <1>7, PushFacts
    <3> QED
      BY <3>1, <3>2, <1>11
  <2> QED
    BY <2>1, <2>2
<1>14. regStack' \in [variables -> Seq(Nat)]
  BY <1>9, <1>13
<1> DEFINE pushed == [k \in 1..Cardinality(mine) |-> phis[InOrder(mine)[k]].var]
<1>15. \A k \in 1..Cardinality(mine) : InOrder(mine)[k] \in mine
  BY <1>4, InOrderFacts
<1>16. pushed \in Seq(variables)
  <2> PICK n : n = Cardinality(mine)
    OBVIOUS
  <2>1. n \in Nat /\ \A k \in 1..n : phis[InOrder(mine)[k]].var \in variables
    BY <1>4, <1>10, <1>15
  <2> HIDE DEF hers
  <2> QED
    BY <2>1
<1>17. walk' = Append(Front(walk), [Top EXCEPT !.pc = 1, !.pushed = pushed])
  BY DEF EnterBlock, SetTop, PhisOf
<1>18. /\ visited' = visited \cup {b} /\ Remember
       /\ UNCHANGED <<fn, stage, tree, phiVars, undefs, code, live, runVars>>
  BY DEF EnterBlock
<1> HIDE DEF hers
<1> QED
  BY <1>1, <1>2, <1>3, <1>4, <1>5, <1>6, <1>7, <1>8, <1>11, <1>12, <1>14, <1>15, <1>16, <1>17, <1>18, Zenon
  DEF Entering

LEMMA ShapeEnter == Shape /\ EnterBlock => Shape'
<1> SUFFICES ASSUME Shape, EnterBlock PROVE Shape'
  OBVIOUS
<1> PICK b : b = Top.block
  OBVIOUS
<1> PICK mine : mine = PhisOf(b)
  OBVIOUS
<1>0. Entering(b, mine)
  BY EnterFacts
<1>1. /\ Renaming /\ b \in Blocks
      /\ mine \subseteq DOMAIN phis /\ Cardinality(mine) \in Nat /\ Allocate(Cardinality(mine))
  BY <1>0 DEF Entering
<1>a. phis' = [p \in DOMAIN phis |-> IF p \in mine THEN [phis[p] EXCEPT !.result = Allocated(Rank(p, mine))]
                                                   ELSE phis[p]]
  BY <1>0 DEF Entering
<1>b. regStack' \in [variables -> Seq(Nat)] /\ visited' = visited \cup {b} /\ Remember
  BY <1>0 DEF Entering
<1>c. \A p \in mine : Allocated(Rank(p, mine)) \in Nat
  BY <1>0 DEF Entering
<1>d. UNCHANGED <<fn, stage, tree, phiVars, undefs, code, live, runVars>>
  BY <1>0 DEF Entering
<1>2. PICK pushed \in Seq(variables) : walk' = Append(Front(walk), [Top EXCEPT !.pc = 1, !.pushed = pushed])
  BY <1>0, Zenon DEF Entering
<1>3. stage = "rename" /\ walk \in Seq(Frames) /\ walk # <<>> /\ Top \in Frames /\ fn \in Functions
  BY <1>1, TopFacts
<1>4. /\ FnPart' /\ EarlyPart' /\ TreePart' /\ VariablePart' /\ PlacePart'
      /\ Blocks' = Blocks /\ variables' = variables
      /\ \A c : Preds(c)' = Preds(c)
      /\ Frames' = Frames /\ PhiRecords' = PhiRecords
  BY <1>d, <1>3, ShapeLaterStable DEF Stages, Shape
<1>5. PhiPart' /\ DOMAIN phis' = DOMAIN phis
  <2>1. \A p \in DOMAIN phis : /\ phis'[p] \in PhiRecords
                               /\ phis'[p].block = phis[p].block /\ phis'[p].var = phis[p].var
                               /\ phis'[p].blocks = phis[p].blocks
                               /\ DOMAIN phis'[p].values = DOMAIN phis[p].values
    <3> TAKE p \in DOMAIN phis
    <3>1. phis[p] \in PhiRecords
      BY PhiTyped
    <3> QED
      BY <1>a, <1>c, <3>1 DEF PhiRecords
  <2>2. phis' = [p \in DOMAIN phis |-> phis'[p]]
    BY <1>a
  <2> QED
    BY <2>1, <2>2, <1>4, PhisKeepShape DEF Shape
<1>6. RegisterPart'
  BY <1>1, <1>d, <1>3, AllocateFacts DEF RegisterPart, Shape
<1>7. StackPart'
  BY <1>b, <1>4 DEF StackPart
<1>8. WalkPart'
  <2> PICK frame : frame = [Top EXCEPT !.pc = 1, !.pushed = pushed]
    OBVIOUS
  <2>1. frame \in Frames
    BY <1>2, <1>3 DEF Frames
  <2> PICK w : w = walk
    OBVIOUS
  <2> PICK t : t = walk'
    OBVIOUS
  <2>2. w \in Seq(Frames) /\ w # <<>> /\ t = Append(Front(w), frame)
    BY <1>2, <1>3
  <2>3. t \in Seq(Frames)
    BY ONLY <2>1, <2>2, SetLast
  <2>4. t # <<>>
    BY ONLY <2>1, <2>2, SetLast
  <2> QED
    BY <2>3, <2>4, <1>1, <1>b, <1>d, <1>3, <1>4 DEF WalkPart, Shape
<1>9. CodePart'
  BY <1>d, <1>4 DEF CodePart, Shape, Written
<1>10. HeldPart'
  BY <1>1, <1>b, <1>4, HeldGrows
<1>11. LivePart' /\ RunPart'
  BY <1>d, <1>3, <1>4, <1>5 DEF LivePart, RunPart, Shape, runVars
<1> QED
  BY <1>4, <1>5, <1>6, <1>7, <1>8, <1>9, <1>10, <1>11 DEF Shape

Tracked(ins) == Defines(ins) /\ ins.dest \in variables
Aliases(ins) == ins.op = "copy" /\ ins.srcs[1] \notin fn.memory
Value(ins) == IF Aliases(ins) THEN RenamedReads(ins).srcs[1] ELSE Allocated(1)
Rewritten(ins) ==
  IF ~Tracked(ins) \/ Aliases(ins) THEN RenamedReads(ins)
  ELSE [RenamedReads(ins) EXCEPT !.dest = Value(ins), !.op = IF @ \in {"const", "copy"} THEN "load" ELSE @]
Taken(ins) == IF Tracked(ins) /\ ~Aliases(ins) THEN 1 ELSE 0

Rewriting(b, pc, ins) ==
  /\ Renaming /\ b \in Blocks /\ Top.pc = pc /\ pc \in DOMAIN code[b] /\ ins \in Written
  /\ Taken(ins) \in Nat /\ Allocate(Taken(ins))
  /\ Tracked(ins) => ins.dest \in variables /\ Value(ins) \in Nat
  /\ Rewritten(ins) \in Written
  /\ code' = [code EXCEPT ![b][pc] = Rewritten(ins)]
  /\ regStack' = IF Tracked(ins) THEN Push(regStack, ins.dest, Value(ins)) ELSE regStack
  /\ regStack' \in [variables -> Seq(Nat)]
  /\ \E pushed \in Seq(variables) :
       /\ walk' = Append(Front(walk), [Top EXCEPT !.pc = pc + 1, !.pushed = pushed])
       /\ pushed = IF Tracked(ins) THEN Append(Top.pushed, ins.dest) ELSE Top.pushed
  /\ Remember
  /\ UNCHANGED <<fn, stage, tree, phiVars, phis, undefs, visited, live, runVars>>

LEMMA RenamedFacts ==
  ASSUME Shape, Renaming, NEW r \in Nat
  PROVE  Renamed(r) \in Nat
<1>1. regStack \in [variables -> Seq(Nat)]
  BY TopFacts
<1>2. r \in variables => CurrentRegister(regStack, r) \in Nat
  BY <1>1, CurrentFacts
<1> QED
  BY <1>2 DEF Renamed

LEMMA RenamedReadsFacts ==
  ASSUME Shape, Renaming, NEW ins \in Written
  PROVE  /\ RenamedReads(ins) \in Written /\ RenamedReads(ins).op = ins.op
         /\ DOMAIN RenamedReads(ins).srcs = DOMAIN ins.srcs
         /\ ins.op = "copy" => 1 \in DOMAIN ins.srcs /\ RenamedReads(ins).srcs = <<Renamed(ins.srcs[1])>>
                               /\ RenamedReads(ins).srcs[1] = Renamed(ins.srcs[1]) /\ Renamed(ins.srcs[1]) \in Nat
<1> PICK reads : reads = ins.srcs
  OBVIOUS
<1>1. reads \in Seq(Nat) /\ ins.dest \in Nat /\ ins.op \in Ops \cup {"load"}
      /\ ins \in [op : Ops \cup {"load"}, dest : Nat, srcs : Seq(Nat)]
      /\ (ins.op = "copy" => Len(reads) = 1) /\ (ins.op = "const" => reads = <<>>)
  BY DEF Written
<1>2. DOMAIN reads = 1..Len(reads) /\ Len(reads) \in Nat /\ \A k \in DOMAIN reads : reads[k] \in Nat
  BY <1>1
<1>3. \A k \in DOMAIN reads : Renamed(reads[k]) \in Nat
  BY <1>2, RenamedFacts
<1> PICK fresh : fresh = [k \in DOMAIN reads |-> Renamed(reads[k])]
  OBVIOUS
<1>4. fresh \in Seq(Nat) /\ DOMAIN fresh = DOMAIN reads /\ Len(fresh) = Len(reads)
  BY <1>2, <1>3
<1>5. RenamedReads(ins) = IF ins.op = "out" THEN [ins EXCEPT !.dest = Renamed(ins.dest)] ELSE [ins EXCEPT !.srcs = fresh]
  BY DEF RenamedReads
<1>6. Renamed(ins.dest) \in Nat
  BY <1>1, RenamedFacts
<1>7. reads = <<>> => fresh = <<>>
  BY <1>2, <1>4
<1>8. CASE ins.op = "out"
  BY <1>8, <1>1, <1>5, <1>6 DEF Written
<1>9. CASE ins.op # "out"
  <2>1. RenamedReads(ins) = [ins EXCEPT !.srcs = fresh]
    BY <1>9, <1>5
  <2>2. /\ RenamedReads(ins) \in [op : Ops \cup {"load"}, dest : Nat, srcs : Seq(Nat)]
        /\ RenamedReads(ins).op = ins.op /\ RenamedReads(ins).srcs = fresh
    BY <2>1, <1>1, <1>4
  <2>3. RenamedReads(ins) \in Written
    BY <2>2, <1>1, <1>4, <1>7 DEF Written
  <2>4. ins.op = "copy" => 1 \in DOMAIN reads /\ fresh = <<Renamed(reads[1])>> /\ Renamed(reads[1]) \in Nat
    <3> SUFFICES ASSUME ins.op = "copy" PROVE 1 \in DOMAIN reads /\ fresh = <<Renamed(reads[1])>> /\ Renamed(reads[1]) \in Nat
      OBVIOUS
    <3>0. Len(reads) = 1
      BY <1>1
    <3>1. DOMAIN reads = 1..1 /\ 1 \in DOMAIN reads
      BY <3>0, <1>2
    <3>2. fresh[1] = Renamed(reads[1]) /\ Len(fresh) = 1 /\ Renamed(reads[1]) \in Nat
      BY <3>0, <3>1, <1>3, <1>4
    <3>3. fresh = <<Renamed(reads[1])>>
      BY <3>2, <1>4
    <3> QED
      BY <3>1, <3>2, <3>3
  <2> QED
    BY <2>2, <2>3, <2>4, <1>4
<1> QED
  BY <1>8, <1>9

LEMMA RewriteFacts ==
  ASSUME Shape, RenameInstruction, NEW b, b = Top.block, NEW pc, pc = Top.pc, NEW ins, ins = code[b][pc]
  PROVE  Rewriting(b, pc, ins)
<1>1. Renaming /\ pc \in DOMAIN code[b]
  BY Zenon DEF RenameInstruction
<1>2. /\ b \in Blocks /\ fn \in Functions /\ regStack \in [variables -> Seq(Nat)] /\ Top \in Frames
      /\ walk \in Seq(Frames) /\ walk # <<>> /\ RegisterPart /\ CodePart
  BY <1>1, TopFacts DEF Shape
<1>3. ins \in Written
  <2> PICK c : c = code[b]
    OBVIOUS
  <2>1. c \in Seq(Written)
    BY <1>2 DEF CodePart
  <2> QED
    BY <2>1, <1>1
<1>4. Allocate(Taken(ins)) /\ Taken(ins) \in Nat
  <2>1. Taken(ins) \in Nat
    BY DEF Taken
  <2>2. Allocate(Taken(ins))
    BY Zenon DEF RenameInstruction, Tracked, Aliases, Taken
  <2> QED
    BY <2>1, <2>2
<1>5. Tracked(ins) => ins.dest \in variables /\ Value(ins) \in Nat
  <2> SUFFICES ASSUME Tracked(ins) PROVE Value(ins) \in Nat
    BY DEF Tracked
  <2>1. CASE Aliases(ins)
    BY <2>1, <1>1, <1>3, RenamedReadsFacts DEF Aliases, Value
  <2>2. CASE ~Aliases(ins)
    <3>1. Taken(ins) = 1
      BY <2>2 DEF Taken
    <3>2. 1 \in 1..1
      OBVIOUS
    <3>3. Allocate(1)
      BY <3>1, <1>4
    <3>4. Allocated(1) \in Nat
      BY <3>2, <3>3, <1>2, AllocateFacts
    <3> QED
      BY <2>2, <3>4 DEF Value
  <2> QED
    BY <2>1, <2>2
<1>6. RenamedReads(ins) \in Written
  BY <1>1, <1>3, RenamedReadsFacts
<1>7. Rewritten(ins) \in Written
  <2>1. CASE ~Tracked(ins) \/ Aliases(ins)
    BY <2>1, <1>6 DEF Rewritten
  <2>2. CASE Tracked(ins) /\ ~Aliases(ins)
    <3> PICK r : r = RenamedReads(ins)
      OBVIOUS
    <3> PICK v : v = Value(ins)
      OBVIOUS
    <3>1. Rewritten(ins) = [r EXCEPT !.dest = v, !.op = IF @ \in {"const", "copy"} THEN "load" ELSE @]
      BY <2>2 DEF Rewritten
    <3>2. r \in Written /\ v \in Nat
      BY <1>5, <1>6, <2>2
    <3> QED
      BY <3>1, <3>2 DEF Written
  <2> QED
    BY <2>1, <2>2
<1>8. code' = [code EXCEPT ![b][pc] = Rewritten(ins)]
  BY Zenon DEF RenameInstruction, Rewritten, Tracked, Aliases, Value
<1>9. regStack' = IF Tracked(ins) THEN Push(regStack, ins.dest, Value(ins)) ELSE regStack
  BY Zenon DEF RenameInstruction, Tracked, Aliases, Value
<1>10. regStack' \in [variables -> Seq(Nat)]
  BY <1>2, <1>5, <1>9, PushFacts
<1> DEFINE pushed == IF Tracked(ins) THEN Append(Top.pushed, ins.dest) ELSE Top.pushed
<1>11. pushed \in Seq(variables)
  <2> PICK s : s = Top.pushed
    OBVIOUS
  <2>1. s \in Seq(variables)
    BY <1>2 DEF Frames
  <2>2. Tracked(ins) => Append(s, ins.dest) \in Seq(variables)
    BY <2>1, <1>5
  <2> QED
    BY <2>1, <2>2
<1>12. walk' = Append(Front(walk), [Top EXCEPT !.pc = pc + 1, !.pushed = pushed])
  <2>1. walk' = Append(Front(walk), [Top EXCEPT !.pc = @ + 1, !.pushed = IF Tracked(ins) THEN Append(@, ins.dest) ELSE @])
    BY Zenon DEF RenameInstruction, SetTop, Tracked
  <2> QED
    BY <2>1, <1>2 DEF Frames
<1>13. Remember /\ UNCHANGED <<fn, stage, tree, phiVars, phis, undefs, visited, live, runVars>>
  BY Zenon DEF RenameInstruction
<1> QED
  BY <1>1, <1>2, <1>3, <1>4, <1>5, <1>7, <1>8, <1>9, <1>10, <1>11, <1>12, <1>13, Zenon DEF Rewriting

LEMMA ShapeRename == Shape /\ RenameInstruction => Shape'
<1> SUFFICES ASSUME Shape, RenameInstruction PROVE Shape'
  OBVIOUS
<1> PICK b : b = Top.block
  OBVIOUS
<1> PICK pc : pc = Top.pc
  OBVIOUS
<1> PICK ins : ins = code[b][pc]
  OBVIOUS
<1>0. Rewriting(b, pc, ins)
  BY RewriteFacts
<1>1. Renaming /\ b \in Blocks /\ pc \in DOMAIN code[b] /\ Taken(ins) \in Nat /\ Allocate(Taken(ins))
  BY <1>0 DEF Rewriting
<1>2. Rewritten(ins) \in Written /\ code' = [code EXCEPT ![b][pc] = Rewritten(ins)]
  BY <1>0 DEF Rewriting
<1>3. regStack' \in [variables -> Seq(Nat)] /\ Remember
  BY <1>0 DEF Rewriting
<1>4. UNCHANGED <<fn, stage, tree, phiVars, phis, undefs, visited, live, runVars>>
  BY <1>0 DEF Rewriting
<1>5. stage = "rename" /\ walk \in Seq(Frames) /\ walk # <<>> /\ Top \in Frames /\ fn \in Functions
  BY <1>1, TopFacts
<1>6. /\ FnPart' /\ EarlyPart' /\ TreePart' /\ VariablePart' /\ PlacePart'
      /\ Blocks' = Blocks /\ variables' = variables
      /\ \A c : Preds(c)' = Preds(c)
      /\ Frames' = Frames /\ PhiRecords' = PhiRecords
  BY <1>4, <1>5, ShapeLaterStable DEF Stages, Shape
<1>7. PhiPart' /\ DOMAIN phis' = DOMAIN phis
  BY <1>4, <1>6 DEF PhiPart, Shape
<1>8. RegisterPart'
  BY <1>1, <1>4, <1>5, AllocateFacts DEF RegisterPart, Shape
<1>9. StackPart'
  BY <1>3, <1>6 DEF StackPart
<1>10. WalkPart'
  <2> PICK pushed \in Seq(variables) : walk' = Append(Front(walk), [Top EXCEPT !.pc = pc + 1, !.pushed = pushed])
    BY <1>0, Zenon DEF Rewriting
  <2> PICK frame : frame = [Top EXCEPT !.pc = pc + 1, !.pushed = pushed]
    OBVIOUS
  <2>0. Top.pc \in Nat /\ pc + 1 \in Nat
    BY <1>1, TopFacts, SMTT(30)
  <2>1. frame \in Frames
    BY <2>0, <1>5 DEF Frames
  <2> PICK w : w = walk
    OBVIOUS
  <2> PICK t : t = walk'
    OBVIOUS
  <2>2. w \in Seq(Frames) /\ w # <<>> /\ t = Append(Front(w), frame)
    BY <1>5
  <2>3. t \in Seq(Frames)
    BY ONLY <2>1, <2>2, SetLast
  <2>4. t # <<>>
    BY ONLY <2>1, <2>2, SetLast
  <2> QED
    BY <2>3, <2>4, <1>4, <1>5, <1>6 DEF WalkPart, Shape
<1>11. CodePart'
  <2> PICK c : c = code[b]
    OBVIOUS
  <2>1. DOMAIN code = Blocks /\ \A d \in Blocks : code[d] \in Seq(Written) /\ Len(code[d]) = Len(fn.code[d])
    BY DEF Shape, CodePart
  <2>2. c \in Seq(Written) /\ pc \in DOMAIN c
    BY <2>1, <1>1
  <2> PICK d : d = [c EXCEPT ![pc] = Rewritten(ins)]
    OBVIOUS
  <2>3. d \in Seq(Written) /\ Len(d) = Len(c)
    BY <2>2, <1>2
  <2>4. code' = [code EXCEPT ![b] = d]
    BY <1>2
  <2>5. code'[b] = d /\ \A e \in Blocks \ {b} : code'[e] = code[e]
    BY <2>1, <2>4, <1>1
  <2>6. DOMAIN code' = Blocks /\ \A e \in Blocks : code'[e] \in Seq(Written) /\ Len(code'[e]) = Len(fn.code[e])
    BY <2>1, <2>3, <2>4, <2>5
  <2> QED
    BY <2>6, <1>4, <1>6 DEF CodePart, Written
<1>12. HeldPart'
  BY <1>1, <1>3, <1>6, HeldGrows
<1>13. LivePart' /\ RunPart'
  BY <1>4, <1>5, <1>6, <1>7 DEF LivePart, RunPart, Shape, runVars
<1> QED
  BY <1>6, <1>7, <1>8, <1>9, <1>10, <1>11, <1>12, <1>13 DEF Shape

(* The operand of phi p for an edge out of b.                              *)
LEMMA OperandFacts ==
  ASSUME Shape, NEW p \in DOMAIN phis, NEW b \in Blocks, Edge(fn.succ, b, phis[p].block)
  PROVE  /\ OperandFor(p, b) \in DOMAIN phis[p].values /\ phis[p].blocks[OperandFor(p, b)] = b
         /\ \A k \in DOMAIN phis[p].values : phis[p].blocks[k] = b => OperandFor(p, b) <= k
<1> PICK bs : bs = phis[p].blocks
  OBVIOUS
<1>1. fn \in Functions /\ bs = Preds(phis[p].block) /\ phis[p].block \in Blocks
      /\ DOMAIN phis[p].values = DOMAIN bs
  BY PhiTyped DEF Shape, FnPart
<1>2. bs \in Seq(Blocks) /\ ToSet(bs) = EdgesTo(fn.succ, phis[p].block)
  BY <1>1, FnState
<1>3. DOMAIN bs = 1..Len(bs) /\ Len(bs) \in Nat
  BY <1>2
<1>4. b \in ToSet(bs)
  BY <1>2 DEF EdgesTo, Edge, Blocks
<1>5. \E k \in DOMAIN bs : bs[k] = b
  BY <1>3, <1>4 DEF ToSet
<1> PICK S : S = {k \in DOMAIN bs : bs[k] = b}
  BY Zenon
<1>6. S \in SUBSET Nat /\ S # {} /\ OperandFor(p, b) = Least(S)
  BY <1>3, <1>5 DEF OperandFor
<1> QED
  BY <1>1, <1>6, LeastFacts

Filling(b, s, fed, bare) ==
  /\ Renaming /\ b \in Blocks /\ s \in Blocks /\ Edge(fn.succ, b, s) /\ Top.pc > Len(code[b])
  /\ SuccessorIndex \in DOMAIN fn.succ[b] /\ s = fn.succ[b][SuccessorIndex]
  /\ fed \subseteq DOMAIN phis /\ bare = {p \in fed : regStack[phis[p].var] = <<>>}
  /\ Cardinality(bare) \in Nat /\ Allocate(Cardinality(bare))
  /\ \A p \in bare : Rank(p, bare) \in 1..Cardinality(bare) /\ Allocated(Rank(p, bare)) \in Nat
  /\ \A p, q \in bare : Rank(p, bare) = Rank(q, bare) => p = q
  /\ phis' = [p \in DOMAIN phis |-> phis'[p]]
  /\ \A p \in DOMAIN phis \ fed : phis'[p] = phis[p]
  /\ \A p \in fed : LET v == IF p \in bare THEN Allocated(Rank(p, bare)) ELSE Last(regStack[phis[p].var])
                    IN v \in Nat /\ phis'[p] = [phis[p] EXCEPT !.values = [@ EXCEPT ![OperandFor(p, b)] = v]]
  /\ undefs' = undefs \cup {Allocated(Rank(p, bare)) : p \in bare}
  /\ walk' = Append(Front(walk), [Top EXCEPT !.pc = Top.pc + 1])
  /\ UNCHANGED <<fn, stage, tree, phiVars, regStack, visited, code, held, live, runVars>>

LEMMA FillFacts ==
  ASSUME Shape, FillSuccessor, NEW b, b = Top.block, NEW s, s = fn.succ[b][SuccessorIndex],
         NEW fed, fed = PhisOf(s), NEW bare, bare = {p \in fed : regStack[phis[p].var] = <<>>}
  PROVE  Filling(b, s, fed, bare)
<1>1. Renaming /\ SuccessorIndex \in DOMAIN fn.succ[b]
  BY DEF FillSuccessor
<1>2. /\ b \in Blocks /\ fn \in Functions /\ regStack \in [variables -> Seq(Nat)] /\ Top \in Frames
      /\ walk \in Seq(Frames) /\ walk # <<>> /\ RegisterPart /\ Top.pc \in Nat /\ Len(code[b]) \in Nat
  BY <1>1, TopFacts DEF Shape
<1>3. s \in Blocks /\ Edge(fn.succ, b, s) /\ SuccessorIndex \in Nat \ {0}
  <2> PICK ss : ss = fn.succ[b]
    OBVIOUS
  <2>1. ss \in Seq(Blocks)
    BY <1>2, FnState
  <2>2. DOMAIN ss = 1..Len(ss) /\ Len(ss) \in Nat /\ \A k \in DOMAIN ss : ss[k] \in Blocks
    BY <2>1
  <2> QED
    BY <2>2, <1>1 DEF Edge
<1>4. Top.pc > Len(code[b])
  BY <1>2, <1>3 DEF SuccessorIndex
<1>5. fed \subseteq DOMAIN phis /\ bare \in SUBSET DOMAIN phis
  BY DEF PhisOf
<1>6. Cardinality(bare) \in Nat /\ IsFiniteSet(bare) /\ bare \in SUBSET Nat
  BY <1>5, PhisAreFinite
<1>7. /\ \A p \in bare : Rank(p, bare) \in 1..Cardinality(bare)
      /\ \A p, q \in bare : Rank(p, bare) = Rank(q, bare) => p = q
  BY <1>6, RankFacts, Zenon
<1>8. Allocate(Cardinality(bare))
  BY DEF FillSuccessor, PhisOf
<1>9. \A p \in bare : Allocated(Rank(p, bare)) \in Nat
  BY <1>2, <1>6, <1>7, <1>8, AllocateFacts
<1> DEFINE value(p) == IF p \in bare THEN Allocated(Rank(p, bare)) ELSE Last(regStack[phis[p].var])
<1>10. phis' = [p \in DOMAIN phis |-> IF p \in fed THEN [phis[p] EXCEPT !.values[OperandFor(p, b)] = value(p)]
                                                   ELSE phis[p]]
  BY DEF FillSuccessor, PhisOf
<1>11. \A p \in fed : value(p) \in Nat
  <2> TAKE p \in fed
  <2> PICK st : st = regStack[phis[p].var]
    OBVIOUS
  <2>1. phis[p].var \in variables
    BY <1>5, PhiTyped
  <2>2. st \in Seq(Nat)
    BY <2>1, <1>2
  <2>3. CASE p \in bare
    BY <2>3, <1>9
  <2>4. CASE p \notin bare
    <3>1. st # <<>>
      BY <2>4
    <3>2. Last(st) \in Nat
      BY <2>2, <3>1, FrontFacts
    <3> QED
      BY <2>4, <3>2
  <2> QED
    BY <2>3, <2>4
<1>12. \A p \in fed : phis'[p] = [phis[p] EXCEPT !.values = [@ EXCEPT ![OperandFor(p, b)] = value(p)]]
  <2> TAKE p \in fed
  <2>1. p \in DOMAIN phis
    BY <1>5
  <2>2. phis'[p] = [phis[p] EXCEPT !.values[OperandFor(p, b)] = value(p)]
    BY <2>1, <1>10
  <2> QED
    BY <2>2
<1>13. phis' = [p \in DOMAIN phis |-> phis'[p]] /\ \A p \in DOMAIN phis \ fed : phis'[p] = phis[p]
  BY <1>10
<1>14. undefs' = undefs \cup {Allocated(Rank(p, bare)) : p \in bare}
  BY DEF FillSuccessor, PhisOf
<1>15. walk' = Append(Front(walk), [Top EXCEPT !.pc = Top.pc + 1])
  <2>1. walk' = Append(Front(walk), [Top EXCEPT !.pc = @ + 1])
    BY DEF FillSuccessor, SetTop
  <2> QED
    BY <2>1, <1>2 DEF Frames
<1>16. UNCHANGED <<fn, stage, tree, phiVars, regStack, visited, code, held, live, runVars>>
  BY DEF FillSuccessor
<1> QED
  BY <1>1, <1>2, <1>3, <1>4, <1>5, <1>6, <1>7, <1>8, <1>9, <1>11, <1>12, <1>13, <1>14, <1>15, <1>16, Zenon DEF Filling

LEMMA ShapeFill == Shape /\ FillSuccessor => Shape'
<1> SUFFICES ASSUME Shape, FillSuccessor PROVE Shape'
  OBVIOUS
<1> PICK b : b = Top.block
  OBVIOUS
<1> PICK s : s = fn.succ[b][SuccessorIndex]
  OBVIOUS
<1> PICK fed : fed = PhisOf(s)
  OBVIOUS
<1> PICK bare : bare = {p \in fed : regStack[phis[p].var] = <<>>}
  OBVIOUS
<1>0. Filling(b, s, fed, bare)
  BY FillFacts
<1>1. Renaming /\ b \in Blocks /\ s \in Blocks /\ Edge(fn.succ, b, s) /\ fed \subseteq DOMAIN phis
  BY <1>0 DEF Filling
<1>2. Cardinality(bare) \in Nat /\ Allocate(Cardinality(bare)) /\ bare \subseteq fed
      /\ \A p \in bare : Rank(p, bare) \in 1..Cardinality(bare) /\ Allocated(Rank(p, bare)) \in Nat
  BY <1>0 DEF Filling
<1>3. UNCHANGED <<fn, stage, tree, phiVars, regStack, visited, code, held, live, runVars>>
  BY <1>0 DEF Filling
<1>4. stage = "rename" /\ walk \in Seq(Frames) /\ walk # <<>> /\ Top \in Frames /\ fn \in Functions
  BY <1>1, TopFacts
<1>5. /\ FnPart' /\ EarlyPart' /\ TreePart' /\ VariablePart' /\ PlacePart'
      /\ Blocks' = Blocks /\ variables' = variables
      /\ \A c : Preds(c)' = Preds(c)
      /\ Frames' = Frames /\ PhiRecords' = PhiRecords
  BY <1>3, <1>4, ShapeLaterStable DEF Stages, Shape
<1>6. PhiPart' /\ DOMAIN phis' = DOMAIN phis
  <2>1. ASSUME NEW p \in DOMAIN phis
        PROVE  /\ phis'[p] \in PhiRecords
               /\ phis'[p].block = phis[p].block /\ phis'[p].var = phis[p].var
               /\ phis'[p].blocks = phis[p].blocks
               /\ DOMAIN phis'[p].values = DOMAIN phis[p].values
    <3>1. phis[p] \in PhiRecords /\ phis[p].values \in Seq(Nat)
      BY PhiTyped
    <3>2. CASE p \notin fed
      BY <3>1, <3>2, <1>0 DEF Filling
    <3>3. CASE p \in fed
      <4> PICK v \in Nat : phis'[p] = [phis[p] EXCEPT !.values = [@ EXCEPT ![OperandFor(p, b)] = v]]
        BY <3>3, <1>0 DEF Filling
      <4> PICK vs : vs = phis[p].values
        OBVIOUS
      <4>1. vs \in Seq(Nat)
        BY <3>1
      <4> PICK k : k = OperandFor(p, b)
        OBVIOUS
      <4>4. k \in DOMAIN vs
        <5>1. phis[p].block = s
          BY <3>3 DEF PhisOf
        <5> QED
          BY <5>1, <1>1, OperandFacts
      <4>2. [vs EXCEPT ![k] = v] \in Seq(Nat) /\ DOMAIN [vs EXCEPT ![k] = v] = DOMAIN vs
        BY <4>1, <4>4
      <4>3. phis'[p] = [phis[p] EXCEPT !.values = [vs EXCEPT ![k] = v]]
        BY <3>1 DEF PhiRecords
      <4> QED
        BY <3>1, <4>2, <4>3 DEF PhiRecords
    <3> QED
      BY <3>2, <3>3
  <2>2. phis' = [p \in DOMAIN phis |-> phis'[p]]
    BY <1>0 DEF Filling
  <2> QED
    BY <2>1, <2>2, <1>5, PhisKeepShape DEF Shape
<1>7. RegisterPart'
  <2>1. undefs' = undefs \cup {Allocated(Rank(p, bare)) : p \in bare}
    BY <1>0 DEF Filling
  <2>2. undefs' \subseteq Nat
    <3>1. undefs \subseteq Nat
      BY DEF RegisterPart, Shape
    <3>2. \A p \in bare : Allocated(Rank(p, bare)) \in Nat
      BY <1>0, Zenon DEF Filling
    <3>3. {Allocated(Rank(p, bare)) : p \in bare} \subseteq Nat
      BY <3>2
    <3> QED
      BY <2>1, <3>1, <3>3, Zenon
  <2> QED
    BY <2>2, <1>2, <1>3, <1>4, AllocateFacts DEF RegisterPart, Shape
<1>8. StackPart'
  BY <1>3, <1>5 DEF StackPart, Shape
<1>9. WalkPart'
  <2> PICK frame : frame = [Top EXCEPT !.pc = Top.pc + 1]
    OBVIOUS
  <2> PICK pc : pc = Top.pc
    OBVIOUS
  <2>5. pc \in Nat
    BY <1>1, TopFacts
  <2>0. Top.pc + 1 \in Nat
    BY <2>5
  <2>1. frame \in Frames
    BY <2>0, <1>4 DEF Frames
  <2> PICK w : w = walk
    OBVIOUS
  <2> PICK t : t = walk'
    OBVIOUS
  <2>2. w \in Seq(Frames) /\ w # <<>> /\ t = Append(Front(w), frame)
    BY <1>0, <1>4 DEF Filling
  <2>3. t \in Seq(Frames)
    BY ONLY <2>1, <2>2, SetLast
  <2>4. t # <<>>
    BY ONLY <2>1, <2>2, SetLast
  <2> QED
    BY <2>3, <2>4, <1>3, <1>4, <1>5 DEF WalkPart, Shape
<1>10. CodePart' /\ HeldPart'
  BY <1>3, <1>5 DEF CodePart, HeldPart, Shape, Written
<1>11. LivePart' /\ RunPart'
  BY <1>3, <1>4, <1>5, <1>6 DEF LivePart, RunPart, Shape, runVars
<1> QED
  BY <1>5, <1>6, <1>7, <1>8, <1>9, <1>10, <1>11 DEF Shape

Visiting(b, child) ==
  /\ Renaming /\ b \in Blocks /\ child \in Top.todo /\ child \in Blocks
  /\ Top.pc > 0 /\ SuccessorIndex > Len(fn.succ[b])
  /\ walk' = Front(walk) \o <<[Top EXCEPT !.todo = @ \ {child}], Frame(child)>>
  /\ [Top EXCEPT !.todo = @ \ {child}] \in Frames /\ Frame(child) \in Frames
  /\ UNCHANGED <<fn, stage, tree, phiVars, phis, regStack, nextReg, limitExceeded, undefs,
                 visited, code, held, live, runVars>>

LEMMA FrameFacts ==
  ASSUME Shape, stage # "variables", NEW b \in Blocks
  PROVE  /\ Frame(b) \in Frames /\ Frame(b).block = b /\ Frame(b).pc = 0 /\ Frame(b).pushed = <<>>
         /\ Frame(b).todo = ChildrenOf(IdomChains, b) /\ tree.children[b] = ChildrenOf(IdomChains, b)
<1>1. tree.children[b] = ChildrenOf(IdomChains, b)
  BY DEF Shape, TreePart
<1>2. ChildrenOf(IdomChains, b) \subseteq Blocks
  BY DEF ChildrenOf
<1> QED
  BY <1>1, <1>2 DEF Frame, Frames

LEMMA VisitFacts ==
  ASSUME Shape, VisitChild, NEW b, b = Top.block, NEW child, child = Least(Top.todo)
  PROVE  Visiting(b, child)
<1>1. Renaming /\ Top.pc > 0 /\ SuccessorIndex > Len(fn.succ[b]) /\ Top.todo # {}
  BY DEF VisitChild, BlockRenamed
<1>2. b \in Blocks /\ Top.todo \subseteq Blocks /\ Top \in Frames /\ fn \in Functions /\ stage = "rename"
  BY <1>1, TopFacts
<1>3. child \in Top.todo /\ child \in Blocks
  <2>1. Top.todo \subseteq Nat
    BY <1>2, FnState
  <2> QED
    BY <2>1, <1>1, <1>2, LeastFacts
<1>4. Frame(child) \in Frames
  BY <1>2, <1>3, FrameFacts
<1>5. [Top EXCEPT !.todo = @ \ {child}] \in Frames
  BY <1>2 DEF Frames
<1>6. /\ walk' = Front(walk) \o <<[Top EXCEPT !.todo = @ \ {child}], Frame(child)>>
      /\ UNCHANGED <<fn, stage, tree, phiVars, phis, regStack, nextReg, limitExceeded, undefs,
                     visited, code, held, live, runVars>>
  BY DEF VisitChild
<1> QED
  BY <1>1, <1>2, <1>3, <1>4, <1>5, <1>6 DEF Visiting

LEMMA ShapeVisit == Shape /\ VisitChild => Shape'
<1> SUFFICES ASSUME Shape, VisitChild PROVE Shape'
  OBVIOUS
<1> PICK child : child = Least(Top.todo)
  OBVIOUS
<1>0. Visiting(Top.block, child)
  BY VisitFacts
<1>1. Renaming /\ UNCHANGED <<fn, stage, tree, phiVars, phis, regStack, nextReg, limitExceeded, undefs,
                              visited, code, held, live, runVars>>
  BY <1>0 DEF Visiting
<1>2. stage = "rename" /\ walk \in Seq(Frames) /\ walk # <<>>
  BY <1>1, TopFacts
<1>3. /\ FnPart' /\ EarlyPart' /\ TreePart' /\ VariablePart' /\ PlacePart'
      /\ Blocks' = Blocks /\ variables' = variables
      /\ \A c : Preds(c)' = Preds(c)
      /\ Frames' = Frames /\ PhiRecords' = PhiRecords
  BY <1>1, <1>2, ShapeLaterStable DEF Stages, Shape
<1>4. WalkPart'
  <2> PICK x : x = [Top EXCEPT !.todo = @ \ {child}]
    OBVIOUS
  <2> PICK y : y = Frame(child)
    OBVIOUS
  <2> PICK w : w = walk
    OBVIOUS
  <2> PICK t : t = walk'
    OBVIOUS
  <2>1. w \in Seq(Frames) /\ w # <<>> /\ x \in Frames /\ y \in Frames /\ t = Front(w) \o <<x, y>>
    BY <1>0, <1>2 DEF Visiting
  <2>2. t \in Seq(Frames)
    BY ONLY <2>1, AddFrame
  <2>3. t # <<>>
    BY ONLY <2>1, AddFrame
  <2> QED
    BY <2>2, <2>3, <1>1, <1>2, <1>3 DEF WalkPart, Shape
<1>5. PhiPart' /\ RegisterPart' /\ StackPart'
  BY <1>1, <1>3 DEF PhiPart, RegisterPart, StackPart, Shape
<1>6. CodePart' /\ HeldPart'
  BY <1>1, <1>3 DEF CodePart, HeldPart, Shape, Written
<1>7. LivePart' /\ RunPart'
  BY <1>1, <1>2, <1>3 DEF LivePart, RunPart, Shape, runVars
<1> QED
  BY <1>3, <1>4, <1>5, <1>6, <1>7 DEF Shape

(* How many entries a variable has in a list of pushes.                    *)
Times(pushed, v) == Cardinality({k \in DOMAIN pushed : pushed[k] = v})

LEMMA TimesFacts ==
  ASSUME NEW T, NEW s \in Seq(T), NEW v
  PROVE  Times(s, v) \in Nat /\ IsFiniteSet({k \in DOMAIN s : s[k] = v})
<1>1. DOMAIN s = 1..Len(s) /\ Len(s) \in Nat
  OBVIOUS
<1>2. IsFiniteSet(DOMAIN s)
  <2>1. 1 \in Int /\ Len(s) \in Int
    BY <1>1
  <2> QED
    BY <2>1, <1>1, FS_Interval
<1>3. IsFiniteSet({k \in DOMAIN s : s[k] = v})
  BY <1>2, FS_Subset
<1> QED
  BY <1>3, FS_CardinalityType DEF Times

Leaving(b) ==
  /\ Renaming /\ b \in Blocks /\ Top.todo = {} /\ Top.pc > 0 /\ SuccessorIndex > Len(fn.succ[b])
  /\ regStack' = [v \in variables |-> SubSeq(regStack[v], 1, Len(regStack[v]) - Times(Top.pushed, v))]
  /\ regStack' \in [variables -> Seq(Nat)]
  /\ walk' = Front(walk) /\ walk' \in Seq(Frames) /\ (Len(walk) = 1 <=> walk' = <<>>)
  /\ stage' = IF Len(walk) = 1 THEN "cleanup" ELSE stage
  /\ UNCHANGED <<fn, tree, phiVars, phis, nextReg, limitExceeded, undefs, visited, code, held, live, runVars>>

LEMMA SubSeqFacts ==
  ASSUME NEW T, NEW s \in Seq(T), NEW k \in Nat
  PROVE  SubSeq(s, 1, Len(s) - k) \in Seq(T)
<1>1. Len(s) \in Nat
  OBVIOUS
<1>2. CASE k <= Len(s)
  <2>1. Len(s) - k \in Nat /\ Len(s) - k <= Len(s)
    BY <1>1, <1>2
  <2> QED
    BY <2>1
<1>3. CASE ~(k <= Len(s))
  <2>1. Len(s) - k \in Int /\ Len(s) - k < 1
    BY <1>1, <1>3
  <2> QED
    BY <2>1
<1> QED
  BY <1>2, <1>3

LEMMA LeaveFacts ==
  ASSUME Shape, LeaveBlock, NEW b, b = Top.block
  PROVE  Leaving(b)
<1>1. Renaming /\ Top.pc > 0 /\ SuccessorIndex > Len(fn.succ[b]) /\ Top.todo = {}
  BY DEF LeaveBlock, BlockRenamed
<1>2. b \in Blocks /\ Top.pushed \in Seq(variables) /\ walk \in Seq(Frames) /\ walk # <<>>
      /\ regStack \in [variables -> Seq(Nat)]
  BY <1>1, TopFacts
<1>3. regStack' = [v \in variables |-> SubSeq(regStack[v], 1, Len(regStack[v]) - Times(Top.pushed, v))]
  BY DEF LeaveBlock, Times
<1>4. regStack' \in [variables -> Seq(Nat)]
  <2>1. \A v \in variables : SubSeq(regStack[v], 1, Len(regStack[v]) - Times(Top.pushed, v)) \in Seq(Nat)
    BY <1>2, TimesFacts, SubSeqFacts
  <2> QED
    BY <1>3, <2>1
<1>5. walk' = Front(walk) /\ stage' = IF Len(walk) = 1 THEN "cleanup" ELSE stage
  BY DEF LeaveBlock
<1>6. walk' \in Seq(Frames) /\ (Len(walk) = 1 <=> walk' = <<>>)
  <2> PICK w : w = walk
    OBVIOUS
  <2> PICK t : t = walk'
    OBVIOUS
  <2>1. w \in Seq(Frames) /\ w # <<>> /\ t = Front(w)
    BY <1>2, <1>5
  <2>2. t \in Seq(Frames) /\ Len(w) \in Nat /\ Len(t) = Len(w) - 1
    BY ONLY <2>1, FrontFacts
  <2>3. t = <<>> <=> Len(t) = 0
    BY <2>2
  <2> QED
    BY <2>2, <2>3
<1>7. UNCHANGED <<fn, tree, phiVars, phis, nextReg, limitExceeded, undefs, visited, code, held, live, runVars>>
  BY DEF LeaveBlock
<1> QED
  BY <1>1, <1>2, <1>3, <1>4, <1>5, <1>6, <1>7 DEF Leaving

LEMMA ShapeLeave == Shape /\ LeaveBlock => Shape'
<1> SUFFICES ASSUME Shape, LeaveBlock PROVE Shape'
  OBVIOUS
<1>0. Leaving(Top.block)
  BY LeaveFacts
<1>1. /\ Renaming
      /\ UNCHANGED <<fn, tree, phiVars, phis, nextReg, limitExceeded, undefs, visited, code, held, live, runVars>>
  BY <1>0 DEF Leaving
<1>2. stage = "rename" /\ walk \in Seq(Frames) /\ walk # <<>>
  BY <1>1, TopFacts
<1>3. stage' = IF walk' = <<>> THEN "cleanup" ELSE "rename"
  BY <1>0, <1>2 DEF Leaving
<1>4. /\ FnPart' /\ EarlyPart' /\ TreePart' /\ VariablePart' /\ PlacePart'
      /\ Blocks' = Blocks /\ variables' = variables
      /\ \A c : Preds(c)' = Preds(c)
      /\ Frames' = Frames /\ PhiRecords' = PhiRecords
  BY <1>1, <1>2, <1>3, ShapeLaterStable DEF Stages, Shape
<1>5. WalkPart'
  BY <1>0, <1>1, <1>3, <1>4 DEF WalkPart, Shape, Leaving
<1>6. PhiPart' /\ RegisterPart' /\ StackPart'
  BY <1>0, <1>1, <1>4 DEF PhiPart, RegisterPart, StackPart, Shape, Leaving
<1>7. CodePart' /\ HeldPart'
  BY <1>1, <1>4 DEF CodePart, HeldPart, Shape, Written
<1>8. LivePart' /\ RunPart'
  BY <1>1, <1>2, <1>3, <1>4 DEF LivePart, RunPart, Shape, runVars
<1> QED
  BY <1>4, <1>5, <1>6, <1>7, <1>8 DEF Shape

Starting(bare) ==
  /\ stage = "phis" /\ worklist = <<>> /\ unplaced = {}
  /\ bare = {v \in variables : EntryBlock \notin variableInfo[v].defBlocks}
  /\ IsFiniteSet(bare) /\ bare \in SUBSET Nat /\ Cardinality(bare) \in Nat /\ Allocate(Cardinality(bare))
  /\ \A v \in bare : Rank(v, bare) \in 1..Cardinality(bare) /\ Allocated(Rank(v, bare)) \in Nat
  /\ \A v, w \in bare : Rank(v, bare) = Rank(w, bare) => v = w
  /\ regStack' = [v \in variables |-> IF v \in bare THEN <<Allocated(Rank(v, bare))>> ELSE <<>>]
  /\ regStack' \in [variables -> Seq(Nat)]
  /\ undefs' = {Allocated(Rank(v, bare)) : v \in bare}
  /\ IF variables = {} THEN stage' = "mark" /\ walk' = walk
                       ELSE stage' = "rename" /\ walk' = <<Frame(EntryBlock)>>
  /\ UNCHANGED <<fn, tree, phiVars, phis, visited, code, held, live, runVars>>

LEMMA StartingFacts ==
  ASSUME Shape, InsertUndefs, NEW bare, bare = {v \in variables : EntryBlock \notin variableInfo[v].defBlocks}
  PROVE  Starting(bare)
<1>1. stage = "phis" /\ worklist = <<>> /\ unplaced = {}
  BY DEF InsertUndefs
<1>2. fn \in Functions /\ RegisterPart /\ variables \subseteq 0..(fn.regs - 1) /\ fn.regs \in Nat
  <2>1. fn \in Functions /\ RegisterPart /\ variables \subseteq 0..(fn.regs - 1)
    BY DEF Shape, FnPart, VariablePart
  <2> QED
    BY <2>1, FnState
<1>3. IsFiniteSet(bare) /\ bare \in SUBSET Nat /\ Cardinality(bare) \in Nat
  <2> PICK S : S = 0..(fn.regs - 1)
    OBVIOUS
  <2>1. IsFiniteSet(S) /\ bare \subseteq S
    <3>1. 0 \in Int /\ fn.regs - 1 \in Int
      BY <1>2
    <3> QED
      BY <3>1, <1>2, FS_Interval
  <2>2. \A x \in S : x \in Nat
    BY <1>2
  <2> QED
    BY <2>1, <2>2, FS_Subset, FS_CardinalityType
<1>4. /\ \A v \in bare : Rank(v, bare) \in 1..Cardinality(bare)
      /\ \A v, w \in bare : Rank(v, bare) = Rank(w, bare) => v = w
  BY <1>3, RankFacts
<1>5. Allocate(Cardinality(bare))
  BY DEF InsertUndefs
<1>6. \A v \in bare : Allocated(Rank(v, bare)) \in Nat
  BY <1>2, <1>3, <1>4, <1>5, AllocateFacts
<1>7. regStack' = [v \in variables |-> IF v \in bare THEN <<Allocated(Rank(v, bare))>> ELSE <<>>]
  BY DEF InsertUndefs
<1>8. regStack' \in [variables -> Seq(Nat)]
  <2>1. \A v \in variables : (IF v \in bare THEN <<Allocated(Rank(v, bare))>> ELSE <<>>) \in Seq(Nat)
    BY <1>6
  <2> QED
    BY <1>7, <2>1
<1>9. undefs' = {Allocated(Rank(v, bare)) : v \in bare}
  BY DEF InsertUndefs
<1>10. /\ IF variables = {} THEN stage' = "mark" /\ walk' = walk
                            ELSE stage' = "rename" /\ walk' = <<Frame(EntryBlock)>>
       /\ UNCHANGED <<fn, tree, phiVars, phis, visited, code, held, live, runVars>>
  BY DEF InsertUndefs
<1> QED
  BY <1>1, <1>3, <1>4, <1>5, <1>6, <1>7, <1>8, <1>9, <1>10 DEF Starting

LEMMA ShapeUndefs == Shape /\ InsertUndefs => Shape'
<1> SUFFICES ASSUME Shape, InsertUndefs PROVE Shape'
  OBVIOUS
<1> PICK bare : bare = {v \in variables : EntryBlock \notin variableInfo[v].defBlocks}
  OBVIOUS
<1>0. Starting(bare)
  BY StartingFacts
<1>1. stage = "phis" /\ UNCHANGED <<fn, tree, phiVars, phis, visited, code, held, live, runVars>>
  BY <1>0 DEF Starting
<1>2. IF variables = {} THEN stage' = "mark" /\ walk' = walk
                        ELSE stage' = "rename" /\ walk' = <<Frame(EntryBlock)>>
  BY <1>0 DEF Starting
<1>3. fn \in Functions /\ walk = <<>>
  BY <1>1 DEF Shape, FnPart, EarlyPart
<1>4. /\ FnPart' /\ EarlyPart' /\ TreePart' /\ VariablePart' /\ PlacePart'
      /\ Blocks' = Blocks /\ variables' = variables
      /\ \A c : Preds(c)' = Preds(c)
      /\ Frames' = Frames /\ PhiRecords' = PhiRecords
  BY <1>1, <1>2, ShapeLaterStable DEF Stages
<1>5. WalkPart'
  <2>1. Frame(EntryBlock) \in Frames
    BY <1>1, <1>3, FnState, FrameFacts
  <2>2. <<Frame(EntryBlock)>> \in Seq(Frames) /\ <<Frame(EntryBlock)>> # <<>>
    BY <2>1
  <2>3. walk' \in Seq(Frames) /\ (stage' = "rename" <=> walk' # <<>>)
    <3>1. CASE variables = {}
      BY <3>1, <1>2, <1>3
    <3>2. CASE variables # {}
      BY <3>2, <2>2, <1>2
    <3> QED
      BY <3>1, <3>2
  <2> QED
    BY <2>3, <1>1, <1>4 DEF WalkPart, Shape
<1>6. RegisterPart'
  <2>1. Cardinality(bare) \in Nat /\ Allocate(Cardinality(bare)) /\ undefs' \subseteq Nat
    BY <1>0 DEF Starting
  <2> QED
    BY <2>1, <1>1, <1>3, AllocateFacts DEF RegisterPart, Shape
<1>7. PhiPart' /\ StackPart'
  BY <1>0, <1>1, <1>4 DEF PhiPart, StackPart, Shape, Starting
<1>8. CodePart' /\ HeldPart'
  BY <1>1, <1>4 DEF CodePart, HeldPart, Shape, Written
<1>9. LivePart' /\ RunPart'
  BY <1>1, <1>2, <1>4 DEF LivePart, RunPart, Shape, runVars
<1> QED
  BY <1>4, <1>5, <1>6, <1>7, <1>8, <1>9 DEF Shape

----------------------------------------------------------------------------
(* The repair of unreachable blocks.                                       *)

Missed == Blocks \ visited
Holes == UNION {{<<p, k>> : k \in {j \in DOMAIN phis[p].values : phis[p].values[j] = NoReg}} : p \in DOMAIN phis}
Upto(S, h) == {g \in S : g[1] < h[1] \/ (g[1] = h[1] /\ g[2] <= h[2])}

LEMMA PairRankFacts ==
  ASSUME NEW S \in SUBSET (Nat \X Nat), IsFiniteSet(S), NEW n \in Nat
  PROVE  /\ Cardinality(S) \in Nat
         /\ \A h \in S : n + Cardinality(Upto(S, h)) \in (n + 1)..(n + Cardinality(S))
         /\ \A g, h \in S : n + Cardinality(Upto(S, g)) = n + Cardinality(Upto(S, h)) => g = h
<1>0. Cardinality(S) \in Nat /\ \A h \in S : h[1] \in Nat /\ h[2] \in Nat /\ h = <<h[1], h[2]>>
  BY FS_CardinalityType
<1>1. ASSUME NEW h \in S PROVE /\ IsFiniteSet(Upto(S, h)) /\ Cardinality(Upto(S, h)) \in 1..Cardinality(S)
  <2>1. Upto(S, h) \in SUBSET S /\ h \in Upto(S, h)
    BY <1>0 DEF Upto
  <2>2. IsFiniteSet(Upto(S, h)) /\ Cardinality(Upto(S, h)) <= Cardinality(S)
    BY <2>1, FS_Subset
  <2>3. Cardinality(Upto(S, h)) \in Nat /\ Cardinality(Upto(S, h)) # 0
    BY <2>1, <2>2, FS_CardinalityType, FS_EmptySet
  <2> QED
    BY <1>0, <2>2, <2>3
<1>2. ASSUME NEW g \in S, NEW h \in S, g[1] < h[1] \/ (g[1] = h[1] /\ g[2] < h[2])
      PROVE  Cardinality(Upto(S, g)) # Cardinality(Upto(S, h))
  <2>1. ASSUME NEW x \in Upto(S, g) PROVE x \in Upto(S, h)
    <3>1. x \in S /\ (x[1] < g[1] \/ (x[1] = g[1] /\ x[2] <= g[2]))
      BY DEF Upto
    <3>2. x[1] \in Nat /\ x[2] \in Nat /\ g[1] \in Nat /\ g[2] \in Nat /\ h[1] \in Nat /\ h[2] \in Nat
      BY <3>1, <1>0
    <3>3. x[1] < h[1] \/ (x[1] = h[1] /\ x[2] <= h[2])
      BY <3>1, <3>2, <1>2
    <3> QED
      BY <3>1, <3>3 DEF Upto
  <2>2. h \in Upto(S, h) /\ h \notin Upto(S, g)
    <3>1. g[1] \in Nat /\ g[2] \in Nat /\ h[1] \in Nat /\ h[2] \in Nat
      BY <1>0
    <3>2. ~(h[1] < g[1] \/ (h[1] = g[1] /\ h[2] <= g[2])) /\ h[2] <= h[2]
      BY <3>1, <1>2
    <3> QED
      BY <3>2 DEF Upto
  <2>3. Upto(S, g) \in SUBSET Upto(S, h) /\ Upto(S, g) # Upto(S, h)
    BY <2>1, <2>2
  <2> QED
    BY <2>3, <1>1, FS_Subset
<1>3. ASSUME NEW g \in S, NEW h \in S, n + Cardinality(Upto(S, g)) = n + Cardinality(Upto(S, h)) PROVE g = h
  <2>1. Cardinality(Upto(S, g)) = Cardinality(Upto(S, h))
    BY <1>1, <1>3
  <2>2. g[1] \in Nat /\ g[2] \in Nat /\ h[1] \in Nat /\ h[2] \in Nat
    BY <1>0
  <2>3. g[1] = h[1] /\ g[2] = h[2]
    BY <2>1, <2>2, <1>2
  <2> QED
    BY <2>3, <1>0
<1>4. \A h \in S : n + Cardinality(Upto(S, h)) \in (n + 1)..(n + Cardinality(S))
  BY <1>0, <1>1
<1> QED
  BY <1>0, <1>3, <1>4

LEMMA HolesFacts ==
  ASSUME Shape
  PROVE  /\ Holes \in SUBSET (Nat \X Nat) /\ IsFiniteSet(Holes)
         /\ \A p, k : <<p, k>> \in Holes <=> p \in DOMAIN phis /\ k \in DOMAIN phis[p].values /\ phis[p].values[k] = NoReg
<1>1. ASSUME NEW p \in DOMAIN phis
      PROVE  p \in Nat /\ DOMAIN phis[p].values \subseteq Nat /\ IsFiniteSet(DOMAIN phis[p].values)
  <2> PICK vs : vs = phis[p].values
    OBVIOUS
  <2>1. vs \in Seq(Nat) /\ p \in Nat
    BY PhiTyped
  <2>2. DOMAIN vs = 1..Len(vs) /\ Len(vs) \in Nat /\ 1 \in Int /\ Len(vs) \in Int
    BY <2>1
  <2> QED
    BY <2>1, <2>2, FS_Interval, SMTT(30)
<1> DEFINE open(p) == {j \in DOMAIN phis[p].values : phis[p].values[j] = NoReg}
           part == [p \in DOMAIN phis |-> {<<p, k>> : k \in open(p)}]
           parts == {{<<p, k>> : k \in open(p)} : p \in DOMAIN phis}
<1>2. Holes = UNION parts
  BY DEF Holes
<1>3. \A p \in DOMAIN phis : IsFiniteSet({<<p, k>> : k \in open(p)})
  <2> TAKE p \in DOMAIN phis
  <2>1. IsFiniteSet(open(p))
    BY <1>1, FS_Subset
  <2>2. IsFiniteSet({p} \X open(p))
    BY <2>1, FS_Singleton, FS_Product
  <2>3. {p} \X open(p) = {<<p, k>> : k \in open(p)}
    OBVIOUS
  <2> QED
    BY <2>2, <2>3
<1>4. part \in Surjection(DOMAIN phis, parts)
  BY DEF Surjection
<1>5. IsFiniteSet(DOMAIN phis)
  BY PhisAreFinite
<1>6. IsFiniteSet(parts)
  <2> HIDE DEF part, parts
  <2> QED
    BY <1>4, <1>5, FS_Surjection
<1>7. \A T \in parts : IsFiniteSet(T)
  BY <1>3
<1>8. IsFiniteSet(Holes)
  <2> HIDE DEF parts
  <2> QED
    BY <1>2, <1>6, <1>7, FS_UNION
<1>9. \A p, k : <<p, k>> \in Holes <=> p \in DOMAIN phis /\ k \in DOMAIN phis[p].values /\ phis[p].values[k] = NoReg
  BY <1>2
<1>10. Holes \in SUBSET (Nat \X Nat)
  BY <1>1, <1>2
<1> QED
  BY <1>8, <1>9, <1>10

Nth(n, h) == n + Cardinality(Upto(Holes, h))
Tests == {q \in Places : q[1] \in Missed /\ code[q[1]][q[2]].op = "branch"}
Emptied(b, i, shared) ==
  CASE <<b, i>> \in Tests -> [code[b][i] EXCEPT !.srcs = <<shared>>]
    [] code[b][i].op = "ret" -> code[b][i]
    [] OTHER -> [op |-> "nop", dest |-> 0, srcs |-> <<>>]

Cleaning(n, bare, filled, shared) ==
  /\ stage = "cleanup" /\ stage' = "mark"
  /\ n \in Nat /\ filled \in Nat /\ n <= filled /\ shared = Allocated(filled + 1)
  /\ \A p \in bare : Rank(p, bare) \in 1..n
  /\ \A p, q \in bare : Rank(p, bare) = Rank(q, bare) => p = q
  /\ \A h \in Holes : Nth(n, h) \in (n + 1)..filled
  /\ \A g, h \in Holes : Nth(n, g) = Nth(n, h) => g = h
  /\ Allocate(filled + (IF Tests = {} THEN 0 ELSE 1))
  /\ phis' = [p \in DOMAIN phis |->
                [phis[p] EXCEPT
                   !.result = IF p \in bare THEN Allocated(Rank(p, bare)) ELSE @,
                   !.values = [k \in DOMAIN @ |-> IF @[k] = NoReg THEN Allocated(Nth(n, <<p, k>>)) ELSE @[k]]]]
  /\ code' = [b \in Blocks |-> IF b \in visited THEN code[b] ELSE [i \in DOMAIN code[b] |-> Emptied(b, i, shared)]]
  /\ undefs' = undefs \cup {Allocated(Nth(n, h)) : h \in Holes} \cup (IF Tests = {} THEN {} ELSE {shared})
  /\ UNCHANGED <<fn, tree, phiVars, regStack, walk, visited, held, live, runVars>>

LEMMA CleanFacts ==
  ASSUME Shape, CleanUnreachable, NEW bare, bare = {p \in DOMAIN phis : phis[p].block \in Missed},
         NEW n, n = Cardinality(bare), NEW filled, filled = n + Cardinality(Holes),
         NEW shared, shared = Allocated(filled + 1)
  PROVE  Cleaning(n, bare, filled, shared)
<1>1. bare \in SUBSET DOMAIN phis
  OBVIOUS
<1>2. IsFiniteSet(bare) /\ bare \in SUBSET Nat /\ n \in Nat
  BY <1>1, PhisAreFinite
<1>3. /\ \A p \in bare : Rank(p, bare) \in 1..n
      /\ \A p, q \in bare : Rank(p, bare) = Rank(q, bare) => p = q
  BY <1>2, RankFacts
<1>4. Holes \in SUBSET (Nat \X Nat) /\ IsFiniteSet(Holes)
  BY HolesFacts
<1>5. /\ Cardinality(Holes) \in Nat
      /\ \A h \in Holes : Nth(n, h) \in (n + 1)..(n + Cardinality(Holes))
      /\ \A g, h \in Holes : Nth(n, g) = Nth(n, h) => g = h
  <2> PICK H : H = Holes
    OBVIOUS
  <2>1. H \in SUBSET (Nat \X Nat) /\ IsFiniteSet(H)
    BY <1>4
  <2>2. /\ Cardinality(H) \in Nat
        /\ \A h \in H : n + Cardinality(Upto(H, h)) \in (n + 1)..(n + Cardinality(H))
        /\ \A g, h \in H : n + Cardinality(Upto(H, g)) = n + Cardinality(Upto(H, h)) => g = h
    BY ONLY <2>1, <1>2, PairRankFacts
  <2> QED
    BY <2>2 DEF Nth
<1>6. filled \in Nat /\ n <= filled
  BY <1>2, <1>5
<1> USE DEF Missed, Holes, Nth, Upto, Tests, Emptied
<1>7. Allocate(filled + (IF Tests = {} THEN 0 ELSE 1))
  BY Zenon DEF CleanUnreachable
<1>8. phis' = [p \in DOMAIN phis |->
                [phis[p] EXCEPT
                   !.result = IF p \in bare THEN Allocated(Rank(p, bare)) ELSE @,
                   !.values = [k \in DOMAIN @ |-> IF @[k] = NoReg THEN Allocated(Nth(n, <<p, k>>)) ELSE @[k]]]]
  BY Zenon DEF CleanUnreachable
<1>9. code' = [b \in Blocks |-> IF b \in visited THEN code[b] ELSE [i \in DOMAIN code[b] |-> Emptied(b, i, shared)]]
  BY Zenon DEF CleanUnreachable
<1>10. undefs' = undefs \cup {Allocated(Nth(n, h)) : h \in Holes} \cup (IF Tests = {} THEN {} ELSE {shared})
  BY ZenonT(40) DEF CleanUnreachable
<1>11. /\ stage = "cleanup" /\ stage' = "mark"
       /\ UNCHANGED <<fn, tree, phiVars, regStack, walk, visited, held, live, runVars>>
  BY Zenon DEF CleanUnreachable
<1> HIDE DEF Missed, Holes, Nth, Upto, Tests, Emptied
<1> QED
  BY <1>2, <1>3, <1>5, <1>6, <1>7, <1>8, <1>9, <1>10, <1>11, Zenon DEF Cleaning

LEMMA AllocatedIsNat ==
  ASSUME fn \in Functions, RegisterPart, NEW k \in Nat \ {0}
  PROVE  Allocated(k) \in Nat
<1> PICK regs : regs = fn.regs
  OBVIOUS
<1>1. regs \in Nat /\ nextReg \in regs..RegisterLimit /\ RegisterLimit \in Nat
  BY FnState DEF RegisterPart
<1> QED
  BY <1>1 DEF Allocated

LEMMA ShapeClean == Shape /\ CleanUnreachable => Shape'
<1> SUFFICES ASSUME Shape, CleanUnreachable PROVE Shape'
  OBVIOUS
<1> PICK bare : bare = {p \in DOMAIN phis : phis[p].block \in Missed}
  OBVIOUS
<1> PICK n : n = Cardinality(bare)
  OBVIOUS
<1> PICK filled : filled = n + Cardinality(Holes)
  OBVIOUS
<1> PICK shared : shared = Allocated(filled + 1)
  OBVIOUS
<1>0. Cleaning(n, bare, filled, shared)
  BY CleanFacts
<1>1. stage = "cleanup" /\ stage' = "mark" /\ UNCHANGED <<fn, tree, phiVars, regStack, walk, visited, held, live, runVars>>
  BY <1>0, Zenon DEF Cleaning
<1>2. fn \in Functions /\ RegisterPart /\ PhiPart /\ CodePart
  BY DEF Shape, FnPart
<1>3. n \in Nat /\ filled \in Nat /\ shared \in Nat
  <2>1. n \in Nat /\ filled \in Nat
    BY <1>0, Zenon DEF Cleaning
  <2>2. filled + 1 \in Nat \ {0}
    BY <2>1
  <2> QED
    BY <2>1, <2>2, <1>2, AllocatedIsNat
<1>4. \A p \in bare : Allocated(Rank(p, bare)) \in Nat
  <2> TAKE p \in bare
  <2>1. Rank(p, bare) \in 1..n
    BY <1>0, Zenon DEF Cleaning
  <2>2. Rank(p, bare) \in Nat \ {0}
    BY <2>1, <1>3
  <2> QED
    BY <2>2, <1>2, AllocatedIsNat
<1>5. \A h \in Holes : Allocated(Nth(n, h)) \in Nat
  <2> TAKE h \in Holes
  <2>1. Nth(n, h) \in (n + 1)..filled
    BY <1>0, Zenon DEF Cleaning
  <2>2. Nth(n, h) \in Nat \ {0}
    BY <2>1, <1>3
  <2> QED
    BY <2>2, <1>2, AllocatedIsNat
<1>6. /\ FnPart' /\ EarlyPart' /\ TreePart' /\ VariablePart' /\ PlacePart'
      /\ Blocks' = Blocks /\ variables' = variables
      /\ \A c : Preds(c)' = Preds(c)
      /\ Frames' = Frames /\ PhiRecords' = PhiRecords
  BY <1>1, ShapeLaterStable DEF Stages
<1>7. PhiPart' /\ DOMAIN phis' = DOMAIN phis
  <2>0. phis' = [p \in DOMAIN phis |->
                  [phis[p] EXCEPT
                     !.result = IF p \in bare THEN Allocated(Rank(p, bare)) ELSE @,
                     !.values = [k \in DOMAIN @ |-> IF @[k] = NoReg THEN Allocated(Nth(n, <<p, k>>)) ELSE @[k]]]]
    BY <1>0, Zenon DEF Cleaning
  <2>1. ASSUME NEW p \in DOMAIN phis
        PROVE  /\ phis'[p] \in PhiRecords
               /\ phis'[p].block = phis[p].block /\ phis'[p].var = phis[p].var
               /\ phis'[p].blocks = phis[p].blocks
               /\ DOMAIN phis'[p].values = DOMAIN phis[p].values
    <3> PICK vs : vs = phis[p].values
      OBVIOUS
    <3> PICK result : result = IF p \in bare THEN Allocated(Rank(p, bare)) ELSE phis[p].result
      OBVIOUS
    <3> PICK us : us = [k \in DOMAIN vs |-> IF vs[k] = NoReg THEN Allocated(Nth(n, <<p, k>>)) ELSE vs[k]]
      OBVIOUS
    <3>1. phis[p] \in PhiRecords /\ vs \in Seq(Nat) /\ phis[p].result \in Nat
      BY PhiTyped
    <3>2. DOMAIN vs = 1..Len(vs) /\ Len(vs) \in Nat /\ \A k \in DOMAIN vs : vs[k] \in Nat
      BY <3>1
    <3>3. \A k \in DOMAIN vs : us[k] \in Nat
      <4> TAKE k \in DOMAIN vs
      <4>1. CASE vs[k] = NoReg
        <5>1. <<p, k>> \in Holes
          BY <4>1, HolesFacts
        <5> QED
          BY <5>1, <4>1, <1>5
      <4>2. CASE vs[k] # NoReg
        BY <4>2, <3>2
      <4> QED
        BY <4>1, <4>2
    <3>4. us \in Seq(Nat) /\ DOMAIN us = DOMAIN vs
      BY <3>2, <3>3, SMTT(30)
    <3>5. result \in Nat
      BY <3>1, <1>4
    <3>6. phis'[p] = [phis[p] EXCEPT !.result = result, !.values = us]
      BY <2>0, Zenon
    <3> QED
      BY <3>1, <3>4, <3>5, <3>6 DEF PhiRecords
  <2>2. phis' = [p \in DOMAIN phis |-> phis'[p]]
    BY <2>0, Zenon
  <2> QED
    BY <2>1, <2>2, <1>2, <1>6, PhisKeepShape
<1>8. RegisterPart'
  <2>1. undefs' = undefs \cup {Allocated(Nth(n, h)) : h \in Holes} \cup (IF Tests = {} THEN {} ELSE {shared})
    BY <1>0, Zenon DEF Cleaning
  <2>2. undefs' \subseteq Nat
    BY <2>1, <1>2, <1>3, <1>5 DEF RegisterPart
  <2> PICK more : more = IF Tests = {} THEN 0 ELSE 1
    OBVIOUS
  <2>4. more \in Nat
    OBVIOUS
  <2>5. Allocate(filled + (IF Tests = {} THEN 0 ELSE 1))
    BY <1>0, Zenon DEF Cleaning
  <2>6. Allocate(filled + more)
    BY <2>5
  <2> PICK m : m = filled + more
    OBVIOUS
  <2>3. m \in Nat /\ Allocate(m)
    BY <2>6, <2>4, <1>3
  <2> QED
    BY <2>2, <2>3, <1>1, <1>2, AllocateFacts DEF RegisterPart
<1>9. CodePart'
  <2>1. code' = [b \in Blocks |-> IF b \in visited THEN code[b] ELSE [i \in DOMAIN code[b] |-> Emptied(b, i, shared)]]
    BY <1>0, Zenon DEF Cleaning
  <2>2. ASSUME NEW b \in Blocks PROVE code'[b] \in Seq(Written) /\ Len(code'[b]) = Len(fn.code[b])
    <3> PICK c : c = code[b]
      OBVIOUS
    <3>1. c \in Seq(Written) /\ Len(c) = Len(fn.code[b])
      BY <1>2 DEF CodePart
    <3>2. CASE b \in visited
      BY <3>1, <3>2, <2>1
    <3>3. CASE b \notin visited
      <4> PICK d : d = [i \in DOMAIN c |-> Emptied(b, i, shared)]
        OBVIOUS
      <4>1. code'[b] = d
        BY <3>3, <2>1
      <4>2. DOMAIN c = 1..Len(c) /\ Len(c) \in Nat
        BY <3>1
      <4>3. ASSUME NEW i \in DOMAIN c PROVE Emptied(b, i, shared) \in Written
        <5> PICK ins : ins = code[b][i]
          OBVIOUS
        <5>1. ins \in Written
          BY <3>1
        <5>2. <<shared>> \in Seq(Nat) /\ <<>> \in Seq(Nat)
          BY <1>3
        <5>3. CASE <<b, i>> \in Tests
          <6>1. ins.op = "branch"
            BY <5>3 DEF Tests
          <6>2. [ins EXCEPT !.srcs = <<shared>>] \in Written
            BY <6>1, <5>1, <5>2 DEF Written
          <6>3. Emptied(b, i, shared) = [code[b][i] EXCEPT !.srcs = <<shared>>]
            BY <6>1, <5>3 DEF Emptied
          <6> QED
            BY <6>2, <6>3
        <5>4. CASE <<b, i>> \notin Tests /\ ins.op = "ret"
          BY <5>4, <5>1 DEF Emptied
        <5>5. CASE <<b, i>> \notin Tests /\ ins.op # "ret"
          <6>1. [op |-> "nop", dest |-> 0, srcs |-> <<>>] \in Written
            BY <5>2 DEF Written, Ops
          <6> QED
            BY <6>1, <5>5 DEF Emptied
        <5> QED
          BY <5>3, <5>4, <5>5
      <4>4. d \in Seq(Written) /\ Len(d) = Len(c)
        BY <4>2, <4>3
      <4> QED
        BY <4>1, <4>4, <3>1
    <3> QED
      BY <3>2, <3>3
  <2>3. DOMAIN code' = Blocks
    BY <2>1
  <2> QED
    BY <2>2, <2>3, <1>1, <1>6 DEF CodePart, Written
<1>10. StackPart' /\ WalkPart' /\ HeldPart'
  BY <1>1, <1>6 DEF StackPart, WalkPart, HeldPart, Shape
<1>11. LivePart' /\ RunPart'
  BY <1>1, <1>6, <1>7 DEF LivePart, RunPart, Shape, runVars
<1> QED
  BY <1>6, <1>7, <1>8, <1>9, <1>10, <1>11 DEF Shape

LEMMA ShapeMark == Shape /\ MarkPhi => Shape'
<1> SUFFICES ASSUME Shape, MarkPhi PROVE Shape'
  OBVIOUS
<1>1. /\ stage = "mark" /\ live' \subseteq DOMAIN phis
      /\ UNCHANGED <<fn, stage, tree, phiVars, phis, renameVars, runVars>>
  BY DEF MarkPhi, Shape, LivePart
<1>2. /\ FnPart' /\ EarlyPart' /\ TreePart' /\ VariablePart' /\ PlacePart'
      /\ Blocks' = Blocks /\ variables' = variables
      /\ \A c : Preds(c)' = Preds(c)
      /\ Frames' = Frames /\ PhiRecords' = PhiRecords
  BY <1>1, ShapeLaterStable DEF Stages
<1>3. PhiPart' /\ RegisterPart' /\ StackPart'
  BY <1>1, <1>2 DEF PhiPart, RegisterPart, StackPart, Shape, renameVars
<1>4. WalkPart' /\ HeldPart'
  BY <1>1, <1>2 DEF WalkPart, HeldPart, Shape, renameVars
<1>5. CodePart'
  BY <1>1, <1>2 DEF CodePart, Written, Shape, renameVars
<1>6. LivePart' /\ RunPart'
  BY <1>1, <1>2 DEF LivePart, RunPart, Shape, runVars
<1> QED
  BY <1>2, <1>3, <1>4, <1>5, <1>6 DEF Shape

(* The phis that stay, in order.                                           *)
Sweeping(n, order) ==
  /\ stage = "mark" /\ live \subseteq DOMAIN phis
  /\ \A p \in DOMAIN phis \ live : ~KeepsAlive(p)
  /\ n \in Nat /\ order = InOrder(live) /\ DOMAIN order = 1..n
  /\ \A k \in 1..n : order[k] \in live
  /\ \A p \in live : \E k \in 1..n : order[k] = p
  /\ \A j, k \in 1..n : order[j] = order[k] => j = k
  /\ phis' = [k \in 1..n |-> phis[order[k]]] /\ DOMAIN phis' = 1..n /\ live' = 1..n
  /\ stage' = IF limitExceeded THEN "rejected" ELSE "run"
  /\ at' = [block |-> EntryBlock, pc |-> 1]
  /\ old' = [r \in 0..(fn.regs - 1) |-> 0] /\ new' = [r \in 0..(nextReg - 1) |-> 0]
  /\ UNCHANGED <<fn, tree, phiVars, renameVars, steps>>

LEMMA SweepFacts ==
  ASSUME Shape, SweepPhis, NEW n, n = Cardinality(live), NEW order, order = InOrder(live)
  PROVE  Sweeping(n, order)
<1>1. live \in SUBSET DOMAIN phis
  BY DEF Shape, LivePart
<1>2. live \in SUBSET Nat /\ IsFiniteSet(live)
  BY <1>1, PhisAreFinite
<1>3. /\ n \in Nat /\ DOMAIN order = 1..n
      /\ \A k \in 1..n : order[k] \in live /\ Rank(order[k], live) = k
      /\ \A p \in live : Rank(p, live) \in 1..n /\ order[Rank(p, live)] = p
  BY <1>2, InOrderFacts
<1>4. /\ stage = "mark" /\ \A p \in DOMAIN phis \ live : ~KeepsAlive(p)
      /\ phis' = [k \in 1..n |-> phis[order[k]]] /\ live' = 1..n
      /\ stage' = IF limitExceeded THEN "rejected" ELSE "run"
      /\ at' = [block |-> EntryBlock, pc |-> 1]
      /\ old' = [r \in 0..(fn.regs - 1) |-> 0] /\ new' = [r \in 0..(nextReg - 1) |-> 0]
      /\ UNCHANGED <<fn, tree, phiVars, renameVars, steps>>
  BY DEF SweepPhis
<1>5. DOMAIN phis' = 1..n
  BY <1>4
<1>6. /\ \A k \in 1..n : order[k] \in live
      /\ \A p \in live : \E k \in 1..n : order[k] = p
      /\ \A j, k \in 1..n : order[j] = order[k] => j = k
  BY <1>3
<1> QED
  BY <1>1, <1>3, <1>4, <1>5, <1>6 DEF Sweeping

LEMMA ShapeSweep == Shape /\ SweepPhis => Shape'
<1> SUFFICES ASSUME Shape, SweepPhis PROVE Shape'
  OBVIOUS
<1> PICK n : n = Cardinality(live)
  OBVIOUS
<1> PICK order : order = InOrder(live)
  OBVIOUS
<1>0. Sweeping(n, order)
  BY SweepFacts
<1>1. stage = "mark" /\ n \in Nat /\ stage' \in {"rejected", "run"} /\ UNCHANGED <<fn, tree, phiVars, renameVars, steps>>
  BY <1>0 DEF Sweeping
<1>2. /\ FnPart' /\ EarlyPart' /\ TreePart' /\ VariablePart' /\ PlacePart'
      /\ Blocks' = Blocks /\ variables' = variables
      /\ \A c : Preds(c)' = Preds(c)
      /\ Frames' = Frames /\ PhiRecords' = PhiRecords
  BY <1>1, ShapeLaterStable DEF Stages
<1>3. PhiPart'
  <2>1. DOMAIN phis' = 1..n /\ \A k \in 1..n : order[k] \in DOMAIN phis /\ phis'[k] = phis[order[k]]
    BY <1>0 DEF Sweeping
  <2>2. \A k \in 1..n : phis'[k] \in PhiRecords
    BY <2>1, PhiTyped
  <2>3. phis' = [k \in 1..n |-> phis'[k]]
    BY <1>0 DEF Sweeping
  <2>4. phis' \in Seq(PhiRecords)
    BY <2>2, <2>3, <1>1
  <2>5. \A k \in 1..n : phis'[k].blocks = Preds(phis'[k].block) /\ DOMAIN phis'[k].values = DOMAIN phis'[k].blocks
    BY <2>1, PhiTyped
  <2>6. \A j, k \in 1..n : phis'[j].block = phis'[k].block /\ phis'[j].var = phis'[k].var => j = k
    <3> TAKE j, k \in 1..n
    <3>1. phis'[j].block = phis'[k].block /\ phis'[j].var = phis'[k].var => order[j] = order[k]
      BY <2>1, PhiTyped
    <3> QED
      BY <3>1, <1>0 DEF Sweeping
  <2> QED
    BY <2>1, <2>4, <2>5, <2>6, <1>2 DEF PhiPart
<1>4. RegisterPart' /\ StackPart'
  BY <1>1, <1>2 DEF RegisterPart, StackPart, Shape, renameVars
<1>5. WalkPart' /\ HeldPart'
  BY <1>1, <1>2 DEF WalkPart, HeldPart, Shape, renameVars
<1>6. CodePart'
  BY <1>1, <1>2 DEF CodePart, Written, Shape, renameVars
<1>7. LivePart'
  BY <1>0, <1>1 DEF Sweeping, LivePart
<1>8. RunPart'
  <2>1. EntryBlock \in Blocks
    BY FnState DEF Shape, FnPart
  <2>2. at' \in [block : Blocks, pc : Nat \ {0}]
    BY <2>1, <1>0 DEF Sweeping
  <2>3. old' \in [0..(fn.regs - 1) -> Nat] /\ new' = [r \in 0..(nextReg - 1) |-> new'[r]]
    BY <1>0 DEF Sweeping
  <2> QED
    BY <2>2, <2>3, <1>1, <1>2 DEF RunPart, Shape, renameVars
<1> QED
  BY <1>2, <1>3, <1>4, <1>5, <1>6, <1>7, <1>8 DEF Shape

(* A step of the two programs touches nothing else.                        *)
LEMMA ShapeRunning ==
  ASSUME Shape, stage = "run", UNCHANGED <<fn, stage, tree, phiVars, phis, renameVars, live>>, RunPart'
  PROVE  Shape'
<1>1. /\ FnPart' /\ EarlyPart' /\ TreePart' /\ VariablePart' /\ PlacePart'
      /\ Blocks' = Blocks /\ variables' = variables
      /\ \A c : Preds(c)' = Preds(c)
      /\ Frames' = Frames /\ PhiRecords' = PhiRecords
  BY ShapeLaterStable DEF Stages
<1>2. PhiPart' /\ RegisterPart' /\ StackPart'
  BY <1>1 DEF PhiPart, RegisterPart, StackPart, Shape, renameVars
<1>3. WalkPart' /\ HeldPart' /\ LivePart'
  BY <1>1 DEF WalkPart, HeldPart, LivePart, Shape, renameVars
<1>4. CodePart'
  BY <1>1 DEF CodePart, Written, Shape, renameVars
<1> QED
  BY <1>1, <1>2, <1>3, <1>4 DEF Shape

LEMMA ShapeExecute == Shape /\ Execute => Shape'
<1> SUFFICES ASSUME Shape, Execute PROVE Shape'
  OBVIOUS
<1>1. /\ stage = "run" /\ at.pc \in DOMAIN fn.code[at.block] /\ steps' = steps + 1
      /\ at' = [at EXCEPT !.pc = @ + 1]
      /\ UNCHANGED <<fn, stage, tree, phiVars, phis, renameVars, live>>
  BY DEF Execute, Running
<1>2. /\ steps \in Nat /\ at \in [block : Blocks, pc : Nat \ {0}] /\ fn \in Functions
      /\ old \in [0..(fn.regs - 1) -> Nat] /\ new = [r \in 0..(nextReg - 1) |-> new[r]]
  BY <1>1 DEF Shape, RunPart, FnPart
<1>3. Blocks' = Blocks
  BY <1>1, FixedFn
<1>4. steps' \in Nat /\ at' \in [block : Blocks, pc : Nat \ {0}]
  BY <1>1, <1>2
<1>5. old' \in [0..(fn.regs - 1) -> Nat]
  <2> PICK ins : ins = OldIns
    OBVIOUS
  <2>1. /\ ins.op = "copy" => ins.srcs[1] \in 0..(fn.regs - 1)
        /\ ins.dest \in 0..(fn.regs - 1)
    <3>1. ins = fn.code[at.block][at.pc] /\ at.block \in DOMAIN fn.succ
      BY <1>2 DEF OldIns, Blocks
    <3> QED
      BY <3>1, <1>1, <1>2, InstructionFacts
  <2>2. old' = IF ~Defines(ins) THEN old
               ELSE [old EXCEPT ![ins.dest] = IF ins.op = "copy" THEN old[ins.srcs[1]] ELSE steps']
    BY DEF Execute
  <2> QED
    BY <2>1, <2>2, <1>2, <1>4
<1>6. new' = [r \in 0..(nextReg - 1) |-> new'[r]]
  BY <1>2 DEF Execute
<1>7. RunPart'
  BY <1>1, <1>3, <1>4, <1>5, <1>6 DEF RunPart, renameVars
<1> QED
  BY <1>1, <1>7, ShapeRunning

LEMMA ShapeEdge == Shape /\ TakeEdge => Shape'
<1> SUFFICES ASSUME Shape, TakeEdge PROVE Shape'
  OBVIOUS
<1>1. /\ stage = "run" /\ steps' = steps + 1
      /\ UNCHANGED <<fn, stage, tree, phiVars, phis, renameVars, live, old>>
  BY Zenon DEF TakeEdge, Running
<1>2. /\ steps \in Nat /\ at \in [block : Blocks, pc : Nat \ {0}] /\ fn \in Functions
      /\ old \in [0..(fn.regs - 1) -> Nat] /\ new = [r \in 0..(nextReg - 1) |-> new[r]]
  BY <1>1 DEF Shape, RunPart, FnPart
<1>3. Blocks' = Blocks
  BY <1>1, FixedFn
<1>4. PICK k \in DOMAIN fn.succ[at.block] : /\ at' = [block |-> fn.succ[at.block][k], pc |-> 1]
                                            /\ new' = [r \in DOMAIN new |-> new'[r]]
  BY Zenon DEF TakeEdge
<1>5. fn.succ[at.block][k] \in Blocks
  <2> PICK ss : ss = fn.succ[at.block]
    OBVIOUS
  <2>1. ss \in Seq(Blocks)
    BY <1>2, FnState
  <2> QED
    BY <2>1
<1>6. new' = [r \in 0..(nextReg - 1) |-> new'[r]]
  BY <1>2, <1>4
<1>7. RunPart'
  BY <1>1, <1>2, <1>3, <1>4, <1>5, <1>6 DEF RunPart, renameVars
<1> QED
  BY <1>1, <1>7, ShapeRunning

LEMMA ShapeStutter == Shape /\ UNCHANGED vars => Shape'
<1> SUFFICES ASSUME Shape, UNCHANGED vars PROVE Shape'
  OBVIOUS
<1> USE DEF vars, phiVars, renameVars, runVars
<1>1. Blocks' = Blocks /\ variables' = variables /\ IdomChains' = IdomChains
      /\ \A b : Preds(b)' = Preds(b)
      /\ \A r : DefinitionsOf(r)' = DefinitionsOf(r) /\ RegDefs(r)' = RegDefs(r)
                /\ HasExternalUse(r)' = HasExternalUse(r)
      /\ \A c, a : FrontierOf(c, a)' = FrontierOf(c, a) /\ ChildrenOf(c, a)' = ChildrenOf(c, a)
  BY FixedFn DEF variables
<1>2. FnPart' /\ EarlyPart' /\ PlacePart' /\ TreePart'
  BY <1>1 DEF Shape, FnPart, EarlyPart, PlacePart, TreePart
<1>3. VariablePart'
  <2>1. \A r : NeedsSSA(r)' <=> NeedsSSA(r)
    BY <1>1 DEF NeedsSSA
  <2> QED
    BY <1>1, <2>1 DEF Shape, VariablePart
<1>4. PhiPart' /\ RegisterPart' /\ StackPart'
  BY <1>1 DEF PhiPart, PhiRecords, RegisterPart, StackPart, Shape
<1>5. WalkPart' /\ HeldPart' /\ LivePart' /\ RunPart'
  BY <1>1 DEF WalkPart, Frames, HeldPart, LivePart, RunPart, Shape
<1>6. CodePart'
  BY <1>1 DEF CodePart, Written, Shape
<1> QED
  BY <1>2, <1>3, <1>4, <1>5, <1>6 DEF Shape

(* Every field of the construction has the shape it is declared with,      *)
(* there is at most one phi per block and variable, and the variables, the *)
(* dominator tree and the frontiers stay what IdentifyVariables and the    *)
(* block graph make them.                                                  *)
THEOREM ShapeHolds == Spec => []Shape
<1>1. Shape /\ [Next]_vars => Shape'
  <2> SUFFICES ASSUME Shape, [Next]_vars PROVE Shape'
    OBVIOUS
  <2> QED
    BY ShapeVariables, ShapeStart, ShapeSpread, ShapeUndefs, ShapeEnter, ShapeRename, ShapeFill, ShapeVisit,
       ShapeLeave, ShapeClean, ShapeMark, ShapeSweep, ShapeExecute, ShapeEdge, ShapeStutter DEF Next, Stopped
<1> QED
  BY <1>1, InitShape, PTL DEF Spec

----------------------------------------------------------------------------
(* Dead phis.  A set of phis is closed when it holds every reader of its   *)
(* members.                                                                *)
ReadBy(q, r) == phis[q].result \in Elems(phis[r].values)
Closed(S) == \A q \in S : \A r \in DOMAIN phis : ReadBy(q, r) => r \in S

LEMMA DeadFacts ==
  DeadPhis = {p \in DOMAIN phis : \E S \in SUBSET DOMAIN phis :
                p \in S /\ Closed(S) /\ \A q \in S : ~Appears(phis[q].result)}
BY DEF DeadPhis, Closed, ReadBy

(* Nothing that was marked is dead.                                        *)
LiveInv == stage = "mark" => live \cap DeadPhis = {}

LEMMA FixedDead ==
  ASSUME UNCHANGED <<fn, phis, code>>
  PROVE  DeadPhis' = DeadPhis
<1>1. \A r : Appears(r)' <=> Appears(r)
  BY FixedFn DEF Appears
<1>2. \A S : Closed(S)' <=> Closed(S)
  BY DEF Closed, ReadBy
<1> QED
  BY <1>1, <1>2 DEF DeadPhis, Closed, ReadBy

LEMMA LiveMark == Shape /\ LiveInv /\ MarkPhi => LiveInv'
<1> SUFFICES ASSUME Shape, LiveInv, MarkPhi PROVE LiveInv'
  OBVIOUS
<1>1. stage = "mark" /\ stage' = "mark" /\ UNCHANGED <<fn, phis, code>>
  BY DEF MarkPhi, renameVars
<1>2. PICK p \in DOMAIN phis \ live : KeepsAlive(p) /\ live' = live \cup {p}
  BY DEF MarkPhi
<1>3. live \cap DeadPhis = {} /\ live \subseteq DOMAIN phis
  BY <1>1 DEF LiveInv, Shape, LivePart
<1>4. ASSUME NEW S \in SUBSET DOMAIN phis, p \in S, Closed(S), \A q \in S : ~Appears(phis[q].result)
      PROVE  FALSE
  <2>1. PICK q \in live : phis[p].result \in Elems(phis[q].values)
    BY <1>2, <1>4 DEF KeepsAlive
  <2>2. q \in S
    BY <1>3, <1>4, <2>1 DEF Closed, ReadBy
  <2>3. q \in DeadPhis
    BY <1>4, <2>2, DeadFacts
  <2> QED
    BY <1>3, <2>1, <2>3
<1>5. p \notin DeadPhis
  BY <1>4, DeadFacts
<1> QED
  BY <1>1, <1>2, <1>3, <1>5, FixedDead DEF LiveInv

LEMMA LiveStep == Shape /\ LiveInv /\ [Next]_vars => LiveInv'
<1> SUFFICES ASSUME Shape, LiveInv, [Next]_vars PROVE LiveInv'
  OBVIOUS
<1>1. CASE IdentifyVariables \/ StartVariable \/ SpreadPhis \/ EnterBlock \/ RenameInstruction
           \/ FillSuccessor \/ VisitChild \/ LeaveBlock
  <2>1. stage' # "mark"
    BY <1>1, Zenon DEF IdentifyVariables, StartVariable, SpreadPhis, EnterBlock, RenameInstruction, FillSuccessor,
                VisitChild, LeaveBlock, BlockRenamed, Renaming
  <2> QED
    BY <2>1 DEF LiveInv
<1>2. CASE InsertUndefs
  <2>1. live' = {}
    BY <1>2 DEF InsertUndefs, Shape, LivePart
  <2> QED
    BY <2>1 DEF LiveInv
<1>3. CASE CleanUnreachable
  <2>1. live' = {}
    BY <1>3, Zenon DEF CleanUnreachable, Shape, LivePart
  <2> QED
    BY <2>1 DEF LiveInv
<1>4. CASE SweepPhis
  BY <1>4 DEF SweepPhis, LiveInv
<1>5. CASE Execute \/ TakeEdge \/ Stopped \/ UNCHANGED vars
  <2>1. UNCHANGED <<fn, stage, phis, code, live>>
    BY <1>5, Zenon DEF Execute, TakeEdge, Stopped, vars, renameVars
  <2> QED
    BY <2>1, FixedDead DEF LiveInv
<1> QED
  BY <1>1, <1>2, <1>3, <1>4, <1>5, LiveMark DEF Next

(* When nothing more is kept alive, what was not marked is a closed set of *)
(* phis that no instruction reads.                                         *)
LEMMA UnmarkedIsDead ==
  ASSUME Shape, LiveInv, SweepPhis
  PROVE  live = DOMAIN phis \ DeadPhis
<1>1. /\ stage = "mark" /\ live \subseteq DOMAIN phis /\ live \cap DeadPhis = {}
      /\ \A p \in DOMAIN phis \ live : ~KeepsAlive(p)
  BY DEF SweepPhis, Shape, LivePart, LiveInv
<1>2. ASSUME NEW p \in DOMAIN phis \ live PROVE p \in DeadPhis
  <2> DEFINE S == DOMAIN phis \ live
  <2>1. Closed(S)
    <3>1. ASSUME NEW q \in S, NEW r \in DOMAIN phis, ReadBy(q, r) PROVE r \in S
      BY <1>1, <3>1 DEF ReadBy, KeepsAlive
    <3> QED
      BY <3>1 DEF Closed
  <2>2. \A q \in S : ~Appears(phis[q].result)
    BY <1>1 DEF KeepsAlive
  <2>3. S \in SUBSET DOMAIN phis /\ p \in S
    OBVIOUS
  <2> QED
    BY <2>1, <2>2, <2>3, DeadFacts
<1> QED
  BY <1>1, <1>2

(* The sweep leaves the phis whose value an instruction reads, directly or *)
(* through other phis, and no other (EliminateDeadPhis).                   *)
THEOREM DeadPhisGoAndNoOthers == Spec => ExactlyDeadPhisGo
<1>1. Init => LiveInv
  BY DEF Init, LiveInv
<1> DEFINE Swept == stage = "mark" /\ stage' # "mark" =>
             LET order == InOrder(DOMAIN phis \ DeadPhis)
             IN phis' = [k \in DOMAIN order |-> phis[order[k]]]
<1>2. Shape /\ LiveInv /\ [Next]_vars => [Swept]_vars
  <2> SUFFICES ASSUME Shape, LiveInv, Next, stage = "mark", stage' # "mark"
               PROVE  LET order == InOrder(DOMAIN phis \ DeadPhis)
                      IN phis' = [k \in DOMAIN order |-> phis[order[k]]]
    OBVIOUS
  <2>1. SweepPhis
    BY Zenon DEF Next, IdentifyVariables, StartVariable, SpreadPhis, InsertUndefs, EnterBlock, RenameInstruction,
           FillSuccessor, VisitChild, LeaveBlock, BlockRenamed, Renaming, CleanUnreachable, MarkPhi, Execute,
           TakeEdge, Running, Stopped, vars
  <2>2. live = DOMAIN phis \ DeadPhis
    BY <2>1, UnmarkedIsDead
  <2>3. phis' = [k \in 1..Cardinality(live) |-> phis[InOrder(live)[k]]]
    BY <2>1 DEF SweepPhis
  <2>4. DOMAIN InOrder(live) = 1..Cardinality(live)
    BY DEF InOrder
  <2> QED
    BY <2>2, <2>3, <2>4
<1> QED
  BY <1>1, <1>2, LiveStep, ShapeHolds, PTL DEF Spec, ExactlyDeadPhisGo

----------------------------------------------------------------------------
(* The dominator tree: no block has two parents and the entry has none.    *)
Kids(a) == ChildrenOf(IdomChains, a)

LEMMA ChainFacts ==
  ASSUME fn \in Functions, NEW R, R = Reachable(fn.succ), NEW b \in Blocks
  PROVE  /\ b \in IdomChains[b] /\ IdomChains[b] \subseteq Blocks
         /\ b \notin R => IdomChains[b] = {b}
         /\ b \in R => IdomChains[b] = {a \in R : Dominates(fn.succ, a, b)}
<1>1. R \subseteq Blocks
  BY FnState, ReachableFacts DEF Blocks
<1>2. IdomChains[b] = {b} \cup IF b \notin R THEN {} ELSE {a \in R : Dominates(fn.succ, a, b)}
  BY DEF IdomChains
<1>3. Dominates(fn.succ, b, b)
  BY DEF Dominates
<1> QED
  BY <1>1, <1>2, <1>3

LEMMA TreeFacts ==
  ASSUME fn \in Functions, NEW a \in Blocks
  PROVE  /\ Kids(a) \subseteq Blocks /\ a \notin Kids(a) /\ EntryBlock \notin Kids(a)
         /\ \A c \in Blocks : \A b : b \in Kids(a) /\ b \in Kids(c) => a = c
<1> PICK g : g = fn.succ
  OBVIOUS
<1> PICK R : R = Reachable(g)
  OBVIOUS
<1>1. IsGraph(g) /\ EntryBlock \in Blocks
  BY FnState
<1>2. Kids(a) \subseteq Blocks /\ a \notin Kids(a) /\ \A c, b : b \in Kids(c) => IdomChains[b] \ {b} = IdomChains[c]
  BY DEF Kids, ChildrenOf
<1>3. EntryBlock \notin Kids(a)
  <2>1. \A d \in IdomChains[EntryBlock] : d = EntryBlock
    BY <1>1, ChainFacts, EntryIsUndominated
  <2>2. a \in IdomChains[a]
    BY ChainFacts
  <2> QED
    BY <2>1, <2>2, <1>2
<1>4. ASSUME NEW c \in Blocks, IdomChains[a] = IdomChains[c] PROVE a = c
  <2>1. a \in IdomChains[c] /\ c \in IdomChains[a]
    BY <1>4, ChainFacts
  <2>2. a = c \/ (a \in R /\ Dominates(g, a, c))
    BY <2>1, ChainFacts
  <2>3. a = c \/ (c \in R /\ Dominates(g, c, a))
    BY <2>1, ChainFacts
  <2> QED
    BY <2>2, <2>3, <1>1, DominanceIsAntisymmetric
<1> QED
  BY <1>2, <1>3, <1>4

(* The walk over the tree.  The frames are a path from the entry; only the *)
(* last one may still be ahead of its block, and the others are at its     *)
(* end.  No block is entered twice: what is left to visit, and everything  *)
(* below a block that was not visited, was not visited either.             *)
EndOf(b) == Len(fn.code[b]) + Len(fn.succ[b]) + 1
HeldLength(b) ==
  IF b \notin visited THEN 0
  ELSE IF walk # <<>> /\ Top.block = b /\ Top.pc <= Len(fn.code[b]) THEN Top.pc ELSE Len(fn.code[b]) + 1

FrameInv(f) ==
  LET w == walk[f] IN
    /\ w.todo \subseteq Kids(w.block) \ visited
    /\ w.pc > 0 <=> w.block \in visited
    /\ w.pc = 0 => f = Len(walk) /\ w.pushed = <<>> /\ w.todo = Kids(w.block)
    /\ w.pc <= EndOf(w.block)
PathInv(f) == /\ walk[f + 1].block \in Kids(walk[f].block) \ walk[f].todo
              /\ walk[f].pc = EndOf(walk[f].block)
WaitingFor(a, c) == \/ walk # <<>> /\ Top.block = c
                    \/ \E f \in DOMAIN walk : walk[f].block = a /\ c \in walk[f].todo

FramesInv == /\ walk # <<>> => walk[1].block = EntryBlock
             /\ \A f \in DOMAIN walk : FrameInv(f)
             /\ \A f \in 1..(Len(walk) - 1) : PathInv(f)
             /\ \A f, g \in DOMAIN walk : walk[f].block = walk[g].block => f = g
VisitedInv == /\ \A a \in Blocks \ visited : Kids(a) \cap visited = {}
              /\ \A a \in visited : \A c \in Kids(a) : c \in visited \/ WaitingFor(a, c)
              /\ stage \in {"cleanup", "mark", "run", "rejected"} /\ variables # {} => EntryBlock \in visited
              /\ stage = "rename" => variables # {}
              /\ stage \in {"variables", "phis"} \/ variables = {} => visited = {}
HeldInv == \A b \in Blocks : Len(held[b]) = HeldLength(b)
WalkInv == FramesInv /\ VisitedInv /\ HeldInv

(* The step that moves the last frame on.                                  *)
Advancing(b, fr) ==
  /\ Renaming /\ b = Top.block /\ fr \in Frames /\ Top.pc < EndOf(b)
  /\ walk' = Append(Front(walk), fr) /\ fr.block = b /\ fr.pc = Top.pc + 1 /\ fr.todo = Top.todo
  /\ visited' = visited \cup {b} /\ (Top.pc > 0 => visited' = visited)
  /\ \A c \in Blocks \ {b} : held'[c] = held[c]
  /\ IF Top.pc <= Len(fn.code[b]) THEN Len(held'[b]) = Len(held[b]) + 1 ELSE held'[b] = held[b]
  /\ UNCHANGED <<fn, stage, tree, variableInfo>>

LEMMA AdvanceFacts ==
  ASSUME Shape, WalkInv, EnterBlock \/ RenameInstruction \/ FillSuccessor
  PROVE  \E b \in Blocks, fr \in Frames : Advancing(b, fr)
<1> PICK b : b = Top.block
  OBVIOUS
<1>0. Renaming
  BY Zenon DEF EnterBlock, RenameInstruction, FillSuccessor
<1> PICK n : n = Len(walk)
  OBVIOUS
<1> PICK pc : pc = Top.pc
  OBVIOUS
<1> PICK c : c = Len(fn.code[b])
  OBVIOUS
<1> PICK e : e = Len(fn.succ[b])
  OBVIOUS
<1>1. /\ b \in Blocks /\ n \in DOMAIN walk /\ Top = walk[n] /\ Top \in Frames /\ pc \in Nat /\ c \in Nat
      /\ fn \in Functions /\ DOMAIN code[b] = 1..c /\ Len(code[b]) = c
      /\ variables' = variables /\ Blocks' = Blocks
  <2>1. variables' = variables /\ Blocks' = Blocks
    BY FixedFn, Zenon DEF EnterBlock, RenameInstruction, FillSuccessor, phiVars, variables
  <2> QED
    BY <1>0, <2>1, TopFacts
<1>2. e \in Nat /\ DOMAIN fn.succ[b] = 1..e
  <2> PICK ss : ss = fn.succ[b]
    OBVIOUS
  <2>1. ss \in Seq(Blocks)
    BY <1>1, FnState
  <2> QED
    BY <2>1
<1>3. pc > 0 <=> b \in visited
  BY <1>1 DEF WalkInv, FramesInv, FrameInv
<1> PICK end : end = EndOf(b)
  OBVIOUS
<1>7. end = c + e + 1
  BY DEF EndOf
<1>9. pc \in Nat /\ c \in Nat /\ e \in Nat
  BY <1>1, <1>2
<1>8. pc + 1 \in Nat
  BY ONLY <1>9
<1>4. CASE EnterBlock
  <2> PICK mine : mine = PhisOf(b)
    OBVIOUS
  <2>0. Entering(b, mine)
    BY <1>4, EnterFacts
  <2>1. PICK pushed \in Seq(variables) : walk' = Append(Front(walk), [Top EXCEPT !.pc = 1, !.pushed = pushed])
    BY <2>0, Zenon DEF Entering
  <2> PICK fr : fr = [Top EXCEPT !.pc = 1, !.pushed = pushed]
    OBVIOUS
  <2>2. fr \in Frames /\ fr.block = b /\ fr.pc = 1 /\ fr.todo = Top.todo
    BY <1>1, <2>1 DEF Frames
  <2>3. /\ pc = 0 /\ visited' = visited \cup {b} /\ Remember /\ regStack' \in [variables -> Seq(Nat)]
        /\ UNCHANGED <<fn, stage, tree, variableInfo>>
    BY <2>0 DEF Entering, phiVars
  <2>4. Len(held'[b]) = Len(held[b]) + 1 /\ \A d \in Blocks \ {b} : held'[d] = held[d]
    BY <1>0, <1>1, <2>3, HeldGrows
  <2>7. pc = 0
    BY <2>3
  <2>8. pc < end /\ pc <= c /\ 1 = pc + 1 /\ ~(pc > 0)
    BY ONLY <2>7, <1>9, <1>7
  <2>5. pc < end /\ pc <= c /\ fr.pc = pc + 1 /\ ~(pc > 0)
    BY <2>2, <2>8
  <2>6. Advancing(b, fr)
    BY <1>0, <1>1, <2>1, <2>2, <2>3, <2>4, <2>5 DEF Advancing
  <2> QED
    BY <2>6, <2>2, <1>1
<1>5. CASE RenameInstruction
  <2> PICK ins : ins = code[b][pc]
    OBVIOUS
  <2>0. Rewriting(b, pc, ins)
    BY <1>5, RewriteFacts
  <2>1. PICK pushed \in Seq(variables) : walk' = Append(Front(walk), [Top EXCEPT !.pc = pc + 1, !.pushed = pushed])
    BY <2>0, Zenon DEF Rewriting
  <2> PICK fr : fr = [Top EXCEPT !.pc = pc + 1, !.pushed = pushed]
    OBVIOUS
  <2>2. fr \in Frames /\ fr.block = b /\ fr.pc = pc + 1 /\ fr.todo = Top.todo
    BY <1>1, <1>8, <2>1, Zenon DEF Frames
  <2>3. /\ pc \in 1..c /\ visited' = visited /\ Remember /\ regStack' \in [variables -> Seq(Nat)]
        /\ UNCHANGED <<fn, stage, tree, variableInfo>>
    BY <2>0, <1>1, Zenon DEF Rewriting, phiVars
  <2>4. Len(held'[b]) = Len(held[b]) + 1 /\ \A d \in Blocks \ {b} : held'[d] = held[d]
    BY <1>0, <1>1, <2>3, HeldGrows
  <2>7. pc \in 1..c
    BY <2>3
  <2>8. pc < end /\ pc <= c /\ pc > 0
    BY ONLY <2>7, <1>9, <1>7
  <2>5. pc < end /\ pc <= c /\ b \in visited
    BY <2>8, <1>3
  <2>6. visited' = visited \cup {b}
    BY <2>3, <2>5
  <2> QED
    BY <1>0, <1>1, <2>1, <2>2, <2>3, <2>4, <2>5, <2>6 DEF Advancing
<1>6. CASE FillSuccessor
  <2> PICK s : s = fn.succ[b][SuccessorIndex]
    OBVIOUS
  <2> PICK fed : fed = PhisOf(s)
    OBVIOUS
  <2> PICK bare : bare = {p \in fed : regStack[phis[p].var] = <<>>}
    OBVIOUS
  <2>0. Filling(b, s, fed, bare)
    BY <1>6, FillFacts
  <2>1. walk' = Append(Front(walk), [Top EXCEPT !.pc = pc + 1])
    BY <2>0 DEF Filling
  <2> PICK fr : fr = [Top EXCEPT !.pc = pc + 1]
    OBVIOUS
  <2>2. fr \in Frames /\ fr.block = b /\ fr.pc = pc + 1 /\ fr.todo = Top.todo
    BY <1>1, <1>8, <2>1, Zenon DEF Frames
  <2>3. /\ pc - c \in 1..e /\ pc > c /\ visited' = visited /\ held' = held
        /\ UNCHANGED <<fn, stage, tree, variableInfo>>
    BY <2>0, <1>1, <1>2, Zenon DEF Filling, phiVars, SuccessorIndex
  <2>7. pc - c \in 1..e
    BY <2>3
  <2>8. pc < end /\ ~(pc <= c) /\ pc > 0
    BY ONLY <2>7, <1>9, <1>7
  <2>5. pc < end /\ ~(pc <= c) /\ b \in visited
    BY <2>8, <1>3
  <2>6. visited' = visited \cup {b}
    BY <2>3, <2>5
  <2> QED
    BY <1>0, <1>1, <2>1, <2>2, <2>3, <2>5, <2>6 DEF Advancing
<1> QED
  BY <1>4, <1>5, <1>6

(* The block the last frame stands for is on no list, and nothing that was *)
(* not visited is its parent.                                              *)
LEMMA TopIsTaken ==
  ASSUME Shape, FramesInv, Renaming, NEW b, b = Top.block
  PROVE  /\ \A f \in DOMAIN walk : b \notin walk[f].todo
         /\ \A a \in Blocks \ visited : b \in Kids(a) => b \in visited
<1> PICK n : n = Len(walk)
  OBVIOUS
<1>1. /\ n \in Nat \ {0} /\ DOMAIN walk = 1..n /\ Top = walk[n] /\ b \in Blocks /\ fn \in Functions
      /\ walk # <<>> /\ \A f \in 1..n : walk[f] \in Frames
  BY TopFacts
<1>2. \A f \in 1..n : walk[f].block \in Blocks /\ walk[f].pc \in Nat
  BY <1>1 DEF Frames
<1>3. ASSUME b \notin visited, NEW a \in Blocks, b \in Kids(a)
      PROVE  n - 1 \in 1..n /\ a = walk[n - 1].block /\ b \notin walk[n - 1].todo /\ a \in visited
  <2>1. b # EntryBlock
    BY <1>1, <1>3, TreeFacts
  <2>2. n # 1
    BY <2>1, <1>1 DEF FramesInv
  <2>3. n - 1 \in 1..n /\ n - 1 \in 1..(n - 1) /\ (n - 1) + 1 = n /\ n - 1 # n
    BY ONLY <1>1, <2>2
  <2>4. PathInv(n - 1) /\ FrameInv(n - 1)
    BY <2>3, <1>1 DEF FramesInv
  <2>5. b \in Kids(walk[n - 1].block) \ walk[n - 1].todo
    BY <2>3, <2>4, <1>1 DEF PathInv
  <2>6. a = walk[n - 1].block
    BY <2>3, <2>5, <1>1, <1>2, <1>3, TreeFacts
  <2>7. a \in visited
    <3> PICK m : m = n - 1
      OBVIOUS
    <3>1. walk[m].pc # 0 /\ walk[m].pc \in Nat
      BY <2>3, <2>4, <1>2 DEF FrameInv
    <3>2. walk[m].pc > 0
      BY ONLY <3>1
    <3> QED
      BY <3>2, <2>4, <2>6 DEF FrameInv
  <2> QED
    BY <2>3, <2>5, <2>6, <2>7
<1>4. ASSUME NEW f \in DOMAIN walk, b \in walk[f].todo PROVE FALSE
  <2>1. FrameInv(f)
    BY DEF FramesInv
  <2>2. b \in Kids(walk[f].block) /\ b \notin visited
    BY <1>4, <2>1 DEF FrameInv
  <2>3. walk[f].block \in Blocks
    BY <1>1, <1>2
  <2>4. n - 1 \in DOMAIN walk /\ walk[f].block = walk[n - 1].block /\ b \notin walk[n - 1].todo
    BY <2>2, <2>3, <1>1, <1>3
  <2>5. f = n - 1
    BY <2>4 DEF FramesInv
  <2> QED
    BY <2>4, <2>5, <1>4
<1> QED
  BY <1>3, <1>4

LEMMA AdvancedWalk ==
  ASSUME Shape, NEW b \in Blocks, NEW fr \in Frames, Advancing(b, fr), NEW n, n = Len(walk)
  PROVE  /\ n \in Nat \ {0} /\ DOMAIN walk = 1..n /\ Top = walk[n] /\ walk # <<>>
         /\ Len(walk') = n /\ DOMAIN walk' = 1..n /\ walk' # <<>> /\ Top' = fr /\ walk'[n] = fr
         /\ \A f \in 1..(n - 1) : f \in 1..n /\ f # n /\ walk'[f] = walk[f]
         /\ \A f \in 1..n : f = n \/ f \in 1..(n - 1)
         /\ \A f \in 1..n : /\ walk'[f].block = walk[f].block /\ walk'[f].todo = walk[f].todo
                            /\ walk[f].block \in Blocks /\ walk[f].pc \in Nat
         /\ fn \in Functions /\ stage = "rename"
<1>1. Renaming /\ walk' = Append(Front(walk), fr) /\ fr.block = b /\ fr.todo = Top.todo /\ b = Top.block
  BY DEF Advancing
<1>2. /\ n \in Nat \ {0} /\ DOMAIN walk = 1..n /\ Top = walk[n] /\ walk # <<>> /\ walk \in Seq(Frames)
      /\ fn \in Functions /\ stage = "rename"
  BY <1>1, TopFacts
<1> PICK w : w = walk
  OBVIOUS
<1> PICK t : t = walk'
  OBVIOUS
<1> PICK F : F = Frames
  OBVIOUS
<1>3. w \in Seq(F) /\ w # <<>> /\ t = Append(Front(w), fr) /\ n = Len(w) /\ fr \in F
  BY <1>1, <1>2
<1>4. t # <<>> /\ Len(t) = n /\ DOMAIN t = DOMAIN w /\ Last(t) = fr /\ t[n] = fr /\ \A k \in 1..(n - 1) : t[k] = w[k]
  <2>1. t # <<>>
    BY ONLY <1>3, SetLast
  <2>2. Len(t) = n /\ DOMAIN t = DOMAIN w
    BY ONLY <1>3, SetLast
  <2>4. t[n] = fr
    BY ONLY <1>3, SetLast
  <2>3. Last(t) = fr
    BY <2>2, <2>4 DEF Last
  <2>5. \A k \in 1..(n - 1) : t[k] = w[k]
    BY ONLY <1>3, SetLast
  <2> QED
    BY <2>1, <2>2, <2>3, <2>4, <2>5
<1>5. Top' = fr
  BY <1>4 DEF Top
<1>6. /\ \A f \in 1..(n - 1) : f \in 1..n /\ f # n
      /\ \A f \in 1..n : f = n \/ f \in 1..(n - 1)
  BY ONLY <1>2
<1>7. \A f \in 1..n : walk[f].block \in Blocks /\ walk[f].pc \in Nat
  <2>1. \A f \in 1..n : w[f] \in Frames
    BY <1>2
  <2> QED
    BY <2>1 DEF Frames
<1>8. \A f \in 1..n : walk'[f].block = walk[f].block /\ walk'[f].todo = walk[f].todo
  <2> TAKE f \in 1..n
  <2>1. CASE f = n
    BY <2>1, <1>1, <1>2, <1>4
  <2>2. CASE f \in 1..(n - 1)
    BY <2>2, <1>4
  <2> QED
    BY <2>1, <2>2, <1>6
<1> QED
  BY <1>2, <1>4, <1>5, <1>6, <1>7, <1>8

LEMMA AdvanceFrames ==
  ASSUME Shape, WalkInv, NEW b \in Blocks, NEW fr \in Frames, Advancing(b, fr)
  PROVE  FramesInv'
<1> PICK n : n = Len(walk)
  OBVIOUS
<1> PICK t : t = walk'
  OBVIOUS
<1>0. FramesInv
  BY DEF WalkInv
<1>1. /\ n \in Nat \ {0} /\ DOMAIN walk = 1..n /\ Top = walk[n] /\ walk # <<>>
      /\ Len(t) = n /\ DOMAIN t = 1..n /\ t # <<>> /\ t[n] = fr
      /\ \A f \in 1..(n - 1) : f \in 1..n /\ f # n /\ t[f] = walk[f]
      /\ \A f \in 1..n : f = n \/ f \in 1..(n - 1)
  BY AdvancedWalk
<1>2. \A f \in 1..n : /\ t[f].block = walk[f].block /\ t[f].todo = walk[f].todo
                      /\ walk[f].block \in Blocks /\ walk[f].pc \in Nat
  BY AdvancedWalk
<1>3. /\ Renaming /\ b = Top.block /\ Top.pc < EndOf(b) /\ fr.block = b /\ fr.pc = Top.pc + 1 /\ fr.todo = Top.todo
      /\ visited' = visited \cup {b} /\ fn' = fn
  BY DEF Advancing
<1>4. (\A a : Kids(a)' = Kids(a)) /\ (\A a : EndOf(a)' = EndOf(a))
  BY <1>3, FixedFn DEF Kids, EndOf
<1>5. \A f \in 1..n : walk[f].todo \subseteq Kids(walk[f].block) \ visited'
  <2>1. \A f \in 1..n : FrameInv(f) /\ b \notin walk[f].todo
    BY <1>0, <1>1, <1>3, TopIsTaken DEF FramesInv
  <2> QED
    BY <2>1, <1>3 DEF FrameInv
<1>6. walk'[1].block = EntryBlock
  <2>1. 1 \in 1..n
    BY ONLY <1>1
  <2> QED
    BY <2>1, <1>0, <1>1, <1>2 DEF FramesInv
<1>7. ASSUME NEW f \in 1..n PROVE FrameInv(f)'
  <2> PICK w : w = t[f]
    OBVIOUS
  <2>1. w.todo \subseteq Kids(w.block) \ visited'
    BY <1>2, <1>5
  <2>2. CASE f = n
    <3> PICK pc : pc = Top.pc
      OBVIOUS
    <3> PICK end : end = EndOf(b)
      OBVIOUS
    <3>1. pc \in Nat /\ pc < end /\ end \in Nat
      <4>1. pc \in Nat /\ pc < end
        <5>1. Top.pc \in Nat
          BY <1>3, TopFacts
        <5>2. Top.pc < EndOf(b)
          BY <1>3
        <5> QED
          BY ONLY <5>1, <5>2, pc = Top.pc, end = EndOf(b)
      <4>2. fn.succ[b] \in Seq(Blocks) /\ fn.code[b] \in Seq(Instruction(fn.regs))
        BY FnState DEF Shape, FnPart
      <4>3. Len(fn.code[b]) \in Nat /\ Len(fn.succ[b]) \in Nat
        <5> PICK cs : cs = fn.code[b]
          OBVIOUS
        <5> PICK ss : ss = fn.succ[b]
          OBVIOUS
        <5>1. cs \in Seq(Instruction(fn.regs)) /\ ss \in Seq(Blocks)
          BY <4>2
        <5>2. Len(cs) \in Nat /\ Len(ss) \in Nat
          BY <5>1
        <5> QED
          BY <5>2
      <4> PICK k : k = Len(fn.code[b])
        OBVIOUS
      <4> PICK m : m = Len(fn.succ[b])
        OBVIOUS
      <4>4. k \in Nat /\ m \in Nat /\ end = k + m + 1
        BY <4>3 DEF EndOf
      <4>5. end \in Nat
        BY ONLY <4>4
      <4> QED
        BY <4>1, <4>5
    <3>2. pc + 1 > 0 /\ pc + 1 <= end /\ pc + 1 # 0
      BY ONLY <3>1
    <3>3. w.pc = pc + 1 /\ w.block = b /\ b \in visited'
      BY <2>2, <1>1, <1>3
    <3>4. /\ w.pc > 0 <=> w.block \in visited'
          /\ w.pc # 0
          /\ w.pc <= EndOf(w.block)'
      BY <3>2, <3>3, <1>4
    <3> QED
      BY <2>1, <3>4, <1>4 DEF FrameInv
  <2>3. CASE f \in 1..(n - 1)
    <3>1. w = walk[f] /\ FrameInv(f) /\ f # n
      BY <2>3, <1>0, <1>1 DEF FramesInv
    <3>2. w.block # b
      <4>1. n \in DOMAIN walk /\ f \in DOMAIN walk /\ walk[n].block = b
        BY <1>1, <1>3
      <4>2. walk[f].block # walk[n].block
        BY <4>1, <3>1, <1>0 DEF FramesInv
      <4> QED
        BY <4>1, <4>2, <3>1
    <3>3. w.block \in visited' <=> w.block \in visited
      BY <3>2, <1>3
    <3>4. /\ w.pc > 0 <=> w.block \in visited
          /\ w.pc # 0
          /\ w.pc <= EndOf(w.block)
      BY <3>1 DEF FrameInv
    <3> QED
      BY <2>1, <3>3, <3>4, <1>4 DEF FrameInv
  <2> QED
    BY <2>2, <2>3, <1>1
<1>8. ASSUME NEW f \in 1..(n - 1) PROVE PathInv(f)'
  <2>1. f \in 1..n /\ f + 1 \in 1..n
    BY ONLY <1>1
  <2>2. t[f] = walk[f] /\ t[f + 1].block = walk[f + 1].block /\ PathInv(f)
    BY <2>1, <1>0, <1>1, <1>2 DEF FramesInv
  <2> QED
    BY <2>2, <1>4 DEF PathInv
<1>9. \A f, g \in 1..n : t[f].block = t[g].block => f = g
  BY <1>0, <1>1, <1>2 DEF FramesInv
<1> QED
  BY <1>1, <1>6, <1>7, <1>8, <1>9 DEF FramesInv

LEMMA AdvanceVisited ==
  ASSUME Shape, WalkInv, NEW b \in Blocks, NEW fr \in Frames, Advancing(b, fr)
  PROVE  VisitedInv'
<1> PICK n : n = Len(walk)
  OBVIOUS
<1>0. FramesInv /\ VisitedInv
  BY DEF WalkInv
<1>1. /\ n \in Nat \ {0} /\ DOMAIN walk = 1..n /\ Top = walk[n] /\ walk # <<>> /\ DOMAIN walk' = 1..n
      /\ walk' # <<>> /\ Top' = fr
      /\ \A f \in 1..n : walk'[f].block = walk[f].block /\ walk'[f].todo = walk[f].todo
      /\ stage = "rename" /\ fn \in Functions
  BY AdvancedWalk
<1>2. /\ Renaming /\ b = Top.block /\ fr.todo = Top.todo /\ fr.block = b
      /\ visited' = visited \cup {b} /\ fn' = fn /\ stage' = stage /\ variables' = variables
  BY DEF Advancing, variables
<1>3. (\A a : Kids(a)' = Kids(a)) /\ Blocks' = Blocks
  BY <1>2, FixedFn DEF Kids
<1>4. \A a \in Blocks \ visited' : Kids(a)' \cap visited' = {}
  <2> TAKE a \in Blocks \ visited'
  <2>1. a \in Blocks \ visited /\ Kids(a) \cap visited = {}
    BY <1>0, <1>2 DEF VisitedInv
  <2>2. b \in Kids(a) => b \in visited
    BY <2>1, <1>0, <1>2, TopIsTaken
  <2> QED
    BY <2>1, <2>2, <1>2, <1>3
<1>5. ASSUME NEW a \in visited', NEW c \in Kids(a) PROVE c \in visited' \/ WaitingFor(a, c)'
  <2>1. CASE a \in visited
    <3>1. c \in visited \/ WaitingFor(a, c)
      BY <2>1, <1>0, <1>5 DEF VisitedInv
    <3>2. CASE c \in visited \/ c = b
      BY <3>2, <1>2
    <3>3. CASE \E f \in DOMAIN walk : walk[f].block = a /\ c \in walk[f].todo
      BY <3>3, <1>1 DEF WaitingFor
    <3> QED
      BY <3>1, <3>2, <3>3, <1>2 DEF WaitingFor
  <2>2. CASE a \notin visited
    <3>1. a = b
      BY <2>2, <1>2, <1>5
    <3>2. n \in DOMAIN walk /\ walk[n].block = b /\ FrameInv(n)
      BY <1>0, <1>1, <1>2 DEF FramesInv
    <3>3. walk[n].pc \in Nat /\ ~(walk[n].pc > 0)
      BY <3>1, <3>2, <2>2, <1>1, AdvancedWalk DEF FrameInv
    <3>4. walk[n].pc = 0
      BY ONLY <3>3
    <3>5. walk[n].todo = Kids(b)
      BY <3>2, <3>4 DEF FrameInv
    <3>6. c \in walk'[n].todo /\ walk'[n].block = a
      BY <3>1, <3>2, <3>5, <1>1, <1>5
    <3> QED
      BY <3>2, <3>6, <1>1 DEF WaitingFor
  <2> QED
    BY <2>1, <2>2
<1>6. variables # {}
  BY <1>0, <1>1 DEF VisitedInv
<1> QED
  BY <1>1, <1>2, <1>3, <1>4, <1>5, <1>6 DEF VisitedInv

LEMMA AdvanceHeld ==
  ASSUME Shape, WalkInv, NEW b \in Blocks, NEW fr \in Frames, Advancing(b, fr)
  PROVE  HeldInv'
<1> PICK n : n = Len(walk)
  OBVIOUS
<1> PICK pc : pc = Top.pc
  OBVIOUS
<1> PICK len : len = Len(fn.code[b])
  OBVIOUS
<1>0. FramesInv /\ HeldInv
  BY DEF WalkInv
<1>1. /\ n \in DOMAIN walk /\ Top = walk[n] /\ walk # <<>> /\ walk' # <<>> /\ Top' = fr /\ pc \in Nat
  BY AdvancedWalk
<1>2. /\ Renaming /\ b = Top.block /\ fr.block = b /\ fr.pc = pc + 1 /\ visited' = visited \cup {b} /\ fn' = fn
      /\ \A c \in Blocks \ {b} : held'[c] = held[c]
      /\ IF pc <= len THEN Len(held'[b]) = Len(held[b]) + 1 ELSE held'[b] = held[b]
  BY DEF Advancing
<1>3. Blocks' = Blocks
  BY <1>2, FixedFn
<1>4. len \in Nat
  BY <1>2, TopFacts
<1>5. \A c \in Blocks \ {b} : Len(held'[c]) = HeldLength(c)'
  <2> TAKE c \in Blocks \ {b}
  <2>1. HeldLength(c) = IF c \notin visited THEN 0 ELSE Len(fn.code[c]) + 1
    BY <1>2 DEF HeldLength
  <2>2. HeldLength(c)' = IF c \notin visited THEN 0 ELSE Len(fn.code[c]) + 1
    BY <1>1, <1>2 DEF HeldLength
  <2> QED
    BY <2>1, <2>2, <1>0, <1>2 DEF HeldInv
<1>6. HeldLength(b)' = IF pc + 1 <= len THEN pc + 1 ELSE len + 1
  BY <1>1, <1>2 DEF HeldLength
<1>7. Len(held[b]) = IF b \notin visited THEN 0 ELSE IF pc <= len THEN pc ELSE len + 1
  BY <1>0, <1>1, <1>2 DEF HeldInv, HeldLength
<1>8. pc > 0 <=> b \in visited
  BY <1>0, <1>1, <1>2 DEF FramesInv, FrameInv
<1> PICK h : h = Len(held[b])
  OBVIOUS
<1> PICK k : k = Len(held'[b])
  OBVIOUS
<1>9. h = IF pc = 0 THEN 0 ELSE IF pc <= len THEN pc ELSE len + 1
  <2>1. ~(pc > 0) <=> pc = 0
    BY ONLY <1>1
  <2> QED
    BY <2>1, <1>7, <1>8
<1>10. k = IF pc <= len THEN h + 1 ELSE h
  BY <1>2
<1>11. k = IF pc + 1 <= len THEN pc + 1 ELSE len + 1
  BY ONLY <1>1, <1>4, <1>9, <1>10
<1> QED
  BY <1>3, <1>5, <1>6, <1>11 DEF HeldInv

LEMMA WalkAdvance ==
  ASSUME Shape, WalkInv, EnterBlock \/ RenameInstruction \/ FillSuccessor
  PROVE  WalkInv'
<1>1. PICK b \in Blocks, fr \in Frames : Advancing(b, fr)
  BY AdvanceFacts
<1> QED
  BY <1>1, AdvanceFrames, AdvanceVisited, AdvanceHeld DEF WalkInv

LEMMA WalkVisit == Shape /\ WalkInv /\ VisitChild => WalkInv'
<1> SUFFICES ASSUME Shape, WalkInv, VisitChild PROVE WalkInv'
  OBVIOUS
<1> PICK b : b = Top.block
  OBVIOUS
<1> PICK child : child = Least(Top.todo)
  OBVIOUS
<1> PICK left : left = [Top EXCEPT !.todo = @ \ {child}]
  OBVIOUS
<1> PICK n : n = Len(walk)
  OBVIOUS
<1> PICK t : t = walk'
  OBVIOUS
<1>0. Visiting(b, child)
  BY VisitFacts
<1>1. /\ Renaming /\ b \in Blocks /\ child \in Top.todo /\ child \in Blocks /\ Top.pc > 0
      /\ SuccessorIndex > Len(fn.succ[b])
      /\ t = Front(walk) \o <<left, Frame(child)>> /\ left \in Frames /\ Frame(child) \in Frames
      /\ UNCHANGED <<fn, stage, tree, phiVars, visited, code, held>>
  BY <1>0 DEF Visiting
<1>2. /\ n \in Nat \ {0} /\ DOMAIN walk = 1..n /\ Top = walk[n] /\ walk # <<>> /\ walk \in Seq(Frames)
      /\ fn \in Functions /\ stage = "rename" /\ Len(code[b]) = Len(fn.code[b]) /\ Len(fn.code[b]) \in Nat
      /\ \A f \in 1..n : walk[f] \in Frames
  BY <1>1, TopFacts
<1>3. /\ t \in Seq(Frames) /\ t # <<>> /\ Len(t) = n + 1 /\ t[n + 1] = Frame(child) /\ t[n] = left
      /\ \A k \in 1..(n - 1) : t[k] = walk[k]
  <2> PICK w : w = walk
    OBVIOUS
  <2> PICK F : F = Frames
    OBVIOUS
  <2> PICK y : y = Frame(child)
    OBVIOUS
  <2>0. w \in Seq(F) /\ w # <<>> /\ left \in F /\ y \in F /\ t = Front(w) \o <<left, y>> /\ n = Len(w)
    BY <1>1, <1>2
  <2>1. t \in Seq(F)
    BY ONLY <2>0, AddFrame
  <2>2. t # <<>>
    BY ONLY <2>0, AddFrame
  <2>3. Extended(t, w, left, y)
    BY ONLY <2>0, AddFrame
  <2> QED
    BY <2>0, <2>1, <2>2, <2>3 DEF Extended
<1>4. DOMAIN t = 1..(n + 1) /\ \A f \in 1..(n + 1) : f = n + 1 \/ f = n \/ f \in 1..(n - 1)
  <2>1. DOMAIN t = 1..(n + 1)
    BY <1>3
  <2> QED
    BY <2>1, <1>2
<1>5. /\ \A f \in 1..(n - 1) : f \in 1..n /\ f # n /\ f # n + 1 /\ f \in 1..(n + 1)
      /\ n \in 1..n /\ n \in 1..(n + 1) /\ n + 1 \in 1..(n + 1) /\ n # n + 1 /\ 1 \in 1..n
      /\ (n + 1) - 1 = n
  BY ONLY <1>2
<1>6. Frame(child).block = child /\ Frame(child).pc = 0 /\ Frame(child).pushed = <<>> /\ Frame(child).todo = Kids(child)
  BY <1>1, <1>2, FrameFacts DEF Kids
<1>7. /\ left.block = b /\ left.pc = Top.pc /\ left.pushed = Top.pushed /\ left.todo = Top.todo \ {child}
      /\ Top.block = b /\ b = walk[n].block
  <2>1. walk[n] \in Frames
    BY <1>2, <1>5
  <2> QED
    BY <2>1, <1>2 DEF Frames
<1>8. /\ \A a : Kids(a)' = Kids(a) /\ EndOf(a)' = EndOf(a)
      /\ Blocks' = Blocks /\ variables' = variables
  BY <1>1, FixedFn DEF Kids, EndOf, phiVars, variables
<1>9. FramesInv /\ VisitedInv /\ HeldInv
  BY DEF WalkInv
<1>10. FrameInv(n) /\ child \in Kids(b) \ visited
  <2>1. FrameInv(n)
    BY <1>9, <1>2, <1>5 DEF FramesInv
  <2> QED
    BY <2>1, <1>1, <1>2, <1>7 DEF FrameInv
<1>11. \A f \in 1..n : walk[f].block \in Blocks /\ walk[f].block \in visited
  <2> TAKE f \in 1..n
  <2>1. FrameInv(f)
    BY <1>9, <1>2 DEF FramesInv
  <2>2. walk[f].pc \in Nat /\ walk[f].block \in Blocks
    BY <1>2 DEF Frames
  <2>3. CASE f = n
    BY <2>1, <2>2, <2>3, <1>1, <1>2 DEF FrameInv
  <2>4. CASE f # n
    <3>1. walk[f].pc # 0
      BY <2>1, <2>4, <1>2 DEF FrameInv
    <3>2. walk[f].pc > 0
      BY <3>1, <2>2
    <3> QED
      BY <3>2, <2>1, <2>2 DEF FrameInv
  <2> QED
    BY <2>3, <2>4
<1>12. \A f \in 1..n : t[f].block = walk[f].block /\ t[f].pc = walk[f].pc /\ t[f].todo \subseteq walk[f].todo
  <2> TAKE f \in 1..n
  <2>1. f = n \/ f \in 1..(n - 1)
    BY <1>2
  <2> QED
    BY <2>1, <1>2, <1>3, <1>7
<1>13. t[n + 1].block = child /\ \A f \in 1..n : t[f].block # child
  <2>1. \A f \in 1..n : walk[f].block # child
    BY <1>10, <1>11
  <2> QED
    BY <2>1, <1>3, <1>6, <1>12
<1>14. FramesInv'
  <2>1. t[1].block = EntryBlock
    BY <1>5, <1>12, <1>9, <1>2 DEF FramesInv
  <2>2. ASSUME NEW f \in 1..(n + 1) PROVE FrameInv(f)'
    <3>1. CASE f = n + 1
      <4>1. /\ t[f].todo = Kids(child) /\ t[f].block = child /\ t[f].pc = 0 /\ t[f].pushed = <<>>
        BY <3>1, <1>3, <1>6
      <4>2. Kids(child) \cap visited = {}
        BY <1>1, <1>9, <1>10 DEF VisitedInv
      <4>3. 0 <= EndOf(child) /\ ~(0 > 0)
        <5> PICK cs : cs = fn.code[child]
          OBVIOUS
        <5> PICK ss : ss = fn.succ[child]
          OBVIOUS
        <5>1. cs \in Seq(Instruction(fn.regs)) /\ ss \in Seq(Blocks)
          BY <1>1, <1>2, FnState
        <5>2. Len(cs) \in Nat /\ Len(ss) \in Nat
          BY <5>1
        <5>3. 0 <= Len(cs) + Len(ss) + 1 /\ ~(0 > 0)
          BY ONLY <5>2
        <5>4. EndOf(child) = Len(cs) + Len(ss) + 1
          BY DEF EndOf
        <5> QED
          BY <5>3, <5>4
      <4> QED
        BY <4>1, <4>2, <4>3, <3>1, <1>1, <1>3, <1>8, <1>10 DEF FrameInv
    <3>2. CASE f # n + 1
      <4>1. f \in 1..n
        BY <3>2, <1>4, <1>5
      <4>2. /\ t[f].block = walk[f].block /\ t[f].pc = walk[f].pc /\ t[f].todo \subseteq walk[f].todo
            /\ walk[f].block \in visited /\ FrameInv(f)
        BY <4>1, <1>9, <1>2, <1>11, <1>12 DEF FramesInv
      <4>3. walk[f].pc > 0 /\ walk[f].pc # 0
        <5>1. walk[f].pc > 0
          BY <4>2 DEF FrameInv
        <5> QED
          BY <5>1
      <4> QED
        BY <4>2, <4>3, <1>1, <1>8 DEF FrameInv
    <3> QED
      BY <3>1, <3>2
  <2>3. ASSUME NEW f \in 1..n PROVE PathInv(f)'
    <3>1. CASE f = n
      <4>1. walk[n].pc = EndOf(b)
        <5> PICK pc : pc = walk[n].pc
          OBVIOUS
        <5> PICK k : k = Len(fn.code[b])
          OBVIOUS
        <5> PICK m : m = Len(fn.succ[b])
          OBVIOUS
        <5>1. pc \in Nat /\ k \in Nat /\ m \in Nat
          <6> PICK ss : ss = fn.succ[b]
            OBVIOUS
          <6>1. ss \in Seq(Blocks)
            BY <1>1, <1>2, FnState
          <6>2. Len(ss) \in Nat
            BY <6>1
          <6>3. pc \in Nat
            BY <1>2, <1>5 DEF Frames
          <6> QED
            BY <6>2, <6>3, <1>2
        <5>2. pc - k > m
          BY <1>1, <1>2 DEF SuccessorIndex
        <5>3. pc <= k + m + 1
          BY <1>10, <1>7 DEF FrameInv, EndOf
        <5>4. pc = k + m + 1
          BY ONLY <5>1, <5>2, <5>3
        <5> QED
          BY <5>4 DEF EndOf
      <4> QED
        BY <4>1, <3>1, <1>3, <1>6, <1>7, <1>8, <1>10, <1>12, ZenonT(40) DEF PathInv
    <3>2. CASE f # n
      <4>1. f \in 1..(n - 1) /\ f + 1 \in 1..n /\ f \in 1..n
        BY ONLY <3>2, <2>3, <1>2
      <4>2. PathInv(f) /\ t[f] = walk[f] /\ t[f + 1].block = walk[f + 1].block
        BY <4>1, <1>9, <1>3, <1>12 DEF FramesInv
      <4> QED
        BY <4>2, <1>8 DEF PathInv
    <3> QED
      BY <3>1, <3>2
  <2>4. ASSUME NEW f \in 1..(n + 1), NEW g \in 1..(n + 1), t[f].block = t[g].block PROVE f = g
    <3>1. (f = n + 1 \/ f \in 1..n) /\ (g = n + 1 \/ g \in 1..n)
      BY <1>4, <1>5
    <3>2. CASE f \in 1..n /\ g \in 1..n
      BY <3>2, <2>4, <1>9, <1>2, <1>12 DEF FramesInv
    <3> QED
      BY <3>1, <3>2, <2>4, <1>13
  <2> QED
    BY <2>1, <2>2, <2>3, <2>4, <1>3, <1>4, <1>5 DEF FramesInv
<1>15. VisitedInv'
  <2>1. ASSUME NEW a \in visited, NEW c \in Kids(a) PROVE c \in visited \/ WaitingFor(a, c)'
    <3>1. CASE c = child
      <4>1. Top' = Frame(child)
        BY <1>3 DEF Top, Last
      <4> QED
        BY <4>1, <3>1, <1>3, <1>6 DEF WaitingFor
    <3>2. CASE c # child /\ c \notin visited
      <4>1. WaitingFor(a, c) /\ c # b
        BY <3>2, <1>9, <1>5, <1>7, <1>11, <2>1 DEF VisitedInv
      <4>2. PICK f \in 1..n : walk[f].block = a /\ c \in walk[f].todo
        BY <4>1, <1>2, <1>7 DEF WaitingFor
      <4>3. f \in 1..(n + 1) /\ t[f].block = a /\ c \in t[f].todo
        <5>1. f = n \/ f \in 1..(n - 1)
          BY <1>2
        <5> QED
          BY <5>1, <4>2, <3>2, <1>2, <1>3, <1>5, <1>7
      <4> QED
        BY <4>3, <1>4 DEF WaitingFor
    <3> QED
      BY <3>1, <3>2
  <2> QED
    BY <2>1, <1>1, <1>2, <1>8, <1>9 DEF VisitedInv
<1>16. HeldInv'
  <2>1. ASSUME NEW c \in Blocks PROVE HeldLength(c)' = HeldLength(c)
    <3>1. Top' = Frame(child)
      BY <1>3 DEF Top, Last
    <3>2. HeldLength(c)' = IF c \notin visited THEN 0 ELSE Len(fn.code[c]) + 1
      BY <3>1, <1>1, <1>3, <1>6, <1>10 DEF HeldLength
    <3>3. ~(Top.pc <= Len(fn.code[b]))
      <4> PICK pc : pc = Top.pc
        OBVIOUS
      <4> PICK k : k = Len(fn.code[b])
        OBVIOUS
      <4> PICK m : m = Len(fn.succ[b])
        OBVIOUS
      <4>1. pc \in Nat /\ k \in Nat /\ m \in Nat
        <5> PICK ss : ss = fn.succ[b]
          OBVIOUS
        <5>1. ss \in Seq(Blocks)
          BY <1>1, <1>2, FnState
        <5>2. Len(ss) \in Nat
          BY <5>1
        <5>3. pc \in Nat
          BY <1>2, <1>5 DEF Frames
        <5> QED
          BY <5>2, <5>3, <1>2
      <4>2. pc - k > m
        BY <1>1, <1>2 DEF SuccessorIndex
      <4>3. ~(pc <= k)
        BY ONLY <4>1, <4>2
      <4> QED
        BY <4>3
    <3> QED
      BY <3>2, <3>3, <1>7 DEF HeldLength
  <2> QED
    BY <2>1, <1>1, <1>8, <1>9 DEF HeldInv
<1> QED
  BY <1>14, <1>15, <1>16 DEF WalkInv

(* A block the walk leaves has nothing left to do.                         *)
LEMMA WalkLeave == Shape /\ WalkInv /\ LeaveBlock => WalkInv'
<1> SUFFICES ASSUME Shape, WalkInv, LeaveBlock PROVE WalkInv'
  OBVIOUS
<1> PICK b : b = Top.block
  OBVIOUS
<1> PICK n : n = Len(walk)
  OBVIOUS
<1> PICK t : t = walk'
  OBVIOUS
<1>0. Leaving(b)
  BY LeaveFacts
<1>1. /\ Renaming /\ b \in Blocks /\ Top.todo = {} /\ Top.pc > 0 /\ SuccessorIndex > Len(fn.succ[b])
      /\ t = Front(walk) /\ stage' = (IF n = 1 THEN "cleanup" ELSE stage)
      /\ UNCHANGED <<fn, tree, phiVars, visited, code, held>>
  BY <1>0 DEF Leaving
<1>2. /\ n \in Nat \ {0} /\ DOMAIN walk = 1..n /\ Top = walk[n] /\ walk # <<>> /\ walk \in Seq(Frames)
      /\ fn \in Functions /\ stage = "rename" /\ Len(code[b]) = Len(fn.code[b]) /\ Len(fn.code[b]) \in Nat
      /\ \A f \in 1..n : walk[f] \in Frames
  BY <1>1, TopFacts
<1>3. t \in Seq(Frames) /\ Len(t) = n - 1 /\ \A k \in 1..(n - 1) : t[k] = walk[k]
  <2> PICK w : w = walk
    OBVIOUS
  <2>0. w \in Seq(Frames) /\ w # <<>> /\ t = Front(w) /\ n = Len(w)
    BY <1>1, <1>2
  <2>1. t \in Seq(Frames)
    BY ONLY <2>0, FrontFacts
  <2>2. Len(t) = n - 1
    BY ONLY <2>0, FrontFacts
  <2>3. \A k \in 1..(n - 1) : t[k] = w[k]
    BY ONLY <2>0, FrontFacts
  <2> QED
    BY <2>1, <2>2, <2>3
<1>4. DOMAIN t = 1..(n - 1) /\ (t # <<>> => n - 1 \in 1..(n - 1) /\ t # <<>> /\ Top' = walk[n - 1])
  <2>1. DOMAIN t = 1..(n - 1) /\ (t # <<>> => Len(t) # 0)
    BY <1>3
  <2>2. n - 1 # 0 => n - 1 \in 1..(n - 1)
    BY ONLY <1>2
  <2>3. Top' = t[Len(t)]
    BY DEF Top, Last
  <2> QED
    BY <2>1, <2>2, <2>3, <1>3
<1>5. /\ \A f \in 1..(n - 1) : f \in 1..n /\ f # n
      /\ \A f \in 1..n : f = n \/ f \in 1..(n - 1)
      /\ \A f \in 1..((n - 1) - 1) : f \in 1..(n - 1) /\ f + 1 \in 1..(n - 1)
      /\ n \in 1..n
      /\ n = 1 \/ 1 \in 1..(n - 1)
  BY ONLY <1>2
<1>8. /\ \A a : Kids(a)' = Kids(a) /\ EndOf(a)' = EndOf(a)
      /\ Blocks' = Blocks /\ variables' = variables
  BY <1>1, FixedFn DEF Kids, EndOf, phiVars, variables
<1>9. FramesInv /\ VisitedInv /\ HeldInv
  BY DEF WalkInv
<1>10. b \in visited
  BY <1>9, <1>1, <1>2, <1>5 DEF FramesInv, FrameInv
<1>14. FramesInv'
  <2>1. t # <<>> => t[1].block = EntryBlock
    <3>1. t # <<>> => n # 1
      BY <1>4, <1>5
    <3> QED
      BY <3>1, <1>3, <1>5, <1>9, <1>2 DEF FramesInv
  <2>2. ASSUME NEW f \in 1..(n - 1) PROVE FrameInv(f)'
    <3>1. FrameInv(f) /\ t[f] = walk[f] /\ walk[f].pc # 0
      BY <1>9, <1>2, <1>3, <1>5 DEF FramesInv, FrameInv
    <3> QED
      BY <3>1, <1>1, <1>8 DEF FrameInv
  <2>3. ASSUME NEW f \in 1..((n - 1) - 1) PROVE PathInv(f)'
    <3>1. PathInv(f) /\ t[f] = walk[f] /\ t[f + 1] = walk[f + 1]
      BY <1>9, <1>3, <1>5 DEF FramesInv
    <3> QED
      BY <3>1, <1>8 DEF PathInv
  <2>4. \A f, g \in 1..(n - 1) : t[f].block = t[g].block => f = g
    <3> TAKE f, g \in 1..(n - 1)
    <3>1. t[f] = walk[f] /\ t[g] = walk[g] /\ f \in DOMAIN walk /\ g \in DOMAIN walk
      BY <1>2, <1>3, <1>5
    <3> QED
      BY <3>1, <1>9 DEF FramesInv
  <2> QED
    BY <2>1, <2>2, <2>3, <2>4, <1>3, <1>4 DEF FramesInv
<1>15. VisitedInv'
  <2>1. ASSUME NEW a \in visited, NEW c \in Kids(a), c \notin visited PROVE WaitingFor(a, c)'
    <3>1. WaitingFor(a, c) /\ c # b
      BY <2>1, <1>9, <1>10 DEF VisitedInv
    <3>2. PICK f \in 1..n : walk[f].block = a /\ c \in walk[f].todo
      BY <3>1, <1>2 DEF WaitingFor
    <3>3. f # n
      BY <3>2, <1>1, <1>2
    <3> QED
      BY <3>2, <3>3, <1>3, <1>4, <1>5 DEF WaitingFor
  <2>2. n = 1 => EntryBlock \in visited
    BY <1>9, <1>10, <1>2 DEF FramesInv
  <2>3. stage' = "rename" => variables # {}
    BY <1>2, <1>9 DEF VisitedInv
  <2>4. \A a \in Blocks \ visited : Kids(a) \cap visited = {}
    BY <1>9 DEF VisitedInv
  <2>5. stage' \in {"cleanup", "mark", "run", "rejected"} => EntryBlock \in visited
    BY <2>2, <1>1, <1>2
  <2>6. variables # {}
    BY <1>2, <1>9 DEF VisitedInv
  <2>7. stage' \notin {"variables", "phis"}
    BY <1>1, <1>2
  <2> QED
    BY <2>1, <2>3, <2>4, <2>5, <2>6, <2>7, <1>1, <1>8 DEF VisitedInv
<1>16. HeldInv'
  <2>1. ASSUME NEW c \in Blocks PROVE HeldLength(c)' = HeldLength(c)
    <3>1. HeldLength(c) = IF c \notin visited THEN 0 ELSE Len(fn.code[c]) + 1
      <4> PICK pc : pc = Top.pc
        OBVIOUS
      <4> PICK k : k = Len(fn.code[b])
        OBVIOUS
      <4> PICK m : m = Len(fn.succ[b])
        OBVIOUS
      <4>1. pc \in Nat /\ k \in Nat /\ m \in Nat
        <5> PICK ss : ss = fn.succ[b]
          OBVIOUS
        <5>1. ss \in Seq(Blocks)
          BY <1>1, <1>2, FnState
        <5>2. Len(ss) \in Nat
          BY <5>1
        <5>3. pc \in Nat
          BY <1>2, <1>5 DEF Frames
        <5> QED
          BY <5>2, <5>3, <1>2
      <4>2. pc - k > m
        BY <1>1, <1>2 DEF SuccessorIndex
      <4>3. ~(pc <= k)
        BY ONLY <4>1, <4>2
      <4> QED
        BY <4>3 DEF HeldLength
    <3>2. HeldLength(c)' = IF c \notin visited THEN 0 ELSE Len(fn.code[c]) + 1
      <4>1. CASE t = <<>>
        BY <4>1, <1>1 DEF HeldLength
      <4>2. CASE t # <<>>
        <5> PICK d : d = walk[n - 1].block
          OBVIOUS
        <5>1. Top' = walk[n - 1] /\ PathInv(n - 1) /\ n - 1 \in 1..n
          BY <4>2, <1>4, <1>5, <1>9 DEF FramesInv
        <5>2. d \in Blocks
          BY <5>1, <1>2 DEF Frames
        <5>3. walk[n - 1].pc = Len(fn.code[d]) + Len(fn.succ[d]) + 1
          BY <5>1 DEF PathInv, EndOf
        <5>4. Len(fn.code[d]) \in Nat /\ Len(fn.succ[d]) \in Nat
          <6> PICK cs : cs = fn.code[d]
            OBVIOUS
          <6> PICK ss : ss = fn.succ[d]
            OBVIOUS
          <6>1. cs \in Seq(Instruction(fn.regs)) /\ ss \in Seq(Blocks)
            BY <5>2, <1>2, FnState
          <6>2. Len(cs) \in Nat /\ Len(ss) \in Nat
            BY <6>1
          <6> QED
            BY <6>2
        <5> PICK k : k = Len(fn.code[d])
          OBVIOUS
        <5> PICK m : m = Len(fn.succ[d])
          OBVIOUS
        <5>5. k \in Nat /\ m \in Nat /\ walk[n - 1].pc = k + m + 1
          BY <5>3, <5>4
        <5> PICK pc : pc = walk[n - 1].pc
          OBVIOUS
        <5>6. pc = k + m + 1
          BY <5>5
        <5>7. ~(pc <= k)
          BY ONLY <5>5, <5>6
        <5> QED
          BY <5>1, <5>7, <1>1 DEF HeldLength
      <4> QED
        BY <4>1, <4>2
    <3> QED
      BY <3>1, <3>2
  <2> QED
    BY <2>1, <1>1, <1>8, <1>9 DEF HeldInv
<1> QED
  BY <1>14, <1>15, <1>16 DEF WalkInv

LEMMA WalkStart == Shape /\ WalkInv /\ InsertUndefs => WalkInv'
<1> SUFFICES ASSUME Shape, WalkInv, InsertUndefs PROVE WalkInv'
  OBVIOUS
<1> PICK bare : bare = {v \in variables : EntryBlock \notin variableInfo[v].defBlocks}
  OBVIOUS
<1>0. Starting(bare)
  BY StartingFacts
<1>1. /\ stage = "phis" /\ UNCHANGED <<fn, tree, phiVars, visited, held>>
      /\ IF variables = {} THEN stage' = "mark" /\ walk' = walk
                           ELSE stage' = "rename" /\ walk' = <<Frame(EntryBlock)>>
  BY <1>0 DEF Starting
<1>2. walk = <<>> /\ visited = {} /\ held = [b \in Blocks |-> <<>>] /\ fn \in Functions
  BY <1>1 DEF Shape, EarlyPart, FnPart
<1>3. /\ \A a : Kids(a)' = Kids(a) /\ EndOf(a)' = EndOf(a)
      /\ Blocks' = Blocks /\ variables' = variables
  BY <1>1, FixedFn DEF Kids, EndOf, phiVars, variables
<1>4. /\ EntryBlock \in Blocks /\ Frame(EntryBlock).block = EntryBlock /\ Frame(EntryBlock).pc = 0
      /\ Frame(EntryBlock).pushed = <<>> /\ Frame(EntryBlock).todo = Kids(EntryBlock)
  BY <1>1, <1>2, FnState, FrameFacts DEF Kids
<1>5. HeldInv'
  <2>1. \A b \in Blocks : Len(held[b]) = 0
    BY <1>2
  <2> QED
    BY <2>1, <1>1, <1>2, <1>3 DEF HeldInv, HeldLength
<1>6. VisitedInv'
  BY <1>1, <1>2, <1>3 DEF VisitedInv
<1>7. FramesInv'
  <2>1. CASE variables = {}
    BY <2>1, <1>1, <1>2 DEF FramesInv
  <2>2. CASE variables # {}
    <3> PICK fr : fr = Frame(EntryBlock)
      OBVIOUS
    <3> PICK t : t = walk'
      OBVIOUS
    <3>4. t = <<fr>>
      BY <2>2, <1>1
    <3>5. DOMAIN t = {1} /\ t[1] = fr /\ Len(t) = 1
      BY <3>4
    <3>6. 1..(1 - 1) = {}
      OBVIOUS
    <3>1. DOMAIN walk' = {1} /\ walk'[1] = fr /\ Len(walk') = 1 /\ 1..(Len(walk') - 1) = {}
      BY <3>5, <3>6
    <3>2. 0 <= EndOf(EntryBlock)
      <4> PICK cs : cs = fn.code[EntryBlock]
        OBVIOUS
      <4> PICK ss : ss = fn.succ[EntryBlock]
        OBVIOUS
      <4>1. cs \in Seq(Instruction(fn.regs)) /\ ss \in Seq(Blocks)
        BY <1>2, <1>4, FnState
      <4>2. Len(cs) \in Nat /\ Len(ss) \in Nat
        BY <4>1
      <4>3. 0 <= Len(cs) + Len(ss) + 1
        BY ONLY <4>2
      <4>4. EndOf(EntryBlock) = Len(cs) + Len(ss) + 1
        BY DEF EndOf
      <4> QED
        BY <4>3, <4>4
    <3>3. FrameInv(1)'
      BY <3>1, <3>2, <1>1, <1>2, <1>3, <1>4 DEF FrameInv
    <3> QED
      BY <3>1, <3>3, <1>4 DEF FramesInv
  <2> QED
    BY <2>1, <2>2
<1> QED
  BY <1>5, <1>6, <1>7 DEF WalkInv

LEMMA WalkStays ==
  ASSUME Shape, WalkInv, UNCHANGED <<fn, walk, visited, held, variableInfo>>,
         \/ stage' = stage
         \/ /\ stage \in {"cleanup", "mark", "run", "rejected"}
            /\ stage' \in {"cleanup", "mark", "run", "rejected"}
  PROVE  WalkInv'
<1>1. /\ \A a : Kids(a)' = Kids(a) /\ EndOf(a)' = EndOf(a)
      /\ Blocks' = Blocks /\ variables' = variables /\ Top' = Top
      /\ \A b : HeldLength(b)' = HeldLength(b)
  BY FixedFn DEF Kids, EndOf, variables, Top, HeldLength
<1>2. FramesInv'
  BY <1>1 DEF WalkInv, FramesInv, FrameInv, PathInv
<1>3. \A a, c : WaitingFor(a, c)' <=> WaitingFor(a, c)
  BY <1>1 DEF WaitingFor
<1>4. VisitedInv'
  BY <1>1, <1>3 DEF WalkInv, VisitedInv
<1> QED
  BY <1>1, <1>2, <1>4 DEF WalkInv, HeldInv

LEMMA WalkIdentify == Shape /\ IdentifyVariables => WalkInv'
<1> SUFFICES ASSUME Shape, IdentifyVariables PROVE WalkInv'
  OBVIOUS
<1>1. stage = "variables" /\ stage' = "phis" /\ UNCHANGED <<fn, walk, visited, held>>
  BY DEF IdentifyVariables, renameVars
<1>2. walk = <<>> /\ visited = {} /\ held = [b \in Blocks |-> <<>>]
  BY <1>1 DEF Shape, EarlyPart
<1>3. Blocks' = Blocks
  BY <1>1, FixedFn
<1>4. \A b \in Blocks : Len(held[b]) = 0
  BY <1>2
<1> QED
  BY <1>1, <1>2, <1>3, <1>4 DEF WalkInv, FramesInv, VisitedInv, HeldInv, HeldLength

LEMMA WalkInit == Init => WalkInv
BY DEF Init, WalkInv, FramesInv, VisitedInv, HeldInv, HeldLength, variables, Blocks

LEMMA WalkStep == Shape /\ WalkInv /\ [Next]_vars => WalkInv'
<1> SUFFICES ASSUME Shape, WalkInv, [Next]_vars PROVE WalkInv'
  OBVIOUS
<1>1. CASE StartVariable \/ SpreadPhis
  <2>1. UNCHANGED <<fn, stage, walk, visited, held, variableInfo>>
    BY <1>1 DEF StartVariable, SpreadPhis, renameVars
  <2> QED
    BY <2>1, WalkStays
<1>2. CASE CleanUnreachable
  <2>1. UNCHANGED <<fn, walk, visited, held, variableInfo>> /\ stage = "cleanup" /\ stage' = "mark"
    BY <1>2, Zenon DEF CleanUnreachable, phiVars
  <2> QED
    BY <2>1, WalkStays
<1>3. CASE MarkPhi \/ Execute \/ TakeEdge \/ Stopped \/ UNCHANGED vars
  <2>1. UNCHANGED <<fn, stage, walk, visited, held, variableInfo>>
    BY <1>3, Zenon DEF MarkPhi, Execute, TakeEdge, Stopped, vars, phiVars, renameVars
  <2> QED
    BY <2>1, WalkStays
<1>4. CASE SweepPhis
  <2>1. UNCHANGED <<fn, walk, visited, held, variableInfo>> /\ stage = "mark" /\ stage' \in {"run", "rejected"}
    BY <1>4 DEF SweepPhis, phiVars, renameVars
  <2> QED
    BY <2>1, WalkStays
<1> QED
  BY <1>1, <1>2, <1>3, <1>4, WalkIdentify, WalkStart, WalkAdvance, WalkVisit, WalkLeave DEF Next

----------------------------------------------------------------------------
(* The stacks: what the frames pushed, frame by frame.                     *)
Hits(s, v) == {j \in DOMAIN s : s[j] = v}
PushSet(w, f, v) == UNION {{<<g, k>> : k \in Hits(w[g].pushed, v)} : g \in 1..f}
Base(v) == IF EntryBlock \in variableInfo[v].defBlocks THEN 0 ELSE 1
Height(w, f, v) == Base(v) + Cardinality(PushSet(w, f, v))

LEMMA HitsFacts ==
  ASSUME NEW T, NEW s \in Seq(T), NEW v
  PROVE  /\ IsFiniteSet(Hits(s, v)) /\ Times(s, v) = Cardinality(Hits(s, v)) /\ Times(s, v) \in Nat
         /\ s = <<>> => Times(s, v) = 0
<1>1. IsFiniteSet(Hits(s, v)) /\ Times(s, v) = Cardinality(Hits(s, v)) /\ Times(s, v) \in Nat
  BY TimesFacts DEF Hits, Times
<1>2. s = <<>> => Hits(s, v) = {}
  BY DEF Hits
<1> QED
  BY <1>1, <1>2, FS_EmptySet

LEMMA TimesAppend ==
  ASSUME NEW T, NEW s \in Seq(T), NEW x \in T, NEW v
  PROVE  Times(Append(s, x), v) = IF x = v THEN Times(s, v) + 1 ELSE Times(s, v)
<1> PICK t : t = Append(s, x)
  OBVIOUS
<1>1. DOMAIN s = 1..Len(s) /\ Len(s) \in Nat /\ DOMAIN t = 1..(Len(s) + 1) /\ t[Len(s) + 1] = x
      /\ \A k \in 1..Len(s) : t[k] = s[k]
  OBVIOUS
<1>2. Len(s) + 1 \notin 1..Len(s) /\ 1..(Len(s) + 1) = 1..Len(s) \cup {Len(s) + 1}
  BY <1>1
<1>3. IsFiniteSet(Hits(s, v)) /\ Times(s, v) = Cardinality(Hits(s, v)) /\ Times(t, v) = Cardinality(Hits(t, v))
  BY HitsFacts DEF Times, Hits
<1>4. CASE x = v
  <2>1. Hits(t, v) = Hits(s, v) \cup {Len(s) + 1} /\ Len(s) + 1 \notin Hits(s, v)
    BY <1>1, <1>2, <1>4 DEF Hits
  <2> QED
    BY <2>1, <1>3, <1>4, FS_AddElement
<1>5. CASE x # v
  <2>1. Hits(t, v) = Hits(s, v)
    BY <1>1, <1>2, <1>5 DEF Hits
  <2> QED
    BY <2>1, <1>3, <1>5
<1> QED
  BY <1>4, <1>5

LEMMA PushSetFacts ==
  ASSUME NEW w, NEW f \in Nat, NEW V, \A g \in 1..f : w[g].pushed \in Seq(V), NEW v
  PROVE  IsFiniteSet(PushSet(w, f, v)) /\ Cardinality(PushSet(w, f, v)) \in Nat
<1> DEFINE part(g) == {<<g, k>> : k \in Hits(w[g].pushed, v)}
           parts == {part(g) : g \in 1..f}
<1>1. \A g \in 1..f : IsFiniteSet(part(g))
  <2> TAKE g \in 1..f
  <2> PICK s : s = w[g].pushed
    OBVIOUS
  <2>1. s \in Seq(V)
    OBVIOUS
  <2>2. IsFiniteSet({g} \X Hits(s, v))
    BY <2>1, HitsFacts, FS_Singleton, FS_Product
  <2>3. {g} \X Hits(s, v) = part(g)
    OBVIOUS
  <2> QED
    BY <2>2, <2>3
<1>2. IsFiniteSet(parts)
  <2> DEFINE map == [g \in 1..f |-> part(g)]
  <2>1. map \in Surjection(1..f, parts)
    BY DEF Surjection
  <2>2. IsFiniteSet(1..f)
    <3>1. 1 \in Int /\ f \in Int
      OBVIOUS
    <3> QED
      BY <3>1, FS_Interval
  <2> HIDE DEF map, parts
  <2> QED
    BY <2>1, <2>2, FS_Surjection
<1>3. \A T \in parts : IsFiniteSet(T)
  BY <1>1
<1>4. PushSet(w, f, v) = UNION parts
  BY DEF PushSet
<1> HIDE DEF parts
<1> QED
  BY <1>2, <1>3, <1>4, FS_UNION, FS_CardinalityType

LEMMA PushSetGrows ==
  ASSUME NEW w, NEW f \in Nat, NEW V, \A g \in 1..(f + 1) : w[g].pushed \in Seq(V), NEW v
  PROVE  Cardinality(PushSet(w, f + 1, v)) = Cardinality(PushSet(w, f, v)) + Times(w[f + 1].pushed, v)
<1> PICK s : s = w[f + 1].pushed
  OBVIOUS
<1> PICK A : A = PushSet(w, f, v)
  OBVIOUS
<1> DEFINE B == {f + 1} \X Hits(s, v)
<1>1. 1..(f + 1) = 1..f \cup {f + 1} /\ f + 1 \notin 1..f /\ f + 1 \in 1..(f + 1)
  OBVIOUS
<1>2. PushSet(w, f + 1, v) = A \cup B
  BY <1>1 DEF PushSet
<1>3. A \cap B = {}
  BY <1>1 DEF PushSet
<1>4. s \in Seq(V) /\ IsFiniteSet(A) /\ Cardinality(A) \in Nat
  BY <1>1, PushSetFacts
<1>5. IsFiniteSet(Hits(s, v)) /\ Times(s, v) = Cardinality(Hits(s, v)) /\ Times(s, v) \in Nat
  BY <1>4, HitsFacts
<1>6. IsFiniteSet(B) /\ Cardinality(B) = Times(s, v)
  <2>1. IsFiniteSet({f + 1}) /\ Cardinality({f + 1}) = 1
    BY FS_Singleton
  <2>2. IsFiniteSet(B) /\ Cardinality(B) = Cardinality({f + 1}) * Cardinality(Hits(s, v))
    BY <2>1, <1>5, FS_Product
  <2> QED
    BY <2>1, <2>2, <1>5
<1>7. Cardinality(A \cap B) = 0
  BY <1>3, FS_EmptySet
<1>8. Cardinality(A \cup B) = Cardinality(A) + Cardinality(B) - Cardinality(A \cap B)
  BY <1>4, <1>6, FS_Union
<1>9. Cardinality(A \cup B) = Cardinality(A) + Times(s, v) - 0
  <2> HIDE DEF B
  <2> QED
    BY <1>6, <1>7, <1>8
<1> PICK a : a = Cardinality(A)
  OBVIOUS
<1> PICK t : t = Times(s, v)
  OBVIOUS
<1>10. a \in Nat /\ t \in Nat
  BY <1>4, <1>5
<1>11. a + t - 0 = a + t
  BY ONLY <1>10
<1>12. Cardinality(PushSet(w, f + 1, v)) = a + t - 0
  BY <1>2, <1>9
<1> QED
  BY <1>11, <1>12

LEMMA PushSetSame ==
  ASSUME NEW w, NEW u, NEW f, \A g \in 1..f : w[g].pushed = u[g].pushed, NEW v
  PROVE  PushSet(w, f, v) = PushSet(u, f, v)
BY DEF PushSet

(* The height below the last frame, and what the last frame adds.          *)
LEMMA TopHeight ==
  ASSUME NEW w, NEW n \in Nat \ {0}, NEW V, \A g \in 1..n : w[g].pushed \in Seq(V), NEW v,
         NEW h, h = Height(w, n - 1, v)
  PROVE  h \in Nat /\ Height(w, n, v) = h + Times(w[n].pushed, v) /\ Times(w[n].pushed, v) \in Nat
<1> PICK f : f = n - 1
  OBVIOUS
<1>1. f \in Nat /\ n = f + 1 /\ n \in 1..n /\ \A g \in 1..f : g \in 1..n
  OBVIOUS
<1>2. Cardinality(PushSet(w, f, v)) \in Nat
  BY <1>1, PushSetFacts
<1>3. \A g \in 1..(f + 1) : w[g].pushed \in Seq(V)
  BY <1>1
<1>4. Cardinality(PushSet(w, f + 1, v)) = Cardinality(PushSet(w, f, v)) + Times(w[f + 1].pushed, v)
  BY ONLY <1>1, <1>3, PushSetGrows
<1>5. Times(w[n].pushed, v) \in Nat
  <2> PICK s : s = w[n].pushed
    OBVIOUS
  <2>1. s \in Seq(V)
    BY <1>1
  <2> QED
    BY <2>1, HitsFacts
<1>6. Base(v) \in Nat
  BY DEF Base
<1>7. Height(w, n, v) = Base(v) + (Cardinality(PushSet(w, f, v)) + Times(w[n].pushed, v))
  BY <1>1, <1>4 DEF Height
<1>8. h = Base(v) + Cardinality(PushSet(w, f, v))
  BY DEF Height
<1> QED
  BY <1>2, <1>5, <1>6, <1>7, <1>8

(* Room: the definitions renaming has passed and the phis of the blocks it *)
(* has entered.                                                            *)
Done(v) == {q \in DefinitionsOf(v) : q[2] < Len(held[q[1]])}
Hers(v) == {p \in DOMAIN phis : phis[p].var = v}
Entered(v) == {p \in Hers(v) : phis[p].block \in visited}

StackInv ==
  /\ stage \in {"rename", "cleanup"} =>
       \A v \in variables :
         /\ Len(regStack[v]) = Height(walk, Len(walk), v)
         /\ Len(regStack[v]) <= Base(v) + Cardinality(Entered(v)) + Cardinality(Done(v))
  /\ stage \notin {"mark", "run", "rejected"} =>
       \A b \in Blocks : \A i \in DOMAIN fn.code[b] : Len(held[b]) <= i => code[b][i] = fn.code[b][i]

LEMMA RoomFacts ==
  ASSUME Shape, NEW v \in variables
  PROVE  /\ IsFiniteSet(Hers(v)) /\ Cardinality(Hers(v)) \in Nat
         /\ IsFiniteSet(DefinitionsOf(v)) /\ Cardinality(DefinitionsOf(v)) \in Nat
         /\ Entered(v) \subseteq Hers(v) /\ IsFiniteSet(Entered(v)) /\ Cardinality(Entered(v)) \in Nat
         /\ Done(v) \subseteq DefinitionsOf(v) /\ IsFiniteSet(Done(v)) /\ Cardinality(Done(v)) \in Nat
         /\ Cardinality(Entered(v)) <= Cardinality(Hers(v)) /\ Cardinality(Done(v)) <= Cardinality(DefinitionsOf(v))
         /\ StackCap(v) = Cardinality(DefinitionsOf(v)) + Cardinality(Hers(v)) + 1
         /\ Base(v) \in 0..1
<1>1. /\ variableInfo[v].definitionCount = Cardinality(DefinitionsOf(v))
      /\ IsFiniteSet(DefinitionsOf(v))
  BY DefBlocksFacts
<1>2. Hers(v) \in SUBSET DOMAIN phis
  BY DEF Hers
<1>3. IsFiniteSet(Hers(v))
  BY <1>2, PhisAreFinite
<1>4. Entered(v) \subseteq Hers(v) /\ Done(v) \subseteq DefinitionsOf(v)
  BY DEF Entered, Done
<1>5. /\ IsFiniteSet(Entered(v)) /\ Cardinality(Entered(v)) <= Cardinality(Hers(v))
      /\ IsFiniteSet(Done(v)) /\ Cardinality(Done(v)) <= Cardinality(DefinitionsOf(v))
  BY <1>1, <1>3, <1>4, FS_Subset
<1>6. StackCap(v) = Cardinality(DefinitionsOf(v)) + Cardinality(Hers(v)) + 1
  BY <1>1 DEF StackCap, Hers
<1>7. Base(v) \in 0..1
  BY DEF Base
<1> QED
  BY <1>1, <1>3, <1>4, <1>5, <1>6, <1>7, FS_CardinalityType

LEMMA TopAfter ==
  ASSUME Shape, Renaming, NEW fr \in Frames, walk' = Append(Front(walk), fr), NEW n, n = Len(walk)
  PROVE  /\ n \in Nat \ {0} /\ Len(walk') = n /\ walk'[n] = fr /\ \A k \in 1..(n - 1) : walk'[k] = walk[k]
         /\ DOMAIN walk = 1..n /\ walk[n] = Top /\ \A k \in 1..n : walk[k] \in Frames /\ walk'[k] \in Frames
<1>2. n \in Nat \ {0} /\ DOMAIN walk = 1..n /\ Top = walk[n] /\ walk # <<>> /\ walk \in Seq(Frames)
  BY TopFacts
<1> PICK w : w = walk
  OBVIOUS
<1> PICK t : t = walk'
  OBVIOUS
<1> PICK F : F = Frames
  OBVIOUS
<1>3. w \in Seq(F) /\ w # <<>> /\ t = Append(Front(w), fr) /\ n = Len(w) /\ fr \in F
  BY <1>2
<1>4. Len(t) = n
  BY ONLY <1>3, SetLast
<1>5. t[n] = fr
  BY ONLY <1>3, SetLast
<1>6. \A k \in 1..(n - 1) : t[k] = w[k]
  BY ONLY <1>3, SetLast
<1>7. \A k \in 1..n : w[k] \in F
  BY <1>3
<1>8. \A k \in 1..n : k = n \/ k \in 1..(n - 1)
  BY ONLY <1>2
<1> QED
  BY <1>2, <1>3, <1>4, <1>5, <1>6, <1>7, <1>8

LEMMA HeightAfter ==
  ASSUME Shape, Renaming, NEW fr \in Frames, walk' = Append(Front(walk), fr), variableInfo' = variableInfo,
         NEW v \in variables
  PROVE  \E h \in Nat : /\ Height(walk, Len(walk), v) = h + Times(Top.pushed, v) /\ Times(Top.pushed, v) \in Nat
                        /\ Height(walk, Len(walk), v)' = h + Times(fr.pushed, v) /\ Times(fr.pushed, v) \in Nat
<1> PICK n : n = Len(walk)
  OBVIOUS
<1> PICK w : w = walk
  OBVIOUS
<1> PICK t : t = walk'
  OBVIOUS
<1> PICK V : V = variables
  OBVIOUS
<1> PICK m : m = n - 1
  OBVIOUS
<1>0. PICK h : h = Height(w, m, v)
  OBVIOUS
<1>1. /\ n \in Nat \ {0} /\ Len(t) = n /\ t[n] = fr /\ \A k \in 1..(n - 1) : t[k] = w[k]
      /\ w[n] = Top /\ \A k \in 1..n : w[k] \in Frames /\ t[k] \in Frames
  BY TopAfter
<1>2. \A k \in 1..n : w[k].pushed \in Seq(V) /\ t[k].pushed \in Seq(V)
  BY <1>1 DEF Frames
<1>3. h = Height(t, m, v)
  <2>1. \A g \in 1..m : t[g].pushed = w[g].pushed
    BY <1>1
  <2>2. PushSet(t, m, v) = PushSet(w, m, v)
    BY ONLY <2>1, PushSetSame
  <2> QED
    BY <2>2, <1>0 DEF Height
<1>9. n \in Nat \ {0} /\ m = n - 1 /\ h = Height(w, m, v) /\ h = Height(t, m, v)
  BY <1>0, <1>1, <1>3
<1>4. h \in Nat
  BY ONLY <1>9, <1>2, TopHeight
<1>5. Height(w, n, v) = h + Times(w[n].pushed, v) /\ Times(w[n].pushed, v) \in Nat
  <2>1. Height(w, n, v) = h + Times(w[n].pushed, v)
    BY ONLY <1>9, <1>2, TopHeight
  <2>2. Times(w[n].pushed, v) \in Nat
    BY ONLY <1>9, <1>2, TopHeight
  <2> QED
    BY <2>1, <2>2
<1>6. Height(t, n, v) = h + Times(t[n].pushed, v) /\ Times(t[n].pushed, v) \in Nat
  <2>1. Height(t, n, v) = h + Times(t[n].pushed, v)
    BY ONLY <1>9, <1>2, TopHeight
  <2>2. Times(t[n].pushed, v) \in Nat
    BY ONLY <1>9, <1>2, TopHeight
  <2> QED
    BY <2>1, <2>2
<1>7. Base(v)' = Base(v)
  BY DEF Base
<1>8. Height(walk, Len(walk), v)' = Height(t, n, v)
  BY <1>1, <1>7 DEF Height
<1> QED
  BY <1>1, <1>4, <1>5, <1>6, <1>8

(* A block pushes each phi of its own once.                                *)
ListsVars(pushed, mine) ==
  /\ DOMAIN pushed = 1..Cardinality(mine)
  /\ \A k \in DOMAIN pushed : InOrder(mine)[k] \in mine /\ pushed[k] = phis[InOrder(mine)[k]].var
EachOnce(pushed, mine, v) ==
  /\ (\A p \in mine : phis[p].var # v) => Times(pushed, v) = 0
  /\ \A p \in mine : phis[p].var = v => Times(pushed, v) = 1

LEMMA EnteredOnce ==
  ASSUME Shape, NEW b \in Blocks, NEW mine, mine = PhisOf(b), NEW v, NEW pushed, ListsVars(pushed, mine)
  PROVE  EachOnce(pushed, mine, v)
<1>0. /\ DOMAIN pushed = 1..Cardinality(mine)
      /\ \A k \in DOMAIN pushed : InOrder(mine)[k] \in mine /\ pushed[k] = phis[InOrder(mine)[k]].var
  BY DEF ListsVars
<1>1. mine \in SUBSET DOMAIN phis
  BY DEF PhisOf
<1>2. IsFiniteSet(mine) /\ mine \in SUBSET Nat
  BY <1>1, PhisAreFinite
<1>3. Times(pushed, v) = Cardinality(Hits(pushed, v))
  BY DEF Times, Hits
<1>4. ASSUME \A p \in mine : phis[p].var # v PROVE Times(pushed, v) = 0
  <2>1. Hits(pushed, v) = {}
    BY <1>0, <1>4 DEF Hits
  <2> QED
    BY <2>1, <1>3, FS_EmptySet
<1>5. ASSUME NEW p \in mine, phis[p].var = v PROVE Times(pushed, v) = 1
  <2>1. Rank(p, mine) \in DOMAIN pushed /\ InOrder(mine)[Rank(p, mine)] = p
    BY <1>0, <1>2, InOrderFacts
  <2>2. \A k \in DOMAIN pushed : Rank(InOrder(mine)[k], mine) = k
    BY <1>0, <1>2, InOrderFacts
  <2>3. \A q \in mine : phis[q].var = v => q = p
    <3>1. \A q \in mine : q \in DOMAIN phis /\ phis[q].block = b
      BY DEF PhisOf
    <3> QED
      BY <3>1, <1>5, PhiTyped
  <2>4. Hits(pushed, v) = {Rank(p, mine)}
    <3>1. \A k \in Hits(pushed, v) : k \in DOMAIN pushed /\ InOrder(mine)[k] = p
      BY <1>0, <2>3 DEF Hits
    <3>2. Rank(p, mine) \in Hits(pushed, v)
      BY <1>0, <2>1, <1>5 DEF Hits
    <3> QED
      BY <3>1, <3>2, <2>2
  <2> QED
    BY <2>4, <1>3, FS_Singleton
<1> QED
  BY <1>4, <1>5 DEF EachOnce

LEMMA StackEnter == Shape /\ WalkInv /\ StackInv /\ EnterBlock => StackInv'
<1> SUFFICES ASSUME Shape, WalkInv, StackInv, EnterBlock PROVE StackInv'
  OBVIOUS
<1> PICK b : b = Top.block
  OBVIOUS
<1> PICK mine : mine = PhisOf(b)
  OBVIOUS
<1>0. Entering(b, mine)
  BY EnterFacts
<1>1. /\ Renaming /\ Top.pc = 0 /\ b \in Blocks /\ mine \subseteq DOMAIN phis
      /\ visited' = visited \cup {b} /\ Remember /\ regStack' \in [variables -> Seq(Nat)]
      /\ UNCHANGED <<fn, stage, tree, phiVars, undefs, code>>
      /\ DOMAIN phis' = DOMAIN phis
      /\ \A p \in DOMAIN phis : phis'[p] = IF p \in mine THEN [phis[p] EXCEPT !.result = Allocated(Rank(p, mine))]
                                                         ELSE phis[p]
  BY <1>0 DEF Entering
<1>2. PICK pushed \in Seq(variables) :
        /\ walk' = Append(Front(walk), [Top EXCEPT !.pc = 1, !.pushed = pushed])
        /\ DOMAIN pushed = 1..Cardinality(mine)
        /\ \A k \in DOMAIN pushed : InOrder(mine)[k] \in mine /\ pushed[k] = phis[InOrder(mine)[k]].var
  BY <1>0, Zenon DEF Entering
<1> PICK fr : fr = [Top EXCEPT !.pc = 1, !.pushed = pushed]
  OBVIOUS
<1>3. /\ Top \in Frames /\ fn \in Functions /\ regStack \in [variables -> Seq(Nat)] /\ stage = "rename"
      /\ Top = walk[Len(walk)] /\ Len(walk) \in DOMAIN walk
  <2> PICK n : n = Len(walk)
    OBVIOUS
  <2>1. n \in Nat \ {0} /\ DOMAIN walk = 1..n /\ Top = walk[n]
    BY <1>1, TopFacts
  <2>2. n \in 1..n
    BY <2>1
  <2> QED
    BY <2>1, <2>2, <1>1, TopFacts
<1>4. fr \in Frames /\ fr.pushed = pushed /\ walk' = Append(Front(walk), fr)
  BY <1>2, <1>3 DEF Frames
<1>5. Top.pushed = <<>> /\ b \notin visited
  <2>1. FrameInv(Len(walk))
    BY <1>3 DEF WalkInv, FramesInv
  <2>2. ~(Top.pc > 0)
    BY <1>1
  <2> QED
    BY <2>1, <2>2, <1>1, <1>3 DEF FrameInv
<1>6. /\ variables' = variables /\ variableInfo' = variableInfo /\ Blocks' = Blocks
      /\ \A v : DefinitionsOf(v)' = DefinitionsOf(v)
      /\ \A v : Base(v)' = Base(v)
  BY <1>1, FixedFn DEF phiVars, variables, Base
<1>7. /\ Len(held'[b]) = 1 /\ Len(held[b]) = 0 /\ \A c \in Blocks \ {b} : held'[c] = held[c]
  <2>1. Len(held[b]) = 0
    BY <1>1, <1>5 DEF WalkInv, HeldInv, HeldLength
  <2>2. Len(held'[b]) = Len(held[b]) + 1 /\ \A c \in Blocks \ {b} : held'[c] = held[c]
    BY <1>1, <1>6, HeldGrows
  <2> QED
    BY <2>1, <2>2
<1>8. ASSUME NEW b2 \in Blocks, NEW i \in DOMAIN fn.code[b2], Len(held'[b2]) <= i PROVE code'[b2][i] = fn.code[b2][i]
  <2>1. i \in Nat
    <3> PICK cs : cs = fn.code[b2]
      OBVIOUS
    <3>1. cs \in Seq(Instruction(fn.regs))
      BY <1>3, FnState
    <3>2. i \in 1..Len(cs) /\ Len(cs) \in Nat
      BY <3>1
    <3> QED
      BY <3>2
  <2>2. Len(held[b2]) <= i
    BY <2>1, <1>7, <1>8
  <2> QED
    BY <2>2, <1>1, <1>3 DEF StackInv
<1>9. ASSUME NEW v \in variables
      PROVE  /\ Len(regStack'[v]) = Height(walk, Len(walk), v)'
             /\ Len(regStack'[v]) <= Base(v) + Cardinality(Entered(v)') + Cardinality(Done(v)')
  <2> PICK base : base = Base(v)
    OBVIOUS
  <2> PICK e : e = Cardinality(Entered(v))
    OBVIOUS
  <2> PICK d : d = Cardinality(Done(v))
    OBVIOUS
  <2> PICK len : len = Len(regStack[v])
    OBVIOUS
  <2>1. PICK h \in Nat : /\ Height(walk, Len(walk), v) = h + Times(Top.pushed, v)
                         /\ Height(walk, Len(walk), v)' = h + Times(pushed, v)
    BY <1>1, <1>4, <1>6, HeightAfter, ZenonT(40)
  <2>2. Times(Top.pushed, v) = 0
    BY <1>5, FS_EmptySet DEF Times
  <2>3. len = Height(walk, Len(walk), v) /\ len <= base + e + d
    BY <1>3 DEF StackInv
  <2>4. len = h
    BY <2>1, <2>2, <2>3
  <2>5. base \in 0..1 /\ e \in Nat /\ d \in Nat
    BY RoomFacts
  <2>6. Done(v)' = Done(v)
    <3>1. \A q \in DefinitionsOf(v) : q[2] < Len(held'[q[1]]) <=> q[2] < Len(held[q[1]])
      <4> TAKE q \in DefinitionsOf(v)
      <4>1. q[1] \in Blocks /\ q[2] \in DOMAIN fn.code[q[1]]
        BY DEF DefinitionsOf, Places
      <4>2. q[2] \in Nat \ {0}
        <5> PICK cs : cs = fn.code[q[1]]
          OBVIOUS
        <5>1. cs \in Seq(Instruction(fn.regs))
          BY <4>1, <1>3, FnState
        <5>2. q[2] \in 1..Len(cs) /\ Len(cs) \in Nat
          BY <4>1, <5>1
        <5> QED
          BY <5>2
      <4>3. CASE q[1] = b
        BY <4>2, <4>3, <1>7
      <4>4. CASE q[1] # b
        BY <4>1, <4>4, <1>7
      <4> QED
        BY <4>3, <4>4
    <3> QED
      BY <3>1, <1>6 DEF Done
  <2>7. Hers(v)' = Hers(v) /\ Entered(v)' = Entered(v) \cup {p \in mine : phis[p].var = v}
    <3>1. \A p \in DOMAIN phis : phis'[p].var = phis[p].var /\ phis'[p].block = phis[p].block
      BY <1>1, PhiTyped DEF PhiRecords
    <3>2. Hers(v)' = Hers(v)
      BY <3>1, <1>1 DEF Hers
    <3> QED
      BY <3>1, <3>2, <1>1 DEF Entered, Hers, PhisOf
  <2>10. /\ (\A p \in mine : phis[p].var # v) => Times(pushed, v) = 0
         /\ \A p \in mine : phis[p].var = v => Times(pushed, v) = 1
    <3>1. ListsVars(pushed, mine)
      BY <1>2 DEF ListsVars
    <3>2. EachOnce(pushed, mine, v)
      BY <1>1, <3>1, EnteredOnce
    <3> QED
      BY <3>2 DEF EachOnce
  <2>8. CASE \A p \in mine : phis[p].var # v
    <3>1. regStack'[v] = regStack[v]
      BY <2>8, <1>0 DEF Entering
    <3>2. Times(pushed, v) = 0
      BY <2>8, <2>10
    <3>3. Entered(v)' = Entered(v)
      BY <2>7, <2>8
    <3>4. Height(walk, Len(walk), v)' = h
      BY <2>1, <3>2
    <3> QED
      BY <3>1, <3>3, <3>4, <2>3, <2>4, <2>6
  <2>9. CASE \E p \in mine : phis[p].var = v
    <3>1. PICK p \in mine : phis[p].var = v
      BY <2>9
    <3> PICK r : r = Allocated(Rank(p, mine))
      OBVIOUS
    <3>2. regStack'[v] = Push(regStack, v, r)[v] /\ r \in Nat
      BY <3>1, <1>0 DEF Entering
    <3>3. Times(pushed, v) = 1
      BY <3>1, <2>10
    <3>4. p \notin Entered(v) /\ p \in Hers(v) /\ phis[p].block = b
      BY <3>1, <1>1, <1>5 DEF Entered, Hers, PhisOf
    <3>5. {q \in mine : phis[q].var = v} = {p}
      <4>1. \A q \in mine : q \in DOMAIN phis /\ phis[q].block = b
        BY DEF PhisOf
      <4> QED
        BY <4>1, <3>1, PhiTyped
    <3>6. /\ Cardinality(Entered(v)') = e + 1
          /\ e + 1 <= Cardinality(Hers(v))
      <4> PICK E : E = Entered(v)
        OBVIOUS
      <4>1. E \cup {p} \subseteq Hers(v) /\ p \notin E /\ IsFiniteSet(E) /\ IsFiniteSet(Hers(v))
        BY <3>4, RoomFacts
      <4>2. Cardinality(E \cup {p}) = Cardinality(E) + 1
        BY <4>1, FS_AddElement
      <4>3. Cardinality(E \cup {p}) <= Cardinality(Hers(v))
        BY <4>1, FS_Subset
      <4>4. Entered(v)' = E \cup {p}
        BY <2>7, <3>5
      <4> QED
        BY <4>2, <4>3, <4>4
    <3>7. len < StackCap(v)
      <4> PICK c : c = Cardinality(DefinitionsOf(v))
        OBVIOUS
      <4> PICK k : k = Cardinality(Hers(v))
        OBVIOUS
      <4>1. StackCap(v) = c + k + 1 /\ c \in Nat /\ k \in Nat /\ d <= c
        BY RoomFacts
      <4>2. e + 1 <= k
        BY <3>6
      <4>3. len \in Nat
        BY <2>4
      <4>4. len < c + k + 1
        BY ONLY <4>1, <4>2, <4>3, <2>3, <2>5
      <4> QED
        BY <4>1, <4>4
    <3>8. regStack'[v] = Append(regStack[v], r)
      <4>1. Len(regStack[v]) < StackCap(v)
        BY <3>7
      <4> QED
        BY <3>2, <4>1, <1>3 DEF Push
    <3>9. Len(regStack'[v]) = len + 1
      <4> PICK s : s = regStack[v]
        OBVIOUS
      <4>1. s \in Seq(Nat)
        BY <1>3
      <4>2. Len(Append(s, r)) = Len(s) + 1
        BY <4>1, <3>2
      <4> QED
        BY <4>2, <3>8
    <3>10. Height(walk, Len(walk), v)' = h + 1
      BY <2>1, <3>3
    <3>11. len + 1 <= base + (e + 1) + d
      BY ONLY <2>3, <2>4, <2>5
    <3> QED
      BY <3>6, <3>9, <3>10, <3>11, <2>4, <2>6
  <2> QED
    BY <2>8, <2>9
<1>10. /\ \A v \in variables' : /\ Len(regStack'[v]) = Height(walk, Len(walk), v)'
                                /\ Len(regStack'[v]) <= Base(v)' + Cardinality(Entered(v)') + Cardinality(Done(v)')
  BY <1>6, <1>9
<1>11. \A b2 \in Blocks' : \A i \in DOMAIN fn'.code[b2] : Len(held'[b2]) <= i => code'[b2][i] = fn'.code[b2][i]
  BY <1>1, <1>6, <1>8
<1> QED
  BY <1>10, <1>11 DEF StackInv

(* A definition is passed once, and its push fits.                         *)
LEMMA StackRename == Shape /\ WalkInv /\ StackInv /\ RenameInstruction => StackInv'
<1> SUFFICES ASSUME Shape, WalkInv, StackInv, RenameInstruction PROVE StackInv'
  OBVIOUS
<1> PICK b : b = Top.block
  OBVIOUS
<1> PICK pc : pc = Top.pc
  OBVIOUS
<1> PICK ins : ins = code[b][pc]
  OBVIOUS
<1>0. Rewriting(b, pc, ins)
  BY RewriteFacts
<1>1. /\ Renaming /\ b \in Blocks /\ pc \in DOMAIN code[b] /\ Remember /\ regStack' \in [variables -> Seq(Nat)]
      /\ code' = [code EXCEPT ![b][pc] = Rewritten(ins)]
      /\ regStack' = IF Tracked(ins) THEN Push(regStack, ins.dest, Value(ins)) ELSE regStack
      /\ Tracked(ins) => ins.dest \in variables /\ Value(ins) \in Nat
      /\ UNCHANGED <<fn, stage, tree, phiVars, phis, undefs, visited>>
  BY <1>0 DEF Rewriting
<1>2. PICK pushed \in Seq(variables) :
        /\ walk' = Append(Front(walk), [Top EXCEPT !.pc = pc + 1, !.pushed = pushed])
        /\ pushed = IF Tracked(ins) THEN Append(Top.pushed, ins.dest) ELSE Top.pushed
  BY <1>0, Zenon DEF Rewriting
<1> PICK fr : fr = [Top EXCEPT !.pc = pc + 1, !.pushed = pushed]
  OBVIOUS
<1>3. /\ Top \in Frames /\ fn \in Functions /\ regStack \in [variables -> Seq(Nat)] /\ stage = "rename" /\ pc \in Nat
      /\ Top = walk[Len(walk)] /\ Len(walk) \in DOMAIN walk /\ walk # <<>>
      /\ Len(fn.code[b]) \in Nat /\ DOMAIN code[b] = 1..Len(fn.code[b]) /\ DOMAIN fn.code[b] = DOMAIN code[b]
  <2> PICK n : n = Len(walk)
    OBVIOUS
  <2>1. n \in Nat \ {0} /\ DOMAIN walk = 1..n /\ Top = walk[n]
    BY <1>1, TopFacts
  <2>2. n \in 1..n
    BY <2>1
  <2> QED
    BY <2>1, <2>2, <1>1, TopFacts
<1>4. fr \in Frames /\ fr.pushed = pushed /\ walk' = Append(Front(walk), fr)
  <2> PICK k : k = pc + 1
    OBVIOUS
  <2>1. k \in Nat
    BY <1>3
  <2>2. fr = [Top EXCEPT !.pc = k, !.pushed = pushed]
    OBVIOUS
  <2> QED
    BY <2>1, <2>2, <1>2, <1>3 DEF Frames
<1>5. pc \in 1..Len(fn.code[b]) /\ pc > 0 /\ pc <= Len(fn.code[b])
  BY <1>1, <1>3
<1>6. Len(held[b]) = pc
  <2>1. b \in visited
    BY <1>3, <1>5 DEF WalkInv, FramesInv, FrameInv
  <2> QED
    BY <2>1, <1>1, <1>3, <1>5 DEF WalkInv, HeldInv, HeldLength
<1>7. /\ variables' = variables /\ variableInfo' = variableInfo /\ Blocks' = Blocks
      /\ \A v : DefinitionsOf(v)' = DefinitionsOf(v)
      /\ \A v : Base(v)' = Base(v) /\ Entered(v)' = Entered(v)
  BY <1>1, FixedFn DEF phiVars, variables, Base, Entered, Hers
<1>8. Len(held'[b]) = pc + 1 /\ \A c \in Blocks \ {b} : held'[c] = held[c]
  <2>1. Len(held'[b]) = Len(held[b]) + 1 /\ \A c \in Blocks \ {b} : held'[c] = held[c]
    BY <1>1, <1>7, HeldGrows
  <2> QED
    BY <2>1, <1>6
<1>9. ins = fn.code[b][pc]
  <2>1. pc \in DOMAIN fn.code[b] /\ Len(held[b]) <= pc
    BY <1>1, <1>3, <1>6
  <2>2. code[b][pc] = fn.code[b][pc]
    BY <2>1, <1>1, <1>3 DEF StackInv
  <2> QED
    BY <2>2
<1>10. ASSUME NEW b2 \in Blocks, NEW i \in DOMAIN fn.code[b2], Len(held'[b2]) <= i PROVE code'[b2][i] = fn.code[b2][i]
  <2>1. CASE b2 = b
    <3>1. i \in Nat
      BY <2>1, <1>3
    <3>2. pc + 1 <= i
      BY <2>1, <1>8, <1>10
    <3>3. pc <= i /\ i # pc
      BY ONLY <3>1, <3>2, <1>3
    <3>4. code'[b2][i] = code[b2][i]
      BY <2>1, <3>3, <1>1, <1>10, <1>3 DEF Shape, CodePart
    <3> QED
      BY <2>1, <3>3, <3>4, <1>6, <1>1, <1>3 DEF StackInv
  <2>2. CASE b2 # b
    <3>1. code'[b2] = code[b2] /\ held'[b2] = held[b2]
      BY <2>2, <1>1, <1>8 DEF Shape, CodePart
    <3> QED
      BY <3>1, <1>10, <1>3 DEF StackInv
  <2> QED
    BY <2>1, <2>2
<1>11. ASSUME NEW v \in variables
       PROVE  /\ Len(regStack'[v]) = Height(walk, Len(walk), v)'
              /\ Len(regStack'[v]) <= Base(v) + Cardinality(Entered(v)) + Cardinality(Done(v)')
  <2> PICK base : base = Base(v)
    OBVIOUS
  <2> PICK e : e = Cardinality(Entered(v))
    OBVIOUS
  <2> PICK d : d = Cardinality(Done(v))
    OBVIOUS
  <2> PICK len : len = Len(regStack[v])
    OBVIOUS
  <2>1. PICK h \in Nat : /\ Height(walk, Len(walk), v) = h + Times(Top.pushed, v) /\ Times(Top.pushed, v) \in Nat
                         /\ Height(walk, Len(walk), v)' = h + Times(pushed, v)
    <3>1. Shape /\ Renaming /\ fr \in Frames /\ walk' = Append(Front(walk), fr) /\ variableInfo' = variableInfo
      BY <1>1, <1>4, <1>7
    <3>2. \E h \in Nat : /\ Height(walk, Len(walk), v) = h + Times(Top.pushed, v) /\ Times(Top.pushed, v) \in Nat
                        /\ Height(walk, Len(walk), v)' = h + Times(fr.pushed, v) /\ Times(fr.pushed, v) \in Nat
      BY ONLY <3>1, <1>11, HeightAfter
    <3> QED
      BY <3>2, <1>4
  <2>3. len = Height(walk, Len(walk), v) /\ len <= base + e + d
    BY <1>3 DEF StackInv
  <2>4. len = h + Times(Top.pushed, v) /\ len \in Nat
    BY <2>1, <2>3
  <2>5. base \in 0..1 /\ e \in Nat /\ d \in Nat
    BY RoomFacts
  <2>6. \A q \in DefinitionsOf(v) : /\ q[1] \in Blocks /\ q[2] \in Nat
                                    /\ q = <<q[1], q[2]>>
                                    /\ (q # <<b, pc>> => (q[2] < Len(held'[q[1]]) <=> q[2] < Len(held[q[1]])))
    <3> TAKE q \in DefinitionsOf(v)
    <3>1. q[1] \in Blocks /\ q[2] \in DOMAIN fn.code[q[1]] /\ q = <<q[1], q[2]>>
      BY DEF DefinitionsOf, Places
    <3>2. q[2] \in Nat
      <4> PICK cs : cs = fn.code[q[1]]
        OBVIOUS
      <4>1. cs \in Seq(Instruction(fn.regs))
        BY <3>1, <1>3, FnState
      <4>2. q[2] \in 1..Len(cs) /\ Len(cs) \in Nat
        BY <3>1, <4>1
      <4> QED
        BY <4>2
    <3>3. CASE q[1] = b
      <4> PICK k : k = q[2]
        OBVIOUS
      <4>1. k # pc => (k < pc + 1 <=> k < pc)
        BY <3>2, <1>3
      <4> QED
        BY <3>1, <3>2, <3>3, <4>1, <1>6, <1>8
    <3>4. CASE q[1] # b
      BY <3>1, <3>2, <3>4, <1>8
    <3> QED
      BY <3>3, <3>4
  <2>7. CASE ~(Tracked(ins) /\ ins.dest = v)
    <3>1. regStack'[v] = regStack[v]
      <4> PICK V : V = variables
        OBVIOUS
      <4> PICK x : x = ins.dest
        OBVIOUS
      <4> PICK r : r = Value(ins)
        OBVIOUS
      <4>1. CASE ~Tracked(ins)
        BY <4>1, <1>1
      <4>2. CASE Tracked(ins)
        <5>1. regStack \in [V -> Seq(Nat)] /\ x \in V /\ r \in Nat /\ v \in V \ {x}
          BY <4>2, <2>7, <1>1, <1>3, Zenon
        <5>2. Push(regStack, x, r)[v] = regStack[v]
          BY <5>1, Zenon DEF Push
        <5> QED
          BY <4>2, <5>1, <5>2, <1>1
      <4> QED
        BY <4>1, <4>2
    <3>2. Times(pushed, v) = Times(Top.pushed, v)
      <4> PICK s : s = Top.pushed
        OBVIOUS
      <4> PICK V : V = variables
        OBVIOUS
      <4>1. s \in Seq(V)
        BY <1>3 DEF Frames
      <4>2. CASE ~Tracked(ins)
        BY <4>2, <1>2
      <4>3. CASE Tracked(ins)
        <5> PICK x : x = ins.dest
          OBVIOUS
        <5>1. x \in V /\ x # v /\ pushed = Append(s, x)
          BY <4>3, <2>7, <1>1, <1>2, Zenon
        <5>2. Times(Append(s, x), v) = IF x = v THEN Times(s, v) + 1 ELSE Times(s, v)
          BY ONLY <4>1, <5>1, TimesAppend
        <5> QED
          BY <5>1, <5>2
      <4> QED
        BY <4>2, <4>3
    <3>3. <<b, pc>> \notin DefinitionsOf(v)
      BY <2>7, <1>9 DEF Tracked, DefinitionsOf
    <3>4. Done(v)' = Done(v)
      BY <2>6, <3>3, <1>7 DEF Done
    <3> QED
      BY <3>1, <3>2, <3>4, <2>1, <2>3
  <2>8. CASE Tracked(ins) /\ ins.dest = v
    <3> PICK r : r = Value(ins)
      OBVIOUS
    <3>1. regStack'[v] = Push(regStack, v, r)[v] /\ r \in Nat
      BY <2>8, <1>1
    <3>2. Times(pushed, v) = Times(Top.pushed, v) + 1
      <4> PICK s : s = Top.pushed
        OBVIOUS
      <4> PICK V : V = variables
        OBVIOUS
      <4>1. s \in Seq(V) /\ v \in V
        BY <1>3 DEF Frames
      <4>2. Times(Append(s, v), v) = IF v = v THEN Times(s, v) + 1 ELSE Times(s, v)
        BY ONLY <4>1, TimesAppend
      <4> QED
        BY <4>2, <2>8, <1>2
    <3>3. <<b, pc>> \in DefinitionsOf(v)
      <4>1. b \in Blocks /\ pc \in DOMAIN fn.code[b] /\ <<b, pc>> \in Places
        BY <1>1, <1>3 DEF Places
      <4>2. Defines(fn.code[b][pc]) /\ fn.code[b][pc].dest = v
        BY <2>8, <1>9 DEF Tracked
      <4> QED
        BY <4>1, <4>2 DEF DefinitionsOf
    <3>4. Done(v)' = Done(v) \cup {<<b, pc>>} /\ <<b, pc>> \notin Done(v)
      <4>1. pc < Len(held'[b]) /\ ~(pc < Len(held[b]))
        BY <1>3, <1>6, <1>8
      <4>2. <<b, pc>> \notin Done(v)
        BY <4>1 DEF Done
      <4>3. \A q \in DefinitionsOf(v) : q = <<b, pc>> => q[2] < Len(held'[q[1]])
        BY <4>1
      <4>4. Done(v)' = {q \in DefinitionsOf(v) : q[2] < Len(held'[q[1]])}
        BY <1>7 DEF Done
      <4>5. \A q \in DefinitionsOf(v) : q \in Done(v)' <=> q = <<b, pc>> \/ q \in Done(v)
        BY <2>6, <4>3, <4>4 DEF Done
      <4>6. Done(v)' \subseteq DefinitionsOf(v) /\ Done(v) \subseteq DefinitionsOf(v)
        BY <4>4 DEF Done
      <4> QED
        BY <4>2, <4>5, <4>6, <3>3
    <3>6. Cardinality(Done(v)') = d + 1 /\ d + 1 <= Cardinality(DefinitionsOf(v))
      <4> PICK D : D = Done(v)
        OBVIOUS
      <4> PICK x : x = <<b, pc>>
        OBVIOUS
      <4>1. D \cup {x} \subseteq DefinitionsOf(v) /\ x \notin D /\ IsFiniteSet(D) /\ IsFiniteSet(DefinitionsOf(v))
        BY <3>3, <3>4, RoomFacts
      <4>2. Cardinality(D \cup {x}) = Cardinality(D) + 1
        BY <4>1, FS_AddElement
      <4>3. Cardinality(D \cup {x}) <= Cardinality(DefinitionsOf(v))
        BY <4>1, FS_Subset
      <4> QED
        BY <4>2, <4>3, <3>4
    <3>7. len < StackCap(v)
      <4> PICK c : c = Cardinality(DefinitionsOf(v))
        OBVIOUS
      <4> PICK k : k = Cardinality(Hers(v))
        OBVIOUS
      <4>1. StackCap(v) = c + k + 1 /\ c \in Nat /\ k \in Nat /\ e <= k
        BY RoomFacts
      <4>2. d + 1 <= c
        BY <3>6
      <4>4. len < c + k + 1
        BY ONLY <4>1, <4>2, <2>3, <2>4, <2>5
      <4> QED
        BY <4>1, <4>4
    <3>8. regStack'[v] = Append(regStack[v], r)
      <4>1. Len(regStack[v]) < StackCap(v)
        BY <3>7
      <4> QED
        BY <3>1, <4>1, <1>3 DEF Push
    <3>9. Len(regStack'[v]) = len + 1
      <4> PICK s : s = regStack[v]
        OBVIOUS
      <4>1. s \in Seq(Nat)
        BY <1>3
      <4>2. Len(Append(s, r)) = Len(s) + 1
        BY <4>1, <3>1
      <4> QED
        BY <4>2, <3>8
    <3>10. Height(walk, Len(walk), v)' = len + 1
      <4> PICK t : t = Times(Top.pushed, v)
        OBVIOUS
      <4>1. t \in Nat /\ len = h + t
        BY <2>1, <2>4
      <4>2. h + (t + 1) = len + 1
        BY ONLY <4>1, <2>1
      <4> QED
        BY <4>2, <3>2, <2>1
    <3>11. len + 1 <= base + e + (d + 1)
      BY ONLY <2>3, <2>4, <2>5
    <3> QED
      BY <3>6, <3>9, <3>10, <3>11
  <2> QED
    BY <2>7, <2>8
<1>12. \A v \in variables' : /\ Len(regStack'[v]) = Height(walk, Len(walk), v)'
                             /\ Len(regStack'[v]) <= Base(v)' + Cardinality(Entered(v)') + Cardinality(Done(v)')
  BY <1>7, <1>11
<1>13. \A b2 \in Blocks' : \A i \in DOMAIN fn'.code[b2] : Len(held'[b2]) <= i => code'[b2][i] = fn'.code[b2][i]
  BY <1>1, <1>7, <1>10
<1> QED
  BY <1>12, <1>13 DEF StackInv

(* The rest of the walk: operands are filled, a child is entered, a block  *)
(* is left.                                                                *)
LEMMA FillKeepsRoom ==
  ASSUME UNCHANGED <<fn, variableInfo, visited, held, regStack, code>>, DOMAIN phis' = DOMAIN phis,
         \A p \in DOMAIN phis : phis'[p].var = phis[p].var /\ phis'[p].block = phis[p].block
  PROVE  /\ variables' = variables /\ Blocks' = Blocks
         /\ \A v : Base(v)' = Base(v) /\ Entered(v)' = Entered(v) /\ Done(v)' = Done(v)
<1>1. variables' = variables /\ Blocks' = Blocks /\ \A v : DefinitionsOf(v)' = DefinitionsOf(v)
  BY FixedFn DEF variables
<1>2. \A v : Hers(v)' = Hers(v)
  BY DEF Hers
<1>3. \A v : Entered(v)' = Entered(v)
  BY <1>2 DEF Entered, Hers
<1> QED
  BY <1>1, <1>3 DEF Base, Done

LEMMA StackFill == Shape /\ WalkInv /\ StackInv /\ FillSuccessor => StackInv'
<1> SUFFICES ASSUME Shape, WalkInv, StackInv, FillSuccessor PROVE StackInv'
  OBVIOUS
<1> PICK b : b = Top.block
  OBVIOUS
<1> PICK s : s = fn.succ[b][SuccessorIndex]
  OBVIOUS
<1> PICK fed : fed = PhisOf(s)
  OBVIOUS
<1> PICK bare : bare = {p \in fed : regStack[phis[p].var] = <<>>}
  OBVIOUS
<1>0. Filling(b, s, fed, bare)
  BY FillFacts
<1>1. /\ Renaming /\ phis' = [p \in DOMAIN phis |-> phis'[p]] /\ fed \subseteq DOMAIN phis
      /\ \A p \in DOMAIN phis \ fed : phis'[p] = phis[p]
      /\ \A p \in fed : \E x : phis'[p] = [phis[p] EXCEPT !.values = x]
      /\ UNCHANGED <<fn, stage, variableInfo, visited, held, regStack, code>>
  BY <1>0, Zenon DEF Filling, phiVars
<1>2. PICK k : walk' = Append(Front(walk), [Top EXCEPT !.pc = k]) /\ k = Top.pc + 1
  BY <1>0 DEF Filling
<1> PICK fr : fr = [Top EXCEPT !.pc = k]
  OBVIOUS
<1>3. Top \in Frames /\ Top.pc \in Nat /\ stage = "rename"
  BY <1>1, TopFacts
<1>4. fr \in Frames /\ fr.pushed = Top.pushed /\ walk' = Append(Front(walk), fr)
  <2>1. k \in Nat
    BY <1>2, <1>3
  <2>2. fr = [Top EXCEPT !.pc = k]
    OBVIOUS
  <2> QED
    BY <2>1, <2>2, <1>2, <1>3 DEF Frames
<1>5. DOMAIN phis' = DOMAIN phis /\ \A p \in DOMAIN phis : phis'[p].var = phis[p].var /\ phis'[p].block = phis[p].block
  <2>1. DOMAIN phis' = DOMAIN phis
    BY <1>1
  <2>2. ASSUME NEW p \in DOMAIN phis PROVE phis'[p].var = phis[p].var /\ phis'[p].block = phis[p].block
    <3>1. phis[p] \in PhiRecords
      BY PhiTyped
    <3>2. CASE p \in fed
      BY <3>1, <3>2, <1>1 DEF PhiRecords
    <3>3. CASE p \notin fed
      BY <3>3, <1>1
    <3> QED
      BY <3>2, <3>3
  <2> QED
    BY <2>1, <2>2
<1>6. /\ variables' = variables /\ Blocks' = Blocks
      /\ \A v : Base(v)' = Base(v) /\ Entered(v)' = Entered(v) /\ Done(v)' = Done(v)
  BY <1>1, <1>5, FillKeepsRoom
<1>7. ASSUME NEW v \in variables PROVE Height(walk, Len(walk), v)' = Height(walk, Len(walk), v)
  <2>1. Shape /\ Renaming /\ fr \in Frames /\ walk' = Append(Front(walk), fr) /\ variableInfo' = variableInfo
    BY <1>1, <1>4
  <2>2. \E h \in Nat : /\ Height(walk, Len(walk), v) = h + Times(Top.pushed, v) /\ Times(Top.pushed, v) \in Nat
                      /\ Height(walk, Len(walk), v)' = h + Times(fr.pushed, v) /\ Times(fr.pushed, v) \in Nat
    BY ONLY <2>1, <1>7, HeightAfter
  <2> QED
    BY <2>2, <1>4
<1>8. \A v \in variables : Len(regStack[v]) = Height(walk, Len(walk), v)
                           /\ Len(regStack[v]) <= Base(v) + Cardinality(Entered(v)) + Cardinality(Done(v))
  BY <1>3 DEF StackInv
<1>9. \A b2 \in Blocks : \A i \in DOMAIN fn.code[b2] : Len(held[b2]) <= i => code[b2][i] = fn.code[b2][i]
  BY <1>3 DEF StackInv
<1>10. \A v \in variables' : /\ Len(regStack'[v]) = Height(walk, Len(walk), v)'
                             /\ Len(regStack'[v]) <= Base(v)' + Cardinality(Entered(v)') + Cardinality(Done(v)')
  BY <1>1, <1>6, <1>7, <1>8
<1>11. \A b2 \in Blocks' : \A i \in DOMAIN fn'.code[b2] : Len(held'[b2]) <= i => code'[b2][i] = fn'.code[b2][i]
  BY <1>1, <1>6, <1>9
<1> QED
  BY <1>10, <1>11 DEF StackInv

LEMMA StackVisit == Shape /\ WalkInv /\ StackInv /\ VisitChild => StackInv'
<1> SUFFICES ASSUME Shape, WalkInv, StackInv, VisitChild PROVE StackInv'
  OBVIOUS
<1> PICK b : b = Top.block
  OBVIOUS
<1> PICK child : child = Least(Top.todo)
  OBVIOUS
<1> PICK left : left = [Top EXCEPT !.todo = @ \ {child}]
  OBVIOUS
<1> PICK n : n = Len(walk)
  OBVIOUS
<1> PICK w : w = walk
  OBVIOUS
<1> PICK t : t = walk'
  OBVIOUS
<1>0. Visiting(b, child)
  BY VisitFacts
<1>1. /\ Renaming /\ child \in Blocks
      /\ t = Front(walk) \o <<left, Frame(child)>> /\ left \in Frames /\ Frame(child) \in Frames
      /\ UNCHANGED <<fn, stage, phis, variableInfo, visited, held, regStack, code>>
  BY <1>0 DEF Visiting, phiVars
<1>2. /\ n \in Nat \ {0} /\ DOMAIN w = 1..n /\ Top = w[n] /\ w # <<>> /\ w \in Seq(Frames) /\ stage = "rename"
      /\ Top \in Frames /\ fn \in Functions
  BY <1>1, TopFacts
<1>3. Len(t) = n + 1 /\ t[n + 1] = Frame(child) /\ t[n] = left /\ \A k \in 1..(n - 1) : t[k] = w[k]
  <2> PICK F : F = Frames
    OBVIOUS
  <2> PICK y : y = Frame(child)
    OBVIOUS
  <2>0. w \in Seq(F) /\ w # <<>> /\ left \in F /\ y \in F /\ t = Front(w) \o <<left, y>> /\ n = Len(w)
    BY <1>1, <1>2
  <2>1. Extended(t, w, left, y)
    BY ONLY <2>0, AddFrame
  <2> QED
    BY <2>0, <2>1 DEF Extended
<1>4. left.pushed = Top.pushed /\ Frame(child).pushed = <<>>
  BY <1>2 DEF Frame, Frames
<1>5. \A g \in 1..n : t[g].pushed = w[g].pushed
  <2>1. \A g \in 1..n : g = n \/ g \in 1..(n - 1)
    BY ONLY <1>2
  <2> QED
    BY <2>1, <1>2, <1>3, <1>4
<1>6. /\ variables' = variables /\ Blocks' = Blocks
      /\ \A v : Base(v)' = Base(v) /\ Entered(v)' = Entered(v) /\ Done(v)' = Done(v)
  BY <1>1, FillKeepsRoom
<1>7. ASSUME NEW v \in variables PROVE Height(walk, Len(walk), v)' = Height(walk, Len(walk), v)
  <2> PICK V : V = variables
    OBVIOUS
  <2>1. \A g \in 1..(n + 1) : t[g].pushed \in Seq(V)
    <3>1. \A g \in 1..(n + 1) : g = n + 1 \/ g \in 1..n
      BY ONLY <1>2
    <3>2. \A g \in 1..n : w[g].pushed \in Seq(V)
      <4>1. \A g \in 1..n : w[g] \in Frames
        BY <1>2
      <4> QED
        BY <4>1 DEF Frames
    <3>3. t[n + 1].pushed = <<>>
      BY <1>3, <1>4
    <3>4. <<>> \in Seq(V)
      OBVIOUS
    <3>5. \A g \in 1..n : t[g].pushed \in Seq(V)
      BY <3>2, <1>5
    <3> QED
      BY <3>1, <3>3, <3>4, <3>5
  <2>2. n \in Nat
    BY <1>2
  <2>3. Cardinality(PushSet(t, n + 1, v)) = Cardinality(PushSet(t, n, v)) + Times(t[n + 1].pushed, v)
    BY ONLY <2>1, <2>2, PushSetGrows
  <2>4. Times(t[n + 1].pushed, v) = 0
    <3> PICK e : e = t[n + 1].pushed
      OBVIOUS
    <3>1. e = <<>> /\ e \in Seq(V)
      BY <1>3, <1>4
    <3> QED
      BY <3>1, HitsFacts
  <2>5. PushSet(t, n, v) = PushSet(w, n, v)
    BY ONLY <1>5, PushSetSame
  <2>6. Cardinality(PushSet(t, n, v)) \in Nat
    <3>1. \A g \in 1..n : t[g].pushed \in Seq(V)
      <4>1. \A g \in 1..n : g \in 1..(n + 1)
        BY ONLY <2>2
      <4> QED
        BY <4>1, <2>1
    <3> QED
      BY ONLY <3>1, <2>2, PushSetFacts
  <2>7. Cardinality(PushSet(t, n + 1, v)) = Cardinality(PushSet(w, n, v))
    <3> PICK a : a = Cardinality(PushSet(t, n, v))
      OBVIOUS
    <3>1. a + 0 = a
      BY <2>6
    <3> QED
      BY <3>1, <2>3, <2>4, <2>5
  <2>8. Height(walk, Len(walk), v)' = Height(t, n + 1, v)
    BY <1>3, <1>6 DEF Height
  <2> QED
    BY <2>7, <2>8 DEF Height
<1>8. \A v \in variables : Len(regStack[v]) = Height(walk, Len(walk), v)
                           /\ Len(regStack[v]) <= Base(v) + Cardinality(Entered(v)) + Cardinality(Done(v))
  BY <1>2 DEF StackInv
<1>9. \A b2 \in Blocks : \A i \in DOMAIN fn.code[b2] : Len(held[b2]) <= i => code[b2][i] = fn.code[b2][i]
  BY <1>2 DEF StackInv
<1>10. \A v \in variables' : /\ Len(regStack'[v]) = Height(walk, Len(walk), v)'
                             /\ Len(regStack'[v]) <= Base(v)' + Cardinality(Entered(v)') + Cardinality(Done(v)')
  BY <1>1, <1>6, <1>7, <1>8
<1>11. \A b2 \in Blocks' : \A i \in DOMAIN fn'.code[b2] : Len(held'[b2]) <= i => code'[b2][i] = fn'.code[b2][i]
  BY <1>1, <1>6, <1>9
<1> QED
  BY <1>10, <1>11 DEF StackInv

LEMMA PopLength ==
  ASSUME NEW T, NEW s \in Seq(T), NEW h \in Nat, NEW k \in Nat, Len(s) = h + k
  PROVE  Len(SubSeq(s, 1, Len(s) - k)) = h
<1>1. Len(s) - k = h
  OBVIOUS
<1>2. Len(SubSeq(s, 1, h)) = h
  OBVIOUS
<1> QED
  BY <1>1, <1>2

LEMMA StackLeave == Shape /\ WalkInv /\ StackInv /\ LeaveBlock => StackInv'
<1> SUFFICES ASSUME Shape, WalkInv, StackInv, LeaveBlock PROVE StackInv'
  OBVIOUS
<1> PICK b : b = Top.block
  OBVIOUS
<1> PICK n : n = Len(walk)
  OBVIOUS
<1> PICK m : m = n - 1
  OBVIOUS
<1> PICK w : w = walk
  OBVIOUS
<1> PICK t : t = walk'
  OBVIOUS
<1>0. Leaving(b)
  BY LeaveFacts
<1>1. /\ Renaming /\ t = Front(walk)
      /\ regStack' = [v \in variables |-> SubSeq(regStack[v], 1, Len(regStack[v]) - Times(Top.pushed, v))]
      /\ stage' \in {stage, "cleanup"}
      /\ UNCHANGED <<fn, phis, variableInfo, visited, held, code>>
  BY <1>0 DEF Leaving, phiVars
<1>2. /\ n \in Nat \ {0} /\ DOMAIN w = 1..n /\ Top = w[n] /\ w # <<>> /\ w \in Seq(Frames) /\ stage = "rename"
      /\ regStack \in [variables -> Seq(Nat)]
  BY <1>1, TopFacts
<1>3. Len(t) = m /\ \A k \in 1..m : t[k] = w[k]
  <2>0. w \in Seq(Frames) /\ w # <<>> /\ t = Front(w) /\ n = Len(w) /\ m = n - 1
    BY <1>1, <1>2
  <2>2. Len(t) = m
    BY ONLY <2>0, FrontFacts
  <2>3. \A k \in 1..m : t[k] = w[k]
    BY ONLY <2>0, FrontFacts
  <2> QED
    BY <2>2, <2>3
<1>6. /\ variables' = variables /\ Blocks' = Blocks
      /\ \A v : Base(v)' = Base(v) /\ Entered(v)' = Entered(v) /\ Done(v)' = Done(v)
  <2>1. /\ variables' = variables /\ Blocks' = Blocks
        /\ \A v : DefinitionsOf(v)' = DefinitionsOf(v) /\ Hers(v)' = Hers(v)
    BY <1>1, FixedFn DEF variables, Hers
  <2> QED
    BY <1>1, <2>1 DEF Base, Done, Entered
<1>8. \A v \in variables : Len(regStack[v]) = Height(walk, Len(walk), v)
                           /\ Len(regStack[v]) <= Base(v) + Cardinality(Entered(v)) + Cardinality(Done(v))
  BY <1>2 DEF StackInv
<1>9. \A b2 \in Blocks : \A i \in DOMAIN fn.code[b2] : Len(held[b2]) <= i => code[b2][i] = fn.code[b2][i]
  BY <1>2 DEF StackInv
<1>7. ASSUME NEW v \in variables
      PROVE  /\ Len(regStack'[v]) = Height(walk, Len(walk), v)'
             /\ Len(regStack'[v]) <= Base(v) + Cardinality(Entered(v)) + Cardinality(Done(v))
  <2> PICK V : V = variables
    OBVIOUS
  <2>0. PICK h : h = Height(w, m, v)
    OBVIOUS
  <2> PICK k : k = Times(w[n].pushed, v)
    OBVIOUS
  <2> PICK s : s = regStack[v]
    OBVIOUS
  <2>1. \A g \in 1..n : w[g].pushed \in Seq(V)
    <3>1. \A g \in 1..n : w[g] \in Frames
      BY <1>2
    <3> QED
      BY <3>1 DEF Frames
  <2>2. n \in Nat \ {0} /\ m = n - 1 /\ h = Height(w, m, v)
    BY <1>2, <2>0
  <2>3. h \in Nat
    BY ONLY <2>1, <2>2, TopHeight
  <2>4. Height(w, n, v) = h + Times(w[n].pushed, v) /\ Times(w[n].pushed, v) \in Nat
    <3>1. Height(w, n, v) = h + Times(w[n].pushed, v)
      BY ONLY <2>1, <2>2, TopHeight
    <3>2. Times(w[n].pushed, v) \in Nat
      BY ONLY <2>1, <2>2, TopHeight
    <3> QED
      BY <3>1, <3>2
  <2>5. s \in Seq(Nat) /\ Len(s) = h + k /\ k \in Nat
    BY <1>2, <1>8, <2>4
  <2>6. Len(SubSeq(s, 1, Len(s) - k)) = h
    BY ONLY <2>3, <2>5, PopLength
  <2>7. regStack'[v] = SubSeq(s, 1, Len(s) - k)
    BY <1>1, <1>2
  <2>8. Height(walk, Len(walk), v)' = Height(t, m, v)
    BY <1>3, <1>6 DEF Height
  <2>9. Height(t, m, v) = h
    <3>1. \A g \in 1..m : t[g].pushed = w[g].pushed
      BY <1>3
    <3>2. PushSet(t, m, v) = PushSet(w, m, v)
      BY ONLY <3>1, PushSetSame
    <3> QED
      BY <3>2, <2>0 DEF Height
  <2>10. h <= Base(v) + Cardinality(Entered(v)) + Cardinality(Done(v))
    <3> PICK base : base = Base(v)
      OBVIOUS
    <3> PICK e : e = Cardinality(Entered(v))
      OBVIOUS
    <3> PICK d : d = Cardinality(Done(v))
      OBVIOUS
    <3>1. base \in 0..1 /\ e \in Nat /\ d \in Nat
      BY RoomFacts
    <3>2. h + k <= base + e + d
      BY <1>8, <2>5
    <3>3. h <= base + e + d
      BY ONLY <3>1, <3>2, <2>3, <2>5
    <3> QED
      BY <3>3
  <2> QED
    BY <2>6, <2>7, <2>8, <2>9, <2>10
<1>10. \A v \in variables' : /\ Len(regStack'[v]) = Height(walk, Len(walk), v)'
                             /\ Len(regStack'[v]) <= Base(v)' + Cardinality(Entered(v)') + Cardinality(Done(v)')
  BY <1>6, <1>7
<1>11. \A b2 \in Blocks' : \A i \in DOMAIN fn'.code[b2] : Len(held'[b2]) <= i => code'[b2][i] = fn'.code[b2][i]
  BY <1>1, <1>6, <1>9
<1> QED
  BY <1>10, <1>11 DEF StackInv

LEMMA StackStart == Shape /\ StackInv /\ InsertUndefs => StackInv'
<1> SUFFICES ASSUME Shape, StackInv, InsertUndefs PROVE StackInv'
  OBVIOUS
<1> PICK bare : bare = {v \in variables : EntryBlock \notin variableInfo[v].defBlocks}
  OBVIOUS
<1>0. Starting(bare)
  BY StartingFacts
<1>1. /\ stage = "phis" /\ UNCHANGED <<fn, tree, variableInfo, phis, visited, held, code>>
      /\ \A v \in variables : regStack'[v] = IF v \in bare THEN <<Allocated(Rank(v, bare))>> ELSE <<>>
      /\ IF variables = {} THEN stage' = "mark" ELSE stage' = "rename" /\ walk' = <<Frame(EntryBlock)>>
  BY <1>0 DEF Starting, phiVars
<1>2. visited = {} /\ held = [b \in Blocks |-> <<>>] /\ code = fn.code /\ fn \in Functions
  BY <1>1 DEF Shape, EarlyPart, FnPart
<1>3. Blocks' = Blocks /\ variables' = variables /\ \A v : DefinitionsOf(v)' = DefinitionsOf(v) /\ Base(v)' = Base(v)
  BY <1>1, FixedFn DEF variables, Base
<1>4. ASSUME NEW v \in variables
      PROVE  /\ Len(regStack'[v]) = Height(walk, Len(walk), v)'
             /\ Len(regStack'[v]) <= Base(v)' + Cardinality(Entered(v)') + Cardinality(Done(v)')
  <2>1. Len(regStack'[v]) = Base(v) /\ Base(v) \in Nat
    <3>1. v \in bare <=> EntryBlock \notin variableInfo[v].defBlocks
      BY <1>0 DEF Starting
    <3>2. Base(v) = IF v \in bare THEN 1 ELSE 0
      BY <3>1 DEF Base
    <3> PICK r : r = Allocated(Rank(v, bare))
      OBVIOUS
    <3> PICK t : t = regStack'[v]
      OBVIOUS
    <3>3. t = IF v \in bare THEN <<r>> ELSE <<>>
      BY <1>1
    <3>4. Len(t) = IF v \in bare THEN 1 ELSE 0
      BY ONLY <3>3
    <3> QED
      BY <3>2, <3>4
  <2>2. Entered(v)' = {}
    BY <1>1, <1>2 DEF Entered
  <2>3. Done(v)' = {}
    <3>1. \A q \in DefinitionsOf(v) : ~(q[2] < Len(held[q[1]]))
      <4> TAKE q \in DefinitionsOf(v)
      <4>1. q[1] \in Blocks /\ q[2] \in DOMAIN fn.code[q[1]]
        BY DEF DefinitionsOf, Places
      <4>2. q[2] \in Nat
        <5> PICK cs : cs = fn.code[q[1]]
          OBVIOUS
        <5>1. cs \in Seq(Instruction(fn.regs))
          BY <4>1, <1>2, FnState
        <5>2. q[2] \in 1..Len(cs) /\ Len(cs) \in Nat
          BY <4>1, <5>1
        <5> QED
          BY <5>2
      <4>3. Len(held[q[1]]) = 0
        BY <4>1, <1>2
      <4> QED
        BY <4>2, <4>3
    <3> QED
      BY <3>1, <1>1, <1>3 DEF Done
  <2>4. walk' = <<Frame(EntryBlock)>>
    BY <1>1
  <2>5. Height(walk, Len(walk), v)' = Base(v)
    <3> PICK t : t = walk'
      OBVIOUS
    <3>1. Len(t) = 1 /\ t[1].pushed = <<>> /\ 1..1 = {1}
      BY <2>4 DEF Frame
    <3>2. Hits(t[1].pushed, v) = {}
      BY <3>1 DEF Hits
    <3>3. PushSet(t, 1, v) = {}
      BY <3>1, <3>2 DEF PushSet
    <3>4. Height(t, 1, v)' = Base(v)' + 0
      BY <3>3, FS_EmptySet DEF Height
    <3>5. Height(walk, Len(walk), v)' = Base(v)' + Cardinality(PushSet(t, 1, v))
      BY <3>1 DEF Height
    <3>6. Cardinality(PushSet(t, 1, v)) = 0
      BY <3>3, FS_EmptySet
    <3> QED
      BY <3>5, <3>6, <1>3, <2>1
  <2>6. Cardinality(Entered(v)') = 0 /\ Cardinality(Done(v)') = 0
    BY <2>2, <2>3, FS_EmptySet
  <2> QED
    BY <2>1, <2>5, <2>6, <1>3
<1>5. \A b2 \in Blocks' : \A i \in DOMAIN fn'.code[b2] : Len(held'[b2]) <= i => code'[b2][i] = fn'.code[b2][i]
  BY <1>1, <1>2
<1>6. stage' \in {"rename", "cleanup"} => \A v \in variables' : /\ Len(regStack'[v]) = Height(walk, Len(walk), v)'
                             /\ Len(regStack'[v]) <= Base(v)' + Cardinality(Entered(v)') + Cardinality(Done(v)')
  BY <1>3, <1>4
<1> QED
  BY <1>5, <1>6 DEF StackInv

LEMMA StackEarly ==
  ASSUME stage' \in {"variables", "phis"}, code' = fn'.code PROVE StackInv'
BY DEF StackInv

LEMMA StackLate ==
  ASSUME stage' \in {"mark", "run", "rejected"} PROVE StackInv'
BY DEF StackInv

LEMMA StackStep == Shape /\ WalkInv /\ StackInv /\ [Next]_vars => StackInv'
<1> SUFFICES ASSUME Shape, WalkInv, StackInv, [Next]_vars PROVE StackInv'
  OBVIOUS
<1>1. CASE IdentifyVariables \/ StartVariable \/ SpreadPhis
  <2>1. stage \in {"variables", "phis"} /\ stage' = "phis" /\ UNCHANGED <<fn, code>>
    BY <1>1 DEF IdentifyVariables, StartVariable, SpreadPhis, renameVars
  <2> QED
    BY <2>1, StackEarly DEF Shape, EarlyPart
<1>2. CASE CleanUnreachable \/ MarkPhi \/ SweepPhis \/ Execute \/ TakeEdge
  <2>1. stage' \in {"mark", "run", "rejected"}
    BY <1>2, Zenon DEF CleanUnreachable, MarkPhi, SweepPhis, Execute, TakeEdge, Running
  <2> QED
    BY <2>1, StackLate
<1>3. CASE Stopped \/ UNCHANGED vars
  <2>1. UNCHANGED vars
    BY <1>3 DEF Stopped
  <2>2. UNCHANGED <<fn, stage, variableInfo, phis, regStack, walk, visited, code, held>>
    BY <2>1 DEF vars, phiVars, renameVars
  <2>3. /\ Blocks' = Blocks /\ variables' = variables /\ \A v : DefinitionsOf(v)' = DefinitionsOf(v)
        /\ \A v : Base(v)' = Base(v)
    BY <2>2, FixedFn DEF variables, Base
  <2>4. \A v : Height(walk, Len(walk), v)' = Height(walk, Len(walk), v) /\ Entered(v)' = Entered(v) /\ Done(v)' = Done(v)
    BY <2>2, <2>3 DEF Height, Entered, Hers, Done
  <2> QED
    BY <2>2, <2>3, <2>4 DEF StackInv
<1> QED
  BY <1>1, <1>2, <1>3, StackStart, StackEnter, StackRename, StackFill, StackVisit, StackLeave DEF Next

LEMMA StackInit == Init => StackInv
BY DEF Init, StackInv

(* The property counts pushes as pairs of frame and position over the      *)
(* whole walk.                                                             *)
LEMMA StacksAreTheProperty == Shape /\ StackInv => StacksFollowTheTree
<1> SUFFICES ASSUME Shape, StackInv, stage \in {"rename", "cleanup"}, NEW v \in variables
             PROVE  Len(regStack[v]) =
                      (IF EntryBlock \in variableInfo[v].defBlocks THEN 0 ELSE 1)
                      + Cardinality(UNION {{<<f, k>> : k \in {j \in DOMAIN walk[f].pushed : walk[f].pushed[j] = v}} :
                                             f \in DOMAIN walk})
  BY DEF StacksFollowTheTree
<1>1. DOMAIN walk = 1..Len(walk)
  BY DEF Shape, WalkPart
<1>2. UNION {{<<f, k>> : k \in {j \in DOMAIN walk[f].pushed : walk[f].pushed[j] = v}} : f \in DOMAIN walk}
      = PushSet(walk, Len(walk), v)
  BY <1>1 DEF PushSet, Hits
<1> QED
  BY <1>2 DEF StackInv, Height, Base

(* Whatever the block graph and the instructions are, the stacks hold one  *)
(* register for every push of the frames on the walk and the initial one   *)
(* of a variable the entry does not define: no capacity drops a push and   *)
(* no sibling leaves one behind (PushRegister, PopVersion, RenameBlock).   *)
THEOREM StacksAlwaysFollowTheTree == Spec => []StacksFollowTheTree
<1>1. Init => Shape /\ WalkInv /\ StackInv
  BY InitShape, WalkInit, StackInit
<1>2. Shape /\ WalkInv /\ StackInv /\ [Next]_vars => WalkInv' /\ StackInv'
  BY WalkStep, StackStep
<1> QED
  BY <1>1, <1>2, ShapeHolds, StacksAreTheProperty, PTL DEF Spec
=============================================================================
