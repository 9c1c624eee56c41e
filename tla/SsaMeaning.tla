----------------------------- MODULE SsaMeaning -----------------------------
(***************************************************************************)
(* What the SSA construction means, for any block graph and instructions   *)
(* that write a register before they read it: the result is in SSA form,   *)
(* definitions dominate what reads them, and the converted program reads   *)
(* the values the original reads.                                          *)
(***************************************************************************)
EXTENDS SsaProofs

(* Two blocks that dominate a third are in order.                          *)
LEMMA DominatorsCompare ==
  ASSUME NEW g, IsGraph(g), NEW a \in DOMAIN g, NEW b, NEW c \in DOMAIN g, b \in Reachable(g),
         Dominates(g, a, b), Dominates(g, c, b)
  PROVE  Dominates(g, a, c) \/ Dominates(g, c, a)
<1> SUFFICES ASSUME ~Dominates(g, a, c), ~Dominates(g, c, a) PROVE FALSE
  OBVIOUS
<1> PICK A : A = ReachedAvoiding(g, {a})
  OBVIOUS
<1> PICK C : C = ReachedAvoiding(g, {c})
  OBVIOUS
<1>1. a # EntryBlock /\ c # EntryBlock /\ a # c /\ c \in A /\ a \in C
  BY DEF Dominates
<1>2. a # b /\ c # b
  OBVIOUS
<1>3. b \notin A /\ b \notin C
  BY <1>1, <1>2 DEF Dominates
<1>4. EntryBlock \in A /\ \A q \in A : \A x \in DOMAIN g \ {a} : Edge(g, q, x) => x \in A
  BY <1>1, ReachedFacts
<1>5. \A q \in C : \A x \in DOMAIN g \ {c} : Edge(g, q, x) => x \in C
  BY ReachedFacts
<1>6. \A q \in (A \cup C) \cap Reachable(g), x \in DOMAIN g : Edge(g, q, x) => x \in A \cup C
  BY <1>1, <1>4, <1>5
<1>7. Reachable(g) \subseteq A \cup C
  BY <1>4, <1>6, ReachableFacts
<1> QED
  BY <1>3, <1>7

(* The tree: the parent of a block is its immediate dominator.             *)
LEMMA KidFacts ==
  ASSUME fn \in Functions, NEW a \in Blocks, NEW b \in Kids(a), NEW g, g = fn.succ
  PROVE  /\ a \in Reachable(g) /\ b \in Reachable(g) /\ b \in Blocks /\ a # b
         /\ Dominates(g, a, b) /\ ~Dominates(g, b, a)
         /\ \A c \in Blocks : c # b /\ Dominates(g, c, b) => Dominates(g, c, a) /\ c \in Reachable(g)
<1> PICK R : R = Reachable(g)
  OBVIOUS
<1>1. b \in Blocks /\ a # b /\ IdomChains[b] \ {b} = IdomChains[a] /\ a \in IdomChains[a]
  BY ChainFacts DEF Kids, ChildrenOf
<1>2. IsGraph(g) /\ DOMAIN g = Blocks
  BY FnState DEF Blocks
<1>3. b \in R
  BY <1>1, ChainFacts
<1>4. IdomChains[b] = {c \in R : Dominates(g, c, b)}
  BY <1>1, <1>3, ChainFacts
<1>5. a \in R /\ Dominates(g, a, b)
  BY <1>1, <1>4
<1>6. IdomChains[a] = {c \in R : Dominates(g, c, a)}
  BY <1>5, ChainFacts
<1>7. ~Dominates(g, b, a)
  BY <1>1, <1>2, <1>3, <1>5, DominanceIsAntisymmetric
<1>8. ASSUME NEW c \in Blocks, c # b, Dominates(g, c, b) PROVE Dominates(g, c, a) /\ c \in R
  <2>1. c \in R
    <3>1. CASE c = EntryBlock
      BY <3>1, <1>2, ReachableFacts
    <3>2. CASE c # EntryBlock /\ c \notin R
      <4>1. ReachedAvoiding(g, {c}) \subseteq R
        BY <1>2, AvoidingIsReachable
      <4>2. EntryBlock \in ReachedAvoiding(g, {c})
            /\ \A q \in ReachedAvoiding(g, {c}) : \A x \in DOMAIN g \ {c} : Edge(g, q, x) => x \in ReachedAvoiding(g, {c})
        BY <3>2, <1>2, ReachedFacts
      <4>3. \A q \in ReachedAvoiding(g, {c}) : \A x \in DOMAIN g : Edge(g, q, x) => x \in ReachedAvoiding(g, {c})
        <5>1. \A q \in ReachedAvoiding(g, {c}) : ~Edge(g, q, c)
          BY <3>2, <4>1, <1>2, <1>8, ReachableFacts
        <5> QED
          BY <4>2, <5>1
      <4>4. R \subseteq ReachedAvoiding(g, {c})
        BY <4>2, <4>3, <1>2, ReachableFacts
      <4> QED
        BY <4>4, <1>3, <1>8, <3>2 DEF Dominates
    <3> QED
      BY <3>1, <3>2
  <2> QED
    BY <2>1, <1>1, <1>4, <1>6, <1>8
<1> QED
  BY <1>1, <1>3, <1>5, <1>7, <1>8

LEMMA ParentExists ==
  ASSUME fn \in Functions, NEW b \in Reachable(fn.succ), b # EntryBlock
  PROVE  \E a \in Blocks : b \in Kids(a)
<1> PICK g : g = fn.succ
  OBVIOUS
<1> PICK R : R = Reachable(g)
  OBVIOUS
<1> PICK S : S = {a \in R : a # b /\ Dominates(g, a, b)}
  OBVIOUS
<1> DEFINE Size(a) == Cardinality(IdomChains[a])
<1>1. IsGraph(g) /\ DOMAIN g = Blocks /\ R \subseteq Blocks /\ EntryBlock \in R /\ IsFiniteSet(Blocks) /\ b \in Blocks
  BY FnState, ReachableFacts DEF Blocks
<1>2. EntryBlock \in S
  BY <1>1 DEF Dominates
<1>3. \A a \in R : IdomChains[a] = {c \in R : Dominates(g, c, a)} /\ IsFiniteSet(IdomChains[a]) /\ a \in IdomChains[a]
  <2> TAKE a \in R
  <2>1. IdomChains[a] = {c \in R : Dominates(g, c, a)} /\ IdomChains[a] \subseteq Blocks /\ a \in IdomChains[a]
    BY <1>1, ChainFacts
  <2> QED
    BY <2>1, <1>1, FS_Subset
<1>4. \A a \in R : Size(a) \in Nat /\ Size(a) <= Cardinality(Blocks)
  <2> TAKE a \in R
  <2>1. IdomChains[a] \subseteq Blocks
    BY <1>1, ChainFacts
  <2> QED
    BY <2>1, <1>1, <1>3, FS_Subset, FS_CardinalityType
<1>5. PICK a \in S : \A c \in S : Size(c) <= Size(a)
  <2> DEFINE N == Cardinality(Blocks)
             Sizes == {Size(c) : c \in S}
  <2>1. N \in Nat
    BY <1>1, FS_CardinalityType
  <2> DEFINE U == {n \in Nat : (\E c \in S : Size(c) + n >= N) => \E a \in S : \A c \in S : Size(c) <= Size(a)}
  <2>2. \A c \in S : Size(c) \in Nat /\ Size(c) <= N
    BY <1>4
  <2> HIDE DEF Size, N
  <2>3. 0 \in U
    <3> SUFFICES ASSUME NEW c \in S, Size(c) + 0 >= N PROVE \A d \in S : Size(d) <= Size(c)
      OBVIOUS
    <3> QED
      BY <2>1, <2>2
  <2>4. \A n \in Nat : n \in U => n + 1 \in U
    <3> SUFFICES ASSUME NEW n \in Nat, n \in U, NEW c \in S, Size(c) + (n + 1) >= N
                 PROVE  \E a \in S : \A d \in S : Size(d) <= Size(a)
      OBVIOUS
    <3>1. CASE \E d \in S : Size(d) > Size(c)
      <4>1. PICK d \in S : Size(d) > Size(c)
        BY <3>1
      <4>2. Size(d) + n >= N
        BY <4>1, <2>1, <2>2
      <4> QED
        BY <4>2
    <3>2. CASE \A d \in S : ~(Size(d) > Size(c))
      BY <3>2, <2>2
    <3> QED
      BY <3>1, <3>2
  <2>5. Nat \subseteq U
    <3> HIDE DEF U
    <3> QED
      BY <2>3, <2>4, NatSetInduction
  <2>6. N \in U /\ Size(EntryBlock) + N >= N
    BY <2>1, <2>2, <2>5, <1>2
  <2> QED
    BY <2>6, <1>2
<1>6. a \in R /\ a # b /\ Dominates(g, a, b) /\ a \in Blocks
  BY <1>1
<1>7. \A c \in S : Dominates(g, c, a)
  <2> SUFFICES ASSUME NEW c \in S, ~Dominates(g, c, a) PROVE FALSE
    OBVIOUS
  <2>1. c \in R /\ Dominates(g, a, c) /\ c \in Blocks
    BY <1>1, <1>6, DominatorsCompare
  <2>2. IdomChains[a] \subseteq IdomChains[c]
    <3>1. \A x \in R : Dominates(g, x, a) => Dominates(g, x, c)
      BY <1>1, <2>1, DominanceIsTransitive
    <3> QED
      BY <3>1, <2>1, <1>3, <1>6
  <2>3. c \in IdomChains[c] /\ c \notin IdomChains[a]
    BY <2>1, <1>3, <1>6
  <2>4. IsFiniteSet(IdomChains[a]) /\ IsFiniteSet(IdomChains[c])
    BY <2>1, <1>3, <1>6
  <2>5. Cardinality(IdomChains[a]) # Cardinality(IdomChains[c]) /\ Cardinality(IdomChains[a]) <= Cardinality(IdomChains[c])
    BY <2>2, <2>3, <2>4, FS_Subset
  <2>6. Size(c) <= Size(a)
    BY <1>5
  <2> QED
    BY <2>1, <2>5, <2>6, <1>4, <1>6
<1>8. IdomChains[b] \ {b} = IdomChains[a]
  <2>1. IdomChains[b] \ {b} = S
    BY <1>1, <1>3
  <2>2. \A c \in IdomChains[a] : c \in S
    <3> TAKE c \in IdomChains[a]
    <3>1. c \in R /\ Dominates(g, c, a)
      BY <1>3, <1>6
    <3>2. Dominates(g, c, b)
      BY <3>1, <1>1, <1>6, DominanceIsTransitive
    <3>3. c # b
      BY <3>1, <1>1, <1>6, DominanceIsAntisymmetric
    <3> QED
      BY <3>1, <3>2, <3>3
  <2>3. \A c \in S : c \in IdomChains[a]
    BY <1>3, <1>6, <1>7
  <2> QED
    BY <2>1, <2>2, <2>3
<1> QED
  BY <1>1, <1>6, <1>8 DEF Kids, ChildrenOf

(* What holds of the entry and of the children of what it holds of, holds  *)
(* of every reachable block.                                               *)
LEMMA TreeInduction ==
  ASSUME fn \in Functions, NEW S, EntryBlock \in S, \A a \in S \cap Reachable(fn.succ) : Kids(a) \subseteq S
  PROVE  Reachable(fn.succ) \subseteq S
<1> PICK g : g = fn.succ
  OBVIOUS
<1> PICK R : R = Reachable(g)
  OBVIOUS
<1> DEFINE Size(a) == Cardinality(IdomChains[a])
           U == {n \in Nat : \A b \in R : Size(b) <= n => b \in S}
<1>1. IsGraph(g) /\ R \subseteq Blocks /\ IsFiniteSet(Blocks)
  BY FnState, ReachableFacts DEF Blocks
<1>2. \A b \in R : IsFiniteSet(IdomChains[b]) /\ Size(b) \in Nat /\ b \in IdomChains[b]
  <2> TAKE b \in R
  <2>1. IdomChains[b] \subseteq Blocks /\ b \in IdomChains[b]
    BY <1>1, ChainFacts
  <2>2. IsFiniteSet(IdomChains[b])
    BY <2>1, <1>1, FS_Subset
  <2> QED
    BY <2>1, <2>2, FS_CardinalityType
<1>3. \A b \in R : b # EntryBlock => \E a \in R : b \in Kids(a) /\ Size(b) = Size(a) + 1
  <2> SUFFICES ASSUME NEW b \in R, b # EntryBlock PROVE \E a \in R : b \in Kids(a) /\ Size(b) = Size(a) + 1
    OBVIOUS
  <2>1. PICK a \in Blocks : b \in Kids(a)
    BY ParentExists
  <2>2. a \in R
    BY <2>1, KidFacts
  <2>3. IdomChains[b] \ {b} = IdomChains[a]
    BY <2>1 DEF Kids, ChildrenOf
  <2>4. IdomChains[b] = IdomChains[a] \cup {b} /\ b \notin IdomChains[a] /\ IsFiniteSet(IdomChains[a])
    BY <2>2, <2>3, <1>2
  <2>5. Cardinality(IdomChains[a] \cup {b}) = Cardinality(IdomChains[a]) + 1
    BY <2>4, FS_AddElement
  <2> QED
    BY <2>1, <2>2, <2>4, <2>5
<1>4. 0 \in U
  <2>1. \A b \in R : ~(Size(b) <= 0)
    <3> TAKE b \in R
    <3>1. Cardinality(IdomChains[b]) # 0
      BY <1>2, FS_EmptySet
    <3> QED
      BY <3>1, <1>2
  <2> QED
    BY <2>1
<1>5. \A n \in Nat : n \in U => n + 1 \in U
  <2> SUFFICES ASSUME NEW n \in Nat, n \in U, NEW b \in R, Size(b) <= n + 1 PROVE b \in S
    OBVIOUS
  <2>1. CASE b = EntryBlock
    BY <2>1
  <2>2. CASE b # EntryBlock
    <3>1. PICK a \in R : b \in Kids(a) /\ Size(b) = Size(a) + 1
      BY <2>2, <1>3
    <3>2. Size(a) <= n
      <4> HIDE DEF Size
      <4> QED
        BY <3>1, <1>2
    <3>3. a \in S
      BY <3>2
    <3> QED
      BY <3>1, <3>3
  <2> QED
    BY <2>1, <2>2
<1>6. Nat \subseteq U
  <2> HIDE DEF U
  <2> QED
    BY <1>4, <1>5, NatSetInduction
<1> QED
  BY <1>2, <1>6

(* Renaming enters blocks that can be reached, and when it ends, all.      *)
ReachInv == visited \subseteq Reachable(fn.succ)

LEMMA ReachStep == Shape /\ WalkInv /\ ReachInv /\ [Next]_vars => ReachInv'
<1> SUFFICES ASSUME Shape, WalkInv, ReachInv, [Next]_vars PROVE ReachInv'
  OBVIOUS
<1>0. fn' = fn
  BY Zenon DEF Next, vars, IdentifyVariables, StartVariable, SpreadPhis, InsertUndefs, EnterBlock, RenameInstruction,
         FillSuccessor, VisitChild, LeaveBlock, CleanUnreachable, MarkPhi, SweepPhis, Execute, TakeEdge, Stopped
<1>1. CASE EnterBlock
  <2> PICK b : b = Top.block
    OBVIOUS
  <2> PICK n : n = Len(walk)
    OBVIOUS
  <2>1. Renaming /\ visited' = visited \cup {b}
    BY <1>1 DEF EnterBlock
  <2>2. /\ n \in Nat \ {0} /\ DOMAIN walk = 1..n /\ Top = walk[n] /\ walk # <<>> /\ fn \in Functions
        /\ \A f \in 1..n : walk[f] \in Frames
    BY <2>1, TopFacts
  <2>3. CASE n = 1
    <3>1. b = EntryBlock
      BY <2>2, <2>3 DEF WalkInv, FramesInv
    <3>2. b \in Reachable(fn.succ)
      BY <3>1, <2>2, FnState, ReachableFacts
    <3> QED
      BY <3>2, <2>1, <1>0 DEF ReachInv
  <2>4. CASE n # 1
    <3> PICK m : m = n - 1
      OBVIOUS
    <3>1. m \in 1..(n - 1) /\ m \in 1..n /\ m + 1 = n
      BY <2>2, <2>4
    <3>2. PathInv(m)
      BY <3>1 DEF WalkInv, FramesInv
    <3>3. b \in Kids(walk[m].block) /\ walk[m].block \in Blocks
      BY <3>1, <3>2, <2>2 DEF PathInv, Frames
    <3>4. b \in Reachable(fn.succ)
      BY <3>3, <2>2, KidFacts
    <3> QED
      BY <3>4, <2>1, <1>0 DEF ReachInv
  <2> QED
    BY <2>3, <2>4
<1>2. CASE ~EnterBlock
  <2>1. visited' = visited
    BY <1>2, Zenon DEF Next, vars, renameVars, IdentifyVariables, StartVariable, SpreadPhis, InsertUndefs, RenameInstruction,
         FillSuccessor, VisitChild, LeaveBlock, CleanUnreachable, MarkPhi, SweepPhis, Execute, TakeEdge, Stopped
  <2> QED
    BY <2>1, <1>0 DEF ReachInv
<1> QED
  BY <1>1, <1>2

LEMMA AllAreVisited ==
  ASSUME Shape, WalkInv, ReachInv, stage \in {"cleanup", "mark", "run", "rejected"}, variables # {}
  PROVE  visited = Reachable(fn.succ)
<1>1. walk = <<>> /\ fn \in Functions
  BY DEF Shape, WalkPart, FnPart
<1>2. EntryBlock \in visited
  BY DEF WalkInv, VisitedInv
<1>3. \A a \in visited : \A c \in Kids(a) : c \in visited
  <2>1. \A a, c : ~WaitingFor(a, c)
    <3>1. DOMAIN walk = {}
      BY <1>1
    <3> QED
      BY <3>1, <1>1 DEF WaitingFor
  <2> QED
    BY <2>1 DEF WalkInv, VisitedInv
<1>4. Reachable(fn.succ) \subseteq visited
  BY <1>1, <1>2, <1>3, TreeInduction
<1> QED
  BY <1>4 DEF ReachInv

----------------------------------------------------------------------------
(* A register of the conversion's own has one definition, and those that   *)
(* were not handed out yet have none.                                      *)

Writes(q, r) == LET ins == code[q[1]][q[2]]
                IN Defines(ins) /\ ins.dest = r /\ (ins.op = "copy" => r \notin variables)
AtMostOne(S) == \A d, e \in S : d = e

FreshInv ==
  ~limitExceeded =>
    /\ \A p \in DOMAIN phis : phis[p].result >= fn.regs
    /\ \A u \in undefs : u \in fn.regs..(nextReg - 1)
    /\ \A r \in fn.regs..(NoReg - 1) : (Definers(r) # {} => r < nextReg) /\ AtMostOne(Definers(r))

LEMMA DefinerIs ==
  ASSUME NEW r
  PROVE  /\ \A d : d \in Definers(r) <=>
              \/ d = <<"undef", 0, 0>> /\ r \in undefs
              \/ \E p \in DOMAIN phis : phis[p].result = r /\ d = <<"phi", p, 0>>
              \/ \E q \in Places : Writes(q, r) /\ d = <<"ins", q[1], q[2]>>
<1> PICK U : U = {<<"undef", 0, 0>> : u \in undefs \cap {r}}
  OBVIOUS
<1> PICK P : P = {<<"phi", p, 0>> : p \in {q \in DOMAIN phis : phis[q].result = r}}
  OBVIOUS
<1> PICK I : I = {<<"ins", q[1], q[2]>> : q \in {x \in Places : Writes(x, r)}}
  OBVIOUS
<1>1. Definers(r) = U \cup P \cup I
  BY DEF Definers, Writes
<1>2. \A d : d \in U <=> d = <<"undef", 0, 0>> /\ r \in undefs
  OBVIOUS
<1>3. \A d : d \in P <=> \E p \in DOMAIN phis : phis[p].result = r /\ d = <<"phi", p, 0>>
  OBVIOUS
<1>4. \A d : d \in I <=> \E q \in Places : Writes(q, r) /\ d = <<"ins", q[1], q[2]>>
  OBVIOUS
<1> QED
  BY <1>1, <1>2, <1>3, <1>4

LEMMA DefinerIsNext ==
  ASSUME NEW r
  PROVE  /\ \A d : d \in Definers(r)' <=>
              \/ d = <<"undef", 0, 0>> /\ r \in undefs'
              \/ \E p \in DOMAIN phis' : phis'[p].result = r /\ d = <<"phi", p, 0>>
              \/ \E q \in Places' : Writes(q, r)' /\ d = <<"ins", q[1], q[2]>>
<1> PICK U : U = {<<"undef", 0, 0>> : u \in undefs' \cap {r}}
  OBVIOUS
<1> PICK P : P = {<<"phi", p, 0>> : p \in {q \in DOMAIN phis' : phis'[q].result = r}}
  OBVIOUS
<1> PICK I : I = {<<"ins", q[1], q[2]>> : q \in {x \in Places' : Writes(x, r)'}}
  OBVIOUS
<1>1. Definers(r)' = U \cup P \cup I
  BY DEF Definers, Writes
<1>2. \A d : d \in U <=> d = <<"undef", 0, 0>> /\ r \in undefs'
  OBVIOUS
<1>3. \A d : d \in P <=> \E p \in DOMAIN phis' : phis'[p].result = r /\ d = <<"phi", p, 0>>
  OBVIOUS
<1>4. \A d : d \in I <=> \E q \in Places' : Writes(q, r)' /\ d = <<"ins", q[1], q[2]>>
  OBVIOUS
<1> QED
  BY <1>1, <1>2, <1>3, <1>4

LEMMA PlacesArePairs ==
  ASSUME NEW q \in Places
  PROVE  /\ q = <<q[1], q[2]>> /\ q[1] \in Blocks /\ q[2] \in DOMAIN fn.code[q[1]]
BY DEF Places

LEMMA PlaceOf ==
  ASSUME NEW b \in Blocks, NEW i \in DOMAIN fn.code[b]
  PROVE  <<b, i>> \in Places
BY DEF Places

(* No definition is added to a register handed out before, and one to any  *)
(* other.                                                                  *)
LEMMA FreshKeeps ==
  ASSUME FreshInv, fn' = fn, fn \in Functions, RegisterPart, RegisterPart', ~limitExceeded' => ~limitExceeded,
         ~limitExceeded' =>
           /\ nextReg <= nextReg'
           /\ \A p \in DOMAIN phis' : phis'[p].result >= fn.regs
           /\ \A u \in undefs' : u \in undefs \/ u \in nextReg..(nextReg' - 1)
           /\ \A r \in fn.regs..(NoReg - 1) : r < nextReg => Definers(r)' \subseteq Definers(r)
           /\ \A r \in nextReg..(NoReg - 1) : (Definers(r)' # {} => r < nextReg') /\ AtMostOne(Definers(r)')
  PROVE  FreshInv'
<1> SUFFICES ASSUME ~limitExceeded'
             PROVE  /\ \A p \in DOMAIN phis' : phis'[p].result >= fn.regs
                    /\ \A u \in undefs' : u \in fn.regs..(nextReg' - 1)
                    /\ \A r \in fn.regs..(NoReg - 1) : (Definers(r)' # {} => r < nextReg') /\ AtMostOne(Definers(r)')
  BY DEF FreshInv, AtMostOne
<1> PICK regs : regs = fn.regs
  OBVIOUS
<1>0. regs \in Nat /\ nextReg \in Nat /\ nextReg' \in Nat /\ regs <= nextReg /\ NoReg \in Nat /\ nextReg <= nextReg'
  <2>1. regs \in Nat /\ RegisterLimit \in Nat
    BY FnState
  <2>2. nextReg \in regs..RegisterLimit /\ nextReg' \in regs..RegisterLimit
    BY DEF RegisterPart
  <2>3. NoReg \in Nat
    BY DEF NoReg
  <2> QED
    BY <2>1, <2>2, <2>3
<1>1. /\ \A u \in undefs : u \in regs..(nextReg - 1)
      /\ \A r \in regs..(NoReg - 1) : (Definers(r) # {} => r < nextReg) /\ AtMostOne(Definers(r))
  BY DEF FreshInv
<1>2. \A u \in undefs' : u \in regs..(nextReg' - 1)
  BY <1>0, <1>1
<1>3. ASSUME NEW r \in regs..(NoReg - 1) PROVE (Definers(r)' # {} => r < nextReg') /\ AtMostOne(Definers(r)')
  <2> PICK D : D = Definers(r)
    OBVIOUS
  <2> PICK E : E = Definers(r)'
    OBVIOUS
  <2>0. r \in Nat
    BY <1>0
  <2>1. CASE r < nextReg
    <3>1. E \subseteq D /\ r < nextReg' /\ AtMostOne(D)
      BY <2>0, <2>1, <1>0, <1>1
    <3> QED
      BY <3>1 DEF AtMostOne
  <2>2. CASE ~(r < nextReg)
    <3>1. r \in nextReg..(NoReg - 1)
      BY <2>0, <2>2, <1>0
    <3> QED
      BY <3>1
  <2> QED
    BY <2>1, <2>2
<1> QED
  BY <1>2, <1>3

(* The registers of a set of things, handed out in order of rank, are new. *)
LEMMA HandedOut ==
  ASSUME Shape, NEW n \in Nat, Allocate(n), ~limitExceeded'
  PROVE  /\ ~limitExceeded /\ nextReg' = nextReg + n /\ nextReg' <= RegisterLimit /\ nextReg \in Nat
         /\ nextReg <= nextReg' /\ fn.regs \in Nat /\ fn.regs <= nextReg
         /\ \A k \in 1..n : /\ Allocated(k) = nextReg + k - 1 /\ Allocated(k) \in nextReg..(nextReg' - 1)
                            /\ Allocated(k) >= fn.regs /\ Allocated(k) \in Nat
<1>1. fn \in Functions /\ RegisterPart
  BY DEF Shape, FnPart
<1>2. /\ nextReg' \in nextReg..RegisterLimit /\ ~limitExceeded /\ nextReg' = nextReg + n
      /\ \A k \in 1..n : Allocated(k) = nextReg + k - 1
  BY <1>1, AllocateFacts
<1> PICK regs : regs = fn.regs
  OBVIOUS
<1>3. regs \in Nat /\ RegisterLimit \in Nat /\ nextReg \in regs..RegisterLimit
  BY <1>1, FnState DEF RegisterPart
<1> QED
  BY <1>2, <1>3

LEMMA FreshInit == Init => FreshInv
<1> SUFFICES ASSUME Init PROVE FreshInv
  OBVIOUS
<1>1. fn \in Functions /\ phis = <<>> /\ undefs = {} /\ code = fn.code
  BY DEF Init
<1>2. ASSUME NEW r \in fn.regs..(NoReg - 1) PROVE Definers(r) = {}
  <2>1. ASSUME NEW q \in Places PROVE ~Writes(q, r)
    <3> PICK ins : ins = fn.code[q[1]][q[2]]
      OBVIOUS
    <3>1. ins.dest \in 0..(fn.regs - 1)
      BY <1>1, PlacesArePairs, InstructionFacts DEF Blocks
    <3>2. fn.regs \in Nat
      BY <1>1, FnState
    <3> QED
      BY <3>1, <3>2, <1>1 DEF Writes
  <2>2. \A d : d \notin Definers(r)
    BY <2>1, <1>1, DefinerIs
  <2> QED
    BY <2>2
<1> QED
  BY <1>1, <1>2 DEF FreshInv, AtMostOne

LEMMA FreshUntouched ==
  ASSUME Shape, Shape', FreshInv, UNCHANGED <<fn, undefs, code, nextReg, limitExceeded>>, variables \subseteq variables',
         \A p \in DOMAIN phis' : (p \in DOMAIN phis /\ phis'[p].result = phis[p].result) \/ phis'[p].result = NoReg
  PROVE  FreshInv'
<1>1. fn \in Functions /\ RegisterPart /\ RegisterPart'
  BY DEF Shape, FnPart
<1>2. NoReg >= fn.regs /\ fn.regs \in Nat /\ NoReg \in Nat /\ nextReg \in Nat /\ nextReg >= fn.regs
  <2> PICK regs : regs = fn.regs
    OBVIOUS
  <2>1. regs \in Nat /\ regs <= RegisterLimit /\ RegisterLimit < NoReg /\ RegisterLimit \in Nat
    BY <1>1, FnState
  <2>2. NoReg \in Nat
    BY DEF NoReg
  <2>3. nextReg \in regs..RegisterLimit
    BY <1>1 DEF RegisterPart
  <2> QED
    BY <2>1, <2>2, <2>3
<1>3. Places' = Places
  BY FixedFn
<1>4. ASSUME NEW r \in fn.regs..(NoReg - 1) PROVE Definers(r)' \subseteq Definers(r)
  <2>1. r # NoReg
    BY <1>2
  <2>2. \A q \in Places : Writes(q, r)' => Writes(q, r)
    BY DEF Writes, Defines
  <2>3. \A d : d \in Definers(r)' <=>
              \/ d = <<"undef", 0, 0>> /\ r \in undefs'
              \/ \E p \in DOMAIN phis' : phis'[p].result = r /\ d = <<"phi", p, 0>>
              \/ \E q \in Places' : Writes(q, r)' /\ d = <<"ins", q[1], q[2]>>
    BY DefinerIsNext
  <2>4. \A d : d \in Definers(r)' => d \in Definers(r)
    BY <2>1, <2>2, <2>3, <1>3, DefinerIs
  <2> QED
    BY <2>4
<1>5. ASSUME ~limitExceeded
      PROVE  /\ \A p \in DOMAIN phis' : phis'[p].result >= fn.regs
             /\ \A r \in fn.regs..(NoReg - 1) : (Definers(r)' # {} => r < nextReg) /\ AtMostOne(Definers(r)')
  <2>1. \A p \in DOMAIN phis' : phis'[p].result >= fn.regs
    BY <1>2, <1>5 DEF FreshInv
  <2>2. ASSUME NEW r \in fn.regs..(NoReg - 1) PROVE (Definers(r)' # {} => r < nextReg) /\ AtMostOne(Definers(r)')
    <3>1. (Definers(r) # {} => r < nextReg) /\ AtMostOne(Definers(r))
      BY <1>5 DEF FreshInv
    <3> QED
      BY <3>1, <1>4 DEF AtMostOne
  <2> QED
    BY <2>1, <2>2
<1>6. \A r \in nextReg..(NoReg - 1) : r \in fn.regs..(NoReg - 1)
  BY <1>2
<1>7. ~limitExceeded' => \A u \in undefs' : u \in undefs \/ u \in nextReg..(nextReg' - 1)
  OBVIOUS
<1>8. nextReg' = nextReg /\ fn' = fn /\ (~limitExceeded' => ~limitExceeded) /\ nextReg <= nextReg
  BY <1>2
<1> QED
  BY <1>1, <1>4, <1>5, <1>6, <1>7, <1>8, FreshKeeps

LEMMA FreshBounds ==
  ASSUME fn \in Functions, RegisterPart
  PROVE  /\ NoReg >= fn.regs /\ fn.regs \in Nat /\ NoReg \in Nat /\ nextReg \in Nat /\ nextReg >= fn.regs
         /\ nextReg < NoReg
<1> PICK regs : regs = fn.regs
  OBVIOUS
<1>1. regs \in Nat /\ regs <= RegisterLimit /\ RegisterLimit < NoReg /\ RegisterLimit \in Nat
  BY FnState
<1>2. NoReg \in Nat
  BY DEF NoReg
<1>3. nextReg \in regs..RegisterLimit
  BY DEF RegisterPart
<1> QED
  BY <1>1, <1>2, <1>3

NotHandedOut(r) == r \notin undefs /\ (\A p \in DOMAIN phis : phis[p].result # r) /\ \A q \in Places : ~Writes(q, r)

LEMMA NotYetDefined ==
  ASSUME Shape, FreshInv, ~limitExceeded, NEW r \in nextReg..(NoReg - 1)
  PROVE  Definers(r) = {} /\ NotHandedOut(r)
<1>1. fn \in Functions /\ RegisterPart
  BY DEF Shape, FnPart
<1>2. r \in fn.regs..(NoReg - 1) /\ ~(r < nextReg)
  BY <1>1, FreshBounds
<1>3. Definers(r) = {}
  BY <1>2 DEF FreshInv
<1>4. NotHandedOut(r)
  BY <1>3, DefinerIs DEF NotHandedOut
<1> QED
  BY <1>3, <1>4

LEMMA NextBounds ==
  ASSUME fn \in Functions, fn' = fn, RegisterPart, RegisterPart'
  PROVE  /\ nextReg' \in Nat /\ nextReg' < NoReg /\ nextReg \in Nat
         /\ \A r \in nextReg..(nextReg' - 1) : r \in nextReg..(NoReg - 1) /\ r < nextReg' /\ r \in Nat
<1> PICK regs : regs = fn.regs
  OBVIOUS
<1>1. nextReg' \in regs..RegisterLimit
  BY DEF RegisterPart
<1>2. regs \in Nat /\ RegisterLimit \in Nat /\ RegisterLimit < NoReg
  BY FnState
<1>3. nextReg \in Nat /\ NoReg \in Nat
  BY FreshBounds
<1>4. nextReg' \in Nat /\ nextReg' < NoReg
  BY ONLY <1>1, <1>2, <1>3
<1>5. \A r \in nextReg..(nextReg' - 1) : r \in nextReg..(NoReg - 1) /\ r < nextReg' /\ r \in Nat
  <2> PICK m : m = nextReg'
    OBVIOUS
  <2> PICK k : k = nextReg
    OBVIOUS
  <2> PICK l : l = NoReg
    OBVIOUS
  <2>1. m \in Nat /\ m < l /\ k \in Nat /\ l \in Nat
    BY <1>3, <1>4
  <2>2. \A r \in k..(m - 1) : r \in k..(l - 1) /\ r < m /\ r \in Nat
    BY ONLY <2>1
  <2> QED
    BY <2>2
<1> QED
  BY <1>3, <1>4, <1>5

LEMMA FreshAdds ==
  ASSUME Shape, Shape', FreshInv, fn' = fn, variables' = variables, ~limitExceeded' => ~limitExceeded,
         ~limitExceeded' =>
           /\ nextReg <= nextReg'
           /\ \A p \in DOMAIN phis' : phis'[p].result >= fn.regs
           /\ \A u \in undefs' : u \in undefs \/ u \in nextReg..(nextReg' - 1)
           /\ \A p \in DOMAIN phis' : \/ p \in DOMAIN phis /\ phis'[p].result = phis[p].result
                                      \/ phis'[p].result \in nextReg..(nextReg' - 1)
           /\ \A q \in Places : \A r : Writes(q, r)' => Writes(q, r) \/ r \in nextReg..(nextReg' - 1)
           /\ \A r \in nextReg..(nextReg' - 1) : AtMostOne(Definers(r)')
  PROVE  FreshInv'
<1>1. fn \in Functions /\ RegisterPart /\ RegisterPart'
  BY DEF Shape, FnPart
<1>2. NoReg >= fn.regs /\ fn.regs \in Nat /\ NoReg \in Nat /\ nextReg \in Nat /\ nextReg >= fn.regs
  BY <1>1, FreshBounds
<1>3. Places' = Places
  BY FixedFn
<1>4. ASSUME ~limitExceeded', NEW r \in fn.regs..(NoReg - 1), ~(r \in nextReg..(nextReg' - 1))
      PROVE  Definers(r)' \subseteq Definers(r)
  <2>1. \A d : d \in Definers(r)' <=>
              \/ d = <<"undef", 0, 0>> /\ r \in undefs'
              \/ \E p \in DOMAIN phis' : phis'[p].result = r /\ d = <<"phi", p, 0>>
              \/ \E q \in Places' : Writes(q, r)' /\ d = <<"ins", q[1], q[2]>>
    BY DefinerIsNext
  <2>2. \A q \in Places : Writes(q, r)' => Writes(q, r)
    BY <1>4
  <2>3. \A p \in DOMAIN phis' : phis'[p].result = r => p \in DOMAIN phis /\ phis[p].result = r
    BY <1>4
  <2>4. r \in undefs' => r \in undefs
    BY <1>4
  <2>5. \A d : d \in Definers(r)' => d \in Definers(r)
    BY <2>1, <2>2, <2>3, <2>4, <1>3, DefinerIs
  <2> QED
    BY <2>5
<1>5. ASSUME ~limitExceeded'
      PROVE  /\ \A r \in fn.regs..(NoReg - 1) : r < nextReg => Definers(r)' \subseteq Definers(r)
             /\ \A r \in nextReg..(NoReg - 1) : (Definers(r)' # {} => r < nextReg') /\ AtMostOne(Definers(r)')
  <2>1. ASSUME NEW r \in fn.regs..(NoReg - 1), r < nextReg PROVE Definers(r)' \subseteq Definers(r)
    <3>1. ~(r \in nextReg..(nextReg' - 1))
      BY <2>1, <1>2
    <3> QED
      BY <3>1, <1>4, <1>5
  <2>2. ASSUME NEW r \in nextReg..(NoReg - 1) PROVE (Definers(r)' # {} => r < nextReg') /\ AtMostOne(Definers(r)')
    <3>1. r \in fn.regs..(NoReg - 1) /\ r \in Nat
      BY <1>2
    <3>2. CASE r \in nextReg..(nextReg' - 1)
      <4>1. r < nextReg'
        BY <3>2, <1>1, NextBounds
      <4> QED
        BY <4>1, <3>2, <1>5
    <3>3. CASE ~(r \in nextReg..(nextReg' - 1))
      <4>1. Definers(r)' \subseteq Definers(r)
        BY <3>1, <3>3, <1>4, <1>5
      <4>2. Definers(r) = {}
        BY <1>5, NotYetDefined
      <4> QED
        BY <4>1, <4>2 DEF AtMostOne
    <3> QED
      BY <3>2, <3>3
  <2> QED
    BY <2>1, <2>2
<1> PICK regs : regs = fn.regs
  OBVIOUS
<1> QED
  BY <1>1, <1>5, FreshKeeps

LEMMA FreshEnter == Shape /\ Shape' /\ FreshInv /\ EnterBlock => FreshInv'
<1> SUFFICES ASSUME Shape, Shape', FreshInv, EnterBlock PROVE FreshInv'
  OBVIOUS
<1> PICK b : b = Top.block
  OBVIOUS
<1> PICK mine : mine = PhisOf(b)
  OBVIOUS
<1> PICK n : n = Cardinality(mine)
  OBVIOUS
<1>0. Entering(b, mine)
  BY EnterFacts
<1>1. /\ n \in Nat /\ Allocate(n) /\ UNCHANGED <<fn, variableInfo, undefs, code>> /\ DOMAIN phis' = DOMAIN phis
      /\ IsFiniteSet(mine) /\ mine \in SUBSET Nat /\ mine \subseteq DOMAIN phis
  BY <1>0 DEF Entering, phiVars
<1>2. \A p \in mine : Rank(p, mine) \in 1..n /\ phis'[p].result = Allocated(Rank(p, mine))
  <2>1. \A p \in mine : Rank(p, mine) \in 1..n /\ phis'[p] = [phis[p] EXCEPT !.result = Allocated(Rank(p, mine))]
    BY <1>0, <1>1 DEF Entering
  <2>2. \A p \in mine : phis[p] \in PhiRecords
    BY <1>1, PhiTyped
  <2> QED
    BY <2>1, <2>2 DEF PhiRecords
<1>3. /\ \A p \in DOMAIN phis \ mine : phis'[p] = phis[p]
      /\ \A p, q \in mine : Rank(p, mine) = Rank(q, mine) => p = q
  <2>1. \A p \in DOMAIN phis \ mine : phis'[p] = phis[p]
    BY <1>0 DEF Entering
  <2> QED
    BY <2>1, <1>1, RankFacts
<1>4. variables' = variables /\ Places' = Places
  BY <1>1, FixedFn DEF variables
<1>5. \A q, r : Writes(q, r)' <=> Writes(q, r)
  BY <1>1, <1>4 DEF Writes, Defines
<1>6. ~limitExceeded' => ~limitExceeded /\ nextReg <= nextReg'
  BY <1>1, HandedOut
<1>7. ASSUME ~limitExceeded'
      PROVE  /\ \A p \in DOMAIN phis' : phis'[p].result >= fn.regs
             /\ \A p \in DOMAIN phis' : \/ p \in DOMAIN phis /\ phis'[p].result = phis[p].result
                                        \/ phis'[p].result \in nextReg..(nextReg' - 1)
  <2>1. \A k \in 1..n : Allocated(k) \in nextReg..(nextReg' - 1) /\ Allocated(k) >= fn.regs
    BY <1>1, <1>7, HandedOut
  <2>2. \A p \in DOMAIN phis : phis[p].result >= fn.regs
    BY <1>6, <1>7 DEF FreshInv
  <2> QED
    BY <2>1, <2>2, <1>1, <1>2, <1>3
<1>8. ASSUME ~limitExceeded', NEW r \in nextReg..(nextReg' - 1) PROVE AtMostOne(Definers(r)')
  <2>1. \A k \in 1..n : Allocated(k) = nextReg + k - 1
    BY <1>1, <1>8, HandedOut
  <2>2. r \in nextReg..(NoReg - 1)
    <3>1. fn \in Functions /\ RegisterPart /\ RegisterPart'
      BY DEF Shape, FnPart
    <3> QED
      BY <3>1, <1>1, <1>8, NextBounds
  <2>3. NotHandedOut(r)
    BY <2>2, <1>6, <1>8, NotYetDefined
  <2>4. \A d \in Definers(r)' : \E p \in mine : phis'[p].result = r /\ d = <<"phi", p, 0>>
    <3>1. \A p \in DOMAIN phis \ mine : phis'[p].result # r
      BY <2>3, <1>3 DEF NotHandedOut
    <3>2. r \notin undefs' /\ \A q \in Places' : ~Writes(q, r)'
      BY <2>3, <1>1, <1>4, <1>5 DEF NotHandedOut
    <3> QED
      BY <3>1, <3>2, <1>1, DefinerIsNext
  <2>5. \A p, q \in mine : phis'[p].result = r /\ phis'[q].result = r => p = q
    <3> SUFFICES ASSUME NEW p \in mine, NEW q \in mine, phis'[p].result = r, phis'[q].result = r PROVE p = q
      OBVIOUS
    <3> PICK j : j = Rank(p, mine)
      OBVIOUS
    <3> PICK k : k = Rank(q, mine)
      OBVIOUS
    <3>1. j \in 1..n /\ k \in 1..n /\ nextReg + j - 1 = nextReg + k - 1 /\ nextReg \in Nat
      BY <1>2, <2>1, <1>1, <1>8, HandedOut
    <3>2. n \in Nat
      BY <1>1
    <3>3. j = k
      BY ONLY <3>1, <3>2
    <3> QED
      BY <3>3, <1>3
  <2> QED
    BY <2>4, <2>5 DEF AtMostOne
<1> QED
  BY <1>1, <1>4, <1>5, <1>6, <1>7, <1>8, FreshAdds

(* A renamed instruction defines what it did, or the register it was given.*)
LEMMA RewrittenIs ==
  ASSUME Shape, Renaming, NEW ins \in Written, Tracked(ins) => Value(ins) \in Nat
  PROVE  /\ Tracked(ins) /\ ~Aliases(ins) =>
              /\ Rewritten(ins).dest = Allocated(1) /\ Rewritten(ins).srcs = RenamedReads(ins).srcs
              /\ Rewritten(ins).op = IF ins.op \in {"const", "copy"} THEN "load" ELSE ins.op
         /\ ~(Tracked(ins) /\ ~Aliases(ins)) =>
              /\ Rewritten(ins).op = ins.op /\ Rewritten(ins).srcs = RenamedReads(ins).srcs
              /\ Rewritten(ins).dest = IF ins.op = "out" THEN Renamed(ins.dest) ELSE ins.dest
<1>1. /\ ins \in [op : Ops \cup {"load"}, dest : Nat, srcs : Seq(Nat)]
      /\ RenamedReads(ins).op = ins.op /\ RenamedReads(ins) \in [op : Ops \cup {"load"}, dest : Nat, srcs : Seq(Nat)]
  BY RenamedReadsFacts DEF Written
<1>2. RenamedReads(ins).dest = IF ins.op = "out" THEN Renamed(ins.dest) ELSE ins.dest
  BY <1>1 DEF RenamedReads
<1>3. ASSUME Tracked(ins), ~Aliases(ins)
      PROVE  /\ Rewritten(ins).dest = Allocated(1) /\ Rewritten(ins).srcs = RenamedReads(ins).srcs
             /\ Rewritten(ins).op = IF ins.op \in {"const", "copy"} THEN "load" ELSE ins.op
  <2> PICK read : read = RenamedReads(ins)
    OBVIOUS
  <2>1. read \in [op : Ops \cup {"load"}, dest : Nat, srcs : Seq(Nat)] /\ read.op = ins.op
    BY <1>1
  <2>2. Rewritten(ins) = [read EXCEPT !.dest = Value(ins), !.op = IF @ \in {"const", "copy"} THEN "load" ELSE @]
    BY <1>3 DEF Rewritten
  <2>3. Value(ins) = Allocated(1)
    BY <1>3 DEF Value
  <2> QED
    BY <2>1, <2>2, <2>3
<1>4. ~(Tracked(ins) /\ ~Aliases(ins)) => Rewritten(ins) = RenamedReads(ins)
  BY DEF Rewritten
<1> QED
  BY <1>1, <1>2, <1>3, <1>4

LEMMA WritesAfter ==
  ASSUME Shape, RenameInstruction, NEW b, b = Top.block, NEW pc, pc = Top.pc, NEW ins, ins = code[b][pc],
         NEW q \in Places, NEW r, Writes(q, r)'
  PROVE  Writes(q, r) \/ (q = <<b, pc>> /\ Taken(ins) = 1 /\ r = Allocated(1))
<1>1. Rewriting(b, pc, ins)
  BY RewriteFacts
<1>2. /\ Renaming /\ b \in Blocks /\ pc \in DOMAIN code[b] /\ ins \in Written /\ (Tracked(ins) => Value(ins) \in Nat)
      /\ code' = [code EXCEPT ![b][pc] = Rewritten(ins)] /\ variables' = variables /\ CodePart
  BY <1>1 DEF Rewriting, phiVars, variables, Shape
<1>3. q = <<q[1], q[2]>> /\ q[1] \in Blocks
  BY PlacesArePairs
<1>4. CASE q # <<b, pc>>
  <2>1. code'[q[1]][q[2]] = code[q[1]][q[2]]
    BY <1>2, <1>3, <1>4 DEF CodePart
  <2> QED
    BY <2>1, <1>2 DEF Writes, Defines
<1>5. CASE q = <<b, pc>>
  <2>1. code'[q[1]][q[2]] = Rewritten(ins) /\ code[q[1]][q[2]] = ins
    BY <1>2, <1>5 DEF CodePart
  <2>2. Defines(Rewritten(ins)) /\ Rewritten(ins).dest = r /\ (Rewritten(ins).op = "copy" => r \notin variables)
    BY <2>1, <1>2 DEF Writes, Defines
  <2>3. CASE Tracked(ins) /\ ~Aliases(ins)
    BY <2>2, <2>3, <1>2, <1>5, RewrittenIs DEF Taken
  <2>4. CASE ~(Tracked(ins) /\ ~Aliases(ins))
    <3>1. /\ Rewritten(ins).op = ins.op
          /\ Rewritten(ins).dest = IF ins.op = "out" THEN Renamed(ins.dest) ELSE ins.dest
      BY <2>4, <1>2, RewrittenIs
    <3>2. ins.op # "out" /\ Defines(ins) /\ ins.dest = r /\ (ins.op = "copy" => r \notin variables)
      BY <3>1, <2>2 DEF Defines
    <3> QED
      BY <3>2, <2>1 DEF Writes
  <2> QED
    BY <2>3, <2>4
<1> QED
  BY <1>4, <1>5

LEMMA FreshRename == Shape /\ Shape' /\ FreshInv /\ RenameInstruction => FreshInv'
<1> SUFFICES ASSUME Shape, Shape', FreshInv, RenameInstruction PROVE FreshInv'
  OBVIOUS
<1> PICK b : b = Top.block
  OBVIOUS
<1> PICK pc : pc = Top.pc
  OBVIOUS
<1> PICK ins : ins = code[b][pc]
  OBVIOUS
<1> PICK n : n = Taken(ins)
  OBVIOUS
<1>0. Rewriting(b, pc, ins)
  BY RewriteFacts
<1>1. n \in 0..1 /\ n \in Nat /\ Allocate(n) /\ UNCHANGED <<fn, variableInfo, undefs, phis>> /\ fn \in Functions
      /\ RegisterPart /\ RegisterPart'
  BY <1>0 DEF Rewriting, phiVars, Taken, Shape, FnPart
<1>2. variables' = variables /\ Places' = Places
  BY <1>1, FixedFn DEF variables
<1>3. ~limitExceeded' => ~limitExceeded /\ nextReg <= nextReg'
  BY <1>1, HandedOut
<1>4. ~limitExceeded' => \A p \in DOMAIN phis' : phis'[p].result >= fn.regs
  BY <1>1, <1>3 DEF FreshInv
<1>5. ~limitExceeded' => (n = 1 => Allocated(1) \in nextReg..(nextReg' - 1))
  <2>1. n = 1 => 1 \in 1..n
    OBVIOUS
  <2> QED
    BY <2>1, <1>1, HandedOut
<1>6. \A q \in Places : \A r : Writes(q, r)' => Writes(q, r) \/ (q = <<b, pc>> /\ n = 1 /\ r = Allocated(1))
  BY WritesAfter
<1>7. ASSUME ~limitExceeded', NEW r \in nextReg..(nextReg' - 1) PROVE AtMostOne(Definers(r)')
  <2>1. r \in nextReg..(NoReg - 1)
    BY <1>1, <1>7, NextBounds
  <2>2. NotHandedOut(r)
    BY <2>1, <1>3, <1>7, NotYetDefined
  <2>3. \A d \in Definers(r)' : d = <<"ins", b, pc>>
    <3>1. \A q \in Places : Writes(q, r)' => q = <<b, pc>>
      BY <2>2, <1>6 DEF NotHandedOut
    <3>2. r \notin undefs' /\ \A p \in DOMAIN phis' : phis'[p].result # r
      BY <2>2, <1>1 DEF NotHandedOut
    <3> QED
      BY <3>1, <3>2, <1>2, DefinerIsNext
  <2> QED
    BY <2>3 DEF AtMostOne
<1>8. ~limitExceeded' => \A q \in Places : \A r : Writes(q, r)' => Writes(q, r) \/ r \in nextReg..(nextReg' - 1)
  BY <1>5, <1>6
<1> QED
  BY <1>1, <1>2, <1>3, <1>4, <1>7, <1>8, FreshAdds

LEMMA FreshFill == Shape /\ Shape' /\ FreshInv /\ FillSuccessor => FreshInv'
<1> SUFFICES ASSUME Shape, Shape', FreshInv, FillSuccessor PROVE FreshInv'
  OBVIOUS
<1> PICK b : b = Top.block
  OBVIOUS
<1> PICK s : s = fn.succ[b][SuccessorIndex]
  OBVIOUS
<1> PICK fed : fed = PhisOf(s)
  OBVIOUS
<1> PICK bare : bare = {p \in fed : regStack[phis[p].var] = <<>>}
  OBVIOUS
<1> PICK n : n = Cardinality(bare)
  OBVIOUS
<1>0. Filling(b, s, fed, bare)
  BY FillFacts
<1>1. n \in Nat /\ Allocate(n) /\ UNCHANGED <<fn, variableInfo, code>> /\ fn \in Functions
      /\ RegisterPart /\ RegisterPart' /\ DOMAIN phis' = DOMAIN phis
      /\ undefs' = undefs \cup {Allocated(Rank(p, bare)) : p \in bare}
      /\ \A p \in bare : Rank(p, bare) \in 1..n
  BY <1>0, Zenon DEF Filling, phiVars, Shape, FnPart
<1>2. variables' = variables /\ Places' = Places
  BY <1>1, FixedFn DEF variables
<1>3. ~limitExceeded' => ~limitExceeded /\ nextReg <= nextReg'
  BY <1>1, HandedOut
<1>4. \A p \in DOMAIN phis : phis'[p].result = phis[p].result
  <2> SUFFICES ASSUME NEW p \in DOMAIN phis PROVE phis'[p].result = phis[p].result
    OBVIOUS
  <2>1. phis[p] \in PhiRecords
    BY PhiTyped
  <2>2. CASE p \in fed
    <3>1. PICK x : phis'[p] = [phis[p] EXCEPT !.values = [@ EXCEPT ![OperandFor(p, b)] = x]]
      BY <2>2, <1>0, Zenon DEF Filling
    <3> QED
      BY <3>1, <2>1 DEF PhiRecords
  <2>3. CASE p \notin fed
    BY <2>3, <1>0, Zenon DEF Filling
  <2> QED
    BY <2>2, <2>3
<1>5. ~limitExceeded' => \A p \in DOMAIN phis' : phis'[p].result >= fn.regs
  BY <1>1, <1>3, <1>4 DEF FreshInv
<1>6. \A q, r : Writes(q, r)' <=> Writes(q, r)
  BY <1>1, <1>2 DEF Writes, Defines
<1>7. ASSUME ~limitExceeded', NEW r \in nextReg..(nextReg' - 1) PROVE AtMostOne(Definers(r)')
  <2>1. r \in nextReg..(NoReg - 1)
    BY <1>1, <1>7, NextBounds
  <2>2. NotHandedOut(r)
    BY <2>1, <1>3, <1>7, NotYetDefined
  <2>3. \A d \in Definers(r)' : d = <<"undef", 0, 0>>
    <3>1. \A q \in Places : ~Writes(q, r)'
      BY <2>2, <1>6 DEF NotHandedOut
    <3>2. \A p \in DOMAIN phis' : phis'[p].result # r
      BY <2>2, <1>1, <1>4 DEF NotHandedOut
    <3> QED
      BY <3>1, <3>2, <1>2, DefinerIsNext
  <2> QED
    BY <2>3 DEF AtMostOne
<1>8. ~limitExceeded' => \A u \in undefs' : u \in undefs \/ u \in nextReg..(nextReg' - 1)
  <2>1. ~limitExceeded' => \A k \in 1..n : Allocated(k) \in nextReg..(nextReg' - 1)
    BY <1>1, HandedOut
  <2> QED
    BY <2>1, <1>1
<1> QED
  BY <1>1, <1>2, <1>3, <1>4, <1>5, <1>6, <1>7, <1>8, FreshAdds

LEMMA FreshStart == Shape /\ Shape' /\ FreshInv /\ InsertUndefs => FreshInv'
<1> SUFFICES ASSUME Shape, Shape', FreshInv, InsertUndefs PROVE FreshInv'
  OBVIOUS
<1> PICK bare : bare = {v \in variables : EntryBlock \notin variableInfo[v].defBlocks}
  OBVIOUS
<1> PICK n : n = Cardinality(bare)
  OBVIOUS
<1>0. Starting(bare)
  BY StartingFacts
<1>1. n \in Nat /\ Allocate(n) /\ UNCHANGED <<fn, variableInfo, code, phis>> /\ fn \in Functions
      /\ RegisterPart /\ RegisterPart'
      /\ undefs' = {Allocated(Rank(v, bare)) : v \in bare}
      /\ \A v \in bare : Rank(v, bare) \in 1..n
  BY <1>0 DEF Starting, phiVars, Shape, FnPart
<1>2. variables' = variables /\ Places' = Places
  BY <1>1, FixedFn DEF variables
<1>3. ~limitExceeded' => ~limitExceeded /\ nextReg <= nextReg'
  BY <1>1, HandedOut
<1>5. ~limitExceeded' => \A p \in DOMAIN phis' : phis'[p].result >= fn.regs
  BY <1>1, <1>3 DEF FreshInv
<1>6. \A q, r : Writes(q, r)' <=> Writes(q, r)
  BY <1>1, <1>2 DEF Writes, Defines
<1>7. ASSUME ~limitExceeded', NEW r \in nextReg..(nextReg' - 1) PROVE AtMostOne(Definers(r)')
  <2>1. r \in nextReg..(NoReg - 1)
    BY <1>1, <1>7, NextBounds
  <2>2. NotHandedOut(r)
    BY <2>1, <1>3, <1>7, NotYetDefined
  <2>3. \A d \in Definers(r)' : d = <<"undef", 0, 0>>
    <3>1. \A q \in Places : ~Writes(q, r)'
      BY <2>2, <1>6 DEF NotHandedOut
    <3>2. \A p \in DOMAIN phis' : phis'[p].result # r
      BY <2>2, <1>1 DEF NotHandedOut
    <3> QED
      BY <3>1, <3>2, <1>2, DefinerIsNext
  <2> QED
    BY <2>3 DEF AtMostOne
<1>8. ~limitExceeded' => \A u \in undefs' : u \in undefs \/ u \in nextReg..(nextReg' - 1)
  <2>1. ~limitExceeded' => \A k \in 1..n : Allocated(k) \in nextReg..(nextReg' - 1)
    BY <1>1, HandedOut
  <2> QED
    BY <2>1, <1>1
<1> QED
  BY <1>1, <1>2, <1>3, <1>5, <1>6, <1>7, <1>8, FreshAdds

(* Cleaning leaves no block more definitions than it had.                  *)
LEMMA WritesCleaned ==
  ASSUME Shape, NEW n, NEW bare, NEW filled, NEW shared, Cleaning(n, bare, filled, shared),
         NEW q \in Places, NEW r, Writes(q, r)'
  PROVE  Writes(q, r) /\ q[1] \in visited
<1>1. /\ variables' = variables /\ CodePart /\ fn \in Functions
      /\ code' = [b \in Blocks |-> IF b \in visited THEN code[b] ELSE [i \in DOMAIN code[b] |-> Emptied(b, i, shared)]]
  BY Zenon DEF Cleaning, phiVars, variables, Shape, FnPart
<1>2. q[1] \in Blocks /\ q[2] \in DOMAIN fn.code[q[1]]
  BY PlacesArePairs
<1> PICK b : b = q[1]
  OBVIOUS
<1> PICK i : i = q[2]
  OBVIOUS
<1>3. CASE b \in visited
  <2>1. code'[b][i] = code[b][i]
    BY <1>1, <1>2, <1>3
  <2> QED
    BY <2>1, <1>1, <1>3 DEF Writes, Defines
<1>4. CASE b \notin visited
  <2>0. i \in DOMAIN code[b] /\ code[b][i] \in [op : Ops \cup {"load"}, dest : Nat, srcs : Seq(Nat)]
    <3> PICK c : c = code[b]
      OBVIOUS
    <3> PICK d : d = fn.code[b]
      OBVIOUS
    <3>1. c \in Seq(Written) /\ Len(c) = Len(d)
      BY <1>1, <1>2 DEF CodePart
    <3>2. d \in Seq(Instruction(fn.regs))
      BY <1>1, <1>2, FnState
    <3>3. i \in DOMAIN c
      BY <3>1, <3>2, <1>2
    <3>4. c[i] \in Written
      BY <3>1, <3>3
    <3> QED
      BY <3>3, <3>4 DEF Written
  <2>1. code'[b][i] = Emptied(b, i, shared)
    BY <1>1, <1>2, <1>4, <2>0
  <2>2. ~Defines(Emptied(b, i, shared))
    <3>1. CASE <<b, i>> \in Tests
      <4>1. code[b][i].op = "branch" /\ Emptied(b, i, shared) = [code[b][i] EXCEPT !.srcs = <<shared>>]
        BY <3>1 DEF Tests, Emptied
      <4>2. Emptied(b, i, shared).op = "branch"
        BY <4>1, <2>0
      <4> QED
        BY <4>2 DEF Defines
    <3>2. CASE <<b, i>> \notin Tests
      <4>1. Emptied(b, i, shared).op \in {"ret", "nop"}
        BY <3>2 DEF Emptied
      <4> QED
        BY <4>1 DEF Defines
    <3> QED
      BY <3>1, <3>2
  <2> QED
    BY <2>1, <2>2 DEF Writes, Defines
<1> QED
  BY <1>3, <1>4

LEMMA FreshClean == Shape /\ Shape' /\ FreshInv /\ CleanUnreachable => FreshInv'
<1> SUFFICES ASSUME Shape, Shape', FreshInv, CleanUnreachable PROVE FreshInv'
  OBVIOUS
<1> PICK bare : bare = {p \in DOMAIN phis : phis[p].block \in Missed}
  OBVIOUS
<1> PICK n : n = Cardinality(bare)
  OBVIOUS
<1> PICK filled : filled = n + Cardinality(Holes)
  OBVIOUS
<1> PICK shared : shared = Allocated(filled + 1)
  OBVIOUS
<1> PICK tests : tests = IF Tests = {} THEN 0 ELSE 1
  OBVIOUS
<1> PICK total : total = filled + tests
  OBVIOUS
<1>0. Cleaning(n, bare, filled, shared)
  BY CleanFacts
<1>1. /\ n \in Nat /\ filled \in Nat /\ n <= filled /\ total \in Nat /\ filled <= total /\ Allocate(total)
      /\ UNCHANGED <<fn, variableInfo>> /\ fn \in Functions
      /\ RegisterPart /\ RegisterPart'
  <2>1. /\ n \in Nat /\ filled \in Nat /\ n <= filled /\ Allocate(filled + tests) /\ UNCHANGED <<fn, variableInfo>>
    BY <1>0, Zenon DEF Cleaning, phiVars
  <2>2. fn \in Functions /\ RegisterPart /\ RegisterPart'
    BY DEF Shape, FnPart
  <2>3. tests \in 0..1
    OBVIOUS
  <2>4. total \in Nat /\ filled <= total
    BY <2>1, <2>3
  <2> QED
    BY <2>1, <2>2, <2>4
<1>2. variables' = variables /\ Places' = Places
  BY <1>1, FixedFn DEF variables
<1>3. ~limitExceeded' => ~limitExceeded /\ nextReg <= nextReg'
  BY <1>1, HandedOut
<1>4. DOMAIN phis' = DOMAIN phis
      /\ \A p \in DOMAIN phis : phis'[p].result = IF p \in bare THEN Allocated(Rank(p, bare)) ELSE phis[p].result
  <2>1. DOMAIN phis' = DOMAIN phis
    BY <1>0, Zenon DEF Cleaning
  <2>2. \A p \in DOMAIN phis : phis[p] \in PhiRecords
    BY PhiTyped
  <2>3. ASSUME NEW p \in DOMAIN phis
        PROVE  phis'[p].result = IF p \in bare THEN Allocated(Rank(p, bare)) ELSE phis[p].result
    <3>1. phis[p] \in PhiRecords
      BY <2>2
    <3>2. phis'[p] = [phis[p] EXCEPT
                   !.result = IF p \in bare THEN Allocated(Rank(p, bare)) ELSE @,
                   !.values = [k \in DOMAIN @ |-> IF @[k] = NoReg THEN Allocated(Nth(n, <<p, k>>)) ELSE @[k]]]
      BY <1>0, Zenon DEF Cleaning
    <3> QED
      BY <3>1, <3>2 DEF PhiRecords
  <2> QED
    BY <2>1, <2>3
<1>5. \A p \in bare : p \in DOMAIN phis /\ Rank(p, bare) \in 1..n /\ Rank(p, bare) \in 1..total
  <2>1. \A p \in bare : p \in DOMAIN phis /\ Rank(p, bare) \in 1..n
    BY <1>0, Zenon DEF Cleaning
  <2>2. \A k \in 1..n : k \in 1..total
    BY <1>1
  <2> QED
    BY <2>1, <2>2
<1>6. ~limitExceeded' => \A k \in 1..total : /\ Allocated(k) = nextReg + k - 1 /\ Allocated(k) \in nextReg..(nextReg' - 1)
                                           /\ Allocated(k) >= fn.regs
  BY <1>1, HandedOut
<1>7. ~limitExceeded' => /\ \A p \in DOMAIN phis' : phis'[p].result >= fn.regs
                         /\ \A p \in DOMAIN phis' : \/ p \in DOMAIN phis /\ phis'[p].result = phis[p].result
                                                    \/ phis'[p].result \in nextReg..(nextReg' - 1)
  <2>1. ~limitExceeded' => \A p \in DOMAIN phis : phis[p].result >= fn.regs
    BY <1>3 DEF FreshInv
  <2> QED
    BY <2>1, <1>4, <1>5, <1>6
<1>8. \A u \in undefs' : u \in undefs \/ \E k \in (n + 1)..total : u = Allocated(k)
  <2>1. undefs' = undefs \cup {Allocated(Nth(n, h)) : h \in Holes} \cup (IF Tests = {} THEN {} ELSE {shared})
    BY <1>0, Zenon DEF Cleaning
  <2>2. \A h \in Holes : Nth(n, h) \in (n + 1)..total
    <3>1. \A h \in Holes : Nth(n, h) \in (n + 1)..filled
      BY <1>0, Zenon DEF Cleaning
    <3>2. \A k \in (n + 1)..filled : k \in (n + 1)..total
      BY <1>1
    <3> QED
      BY <3>1, <3>2
  <2>3. Tests # {} => filled + 1 \in (n + 1)..total
    BY <1>1
  <2> QED
    BY <2>1, <2>2, <2>3
<1>9. \A k \in (n + 1)..total : k \in 1..total
  BY <1>1
<1>10. ~limitExceeded' => \A u \in undefs' : u \in undefs \/ u \in nextReg..(nextReg' - 1)
  BY <1>6, <1>8, <1>9
<1>11. \A q \in Places : \A r : Writes(q, r)' => Writes(q, r)
  BY <1>0, WritesCleaned
<1>12. ASSUME ~limitExceeded', NEW r \in nextReg..(nextReg' - 1) PROVE AtMostOne(Definers(r)')
  <2>1. r \in nextReg..(NoReg - 1)
    BY <1>1, <1>12, NextBounds
  <2>2. NotHandedOut(r)
    BY <2>1, <1>3, <1>12, NotYetDefined
  <2>3. \A q \in Places' : ~Writes(q, r)'
    BY <2>2, <1>2, <1>11 DEF NotHandedOut
  <2>4. \A p \in DOMAIN phis' : phis'[p].result = r => p \in bare /\ r = nextReg + Rank(p, bare) - 1
    BY <2>2, <1>4, <1>5, <1>6, <1>12 DEF NotHandedOut
  <2>5. r \in undefs' => \E k \in (n + 1)..total : r = nextReg + k - 1
    BY <2>2, <1>6, <1>8, <1>9, <1>12 DEF NotHandedOut
  <2>6. nextReg \in Nat
    BY <1>1, FreshBounds
  <2>7. r \in undefs' => \A p \in DOMAIN phis' : phis'[p].result # r
    <3> SUFFICES ASSUME r \in undefs', NEW p \in DOMAIN phis', phis'[p].result = r PROVE FALSE
      OBVIOUS
    <3> PICK j : j = Rank(p, bare)
      OBVIOUS
    <3>1. j \in 1..n /\ r = nextReg + j - 1
      BY <2>4, <1>5
    <3>2. PICK k \in (n + 1)..total : r = nextReg + k - 1
      BY <2>5
    <3>3. n \in Nat /\ total \in Nat
      BY <1>1
    <3> QED
      BY ONLY <3>1, <3>2, <3>3, <2>6
  <2>8. \A p, q \in DOMAIN phis' : phis'[p].result = r /\ phis'[q].result = r => p = q
    <3> SUFFICES ASSUME NEW p \in DOMAIN phis', NEW q \in DOMAIN phis', phis'[p].result = r, phis'[q].result = r PROVE p = q
      OBVIOUS
    <3> PICK j : j = Rank(p, bare)
      OBVIOUS
    <3> PICK k : k = Rank(q, bare)
      OBVIOUS
    <3>1. j \in 1..n /\ k \in 1..n /\ nextReg + j - 1 = nextReg + k - 1
      BY <2>4, <1>5
    <3>2. n \in Nat
      BY <1>1
    <3>3. j = k
      BY ONLY <3>1, <3>2, <2>6
    <3>4. p \in bare /\ q \in bare
      BY <2>4
    <3> QED
      BY <3>3, <3>4, <1>0, Zenon DEF Cleaning
  <2> QED
    BY <2>3, <2>7, <2>8, DefinerIsNext DEF AtMostOne
<1> QED
  BY <1>1, <1>2, <1>3, <1>7, <1>10, <1>11, <1>12, FreshAdds

LEMMA FreshSweep == Shape /\ Shape' /\ FreshInv /\ SweepPhis => FreshInv'
<1> SUFFICES ASSUME Shape, Shape', FreshInv, SweepPhis PROVE FreshInv'
  OBVIOUS
<1> PICK n : n = Cardinality(live)
  OBVIOUS
<1> PICK order : order = InOrder(live)
  OBVIOUS
<1>0. Sweeping(n, order)
  BY SweepFacts
<1>1. /\ UNCHANGED <<fn, variableInfo, nextReg, limitExceeded, undefs, code>>
      /\ DOMAIN phis' = 1..n /\ \A k \in 1..n : phis'[k] = phis[order[k]] /\ order[k] \in DOMAIN phis
      /\ \A j, k \in 1..n : order[j] = order[k] => j = k
  BY <1>0 DEF Sweeping, phiVars, renameVars
<1>2. variables' = variables /\ Places' = Places
  BY <1>1, FixedFn DEF variables
<1>3. \A q, r : Writes(q, r)' <=> Writes(q, r)
  BY <1>1, <1>2 DEF Writes, Defines
<1>4. ASSUME ~limitExceeded, NEW r \in fn.regs..(NoReg - 1)
      PROVE  (Definers(r)' # {} => r < nextReg) /\ AtMostOne(Definers(r)')
  <2> DEFINE before(d) == IF d[1] = "phi" THEN <<"phi", order[d[2]], 0>> ELSE d
  <2>1. ASSUME NEW d \in Definers(r)'
        PROVE  before(d) \in Definers(r) /\ (d[1] = "phi" => d = <<"phi", d[2], 0>> /\ d[2] \in 1..n)
    BY <1>1, <1>2, <1>3, DefinerIs, DefinerIsNext
  <2>2. (Definers(r) # {} => r < nextReg) /\ AtMostOne(Definers(r))
    BY <1>4 DEF FreshInv
  <2>3. Definers(r)' # {} => Definers(r) # {}
    BY <2>1
  <2>4. ASSUME NEW d \in Definers(r)', NEW e \in Definers(r)' PROVE d = e
    <3>1. before(d) = before(e)
      BY <2>1, <2>2 DEF AtMostOne
    <3> QED
      BY <3>1, <2>1, <1>1
  <2> QED
    BY <2>2, <2>3, <2>4 DEF AtMostOne
<1>5. ~limitExceeded => /\ \A p \in DOMAIN phis' : phis'[p].result >= fn.regs
                        /\ \A u \in undefs' : u \in fn.regs..(nextReg - 1)
  BY <1>1 DEF FreshInv
<1> QED
  BY <1>1, <1>4, <1>5 DEF FreshInv, AtMostOne

LEMMA FreshStep == Shape /\ Shape' /\ FreshInv /\ [Next]_vars => FreshInv'
<1> SUFFICES ASSUME Shape, Shape', FreshInv, [Next]_vars PROVE FreshInv'
  OBVIOUS
<1>1. CASE IdentifyVariables
  <2>1. UNCHANGED <<fn, undefs, code, nextReg, limitExceeded, phis>> /\ stage = "variables"
    BY <1>1 DEF IdentifyVariables, renameVars
  <2>2. variables = {}
    BY <2>1 DEF Shape, EarlyPart
  <2> QED
    BY <2>1, <2>2, FreshUntouched
<1>2. CASE StartVariable \/ VisitChild \/ LeaveBlock \/ MarkPhi \/ Execute \/ TakeEdge \/ Stopped \/ UNCHANGED vars
  <2>1. UNCHANGED <<fn, undefs, code, nextReg, limitExceeded, phis, variableInfo>>
    BY <1>2, Zenon DEF StartVariable, VisitChild, LeaveBlock, MarkPhi, Execute, TakeEdge, Stopped, vars, phiVars, renameVars
  <2> QED
    BY <2>1, FreshUntouched DEF variables
<1>3. CASE SpreadPhis
  <2>1. UNCHANGED <<fn, undefs, code, nextReg, limitExceeded, variableInfo>>
    BY <1>3 DEF SpreadPhis, renameVars
  <2> PICK fresh : fresh = {b \in tree.frontier[Head(worklist)] : ~HasPhiFor(b, placing)}
    OBVIOUS
  <2>2. /\ \A k \in DOMAIN phis : phis'[k] = phis[k]
        /\ \A k \in DOMAIN phis' : k \in DOMAIN phis \/ \E b \in fresh : phis'[k] = NewPhi(b, placing)
    BY <1>3, SpreadFactsOf
  <2>3. \A b : NewPhi(b, placing).result = NoReg
    BY DEF NewPhi
  <2> QED
    BY <2>1, <2>2, <2>3, FreshUntouched DEF variables
<1> QED
  BY <1>1, <1>2, <1>3, FreshEnter, FreshRename, FreshFill, FreshStart, FreshClean, FreshSweep DEF Next

----------------------------------------------------------------------------
(* What a block holds while the walk is in or below it: the registers at   *)
(* the height the stacks had when the walk left its instructions.          *)

OnStack(s, h) == IF h = 0 THEN NoReg ELSE s[h]
Latest(b) == held[b][Len(held[b])]
TopsInv ==
  stage = "rename" =>
    /\ \A f \in DOMAIN walk : walk[f].pc > 0 =>
         \A v \in variables : Latest(walk[f].block)[v] = OnStack(regStack[v], Height(walk, f, v))
    /\ \A v \in variables : Base(v) = 1 => regStack[v][1] \in undefs

LEMMA HeightsGrow ==
  ASSUME NEW w, NEW n \in Nat, NEW V, \A g \in 1..n : w[g].pushed \in Seq(V), NEW v, NEW f \in 1..n
  PROVE  /\ Height(w, f, v) \in Nat /\ Base(v) <= Height(w, f, v) /\ Height(w, f, v) <= Height(w, n, v)
         /\ Height(w, n, v) \in Nat
<1> PICK A : A = PushSet(w, f, v)
  OBVIOUS
<1> PICK B : B = PushSet(w, n, v)
  OBVIOUS
<1>1. f \in Nat /\ \A g \in 1..f : g \in 1..n
  OBVIOUS
<1>2. \A g \in 1..f : w[g].pushed \in Seq(V)
  BY <1>1
<1>3. IsFiniteSet(A) /\ Cardinality(A) \in Nat
  BY ONLY <1>1, <1>2, PushSetFacts, A = PushSet(w, f, v)
<1>4. IsFiniteSet(B) /\ Cardinality(B) \in Nat
  BY PushSetFacts
<1>5. A \subseteq B
  BY <1>1 DEF PushSet
<1>6. Cardinality(A) <= Cardinality(B)
  BY <1>4, <1>5, FS_Subset
<1>7. Base(v) \in Nat
  BY DEF Base
<1> PICK a : a = Cardinality(A)
  OBVIOUS
<1> PICK c : c = Cardinality(B)
  OBVIOUS
<1> PICK base : base = Base(v)
  OBVIOUS
<1>8. Height(w, f, v) = base + a /\ Height(w, n, v) = base + c
  BY DEF Height
<1>9. a \in Nat /\ c \in Nat /\ base \in Nat /\ a <= c
  BY <1>3, <1>4, <1>6, <1>7
<1> QED
  BY <1>8, <1>9

LEMMA WalkHeights ==
  ASSUME Shape, StackInv, stage = "rename", NEW n, n = Len(walk), NEW v \in variables
  PROVE  /\ n \in Nat \ {0} /\ n \in 1..n /\ DOMAIN walk = 1..n /\ \A f \in 1..n : walk[f].pushed \in Seq(variables)
         /\ regStack[v] \in Seq(Nat) /\ Len(regStack[v]) \in Nat /\ Len(regStack[v]) = Height(walk, n, v)
         /\ \A f \in 1..n : /\ Height(walk, f, v) \in Nat /\ Base(v) <= Height(walk, f, v)
                            /\ Height(walk, f, v) <= Len(regStack[v])
<1>1. walk \in Seq(Frames) /\ walk # <<>> /\ regStack \in [variables -> Seq(Nat)]
  BY DEF Shape, WalkPart, StackPart
<1> PICK F : F = Frames
  OBVIOUS
<1> PICK w : w = walk
  OBVIOUS
<1>2. w \in Seq(F) /\ w # <<>> /\ n = Len(w)
  BY <1>1
<1>3. n \in Nat \ {0} /\ n \in 1..n /\ DOMAIN w = 1..n /\ \A f \in 1..n : w[f] \in F
  BY ONLY <1>2
<1>4. \A f \in 1..n : w[f].pushed \in Seq(variables)
  BY <1>3 DEF Frames
<1> PICK V : V = variables
  OBVIOUS
<1>5. n \in Nat /\ \A f \in 1..n : w[f].pushed \in Seq(V)
  BY <1>3, <1>4
<1>6. \A f \in 1..n : Height(w, f, v) \in Nat /\ Base(v) <= Height(w, f, v) /\ Height(w, f, v) <= Height(w, n, v)
  <2> TAKE f \in 1..n
  <2>1. Height(w, f, v) \in Nat
    BY ONLY <1>5, HeightsGrow, f \in 1..n
  <2>2. Base(v) <= Height(w, f, v)
    BY ONLY <1>5, HeightsGrow, f \in 1..n
  <2>3. Height(w, f, v) <= Height(w, n, v)
    BY ONLY <1>5, HeightsGrow, f \in 1..n
  <2> QED
    BY <2>1, <2>2, <2>3
<1>7. Len(regStack[v]) = Height(w, n, v)
  BY DEF StackInv
<1>8. regStack[v] \in Seq(Nat)
  BY <1>1
<1>9. Len(regStack[v]) \in Nat
  BY <1>3, <1>6, <1>7
<1> QED
  BY <1>3, <1>4, <1>6, <1>7, <1>8, <1>9

(* A step that pushes at most one register of each variable and remembers  *)
(* the outcome.                                                            *)
LEMMA TopsAdvance ==
  ASSUME Shape, Shape', FramesInv, StackInv, StackInv', TopsInv, Renaming, Remember,
         UNCHANGED <<fn, stage, variableInfo, undefs>>,
         NEW fr \in Frames, walk' = Append(Front(walk), fr), fr.block = Top.block,
         \A v \in variables : regStack'[v] = regStack[v] \/ \E r \in Nat : regStack'[v] = Append(regStack[v], r)
  PROVE  TopsInv'
<1> PICK n : n = Len(walk)
  OBVIOUS
<1> PICK b : b = Top.block
  OBVIOUS
<1>1. /\ n \in Nat \ {0} /\ Len(walk') = n /\ walk'[n] = fr /\ \A k \in 1..(n - 1) : walk'[k] = walk[k]
      /\ DOMAIN walk = 1..n /\ walk[n] = Top /\ \A k \in 1..n : walk[k] \in Frames /\ walk'[k] \in Frames
  BY TopAfter
<1>2. stage = "rename" /\ stage' = "rename" /\ variables' = variables /\ Blocks' = Blocks /\ b \in Blocks
      /\ \A v : Base(v)' = Base(v)
  BY TopFacts, FixedFn DEF variables, Base
<1>3. regStack' \in [variables -> Seq(Nat)] /\ DOMAIN walk' = 1..n
  <2>1. walk' \in Seq(Frames')
    BY DEF Shape, WalkPart
  <2>2. DOMAIN walk' = 1..Len(walk')
    BY <2>1
  <2> QED
    BY <2>2, <1>1, <1>2 DEF Shape, StackPart
<1>4. /\ held'[b][Len(held'[b])] = [v \in variables |-> CurrentRegister(regStack', v)]
      /\ \A c \in Blocks \ {b} : held'[c] = held[c]
  BY <1>2, <1>3, HeldGrows
<1>5. ASSUME NEW v \in variables, NEW f \in 1..(n - 1)
      PROVE  /\ f \in 1..n /\ Height(walk, f, v) \in Nat /\ Height(walk, f, v) <= Len(regStack[v])
             /\ Height(walk, f, v)' = Height(walk, f, v)
  <2>1. f \in 1..n /\ \A g \in 1..f : g \in 1..(n - 1)
    BY <1>1
  <2>2. \A g \in 1..f : walk'[g].pushed = walk[g].pushed
    BY <2>1, <1>1
  <2> PICK w : w = walk
    OBVIOUS
  <2> PICK t : t = walk'
    OBVIOUS
  <2>3. \A g \in 1..f : t[g].pushed = w[g].pushed
    BY <2>2
  <2>4. PushSet(t, f, v) = PushSet(w, f, v)
    BY ONLY <2>3, PushSetSame
  <2>5. Height(walk, f, v)' = Base(v)' + Cardinality(PushSet(t, f, v))
    BY DEF Height
  <2>6. Height(walk, f, v)' = Height(walk, f, v)
    BY <2>4, <2>5, <1>2 DEF Height
  <2> QED
    BY <2>1, <2>6, <1>2, WalkHeights
<1>6. ASSUME NEW v \in variables, NEW h \in Nat, h <= Len(regStack[v])
      PROVE  OnStack(regStack'[v], h) = OnStack(regStack[v], h)
  <2> PICK s : s = regStack[v]
    OBVIOUS
  <2>1. s \in Seq(Nat) /\ Len(s) \in Nat
    BY <1>2, WalkHeights
  <2>2. CASE regStack'[v] = s
    BY <2>2
  <2>3. CASE \E r \in Nat : regStack'[v] = Append(s, r)
    <3>1. PICK r \in Nat : regStack'[v] = Append(s, r)
      BY <2>3
    <3>2. \A k \in 1..Len(s) : Append(s, r)[k] = s[k]
      BY <2>1
    <3>3. h = 0 \/ h \in 1..Len(s)
      BY <2>1, <1>6
    <3> QED
      BY <3>1, <3>2, <3>3 DEF OnStack
  <2> QED
    BY <2>2, <2>3
<1>7. ASSUME NEW f \in 1..n, walk'[f].pc > 0, NEW v \in variables
      PROVE  Latest(walk[f].block)'[v] = OnStack(regStack'[v], Height(walk, f, v)')
  <2>1. CASE f = n
    <3>1. Len(regStack'[v]) = Height(walk, n, v)'
      BY <1>1, <1>2 DEF StackInv
    <3>2. CurrentRegister(regStack', v) = IF Len(regStack'[v]) = 0 THEN NoReg ELSE regStack'[v][Len(regStack'[v])]
      BY <1>3, CurrentFacts
    <3>3. walk'[f].block = b
      BY <2>1, <1>1
    <3>4. held'[b][Len(held'[b])][v] = OnStack(regStack'[v], Height(walk, n, v)')
      BY <3>1, <3>2, <1>4 DEF OnStack
    <3> QED
      BY <3>3, <3>4, <2>1 DEF Latest
  <2>2. CASE f # n
    <3>1. f \in 1..(n - 1)
      BY <2>2, <1>1
    <3>2. walk'[f] = walk[f] /\ f \in DOMAIN walk /\ n \in DOMAIN walk
      BY <3>1, <1>1
    <3>3. walk[f].block # b /\ walk[f].block \in Blocks
      <4>1. walk[f] \in Frames
        BY <3>2, <1>1
      <4> QED
        BY <4>1, <3>2, <2>2, <1>1 DEF FramesInv, Frames
    <3>4. Latest(walk[f].block)' = Latest(walk[f].block)
      BY <3>2, <3>3, <1>4 DEF Latest
    <3>5. Latest(walk[f].block)[v] = OnStack(regStack[v], Height(walk, f, v))
      BY <3>2, <1>2, <1>7 DEF TopsInv
    <3> QED
      BY <3>1, <3>4, <3>5, <1>5, <1>6
  <2> QED
    BY <2>1, <2>2
<1>8. ASSUME NEW v \in variables, Base(v) = 1 PROVE regStack'[v][1] \in undefs'
  <2>1. 1 <= Len(regStack[v])
    <3>1. Base(v) <= Height(walk, n, v) /\ Len(regStack[v]) = Height(walk, n, v)
      BY <1>2, WalkHeights
    <3> QED
      BY <3>1, <1>8
  <2>2. OnStack(regStack'[v], 1) = OnStack(regStack[v], 1)
    BY <2>1, <1>6
  <2>3. regStack[v][1] \in undefs
    BY <1>2, <1>8 DEF TopsInv
  <2> QED
    BY <2>2, <2>3 DEF OnStack
<1> QED
  BY <1>2, <1>3, <1>7, <1>8 DEF TopsInv

LEMMA PushEither ==
  ASSUME regStack \in [variables -> Seq(Nat)], NEW v \in variables, NEW r
  PROVE  /\ Push(regStack, v, r)[v] = regStack[v] \/ Push(regStack, v, r)[v] = Append(regStack[v], r)
         /\ \A w \in variables \ {v} : Push(regStack, v, r)[w] = regStack[w]
<1> PICK V : V = variables
  OBVIOUS
<1>1. regStack \in [V -> Seq(Nat)] /\ v \in V
  OBVIOUS
<1> QED
  BY <1>1 DEF Push

LEMMA TopsEnter == Shape /\ Shape' /\ WalkInv /\ StackInv /\ StackInv' /\ TopsInv /\ EnterBlock => TopsInv'
<1> SUFFICES ASSUME Shape, Shape', WalkInv, StackInv, StackInv', TopsInv, EnterBlock PROVE TopsInv'
  OBVIOUS
<1> PICK b : b = Top.block
  OBVIOUS
<1> PICK mine : mine = PhisOf(b)
  OBVIOUS
<1>0. Entering(b, mine)
  BY EnterFacts
<1>1. /\ Renaming /\ Remember /\ UNCHANGED <<fn, stage, variableInfo, undefs>>
      /\ mine \subseteq DOMAIN phis
  BY <1>0 DEF Entering, phiVars
<1>2. PICK pushed \in Seq(variables) : walk' = Append(Front(walk), [Top EXCEPT !.pc = 1, !.pushed = pushed])
  BY <1>0, Zenon DEF Entering
<1> PICK fr : fr = [Top EXCEPT !.pc = 1, !.pushed = pushed]
  OBVIOUS
<1>3. fr \in Frames /\ fr.block = Top.block /\ walk' = Append(Front(walk), fr)
  BY <1>1, <1>2, TopFacts DEF Frames
<1>4. ASSUME NEW v \in variables
      PROVE  regStack'[v] = regStack[v] \/ \E r \in Nat : regStack'[v] = Append(regStack[v], r)
  <2>1. CASE \A p \in mine : phis[p].var # v
    BY <2>1, <1>0 DEF Entering
  <2>2. CASE \E p \in mine : phis[p].var = v
    <3>1. PICK p \in mine : phis[p].var = v
      BY <2>2
    <3>2. PICK r \in Nat : regStack'[v] = Push(regStack, v, r)[v]
      BY <3>1, <1>0 DEF Entering
    <3>3. regStack \in [variables -> Seq(Nat)]
      BY <1>1, TopFacts
    <3> QED
      BY <3>2, <3>3, PushEither
  <2> QED
    BY <2>1, <2>2
<1> QED
  BY <1>1, <1>3, <1>4, TopsAdvance DEF WalkInv

LEMMA TopsRename == Shape /\ Shape' /\ WalkInv /\ StackInv /\ StackInv' /\ TopsInv /\ RenameInstruction => TopsInv'
<1> SUFFICES ASSUME Shape, Shape', WalkInv, StackInv, StackInv', TopsInv, RenameInstruction PROVE TopsInv'
  OBVIOUS
<1> PICK b : b = Top.block
  OBVIOUS
<1> PICK pc : pc = Top.pc
  OBVIOUS
<1> PICK ins : ins = code[b][pc]
  OBVIOUS
<1>0. Rewriting(b, pc, ins)
  BY RewriteFacts
<1>1. /\ Renaming /\ Remember /\ UNCHANGED <<fn, stage, variableInfo, undefs>>
      /\ regStack' = IF Tracked(ins) THEN Push(regStack, ins.dest, Value(ins)) ELSE regStack
      /\ Tracked(ins) => ins.dest \in variables /\ Value(ins) \in Nat
  BY <1>0 DEF Rewriting, phiVars
<1>2. PICK pushed \in Seq(variables) : walk' = Append(Front(walk), [Top EXCEPT !.pc = pc + 1, !.pushed = pushed])
  BY <1>0, Zenon DEF Rewriting
<1> PICK k : k = pc + 1
  OBVIOUS
<1> PICK fr : fr = [Top EXCEPT !.pc = k, !.pushed = pushed]
  OBVIOUS
<1>3. fr \in Frames /\ fr.block = Top.block /\ walk' = Append(Front(walk), fr)
  <2>0. pc \in Nat /\ Top \in Frames
    BY <1>1, TopFacts
  <2>1. k \in Nat /\ Top \in Frames
    BY <2>0
  <2> QED
    BY <2>1, <1>2 DEF Frames
<1>4. ASSUME NEW v \in variables
      PROVE  regStack'[v] = regStack[v] \/ \E r \in Nat : regStack'[v] = Append(regStack[v], r)
  <2>1. regStack \in [variables -> Seq(Nat)]
    BY <1>1, TopFacts
  <2>2. CASE Tracked(ins)
    <3> PICK d : d = ins.dest
      OBVIOUS
    <3> PICK x : x = Value(ins)
      OBVIOUS
    <3>1. regStack' = Push(regStack, d, x) /\ d \in variables /\ x \in Nat
      BY <2>2, <1>1
    <3>2. CASE v = d
      <4>1. Push(regStack, v, x)[v] = regStack[v] \/ Push(regStack, v, x)[v] = Append(regStack[v], x)
        BY <2>1, PushEither
      <4> QED
        BY <4>1, <3>1, <3>2, Zenon
    <3>3. CASE v # d
      <4>1. Push(regStack, d, x)[v] = regStack[v]
        BY <3>1, <3>3, <2>1, PushEither
      <4> QED
        BY <4>1, <3>1, Zenon
    <3> QED
      BY <3>2, <3>3
  <2>3. CASE ~Tracked(ins)
    BY <2>3, <1>1
  <2> QED
    BY <2>2, <2>3
<1> QED
  BY <1>1, <1>3, <1>4, TopsAdvance, Zenon DEF WalkInv

(* A step that leaves the stacks alone, and frames as they were but for    *)
(* what is left to do.                                                     *)
LEMMA TopsSame ==
  ASSUME Shape, TopsInv, stage = "rename", UNCHANGED <<fn, stage, variableInfo, held, regStack>>, undefs \subseteq undefs',
         NEW n, n = Len(walk), NEW m, DOMAIN walk' = 1..m,
         \A f \in 1..m : f \in 1..n \/ walk'[f].pc = 0,
         \A f \in 1..n : /\ walk'[f].pushed = walk[f].pushed /\ walk'[f].block = walk[f].block
                         /\ walk'[f].pc > 0 => walk[f].pc > 0
  PROVE  TopsInv'
<1>1. variables' = variables /\ \A v : Base(v)' = Base(v)
  BY DEF variables, Base
<1>2. walk \in Seq(Frames)
  BY DEF Shape, WalkPart
<1>3. n \in Nat /\ DOMAIN walk = 1..n
  BY <1>2
<1>4. ASSUME NEW f \in 1..m, walk'[f].pc > 0, NEW v \in variables
      PROVE  Latest(walk[f].block)'[v] = OnStack(regStack'[v], Height(walk, f, v)')
  <2>1. f \in 1..n
    BY <1>4
  <2>2. \A g \in 1..f : g \in 1..n
    BY <2>1, <1>3
  <2> PICK w : w = walk
    OBVIOUS
  <2> PICK t : t = walk'
    OBVIOUS
  <2>3. \A g \in 1..f : t[g].pushed = w[g].pushed
    BY <2>2
  <2>4. PushSet(t, f, v) = PushSet(w, f, v)
    BY ONLY <2>3, PushSetSame
  <2>5. Height(walk, f, v)' = Base(v)' + Cardinality(PushSet(t, f, v))
    BY DEF Height
  <2>6. Height(walk, f, v)' = Height(walk, f, v)
    BY <2>4, <2>5, <1>1 DEF Height
  <2>7. Latest(walk[f].block)[v] = OnStack(regStack[v], Height(walk, f, v))
    BY <2>1, <1>3, <1>4 DEF TopsInv
  <2>8. Latest(walk[f].block)' = Latest(walk[f].block)
    BY <2>1 DEF Latest
  <2> QED
    BY <2>6, <2>7, <2>8
<1>5. ASSUME NEW v \in variables, Base(v) = 1 PROVE regStack'[v][1] \in undefs'
  BY <1>5 DEF TopsInv
<1> QED
  BY <1>1, <1>4, <1>5 DEF TopsInv

LEMMA TopsFill == Shape /\ Shape' /\ WalkInv /\ TopsInv /\ FillSuccessor => TopsInv'
<1> SUFFICES ASSUME Shape, Shape', WalkInv, TopsInv, FillSuccessor PROVE TopsInv'
  OBVIOUS
<1> PICK b : b = Top.block
  OBVIOUS
<1> PICK s : s = fn.succ[b][SuccessorIndex]
  OBVIOUS
<1> PICK fed : fed = PhisOf(s)
  OBVIOUS
<1> PICK bare : bare = {p \in fed : regStack[phis[p].var] = <<>>}
  OBVIOUS
<1> PICK n : n = Len(walk)
  OBVIOUS
<1> PICK k : k = Top.pc + 1
  OBVIOUS
<1> PICK fr : fr = [Top EXCEPT !.pc = k]
  OBVIOUS
<1>0. Filling(b, s, fed, bare)
  BY FillFacts, Zenon
<1>1. /\ Renaming /\ UNCHANGED <<fn, stage, variableInfo, held, regStack>> /\ undefs \subseteq undefs'
      /\ walk' = Append(Front(walk), fr) /\ Top.pc > Len(code[b])
  BY <1>0 DEF Filling, phiVars
<1>2. Top \in Frames /\ Top.pc \in Nat /\ stage = "rename" /\ Len(code[b]) \in Nat /\ fn \in Functions
  BY <1>1, TopFacts
<1>3. fr \in Frames /\ fr.pushed = Top.pushed /\ fr.block = Top.block /\ Top.pc > 0
  <2>1. k \in Nat
    BY <1>2
  <2>2. Top.pc > 0
    BY <1>1, <1>2
  <2> QED
    BY <2>1, <2>2, <1>2 DEF Frames
<1>4. /\ n \in Nat \ {0} /\ Len(walk') = n /\ walk'[n] = fr /\ \A f \in 1..(n - 1) : walk'[f] = walk[f]
      /\ walk[n] = Top
  BY <1>1, <1>3, TopAfter
<1>5. \A f \in 1..n : f = n \/ f \in 1..(n - 1)
  BY ONLY <1>4
<1>6. DOMAIN walk' = 1..n
  <2>1. walk' \in Seq(Frames')
    BY DEF Shape, WalkPart
  <2> QED
    BY <2>1, <1>4
<1>7. \A f \in 1..n : /\ walk'[f].pushed = walk[f].pushed /\ walk'[f].block = walk[f].block
                      /\ walk'[f].pc > 0 => walk[f].pc > 0
  BY <1>3, <1>4, <1>5
<1> QED
  BY <1>1, <1>2, <1>6, <1>7, TopsSame

LEMMA TopsVisit == Shape /\ Shape' /\ TopsInv /\ VisitChild => TopsInv'
<1> SUFFICES ASSUME Shape, Shape', TopsInv, VisitChild PROVE TopsInv'
  OBVIOUS
<1> PICK b : b = Top.block
  OBVIOUS
<1> PICK child : child = Least(Top.todo)
  OBVIOUS
<1> PICK left : left = [Top EXCEPT !.todo = @ \ {child}]
  OBVIOUS
<1> PICK n : n = Len(walk)
  OBVIOUS
<1> PICK m : m = n + 1
  OBVIOUS
<1> PICK w : w = walk
  OBVIOUS
<1> PICK t : t = walk'
  OBVIOUS
<1>0. Visiting(b, child)
  BY VisitFacts
<1>1. /\ Renaming /\ child \in Blocks
      /\ t = Front(walk) \o <<left, Frame(child)>> /\ left \in Frames /\ Frame(child) \in Frames
      /\ UNCHANGED <<fn, stage, variableInfo, held, regStack, undefs>>
  BY <1>0 DEF Visiting, phiVars
<1>2. /\ n \in Nat \ {0} /\ DOMAIN w = 1..n /\ Top = w[n] /\ w # <<>> /\ w \in Seq(Frames) /\ stage = "rename"
      /\ Top \in Frames /\ fn \in Functions
  BY <1>1, TopFacts
<1>3. Len(t) = m /\ t[m] = Frame(child) /\ t[n] = left /\ \A k \in 1..(n - 1) : t[k] = w[k]
  <2> PICK F : F = Frames
    OBVIOUS
  <2> PICK y : y = Frame(child)
    OBVIOUS
  <2>0. w \in Seq(F) /\ w # <<>> /\ left \in F /\ y \in F /\ t = Front(w) \o <<left, y>> /\ n = Len(w)
    BY <1>1, <1>2
  <2>1. Extended(t, w, left, y)
    BY ONLY <2>0, AddFrame
  <2> QED
    BY <2>0, <2>1 DEF Extended
<1>4. left.pushed = Top.pushed /\ left.block = Top.block /\ left.pc = Top.pc /\ Frame(child).pc = 0
  BY <1>2 DEF Frame, Frames
<1>5. DOMAIN walk' = 1..m
  <2>1. walk' \in Seq(Frames')
    BY DEF Shape, WalkPart
  <2> QED
    BY <2>1, <1>3
<1>6. \A f \in 1..n : f = n \/ f \in 1..(n - 1)
  BY ONLY <1>2
<1>7. \A f \in 1..n : /\ walk'[f].pushed = walk[f].pushed /\ walk'[f].block = walk[f].block
                      /\ walk'[f].pc > 0 => walk[f].pc > 0
  <2> TAKE f \in 1..n
  <2>1. CASE f = n
    BY <2>1, <1>2, <1>3, <1>4
  <2>2. CASE f # n
    BY <2>2, <1>3, <1>6
  <2> QED
    BY <2>1, <2>2
<1>8. \A f \in 1..m : f \in 1..n \/ walk'[f].pc = 0
  <2>1. \A f \in 1..m : f \in 1..n \/ f = m
    BY <1>2
  <2> QED
    BY <2>1, <1>3, <1>4
<1> QED
  BY <1>1, <1>2, <1>5, <1>7, <1>8, TopsSame

LEMMA TopsLeave == Shape /\ Shape' /\ WalkInv /\ StackInv /\ StackInv' /\ TopsInv /\ LeaveBlock => TopsInv'
<1> SUFFICES ASSUME Shape, Shape', WalkInv, StackInv, StackInv', TopsInv, LeaveBlock, stage' = "rename" PROVE TopsInv'
  BY DEF TopsInv
<1> PICK b : b = Top.block
  OBVIOUS
<1> PICK n : n = Len(walk)
  OBVIOUS
<1> PICK m : m = n - 1
  OBVIOUS
<1> PICK w : w = walk
  OBVIOUS
<1> PICK t : t = walk'
  OBVIOUS
<1>0. Leaving(b)
  BY LeaveFacts
<1>1. /\ Renaming /\ t = Front(walk) /\ (n = 1 <=> walk' = <<>>)
      /\ regStack' = [v \in variables |-> SubSeq(regStack[v], 1, Len(regStack[v]) - Times(Top.pushed, v))]
      /\ regStack' \in [variables -> Seq(Nat)]
      /\ UNCHANGED <<fn, variableInfo, held, undefs>>
  BY <1>0 DEF Leaving, phiVars
<1>2. /\ n \in Nat \ {0} /\ DOMAIN w = 1..n /\ Top = w[n] /\ w # <<>> /\ w \in Seq(Frames) /\ stage = "rename"
      /\ regStack \in [variables -> Seq(Nat)]
  BY <1>1, TopFacts
<1>3. Len(t) = m /\ \A k \in 1..m : t[k] = w[k]
  <2>0. w \in Seq(Frames) /\ w # <<>> /\ t = Front(w) /\ n = Len(w) /\ m = n - 1
    BY <1>1, <1>2
  <2>2. Len(t) = m
    BY ONLY <2>0, FrontFacts
  <2>3. \A k \in 1..m : t[k] = w[k]
    BY ONLY <2>0, FrontFacts
  <2> QED
    BY <2>2, <2>3
<1>4. /\ variables' = variables /\ \A v : Base(v)' = Base(v)
  BY <1>1 DEF variables, Base
<1>5. walk' # <<>> /\ m \in Nat \ {0} /\ DOMAIN walk' = 1..m /\ m \in 1..m
  <2>1. walk' \in Seq(Frames') /\ walk' # <<>>
    BY DEF Shape, WalkPart
  <2>2. m \in Nat \ {0} /\ m \in 1..m
    BY <2>1, <1>1, <1>2
  <2> QED
    BY <2>1, <2>2, <1>3
<1>6. ASSUME NEW v \in variables, NEW f \in 1..m
      PROVE  /\ f \in 1..n /\ Height(walk, f, v) \in Nat
             /\ Height(walk, f, v)' = Height(walk, f, v)
             /\ Base(v) <= Height(walk, f, v) /\ Height(walk, f, v) <= Len(regStack'[v])
  <2>1. f \in 1..n /\ \A g \in 1..f : g \in 1..m
    BY <1>2, <1>5
  <2>2. \A g \in 1..f : t[g].pushed = w[g].pushed
    BY <2>1, <1>3
  <2>3. PushSet(t, f, v) = PushSet(w, f, v)
    BY ONLY <2>2, PushSetSame
  <2>4. Height(walk, f, v)' = Base(v)' + Cardinality(PushSet(t, f, v))
    BY DEF Height
  <2>5. Height(walk, f, v)' = Height(walk, f, v)
    BY <2>3, <2>4, <1>4 DEF Height
  <2>6. \A g \in 1..m : t[g].pushed \in Seq(variables)
    <3>1. \A g \in 1..m : g \in 1..n
      BY <1>2
    <3> QED
      BY <3>1, <1>2, <1>3, WalkHeights
  <2> PICK V : V = variables
    OBVIOUS
  <2>7. \A g \in 1..m : t[g].pushed \in Seq(V)
    BY <2>6
  <2>8. m \in Nat
    BY <1>5
  <2>9. Height(t, f, v) <= Height(t, m, v)
    BY ONLY <2>7, <2>8, HeightsGrow, f \in 1..m
  <2>10. Len(regStack'[v]) = Height(walk, m, v)'
    BY <1>3, <1>4 DEF StackInv
  <2>11. Height(walk, f, v)' = Height(t, f, v) /\ Height(walk, m, v)' = Height(t, m, v)
    BY <1>4 DEF Height
  <2>12. Height(walk, f, v) \in Nat /\ Base(v) <= Height(walk, f, v)
    BY <2>1, <1>2, WalkHeights
  <2> QED
    BY <2>1, <2>5, <2>9, <2>10, <2>11, <2>12
<1>7. ASSUME NEW v \in variables, NEW h \in Nat, h <= Len(regStack'[v])
      PROVE  OnStack(regStack'[v], h) = OnStack(regStack[v], h)
  <2> PICK s : s = regStack[v]
    OBVIOUS
  <2> PICK u : u = regStack'[v]
    OBVIOUS
  <2> PICK k : k = Times(Top.pushed, v)
    OBVIOUS
  <2>1. s \in Seq(Nat) /\ Len(s) \in Nat /\ u \in Seq(Nat) /\ Len(u) \in Nat /\ u = SubSeq(s, 1, Len(s) - k)
    BY <1>1, <1>2
  <2>2. k \in Nat
    BY <1>1, TopFacts, TimesFacts
  <2>3. CASE h = 0
    BY <2>3 DEF OnStack
  <2>4. CASE h # 0
    <3>1. h \in 1..Len(u)
      BY <2>1, <2>4, <1>7
    <3>2. Len(s) - k \in Int
      BY <2>1, <2>2
    <3>3. \A j \in 1..(Len(s) - k) : SubSeq(s, 1, Len(s) - k)[j] = s[j]
      BY <2>1, <2>2
    <3>4. h \in 1..(Len(s) - k)
      <4>1. CASE k <= Len(s)
        <5>1. Len(u) = Len(s) - k
          BY <4>1, <2>1, <2>2
        <5> QED
          BY <5>1, <3>1
      <4>2. CASE ~(k <= Len(s))
        <5>1. Len(u) = 0
          BY <4>2, <2>1, <2>2
        <5> QED
          BY <5>1, <3>1
      <4> QED
        BY <4>1, <4>2
    <3> QED
      BY <3>3, <3>4, <2>1, <2>4 DEF OnStack
  <2> QED
    BY <2>3, <2>4
<1>8. ASSUME NEW f \in 1..m, walk'[f].pc > 0, NEW v \in variables
      PROVE  Latest(walk[f].block)'[v] = OnStack(regStack'[v], Height(walk, f, v)')
  <2>1. f \in DOMAIN walk /\ walk'[f] = walk[f]
    BY <1>2, <1>3, <1>6
  <2>2. Latest(walk[f].block)[v] = OnStack(regStack[v], Height(walk, f, v))
    BY <2>1, <1>2, <1>8 DEF TopsInv
  <2>3. Latest(walk[f].block)' = Latest(walk[f].block)
    BY <2>1, <1>1 DEF Latest
  <2> QED
    BY <2>2, <2>3, <1>6, <1>7
<1>9. ASSUME NEW v \in variables, Base(v) = 1 PROVE regStack'[v][1] \in undefs'
  <2>1. 1 <= Len(regStack'[v])
    <3>1. Height(walk, m, v) \in Nat /\ Base(v) <= Height(walk, m, v) /\ Height(walk, m, v) <= Len(regStack'[v])
      BY <1>5, <1>6
    <3>2. Len(regStack'[v]) \in Nat
      <4>1. regStack'[v] \in Seq(Nat)
        BY <1>1
      <4> QED
        BY <4>1
    <3> QED
      BY <3>1, <3>2, <1>9
  <2>2. OnStack(regStack'[v], 1) = OnStack(regStack[v], 1)
    BY <2>1, <1>7
  <2>3. regStack[v][1] \in undefs
    BY <1>2, <1>9 DEF TopsInv
  <2>4. regStack'[v][1] = regStack[v][1]
    BY <2>2 DEF OnStack
  <2> QED
    BY <2>3, <2>4, <1>1
<1> QED
  BY <1>4, <1>5, <1>8, <1>9 DEF TopsInv

LEMMA TopsStep == Shape /\ Shape' /\ WalkInv /\ StackInv /\ StackInv' /\ TopsInv /\ [Next]_vars => TopsInv'
<1> SUFFICES ASSUME Shape, Shape', WalkInv, StackInv, StackInv', TopsInv, [Next]_vars, stage' = "rename" PROVE TopsInv'
  BY DEF TopsInv
<1>1. CASE InsertUndefs
  <2> PICK bare : bare = {v \in variables : EntryBlock \notin variableInfo[v].defBlocks}
    OBVIOUS
  <2>0. Starting(bare)
    BY <1>1, StartingFacts
  <2>1. /\ walk' = <<Frame(EntryBlock)>> /\ variables' = variables /\ variableInfo' = variableInfo
        /\ undefs' = {Allocated(Rank(v, bare)) : v \in bare}
        /\ regStack' = [v \in variables |-> IF v \in bare THEN <<Allocated(Rank(v, bare))>> ELSE <<>>]
    BY <2>0 DEF Starting, phiVars, variables
  <2>2. DOMAIN walk' = {1} /\ walk'[1].pc = 0
    <3> PICK t : t = walk'
      OBVIOUS
    <3> PICK fr : fr = Frame(EntryBlock)
      OBVIOUS
    <3>1. t = <<fr>>
      BY <2>1
    <3>2. DOMAIN t = {1} /\ t[1] = fr
      BY ONLY <3>1
    <3> QED
      BY <3>2 DEF Frame
  <2>3. \A v \in variables : Base(v)' = 1 => v \in bare
    BY <2>0, <2>1 DEF Base, Starting
  <2>4. \A v \in variables : Base(v)' = 1 => regStack'[v][1] \in undefs'
    BY <2>1, <2>3
  <2>5. \A f \in DOMAIN walk' : ~(walk'[f].pc > 0)
    BY <2>2
  <2> QED
    BY <2>1, <2>4, <2>5 DEF TopsInv
<1>2. CASE Stopped \/ UNCHANGED vars
  <2>1. UNCHANGED <<fn, stage, variableInfo, held, regStack, undefs, walk>>
    BY <1>2 DEF Stopped, vars, phiVars, renameVars
  <2> QED
    BY <2>1 DEF TopsInv, Latest, Height, Base, variables, OnStack
<1>3. CASE IdentifyVariables \/ StartVariable \/ SpreadPhis \/ CleanUnreachable \/ MarkPhi \/ SweepPhis \/ Execute \/ TakeEdge
  BY <1>3, Zenon DEF IdentifyVariables, StartVariable, SpreadPhis, CleanUnreachable, MarkPhi, SweepPhis, Execute, TakeEdge, Running
<1> QED
  BY <1>1, <1>2, <1>3, TopsEnter, TopsRename, TopsFill, TopsVisit, TopsLeave DEF Next

----------------------------------------------------------------------------
(* What renaming made of the instructions it has passed: they read what    *)
(* the block holds in front of them and say what it holds behind them.     *)

ReadAs(b, i, r) == IF r \in variables /\ held[b][i][r] # NoReg THEN held[b][i][r] ELSE r
Rewrote(b, i) ==
  LET was == fn.code[b][i]
      is == code[b][i]
  IN /\ is.srcs = IF was.op = "out" THEN was.srcs ELSE [k \in DOMAIN was.srcs |-> ReadAs(b, i, was.srcs[k])]
     /\ IF Tracked(was) /\ ~Aliases(was)
          THEN /\ is.op = (IF was.op \in {"const", "copy"} THEN "load" ELSE was.op)
               /\ held[b][i + 1] = [held[b][i] EXCEPT ![was.dest] = is.dest]
               /\ ~limitExceeded => is.dest \in fn.regs..(NoReg - 1)
          ELSE /\ is.op = was.op /\ is.dest = (IF was.op = "out" THEN ReadAs(b, i, was.dest) ELSE was.dest)
               /\ held[b][i + 1] = IF Tracked(was) THEN [held[b][i] EXCEPT ![was.dest] = is.srcs[1]] ELSE held[b][i]
CodeInv == \A b \in Blocks : \A i \in DOMAIN fn.code[b] : i < Len(held[b]) => Rewrote(b, i)

(* On top of the walk, what the block holds is what is on the stacks.      *)
LEMMA TopIsHeld ==
  ASSUME Shape, WalkInv, StackInv, TopsInv, Renaming, NEW b, b = Top.block, Top.pc > 0, NEW v \in variables
  PROVE  Latest(b)[v] = CurrentRegister(regStack, v)
<1> PICK n : n = Len(walk)
  OBVIOUS
<1>1. n \in Nat \ {0} /\ DOMAIN walk = 1..n /\ Top = walk[n] /\ stage = "rename" /\ regStack \in [variables -> Seq(Nat)]
  BY TopFacts
<1>2. n \in 1..n
  BY <1>1
<1>3. Latest(b)[v] = OnStack(regStack[v], Height(walk, n, v))
  BY <1>1, <1>2 DEF TopsInv
<1>4. Len(regStack[v]) = Height(walk, n, v)
  BY <1>1 DEF StackInv
<1>5. CurrentRegister(regStack, v) = IF Len(regStack[v]) = 0 THEN NoReg ELSE regStack[v][Len(regStack[v])]
  <2> PICK ss : ss = regStack
    OBVIOUS
  <2> PICK V : V = variables
    OBVIOUS
  <2>1. ss \in [V -> Seq(Nat)] /\ v \in V
    BY <1>1
  <2>2. CurrentRegister(ss, v) = IF Len(ss[v]) = 0 THEN NoReg ELSE ss[v][Len(ss[v])]
    BY ONLY <2>1, CurrentFacts
  <2> QED
    BY <2>2
<1> QED
  BY <1>3, <1>4, <1>5 DEF OnStack

(* A renamed definition is on top afterwards: there was room.              *)
LEMMA TopPushed ==
  ASSUME Shape, Shape', StackInv, StackInv', RenameInstruction, NEW b, b = Top.block, NEW pc, pc = Top.pc,
         NEW ins, ins = code[b][pc], Tracked(ins), NEW d, d = ins.dest, NEW x, x = Value(ins)
  PROVE  CurrentRegister(regStack', d) = x /\ d \in variables
<1>0. Rewriting(b, pc, ins)
  BY RewriteFacts
<1>1. /\ Renaming /\ UNCHANGED <<fn, stage, variableInfo>> /\ d \in variables /\ x \in Nat
      /\ regStack' = Push(regStack, d, x) /\ regStack' \in [variables -> Seq(Nat)]
  BY <1>0, Zenon DEF Rewriting, phiVars
<1>2. PICK pushed \in Seq(variables) :
        /\ walk' = Append(Front(walk), [Top EXCEPT !.pc = pc + 1, !.pushed = pushed])
        /\ pushed = Append(Top.pushed, d)
  BY <1>0, Zenon DEF Rewriting
<1> PICK k : k = pc + 1
  OBVIOUS
<1> PICK fr : fr = [Top EXCEPT !.pc = k, !.pushed = pushed]
  OBVIOUS
<1>3. /\ Top \in Frames /\ pc \in Nat /\ Top.pushed \in Seq(variables) /\ regStack \in [variables -> Seq(Nat)]
      /\ stage = "rename"
  BY <1>1, TopFacts
<1>4. fr \in Frames /\ fr.pushed = Append(Top.pushed, d) /\ walk' = Append(Front(walk), fr)
  <2>1. k \in Nat
    BY <1>3
  <2> QED
    BY <2>1, <1>2, <1>3, Zenon DEF Frames
<1>5. PICK h \in Nat : /\ Height(walk, Len(walk), d) = h + Times(Top.pushed, d) /\ Times(Top.pushed, d) \in Nat
                       /\ Height(walk, Len(walk), d)' = h + Times(fr.pushed, d) /\ Times(fr.pushed, d) \in Nat
  BY <1>1, <1>4, HeightAfter
<1>6. Times(fr.pushed, d) = Times(Top.pushed, d) + 1
  <2> PICK V : V = variables
    OBVIOUS
  <2> PICK q : q = Top.pushed
    OBVIOUS
  <2>1. q \in Seq(V) /\ d \in V /\ fr.pushed = Append(q, d)
    BY <1>1, <1>3, <1>4
  <2>2. Times(Append(q, d), d) = Times(q, d) + 1
    BY ONLY <2>1, TimesAppend
  <2> QED
    BY <2>1, <2>2
<1>7. Len(regStack[d]) = Height(walk, Len(walk), d) /\ Len(regStack'[d]) = Height(walk, Len(walk), d)'
  BY <1>1, <1>3 DEF StackInv, variables
<1> PICK t : t = Times(Top.pushed, d)
  OBVIOUS
<1>8. Len(regStack[d]) = h + t /\ Len(regStack'[d]) = h + (t + 1) /\ t \in Nat
  BY <1>5, <1>6, <1>7
<1>9. regStack'[d] # regStack[d]
  <2>1. h + t # h + (t + 1)
    BY <1>5, <1>8
  <2> QED
    BY <2>1, <1>8
<1>10. Push(regStack, d, x)[d] = regStack[d] \/ Push(regStack, d, x)[d] = Append(regStack[d], x)
  BY <1>1, <1>3, PushEither, Zenon
<1> PICK s : s = regStack[d]
  OBVIOUS
<1>11. s \in Seq(Nat) /\ regStack'[d] = Append(s, x)
  BY <1>1, <1>3, <1>9, <1>10, Zenon
<1>12. Len(Append(s, x)) = Len(s) + 1 /\ Len(s) \in Nat /\ Append(s, x)[Len(s) + 1] = x
  <2>1. s \in Seq(Nat) /\ x \in Nat
    BY <1>1, <1>11, Zenon
  <2> QED
    BY ONLY <2>1
<1>13. CurrentRegister(regStack', d) = IF Len(regStack'[d]) = 0 THEN NoReg ELSE regStack'[d][Len(regStack'[d])]
  <2> PICK ss : ss = regStack'
    OBVIOUS
  <2> PICK V : V = variables
    OBVIOUS
  <2>1. ss \in [V -> Seq(Nat)] /\ d \in V
    BY <1>1, <1>3
  <2>2. CurrentRegister(ss, d) = IF Len(ss[d]) = 0 THEN NoReg ELSE ss[d][Len(ss[d])]
    BY ONLY <2>1, CurrentFacts
  <2> QED
    BY <2>2
<1>14. Len(s) + 1 # 0
  <2> PICK l : l = Len(s)
    OBVIOUS
  <2>1. l \in Nat
    BY <1>12
  <2>2. l + 1 # 0
    BY ONLY <2>1
  <2> QED
    BY <2>2
<1> QED
  BY <1>1, <1>11, <1>12, <1>13, <1>14, Zenon

LEMMA RenamedReadsSrcs ==
  ASSUME Shape, Renaming, NEW ins \in Written
  PROVE  RenamedReads(ins).srcs = IF ins.op = "out" THEN ins.srcs ELSE [k \in DOMAIN ins.srcs |-> Renamed(ins.srcs[k])]
<1>1. ins \in [op : Ops \cup {"load"}, dest : Nat, srcs : Seq(Nat)]
  BY DEF Written
<1> QED
  BY <1>1 DEF RenamedReads

(* What stays true of the instructions passed.                             *)
LEMMA RewroteStays ==
  ASSUME NEW b, NEW i, Rewrote(b, i), UNCHANGED <<fn, variableInfo>>, code'[b][i] = code[b][i],
         held'[b][i] = held[b][i], held'[b][i + 1] = held[b][i + 1], ~limitExceeded' => ~limitExceeded
  PROVE  Rewrote(b, i)'
<1>1. variables' = variables /\ NoReg' = NoReg
  BY DEF variables
<1>2. \A r : ReadAs(b, i, r)' = ReadAs(b, i, r)
  BY <1>1 DEF ReadAs
<1> PICK was : was = fn.code[b][i]
  OBVIOUS
<1> PICK is : is = code[b][i]
  OBVIOUS
<1>3. (Tracked(was)' <=> Tracked(was)) /\ (Aliases(was)' <=> Aliases(was))
  BY <1>1 DEF Tracked, Aliases, Defines
<1>4. was = fn'.code[b][i] /\ is = code'[b][i]
  OBVIOUS
<1>5. is.srcs = IF was.op = "out" THEN was.srcs ELSE [k \in DOMAIN was.srcs |-> ReadAs(b, i, was.srcs[k])]
  BY DEF Rewrote
<1>6. Tracked(was) /\ ~Aliases(was) =>
               /\ is.op = (IF was.op \in {"const", "copy"} THEN "load" ELSE was.op)
               /\ held[b][i + 1] = [held[b][i] EXCEPT ![was.dest] = is.dest]
               /\ ~limitExceeded => is.dest \in fn.regs..(NoReg - 1)
  BY DEF Rewrote
<1>7. ~(Tracked(was) /\ ~Aliases(was)) =>
               /\ is.op = was.op /\ is.dest = (IF was.op = "out" THEN ReadAs(b, i, was.dest) ELSE was.dest)
               /\ held[b][i + 1] = IF Tracked(was) THEN [held[b][i] EXCEPT ![was.dest] = is.srcs[1]] ELSE held[b][i]
  BY DEF Rewrote
<1>8. [k \in DOMAIN was.srcs |-> ReadAs(b, i, was.srcs[k])] = [k \in DOMAIN was.srcs |-> ReadAs(b, i, was.srcs[k])']
  BY <1>2
<1> QED
  BY <1>2, <1>3, <1>4, <1>5, <1>6, <1>7, <1>8 DEF Rewrote

LEMMA CodeRename ==
  Shape /\ Shape' /\ WalkInv /\ StackInv /\ StackInv' /\ TopsInv /\ CodeInv /\ RenameInstruction => CodeInv'
<1> SUFFICES ASSUME Shape, Shape', WalkInv, StackInv, StackInv', TopsInv, CodeInv, RenameInstruction PROVE CodeInv'
  OBVIOUS
<1> PICK b : b = Top.block
  OBVIOUS
<1> PICK pc : pc = Top.pc
  OBVIOUS
<1> PICK ins : ins = code[b][pc]
  OBVIOUS
<1>0. Rewriting(b, pc, ins)
  BY RewriteFacts
<1>1. /\ Renaming /\ b \in Blocks /\ pc \in DOMAIN code[b] /\ Remember /\ regStack' \in [variables -> Seq(Nat)]
      /\ ins \in Written /\ (Tracked(ins) => Value(ins) \in Nat)
      /\ code' = [code EXCEPT ![b][pc] = Rewritten(ins)] /\ CodePart
      /\ regStack' = IF Tracked(ins) THEN Push(regStack, ins.dest, Value(ins)) ELSE regStack
      /\ UNCHANGED <<fn, stage, variableInfo>> /\ Taken(ins) \in Nat /\ Allocate(Taken(ins))
  BY <1>0 DEF Rewriting, phiVars, Shape
<1>2. /\ Top \in Frames /\ fn \in Functions /\ regStack \in [variables -> Seq(Nat)] /\ stage = "rename" /\ pc \in Nat
      /\ Len(fn.code[b]) \in Nat /\ DOMAIN code[b] = 1..Len(fn.code[b]) /\ DOMAIN fn.code[b] = DOMAIN code[b]
      /\ pc > 0 /\ pc <= Len(fn.code[b]) /\ walk # <<>>
  <2>1. /\ Top \in Frames /\ fn \in Functions /\ regStack \in [variables -> Seq(Nat)] /\ stage = "rename" /\ pc \in Nat
        /\ Len(fn.code[b]) \in Nat /\ DOMAIN code[b] = 1..Len(fn.code[b]) /\ DOMAIN fn.code[b] = DOMAIN code[b]
        /\ walk # <<>>
    BY <1>1, TopFacts
  <2> QED
    BY <2>1, <1>1
<1>3. variables' = variables /\ Blocks' = Blocks
  BY <1>1, FixedFn DEF variables
<1>4. Len(held[b]) = pc
  <2> PICK n : n = Len(walk)
    OBVIOUS
  <2>0. n \in Nat \ {0} /\ DOMAIN walk = 1..n /\ Top = walk[n]
    BY <1>1, TopFacts
  <2>1. n \in DOMAIN walk /\ b \in visited
    BY <2>0, <1>2 DEF WalkInv, FramesInv, FrameInv
  <2> QED
    BY <2>1, <1>1, <1>2 DEF WalkInv, HeldInv, HeldLength
<1>5. ins = fn.code[b][pc] /\ pc \in DOMAIN fn.code[b]
  <2>1. pc \in DOMAIN fn.code[b] /\ Len(held[b]) <= pc
    BY <1>1, <1>2, <1>4
  <2>2. code[b][pc] = fn.code[b][pc]
    BY <2>1, <1>1, <1>2 DEF StackInv
  <2> QED
    BY <2>1, <2>2
<1>6. /\ Len(held'[b]) = pc + 1 /\ held'[b][pc + 1] = [v \in variables |-> CurrentRegister(regStack', v)]
      /\ \A k \in 1..pc : held'[b][k] = held[b][k]
      /\ \A c \in Blocks \ {b} : held'[c] = held[c]
  BY <1>1, <1>3, <1>4, HeldGrows
<1>7. \A v \in variables : held[b][pc][v] = CurrentRegister(regStack, v)
  BY <1>1, <1>2, <1>4, TopIsHeld DEF Latest
<1>8. \A r : Renamed(r) = ReadAs(b, pc, r)
  BY <1>7 DEF Renamed, ReadAs
<1>9. held[b][pc] \in [variables -> Nat]
  <2> PICK h : h = held[b]
    OBVIOUS
  <2>1. h \in Seq([variables -> Nat]) /\ pc \in 1..Len(h)
    BY <1>1, <1>2, <1>4 DEF Shape, HeldPart
  <2> QED
    BY <2>1
<1>10. ~limitExceeded' => ~limitExceeded
  BY <1>1, HandedOut
<1> PICK was : was = fn.code[b][pc]
  OBVIOUS
<1> PICK is : is = Rewritten(ins)
  OBVIOUS
<1> PICK now : now = held[b][pc]
  OBVIOUS
<1> PICK next : next = held'[b][pc + 1]
  OBVIOUS
<1>11. code'[b][pc] = is
  BY <1>1 DEF CodePart
<1>12. is.srcs = IF was.op = "out" THEN was.srcs ELSE [k \in DOMAIN was.srcs |-> ReadAs(b, pc, was.srcs[k])]
  <2>1. is.srcs = RenamedReads(ins).srcs
    BY <1>1, RewrittenIs
  <2>2. RenamedReads(ins).srcs = IF ins.op = "out" THEN ins.srcs ELSE [k \in DOMAIN ins.srcs |-> Renamed(ins.srcs[k])]
    BY <1>1, RenamedReadsSrcs
  <2> QED
    BY <2>1, <2>2, <1>5, <1>8, Zenon
<1>13. ASSUME Tracked(ins) PROVE next = [now EXCEPT ![ins.dest] = Value(ins)]
  <2> PICK d : d = ins.dest
    OBVIOUS
  <2> PICK x : x = Value(ins)
    OBVIOUS
  <2>1. CurrentRegister(regStack', d) = x /\ d \in variables
    BY <1>13, TopPushed
  <2>2. regStack' = Push(regStack, d, x) /\ x \in Nat
    BY <1>1, <1>13
  <2>3. ASSUME NEW v \in variables \ {d} PROVE CurrentRegister(regStack', v) = CurrentRegister(regStack, v)
    <3>1. Push(regStack, d, x)[v] = regStack[v]
      BY <2>1, <1>2, PushEither
    <3> QED
      BY <3>1, <2>2 DEF CurrentRegister
  <2>4. \A v \in variables : next[v] = IF v = d THEN x ELSE now[v]
    BY <2>1, <2>3, <1>6, <1>7
  <2>5. next = [v \in variables |-> next[v]] /\ now = [v \in variables |-> now[v]]
    BY <1>6, <1>9
  <2> QED
    BY <2>4, <2>5
<1>14. ASSUME ~Tracked(ins) PROVE next = now
  <2>1. regStack' = regStack
    BY <1>1, <1>14
  <2>2. next = [v \in variables |-> CurrentRegister(regStack, v)]
    BY <2>1, <1>6 DEF CurrentRegister
  <2> QED
    BY <2>2, <1>7, <1>9
<1>15. ASSUME Tracked(ins), ~Aliases(ins)
       PROVE  /\ is.op = (IF was.op \in {"const", "copy"} THEN "load" ELSE was.op)
              /\ next = [now EXCEPT ![was.dest] = is.dest]
              /\ ~limitExceeded' => is.dest \in fn.regs..(NoReg - 1)
  <2>1. is.dest = Allocated(1) /\ is.op = (IF ins.op \in {"const", "copy"} THEN "load" ELSE ins.op)
    BY <1>1, <1>15, RewrittenIs
  <2>2. Value(ins) = Allocated(1) /\ Taken(ins) = 1
    BY <1>15 DEF Value, Taken
  <2>3. ~limitExceeded' => Allocated(1) \in fn.regs..(NoReg - 1)
    <3> SUFFICES ASSUME ~limitExceeded' PROVE Allocated(1) \in fn.regs..(NoReg - 1)
      OBVIOUS
    <3>1. 1 \in 1..1 /\ Allocate(1) /\ RegisterPart /\ RegisterPart'
      BY <2>2, <1>1 DEF Shape
    <3>2. Allocated(1) \in nextReg..(nextReg' - 1) /\ nextReg \in Nat /\ fn.regs \in Nat /\ fn.regs <= nextReg
      BY <3>1, HandedOut
    <3>3. Allocated(1) \in nextReg..(NoReg - 1)
      BY <3>1, <3>2, <1>1, <1>2, NextBounds
    <3> QED
      BY <3>2, <3>3, <3>1, <1>2, FreshBounds
  <2> QED
    BY <2>1, <2>2, <2>3, <1>5, <1>13, <1>15
<1>16. ASSUME ~(Tracked(ins) /\ ~Aliases(ins))
       PROVE  /\ is.op = was.op /\ is.dest = (IF was.op = "out" THEN ReadAs(b, pc, was.dest) ELSE was.dest)
              /\ next = IF Tracked(was) THEN [now EXCEPT ![was.dest] = is.srcs[1]] ELSE now
  <2>1. is.op = ins.op /\ is.srcs = RenamedReads(ins).srcs /\ is.dest = IF ins.op = "out" THEN Renamed(ins.dest) ELSE ins.dest
    BY <1>1, <1>16, RewrittenIs
  <2>2. Tracked(ins) => Value(ins) = is.srcs[1]
    BY <2>1, <1>16 DEF Value
  <2> QED
    BY <2>1, <2>2, <1>5, <1>8, <1>13, <1>14, Zenon
<1>17. Rewrote(b, pc)'
  <2>0. pc \in 1..pc
    BY <1>2
  <2>1. \A r : ReadAs(b, pc, r)' = ReadAs(b, pc, r)
    <3>1. held'[b][pc] = held[b][pc]
      BY <2>0, <1>6
    <3> QED
      BY <3>1, <1>3 DEF ReadAs
  <2>2. (Tracked(was)' <=> Tracked(was)) /\ (Aliases(was)' <=> Aliases(was)) /\ was = ins
    BY <1>1, <1>3, <1>5, Zenon DEF Tracked, Aliases, Defines
  <2>3. held'[b][pc] = now /\ held'[b][pc + 1] = next /\ fn'.code[b][pc] = was /\ code'[b][pc] = is
    BY <2>0, <1>1, <1>6, <1>11
  <2>4. [k \in DOMAIN was.srcs |-> ReadAs(b, pc, was.srcs[k])] = [k \in DOMAIN was.srcs |-> ReadAs(b, pc, was.srcs[k])']
    BY <2>1
  <2>5. is.srcs = IF was.op = "out" THEN was.srcs ELSE [k \in DOMAIN was.srcs |-> ReadAs(b, pc, was.srcs[k])']
    BY <2>4, <1>12, Zenon
  <2>6. Tracked(was)' /\ ~Aliases(was)' =>
          /\ is.op = (IF was.op \in {"const", "copy"} THEN "load" ELSE was.op)
          /\ next = [now EXCEPT ![was.dest] = is.dest]
          /\ ~limitExceeded' => is.dest \in fn'.regs..(NoReg - 1)
    BY <2>2, <1>1, <1>15, Zenon
  <2>7. ~(Tracked(was)' /\ ~Aliases(was)') =>
          /\ is.op = was.op /\ is.dest = (IF was.op = "out" THEN ReadAs(b, pc, was.dest)' ELSE was.dest)
          /\ next = IF Tracked(was)' THEN [now EXCEPT ![was.dest] = is.srcs[1]] ELSE now
    BY <2>1, <2>2, <1>16
  <2> QED
    BY <2>3, <2>5, <2>6, <2>7, Zenon DEF Rewrote
<1>18. ASSUME NEW c \in Blocks, NEW i \in DOMAIN fn.code[c], i < Len(held'[c]) PROVE Rewrote(c, i)'
  <2>0. i \in Nat
    <3> PICK cs : cs = fn.code[c]
      OBVIOUS
    <3>1. cs \in Seq(Instruction(fn.regs))
      BY <1>2, FnState
    <3>2. i \in 1..Len(cs) /\ Len(cs) \in Nat
      BY <3>1
    <3> QED
      BY <3>2
  <2>1. CASE c = b /\ i = pc
    BY <2>1, <1>17
  <2>2. CASE c # b
    <3>1. held'[c] = held[c] /\ code'[c] = code[c]
      BY <2>2, <1>1, <1>6 DEF CodePart
    <3>2. Rewrote(c, i)
      BY <3>1, <1>18 DEF CodeInv
    <3> QED
      BY <3>1, <3>2, <1>1, <1>10, RewroteStays
  <2>3. CASE c = b /\ i # pc
    <3>1. i < pc /\ i \in 1..pc /\ i + 1 \in 1..pc
      <4>1. i \in 1..Len(fn.code[b])
        BY <2>3, <1>2
      <4> QED
        BY <4>1, <2>0, <2>3, <1>2, <1>6, <1>18
    <3>2. held'[b][i] = held[b][i] /\ held'[b][i + 1] = held[b][i + 1] /\ code'[b][i] = code[b][i]
      BY <3>1, <2>3, <1>1, <1>6 DEF CodePart
    <3>3. Rewrote(b, i)
      BY <3>1, <2>3, <1>4, <1>18 DEF CodeInv
    <3> QED
      BY <3>2, <3>3, <2>3, <1>1, <1>10, RewroteStays
  <2> QED
    BY <2>1, <2>2, <2>3
<1> QED
  BY <1>1, <1>3, <1>18 DEF CodeInv

LEMMA CodeSame ==
  ASSUME CodeInv, UNCHANGED <<fn, variableInfo, code, held>>, ~limitExceeded' => ~limitExceeded
  PROVE  CodeInv'
<1>1. Blocks' = Blocks
  BY DEF Blocks
<1>2. ASSUME NEW b \in Blocks, NEW i \in DOMAIN fn.code[b], i < Len(held[b]) PROVE Rewrote(b, i)'
  <2>1. Rewrote(b, i)
    BY <1>2 DEF CodeInv
  <2> QED
    BY <2>1, RewroteStays
<1> QED
  BY <1>1, <1>2 DEF CodeInv

LEMMA CodePositions ==
  ASSUME fn \in Functions, NEW b \in Blocks, NEW i \in DOMAIN fn.code[b]
  PROVE  i \in Nat /\ i > 0 /\ i <= Len(fn.code[b]) /\ i \in 1..Len(fn.code[b]) /\ Len(fn.code[b]) \in Nat
<1> PICK cs : cs = fn.code[b]
  OBVIOUS
<1>1. cs \in Seq(Instruction(fn.regs))
  BY FnState
<1>2. i \in 1..Len(cs) /\ Len(cs) \in Nat
  BY <1>1
<1> QED
  BY <1>2

LEMMA CodeEnter == Shape /\ WalkInv /\ CodeInv /\ EnterBlock => CodeInv'
<1> SUFFICES ASSUME Shape, WalkInv, CodeInv, EnterBlock PROVE CodeInv'
  OBVIOUS
<1> PICK b : b = Top.block
  OBVIOUS
<1> PICK mine : mine = PhisOf(b)
  OBVIOUS
<1>0. Entering(b, mine)
  BY EnterFacts
<1>1. /\ Renaming /\ Top.pc = 0 /\ Remember /\ regStack' \in [variables -> Seq(Nat)]
      /\ UNCHANGED <<fn, variableInfo, code>> /\ Allocate(Cardinality(mine)) /\ Cardinality(mine) \in Nat
  BY <1>0 DEF Entering, phiVars
<1>2. variables' = variables /\ Blocks' = Blocks
  BY <1>1 DEF variables, Blocks
<1>3. /\ \A c \in Blocks \ {b} : held'[c] = held[c]
      /\ Len(held'[b]) = Len(held[b]) + 1
  BY <1>1, <1>2, HeldGrows
<1>4. Len(held[b]) = 0 /\ b \in Blocks
  <2> PICK n : n = Len(walk)
    OBVIOUS
  <2>1. n \in Nat \ {0} /\ DOMAIN walk = 1..n /\ Top = walk[n] /\ Top.block \in Blocks
    BY <1>1, TopFacts
  <2>2. n \in DOMAIN walk /\ b \notin visited
    BY <1>1, <2>1 DEF WalkInv, FramesInv, FrameInv
  <2> QED
    BY <2>1, <2>2 DEF WalkInv, HeldInv, HeldLength
<1>5. ~limitExceeded' => ~limitExceeded
  BY <1>1, HandedOut
<1>6. fn \in Functions
  BY DEF Shape, FnPart
<1>7. ASSUME NEW c \in Blocks, NEW i \in DOMAIN fn.code[c], i < Len(held'[c]) PROVE Rewrote(c, i)'
  <2>1. c # b
    <3>1. i \in Nat /\ i > 0
      BY <1>6, CodePositions
    <3>2. ~(i < 0 + 1)
      BY <3>1
    <3> QED
      BY <3>2, <1>3, <1>4, <1>7
  <2>2. held'[c] = held[c] /\ code'[c] = code[c] /\ Rewrote(c, i)
    BY <1>1, <1>3, <1>7, <2>1 DEF CodeInv
  <2> QED
    BY <2>2, <1>1, <1>5, RewroteStays
<1> QED
  BY <1>1, <1>2, <1>7 DEF CodeInv

LEMMA CodeClean == Shape /\ WalkInv /\ CodeInv /\ CleanUnreachable => CodeInv'
<1> SUFFICES ASSUME Shape, WalkInv, CodeInv, CleanUnreachable PROVE CodeInv'
  OBVIOUS
<1> PICK bare : bare = {p \in DOMAIN phis : phis[p].block \in Missed}
  OBVIOUS
<1> PICK n : n = Cardinality(bare)
  OBVIOUS
<1> PICK filled : filled = n + Cardinality(Holes)
  OBVIOUS
<1> PICK shared : shared = Allocated(filled + 1)
  OBVIOUS
<1>0. Cleaning(n, bare, filled, shared)
  BY CleanFacts
<1>1. UNCHANGED <<fn, variableInfo, held>> /\ \A b \in Blocks : b \in visited => code'[b] = code[b]
  BY <1>0, Zenon DEF Cleaning, phiVars
<1>2. variables' = variables /\ Blocks' = Blocks /\ fn \in Functions
  BY <1>1 DEF variables, Blocks, Shape, FnPart
<1>3. ~limitExceeded' => ~limitExceeded
  BY Zenon DEF CleanUnreachable, Allocate, Shape, RegisterPart
<1>4. ASSUME NEW b \in Blocks, NEW i \in DOMAIN fn.code[b], i < Len(held[b]) PROVE Rewrote(b, i)'
  <2>1. b \in visited
    <3>1. ~(i < 0)
      BY <1>2, CodePositions
    <3> QED
      BY <3>1, <1>4 DEF WalkInv, HeldInv, HeldLength
  <2>2. Rewrote(b, i) /\ code'[b] = code[b] /\ held'[b] = held[b]
    BY <2>1, <1>1, <1>4 DEF CodeInv
  <2> QED
    BY <2>2, <1>1, <1>3, RewroteStays
<1> QED
  BY <1>1, <1>2, <1>4 DEF CodeInv

LEMMA NothingPassed ==
  ASSUME fn' \in Functions, Blocks' = DOMAIN fn'.succ, held' = [b \in Blocks' |-> <<>>]
  PROVE  CodeInv'
<1>1. ASSUME NEW b \in Blocks', NEW i \in DOMAIN fn'.code[b] PROVE ~(i < Len(held'[b]))
  <2> PICK f : f = fn'
    OBVIOUS
  <2>1. f \in Functions /\ b \in DOMAIN f.code
    BY FnFacts
  <2> PICK cs : cs = f.code[b]
    OBVIOUS
  <2>2. cs \in Seq(Instruction(f.regs))
    BY <2>1, FnFacts
  <2>3. i \in Nat \ {0}
    BY <2>2
  <2>4. Len(held'[b]) = 0
    OBVIOUS
  <2> QED
    BY <2>3, <2>4
<1> QED
  BY <1>1 DEF CodeInv

LEMMA CodeInit == Init => CodeInv
<1> SUFFICES ASSUME Init PROVE CodeInv
  OBVIOUS
<1>1. fn \in Functions /\ held = [b \in Blocks |-> <<>>]
  BY DEF Init
<1>2. \A b \in Blocks : \A i \in DOMAIN fn.code[b] : ~(i < Len(held[b]))
  BY <1>1, CodePositions
<1> QED
  BY <1>2 DEF CodeInv

LEMMA CodeStep ==
  Shape /\ Shape' /\ WalkInv /\ StackInv /\ StackInv' /\ TopsInv /\ CodeInv /\ [Next]_vars => CodeInv'
<1> SUFFICES ASSUME Shape, Shape', WalkInv, StackInv, StackInv', TopsInv, CodeInv, [Next]_vars PROVE CodeInv'
  OBVIOUS
<1>1. CASE IdentifyVariables \/ StartVariable \/ SpreadPhis
  <2>1. stage' \in {"variables", "phis"}
    BY <1>1 DEF IdentifyVariables, StartVariable, SpreadPhis
  <2> QED
    BY <2>1, NothingPassed DEF Shape, FnPart, EarlyPart, Blocks
<1>2. CASE InsertUndefs
  <2>1. UNCHANGED <<fn, held>> /\ stage = "phis" /\ Blocks' = Blocks
    BY <1>2 DEF InsertUndefs, Blocks
  <2> QED
    BY <2>1, NothingPassed DEF Shape, FnPart, EarlyPart, Blocks
<1>3. CASE FillSuccessor
  <2>1. UNCHANGED <<fn, variableInfo, code, held>> /\ (~limitExceeded' => ~limitExceeded)
    BY <1>3 DEF FillSuccessor, phiVars, Allocate, Shape, RegisterPart
  <2> QED
    BY <2>1, CodeSame
<1>4. CASE VisitChild \/ LeaveBlock \/ MarkPhi \/ SweepPhis \/ Execute \/ TakeEdge \/ Stopped \/ UNCHANGED vars
  <2>1. UNCHANGED <<fn, variableInfo, code, held, limitExceeded>>
    BY <1>4, Zenon DEF VisitChild, LeaveBlock, MarkPhi, SweepPhis, Execute, TakeEdge, Stopped, vars, phiVars, renameVars
  <2> QED
    BY <2>1, CodeSame
<1> QED
  BY <1>1, <1>2, <1>3, <1>4, CodeEnter, CodeRename, CodeClean DEF Next

----------------------------------------------------------------------------
(* What a block holds when it is entered: the register of its phi, or what *)
(* its parent in the tree held at its end.                                 *)

Final(b) == Len(fn.code[b]) + 1
BeforeSweep == stage \in {"rename", "cleanup", "mark"}
Linked(b, v) ==
  /\ \A p \in DOMAIN phis : phis[p].block = b /\ phis[p].var = v =>
       held[b][1][v] = phis[p].result /\ phis[p].result # NoReg
  /\ (\A p \in DOMAIN phis : ~(phis[p].block = b /\ phis[p].var = v)) =>
       /\ b = EntryBlock => IF Base(v) = 1 THEN held[b][1][v] \in undefs ELSE held[b][1][v] = NoReg
       /\ \A a \in Blocks : b \in Kids(a) => held[b][1][v] = held[a][Final(a)][v]
LinkInv ==
  BeforeSweep =>
    \A b \in visited : /\ \A a \in Blocks : b \in Kids(a) => a \in visited /\ Len(held[a]) = Final(a)
                       /\ Len(held[b]) >= 1
                       /\ \A v \in variables : Linked(b, v)

LEMMA LinkSame ==
  ASSUME LinkInv, BeforeSweep, UNCHANGED <<fn, variableInfo, visited, held>>, undefs \subseteq undefs',
         DOMAIN phis' = DOMAIN phis,
         \A p \in DOMAIN phis : /\ phis'[p].block = phis[p].block /\ phis'[p].var = phis[p].var
                                /\ phis[p].block \in visited => phis'[p].result = phis[p].result
  PROVE  LinkInv'
<1>1. variables' = variables /\ Blocks' = Blocks /\ (\A a : Kids(a)' = Kids(a)) /\ (\A v : Base(v)' = Base(v))
      /\ \A a : Final(a)' = Final(a)
  BY FixedFn DEF variables, Kids, Base, Final
<1>2. ASSUME NEW b \in visited, NEW v \in variables PROVE Linked(b, v)'
  <2>1. Linked(b, v)
    BY DEF LinkInv
  <2>2. \A p \in DOMAIN phis' : phis'[p].block = b /\ phis'[p].var = v =>
          held'[b][1][v] = phis'[p].result /\ phis'[p].result # NoReg
    BY <2>1 DEF Linked
  <2>3. ASSUME \A p \in DOMAIN phis' : ~(phis'[p].block = b /\ phis'[p].var = v)
        PROVE  /\ b = EntryBlock => IF Base(v)' = 1 THEN held'[b][1][v] \in undefs' ELSE held'[b][1][v] = NoReg
               /\ \A a \in Blocks' : b \in Kids(a)' => held'[b][1][v] = held'[a][Final(a)'][v]
    <3>1. \A p \in DOMAIN phis : ~(phis[p].block = b /\ phis[p].var = v)
      BY <2>3
    <3>2. /\ b = EntryBlock => IF Base(v) = 1 THEN held[b][1][v] \in undefs ELSE held[b][1][v] = NoReg
          /\ \A a \in Blocks : b \in Kids(a) => held[b][1][v] = held[a][Final(a)][v]
      BY <2>1, <3>1 DEF Linked
    <3> QED
      BY <3>2, <1>1
  <2> QED
    BY <2>2, <2>3 DEF Linked, NoReg, EntryBlock
<1>3. \A b \in visited : /\ \A a \in Blocks : b \in Kids(a) => a \in visited /\ Len(held[a]) = Final(a)
                         /\ Len(held[b]) >= 1
  BY DEF LinkInv
<1> QED
  BY <1>1, <1>2, <1>3 DEF LinkInv

(* The register of a phi is on top when its block is entered.              *)
LEMMA PhiPushed ==
  ASSUME Shape, Shape', FramesInv, StackInv, StackInv', EnterBlock, NEW b, b = Top.block, NEW mine, mine = PhisOf(b),
         NEW p \in mine, NEW v, v = phis[p].var, NEW x, x = Allocated(Rank(p, mine))
  PROVE  CurrentRegister(regStack', v) = x /\ v \in variables
<1>0. Entering(b, mine)
  BY EnterFacts
<1>1. /\ Renaming /\ Top.pc = 0 /\ b \in Blocks /\ UNCHANGED <<fn, stage, variableInfo>> /\ mine \subseteq DOMAIN phis
      /\ regStack' \in [variables -> Seq(Nat)] /\ x \in Nat /\ regStack'[v] = Push(regStack, v, x)[v]
  BY <1>0 DEF Entering, phiVars
<1>2. PICK pushed \in Seq(variables) :
        /\ walk' = Append(Front(walk), [Top EXCEPT !.pc = 1, !.pushed = pushed])
        /\ DOMAIN pushed = 1..Cardinality(mine)
        /\ \A k \in DOMAIN pushed : InOrder(mine)[k] \in mine /\ pushed[k] = phis[InOrder(mine)[k]].var
  BY <1>0, Zenon DEF Entering
<1> PICK fr : fr = [Top EXCEPT !.pc = 1, !.pushed = pushed]
  OBVIOUS
<1>3. /\ Top \in Frames /\ Top.pushed \in Seq(variables) /\ regStack \in [variables -> Seq(Nat)] /\ stage = "rename"
      /\ v \in variables
  BY <1>1, TopFacts, PhiTyped
<1>4. fr \in Frames /\ fr.pushed = pushed /\ walk' = Append(Front(walk), fr)
  BY <1>2, <1>3 DEF Frames
<1>5. PICK h \in Nat : /\ Height(walk, Len(walk), v) = h + Times(Top.pushed, v) /\ Times(Top.pushed, v) \in Nat
                       /\ Height(walk, Len(walk), v)' = h + Times(fr.pushed, v) /\ Times(fr.pushed, v) \in Nat
  BY <1>1, <1>3, <1>4, HeightAfter
<1>6. Times(fr.pushed, v) = 1
  <2>1. EachOnce(pushed, mine, v)
    BY <1>1, <1>2, EnteredOnce DEF ListsVars
  <2> QED
    BY <2>1, <1>4 DEF EachOnce
<1>7. Len(regStack[v]) = Height(walk, Len(walk), v) /\ Len(regStack'[v]) = Height(walk, Len(walk), v)'
  BY <1>1, <1>3 DEF StackInv, variables
<1> PICK s : s = regStack[v]
  OBVIOUS
<1>8. Push(regStack, v, x)[v] = s \/ Push(regStack, v, x)[v] = Append(s, x)
  BY <1>3, PushEither
<1>9. s \in Seq(Nat) /\ x \in Nat /\ Len(s) \in Nat
  BY <1>1, <1>3
<1>10. Len(Append(s, x)) = Len(s) + 1 /\ Append(s, x)[Len(s) + 1] = x
  BY ONLY <1>9
<1>11. CurrentRegister(regStack', v) = IF Len(regStack'[v]) = 0 THEN NoReg ELSE regStack'[v][Len(regStack'[v])]
  <2> PICK ss : ss = regStack'
    OBVIOUS
  <2> PICK V : V = variables
    OBVIOUS
  <2>1. ss \in [V -> Seq(Nat)] /\ v \in V
    BY <1>1, <1>3
  <2>2. CurrentRegister(ss, v) = IF Len(ss[v]) = 0 THEN NoReg ELSE ss[v][Len(ss[v])]
    BY ONLY <2>1, CurrentFacts
  <2> QED
    BY <2>2
<1>12. CASE regStack'[v] = Append(s, x)
  <2> PICK l : l = Len(s)
    OBVIOUS
  <2>1. l \in Nat
    BY <1>9
  <2>2. l + 1 # 0
    BY ONLY <2>1
  <2> QED
    BY <2>2, <1>3, <1>10, <1>11, <1>12
<1>13. CASE regStack'[v] = s
  <2> PICK l : l = Len(s)
    OBVIOUS
  <2> PICK k : k = Times(Top.pushed, v)
    OBVIOUS
  <2>1. l = h + 1 /\ l = h + k /\ k \in Nat
    BY <1>5, <1>6, <1>7, <1>13
  <2>2. k = 1
    BY <2>1
  <2>3. Top.pushed = <<>>
    <3> PICK n : n = Len(walk)
      OBVIOUS
    <3>1. n \in Nat \ {0} /\ DOMAIN walk = 1..n /\ Top = walk[n]
      BY <1>1, TopFacts
    <3>2. n \in DOMAIN walk
      BY <3>1
    <3> QED
      BY <3>1, <3>2, <1>1 DEF FramesInv, FrameInv
  <2>4. k = 0
    <3>1. Top.pushed \in Seq(variables) /\ Top.pushed = <<>>
      BY <2>3, <1>3
    <3> QED
      BY <3>1, HitsFacts
  <2> QED
    BY ONLY <2>2, <2>4
<1> QED
  BY <1>1, <1>8, <1>12, <1>13

LEMMA LinkEnter ==
  Shape /\ Shape' /\ WalkInv /\ StackInv /\ StackInv' /\ TopsInv /\ LinkInv /\ EnterBlock => LinkInv'
<1> SUFFICES ASSUME Shape, Shape', WalkInv, StackInv, StackInv', TopsInv, LinkInv, EnterBlock PROVE LinkInv'
  OBVIOUS
<1> PICK b : b = Top.block
  OBVIOUS
<1> PICK mine : mine = PhisOf(b)
  OBVIOUS
<1> PICK n : n = Len(walk)
  OBVIOUS
<1>0. Entering(b, mine)
  BY EnterFacts
<1>1. /\ Renaming /\ Top.pc = 0 /\ b \in Blocks /\ mine \subseteq DOMAIN phis
      /\ visited' = visited \cup {b} /\ Remember /\ regStack' \in [variables -> Seq(Nat)]
      /\ UNCHANGED <<fn, stage, variableInfo, undefs>>
      /\ Allocate(Cardinality(mine)) /\ Cardinality(mine) \in Nat
      /\ \A p \in mine : Rank(p, mine) \in 1..Cardinality(mine)
      /\ DOMAIN phis' = DOMAIN phis
      /\ \A p \in DOMAIN phis : phis'[p] = IF p \in mine THEN [phis[p] EXCEPT !.result = Allocated(Rank(p, mine))]
                                                         ELSE phis[p]
  BY <1>0 DEF Entering, phiVars
<1>2. /\ n \in Nat \ {0} /\ DOMAIN walk = 1..n /\ Top = walk[n] /\ stage = "rename" /\ fn \in Functions
      /\ regStack \in [variables -> Seq(Nat)] /\ n \in 1..n /\ walk # <<>> /\ walk \in Seq(Frames)
  <2>1. /\ n \in Nat \ {0} /\ DOMAIN walk = 1..n /\ Top = walk[n] /\ stage = "rename" /\ fn \in Functions
        /\ regStack \in [variables -> Seq(Nat)] /\ walk # <<>> /\ walk \in Seq(Frames)
    BY <1>1, TopFacts
  <2> QED
    BY <2>1
<1>3. /\ variables' = variables /\ Blocks' = Blocks /\ (\A a : Kids(a)' = Kids(a)) /\ (\A v : Base(v)' = Base(v))
      /\ \A a : Final(a)' = Final(a)
  BY <1>1, FixedFn DEF variables, Kids, Base, Final
<1>4. /\ b \notin visited /\ Len(held[b]) = 0 /\ Top.pushed = <<>>
  <2>1. b \notin visited /\ Top.pushed = <<>>
    BY <1>1, <1>2 DEF WalkInv, FramesInv, FrameInv
  <2> QED
    BY <2>1, <1>1 DEF WalkInv, HeldInv, HeldLength
<1>5. /\ \A c \in Blocks \ {b} : held'[c] = held[c]
      /\ Len(held'[b]) = 1 /\ held'[b][1] = [v \in variables |-> CurrentRegister(regStack', v)]
  <2>1. /\ \A c \in Blocks \ {b} : held'[c] = held[c]
        /\ Len(held'[b]) = Len(held[b]) + 1
        /\ held'[b][Len(held[b]) + 1] = [v \in variables |-> CurrentRegister(regStack', v)]
    BY <1>1, <1>3, HeldGrows
  <2>2. Len(held[b]) + 1 = 1
    BY <1>4
  <2> QED
    BY <2>1, <2>2
<1>6. visited \subseteq Blocks /\ b \in Blocks
  BY <1>1 DEF Shape, WalkPart
<1>7. ASSUME NEW p \in DOMAIN phis
      PROVE  /\ phis'[p].block = phis[p].block /\ phis'[p].var = phis[p].var
             /\ p \notin mine => phis'[p].result = phis[p].result
             /\ p \in mine => phis'[p].result = Allocated(Rank(p, mine))
             /\ p \in mine <=> phis[p].block = b
  <2>1. phis[p] \in PhiRecords
    BY PhiTyped
  <2> QED
    BY <2>1, <1>1 DEF PhiRecords, PhisOf
<1>8. ASSUME NEW c \in visited, NEW a \in Blocks, c \in Kids(a)
      PROVE a \in visited /\ Len(held'[a]) = Final(a) /\ held'[a] = held[a]
  <2>1. a \in visited /\ Len(held[a]) = Final(a)
    BY <1>2, <1>8 DEF LinkInv, BeforeSweep
  <2> QED
    BY <2>1, <1>4, <1>5
<1>9. ASSUME NEW c \in visited, NEW v \in variables PROVE Linked(c, v)'
  <2>1. Linked(c, v) /\ c # b /\ held'[c] = held[c]
    BY <1>2, <1>4, <1>5, <1>6 DEF LinkInv, BeforeSweep
  <2>2. \A p \in DOMAIN phis' : phis'[p].block = c /\ phis'[p].var = v =>
          held'[c][1][v] = phis'[p].result /\ phis'[p].result # NoReg
    BY <2>1, <1>1, <1>7 DEF Linked
  <2>3. ASSUME \A p \in DOMAIN phis' : ~(phis'[p].block = c /\ phis'[p].var = v)
        PROVE  /\ c = EntryBlock => IF Base(v)' = 1 THEN held'[c][1][v] \in undefs' ELSE held'[c][1][v] = NoReg
               /\ \A a \in Blocks' : c \in Kids(a)' => held'[c][1][v] = held'[a][Final(a)'][v]
    <3>1. \A p \in DOMAIN phis : ~(phis[p].block = c /\ phis[p].var = v)
      BY <2>3, <1>1, <1>7
    <3>2. /\ c = EntryBlock => IF Base(v) = 1 THEN held[c][1][v] \in undefs ELSE held[c][1][v] = NoReg
          /\ \A a \in Blocks : c \in Kids(a) => held[c][1][v] = held[a][Final(a)][v]
      BY <2>1, <3>1 DEF Linked
    <3> QED
      BY <2>1, <3>2, <1>1, <1>3, <1>8
  <2> QED
    BY <2>2, <2>3 DEF Linked, NoReg, EntryBlock
<1>10. ASSUME NEW a \in Blocks, b \in Kids(a)
       PROVE  /\ n # 1 /\ a = walk[n - 1].block /\ walk[n - 1].pc > 0 /\ n - 1 \in 1..n
              /\ a \in visited /\ Len(held[a]) = Final(a) /\ held'[a] = held[a] /\ b # EntryBlock
  <2>1. b # EntryBlock
    BY <1>2, <1>10, TreeFacts
  <2>2. n # 1
    BY <2>1, <1>2 DEF WalkInv, FramesInv
  <2> PICK m : m = n - 1
    OBVIOUS
  <2>3. m \in 1..(n - 1) /\ m \in 1..n /\ m + 1 = n /\ m # n
    BY <2>2, <1>2
  <2>4. PathInv(m) /\ FrameInv(m) /\ walk[m] \in Frames
    BY <2>3, <1>2 DEF WalkInv, FramesInv
  <2>5. walk[m].block \in Blocks /\ walk[m].pc \in Nat /\ b \in Kids(walk[m].block)
    BY <2>3, <2>4, <1>2 DEF Frames, PathInv
  <2>6. a = walk[m].block
    BY <2>5, <1>2, <1>10, TreeFacts
  <2>7. walk[m].pc # 0
    BY <2>3, <2>4 DEF FrameInv
  <2>8. a \in visited /\ a # b
    BY <2>4, <2>5, <2>6, <2>7, <1>4 DEF FrameInv
  <2>9. Len(held[a]) = Final(a)
    BY <2>8, <1>2 DEF WalkInv, HeldInv, HeldLength, Final
  <2> QED
    BY <2>1, <2>2, <2>3, <2>5, <2>6, <2>7, <2>8, <2>9, <1>5
<1>11. ASSUME NEW v \in variables, \A p \in DOMAIN phis : ~(phis[p].block = b /\ phis[p].var = v)
       PROVE  held'[b][1][v] = OnStack(regStack[v], Height(walk, n, v))
  <2>1. \A p \in mine : phis[p].var # v
    BY <1>1, <1>7, <1>11
  <2>2. regStack'[v] = regStack[v]
    BY <2>1, <1>0 DEF Entering
  <2>3. CurrentRegister(regStack', v) = CurrentRegister(regStack, v)
    BY <2>2 DEF CurrentRegister
  <2>4. CurrentRegister(regStack, v) = IF Len(regStack[v]) = 0 THEN NoReg ELSE regStack[v][Len(regStack[v])]
    BY <1>2, CurrentFacts
  <2>5. Len(regStack[v]) = Height(walk, n, v)
    BY <1>2 DEF StackInv
  <2> QED
    BY <2>3, <2>4, <2>5, <1>5 DEF OnStack
<1>12. ASSUME NEW v \in variables
       PROVE  \E h : /\ h = Height(walk, n - 1, v) /\ Height(walk, n, v) = h /\ h \in Nat
  <2>1. \A g \in 1..n : walk[g].pushed \in Seq(variables)
    BY <1>2, WalkHeights
  <2> PICK h : h = Height(walk, n - 1, v)
    OBVIOUS
  <2> PICK k : k = Times(walk[n].pushed, v)
    OBVIOUS
  <2>2. h \in Nat /\ Height(walk, n, v) = h + k
    BY <2>1, <1>2, TopHeight
  <2>3. k = 0
    <3>1. walk[n].pushed \in Seq(variables) /\ walk[n].pushed = <<>>
      BY <2>1, <1>2, <1>4
    <3> QED
      BY <3>1, HitsFacts
  <2>4. h + 0 = h
    BY <2>2
  <2> QED
    BY <2>2, <2>3, <2>4
<1>13. ASSUME NEW v \in variables PROVE Linked(b, v)'
  <2>1. ASSUME NEW p \in DOMAIN phis', phis'[p].block = b, phis'[p].var = v
        PROVE  held'[b][1][v] = phis'[p].result /\ phis'[p].result # NoReg
    <3>1. p \in mine /\ v = phis[p].var /\ phis'[p].result = Allocated(Rank(p, mine))
      BY <2>1, <1>1, <1>7
    <3>2. CurrentRegister(regStack', v) = Allocated(Rank(p, mine))
      BY <3>1, PhiPushed DEF WalkInv
    <3>3. Allocated(Rank(p, mine)) # NoReg
      <4>1. RegisterLimit < NoReg /\ RegisterLimit \in Nat \ {0} /\ nextReg \in Nat
        BY <1>2, FnState DEF Shape, RegisterPart
      <4>2. Rank(p, mine) \in Nat
        BY <3>1, <1>1
      <4> QED
        BY <4>1, <4>2 DEF Allocated, NoReg
    <3> QED
      BY <3>1, <3>2, <3>3, <1>5
  <2>2. ASSUME \A p \in DOMAIN phis' : ~(phis'[p].block = b /\ phis'[p].var = v)
        PROVE  /\ b = EntryBlock => IF Base(v)' = 1 THEN held'[b][1][v] \in undefs' ELSE held'[b][1][v] = NoReg
               /\ \A a \in Blocks' : b \in Kids(a)' => held'[b][1][v] = held'[a][Final(a)'][v]
    <3>1. \A p \in DOMAIN phis : ~(phis[p].block = b /\ phis[p].var = v)
      BY <2>2, <1>1, <1>7
    <3> PICK h : h = Height(walk, n - 1, v) /\ Height(walk, n, v) = h /\ h \in Nat
      BY <1>12
    <3>2. held'[b][1][v] = OnStack(regStack[v], h)
      BY <3>1, <1>11
    <3>3. ASSUME NEW a \in Blocks, b \in Kids(a) PROVE held'[b][1][v] = held'[a][Final(a)][v]
      <4> PICK m : m = n - 1
        OBVIOUS
      <4>1. a = walk[m].block /\ walk[m].pc > 0 /\ m \in 1..n /\ Len(held[a]) = Final(a) /\ held'[a] = held[a]
        BY <3>3, <1>10
      <4>2. Latest(a)[v] = OnStack(regStack[v], Height(walk, m, v))
        BY <4>1, <1>2 DEF TopsInv
      <4> QED
        BY <3>2, <4>1, <4>2 DEF Latest
    <3>4. ASSUME b = EntryBlock PROVE IF Base(v) = 1 THEN held'[b][1][v] \in undefs ELSE held'[b][1][v] = NoReg
      <4>1. n = 1
        <5> SUFFICES ASSUME n # 1 PROVE FALSE
          OBVIOUS
        <5>1. 1 \in DOMAIN walk /\ n \in DOMAIN walk
          BY <1>2
        <5>2. walk[1].block = walk[n].block
          BY <3>4, <1>2 DEF WalkInv, FramesInv
        <5> QED
          BY <5>1, <5>2 DEF WalkInv, FramesInv
      <4>2. h = Base(v)
        <5>1. h = Base(v) + Cardinality(PushSet(walk, 0, v))
          BY <4>1 DEF Height
        <5>2. PushSet(walk, 0, v) = {}
          BY DEF PushSet
        <5>3. Base(v) \in Nat
          BY DEF Base
        <5>4. Cardinality(PushSet(walk, 0, v)) = 0
          BY <5>2, FS_EmptySet
        <5>5. Base(v) + 0 = Base(v)
          BY <5>3
        <5> QED
          BY <5>1, <5>4, <5>5
      <4>3. Base(v) # 1 => Base(v) = 0
        BY DEF Base
      <4>4. Base(v) = 1 => regStack[v][1] \in undefs
        BY <1>2 DEF TopsInv
      <4> QED
        BY <3>2, <4>2, <4>3, <4>4 DEF OnStack
    <3> QED
      BY <3>3, <3>4, <1>1, <1>3
  <2> QED
    BY <2>1, <2>2 DEF Linked, NoReg, EntryBlock
<1>14. ASSUME NEW c \in visited'
       PROVE  /\ \A a \in Blocks : c \in Kids(a) => a \in visited' /\ Len(held'[a]) = Final(a)
              /\ Len(held'[c]) >= 1
              /\ \A v \in variables : Linked(c, v)'
  <2>1. CASE c = b
    BY <2>1, <1>1, <1>5, <1>10, <1>13
  <2>2. CASE c # b
    <3>1. c \in visited /\ Len(held[c]) >= 1 /\ held'[c] = held[c]
      BY <2>2, <1>1, <1>2, <1>5, <1>6 DEF LinkInv, BeforeSweep
    <3> QED
      BY <3>1, <1>1, <1>8, <1>9
  <2> QED
    BY <2>1, <2>2
<1> QED
  BY <1>3, <1>14 DEF LinkInv

(* Renaming an instruction adds to what its block holds, whose end it has  *)
(* not reached.                                                            *)
LEMMA RenameKeeps ==
  ASSUME Shape, WalkInv, RenameInstruction
  PROVE  /\ UNCHANGED <<fn, stage, variableInfo, visited, phis, undefs>> /\ stage = "rename"
         /\ \A a \in Blocks : Len(held[a]) = Final(a) => held'[a] = held[a]
         /\ \A c \in Blocks : Len(held[c]) >= 1 => held'[c][1] = held[c][1] /\ Len(held'[c]) >= 1
<1> PICK b : b = Top.block
  OBVIOUS
<1> PICK pc : pc = Top.pc
  OBVIOUS
<1> PICK ins : ins = code[b][pc]
  OBVIOUS
<1>0. Rewriting(b, pc, ins)
  BY RewriteFacts
<1>1. /\ Renaming /\ b \in Blocks /\ pc \in DOMAIN code[b] /\ Remember /\ regStack' \in [variables -> Seq(Nat)]
      /\ UNCHANGED <<fn, stage, variableInfo, visited, phis, undefs>>
  BY <1>0 DEF Rewriting, phiVars
<1>2. variables' = variables /\ Blocks' = Blocks
  BY <1>1, FixedFn DEF variables
<1>3. /\ Len(fn.code[b]) \in Nat /\ pc \in 1..Len(fn.code[b]) /\ walk # <<>> /\ stage = "rename" /\ pc \in Nat
  BY <1>1, TopFacts
<1>4. Len(held[b]) = pc
  <2> PICK n : n = Len(walk)
    OBVIOUS
  <2>0. n \in Nat \ {0} /\ DOMAIN walk = 1..n /\ Top = walk[n]
    BY <1>1, TopFacts
  <2>1. n \in DOMAIN walk /\ pc > 0 /\ pc <= Len(fn.code[b])
    BY <2>0, <1>3
  <2>2. b \in visited
    BY <2>0, <2>1 DEF WalkInv, FramesInv, FrameInv
  <2> QED
    BY <2>1, <2>2, <1>1, <1>3 DEF WalkInv, HeldInv, HeldLength
<1>5. /\ Len(held'[b]) = pc + 1
      /\ \A k \in 1..pc : held'[b][k] = held[b][k]
      /\ \A c \in Blocks \ {b} : held'[c] = held[c]
  BY <1>1, <1>2, <1>4, HeldGrows
<1>6. Len(held[b]) # Final(b) /\ 1 \in 1..pc /\ pc + 1 >= 1
  BY <1>3, <1>4 DEF Final
<1>7. ASSUME NEW a \in Blocks, Len(held[a]) = Final(a) PROVE held'[a] = held[a]
  BY <1>5, <1>6, <1>7
<1>8. ASSUME NEW c \in Blocks, Len(held[c]) >= 1 PROVE held'[c][1] = held[c][1] /\ Len(held'[c]) >= 1
  BY <1>5, <1>6, <1>8
<1> QED
  BY <1>1, <1>3, <1>7, <1>8

LEMMA LinkRename == Shape /\ WalkInv /\ LinkInv /\ RenameInstruction => LinkInv'
<1> SUFFICES ASSUME Shape, WalkInv, LinkInv, RenameInstruction PROVE LinkInv'
  OBVIOUS
<1>1. /\ UNCHANGED <<fn, stage, variableInfo, visited, phis, undefs>> /\ stage = "rename"
      /\ \A a \in Blocks : Len(held[a]) = Final(a) => held'[a] = held[a]
      /\ \A c \in Blocks : Len(held[c]) >= 1 => held'[c][1] = held[c][1] /\ Len(held'[c]) >= 1
  BY RenameKeeps
<1>2. /\ variables' = variables /\ Blocks' = Blocks /\ (\A a : Kids(a)' = Kids(a)) /\ (\A v : Base(v)' = Base(v))
      /\ \A a : Final(a)' = Final(a)
  BY <1>1, FixedFn DEF variables, Kids, Base, Final
<1>3. \A b \in visited : b \in Blocks
  BY DEF Shape, WalkPart
<1>4. \A b \in visited : /\ \A a \in Blocks : b \in Kids(a) => a \in visited /\ Len(held[a]) = Final(a)
                         /\ Len(held[b]) >= 1
                         /\ \A v \in variables : Linked(b, v)
  BY <1>1 DEF LinkInv, BeforeSweep
<1>5. ASSUME NEW b \in visited, NEW v \in variables PROVE Linked(b, v)'
  <2>1. Linked(b, v) /\ held'[b][1] = held[b][1]
    BY <1>1, <1>3, <1>4
  <2>2. \A p \in DOMAIN phis' : phis'[p].block = b /\ phis'[p].var = v =>
          held'[b][1][v] = phis'[p].result /\ phis'[p].result # NoReg
    BY <2>1, <1>1 DEF Linked
  <2>3. ASSUME \A p \in DOMAIN phis' : ~(phis'[p].block = b /\ phis'[p].var = v)
        PROVE  /\ b = EntryBlock => IF Base(v)' = 1 THEN held'[b][1][v] \in undefs' ELSE held'[b][1][v] = NoReg
               /\ \A a \in Blocks' : b \in Kids(a)' => held'[b][1][v] = held'[a][Final(a)'][v]
    <3>1. \A p \in DOMAIN phis : ~(phis[p].block = b /\ phis[p].var = v)
      BY <2>3, <1>1
    <3>2. /\ b = EntryBlock => IF Base(v) = 1 THEN held[b][1][v] \in undefs ELSE held[b][1][v] = NoReg
          /\ \A a \in Blocks : b \in Kids(a) => held[b][1][v] = held[a][Final(a)][v]
      BY <2>1, <3>1 DEF Linked
    <3>3. \A a \in Blocks : b \in Kids(a) => held'[a] = held[a]
      BY <1>1, <1>4
    <3> QED
      BY <2>1, <3>2, <3>3, <1>1, <1>2
  <2> QED
    BY <2>2, <2>3 DEF Linked, NoReg, EntryBlock
<1>6. ASSUME NEW b \in visited
      PROVE  /\ \A a \in Blocks : b \in Kids(a) => a \in visited /\ Len(held'[a]) = Final(a)
             /\ Len(held'[b]) >= 1
  BY <1>1, <1>3, <1>4
<1> QED
  BY <1>1, <1>2, <1>5, <1>6 DEF LinkInv

LEMMA LinkClean == Shape /\ LinkInv /\ CleanUnreachable => LinkInv'
<1> SUFFICES ASSUME Shape, LinkInv, CleanUnreachable PROVE LinkInv'
  OBVIOUS
<1> PICK bare : bare = {p \in DOMAIN phis : phis[p].block \in Missed}
  OBVIOUS
<1> PICK n : n = Cardinality(bare)
  OBVIOUS
<1> PICK filled : filled = n + Cardinality(Holes)
  OBVIOUS
<1> PICK shared : shared = Allocated(filled + 1)
  OBVIOUS
<1>0. Cleaning(n, bare, filled, shared)
  BY CleanFacts
<1>1. /\ UNCHANGED <<fn, variableInfo, visited, held>> /\ stage = "cleanup" /\ undefs \subseteq undefs'
      /\ phis' = [p \in DOMAIN phis |->
                [phis[p] EXCEPT
                   !.result = IF p \in bare THEN Allocated(Rank(p, bare)) ELSE @,
                   !.values = [k \in DOMAIN @ |-> IF @[k] = NoReg THEN Allocated(Nth(n, <<p, k>>)) ELSE @[k]]]]
  BY <1>0, Zenon DEF Cleaning, phiVars
<1>2. ASSUME NEW p \in DOMAIN phis
      PROVE  /\ phis'[p].block = phis[p].block /\ phis'[p].var = phis[p].var
             /\ phis[p].block \in visited => phis'[p].result = phis[p].result
  <2>1. phis[p] \in PhiRecords
    BY PhiTyped
  <2>2. phis[p].block \in visited => p \notin bare
    BY DEF Missed
  <2> QED
    BY <2>1, <2>2, <1>1, Zenon DEF PhiRecords
<1>3. DOMAIN phis' = DOMAIN phis
  BY <1>1, Zenon
<1> QED
  BY <1>1, <1>2, <1>3, LinkSame, Zenon DEF BeforeSweep

LEMMA LinkStep ==
  Shape /\ Shape' /\ WalkInv /\ StackInv /\ StackInv' /\ TopsInv /\ LinkInv /\ [Next]_vars => LinkInv'
<1> SUFFICES ASSUME Shape, Shape', WalkInv, StackInv, StackInv', TopsInv, LinkInv, [Next]_vars PROVE LinkInv'
  OBVIOUS
<1>1. CASE IdentifyVariables \/ StartVariable \/ SpreadPhis \/ SweepPhis \/ Execute \/ TakeEdge
  BY <1>1, Zenon DEF IdentifyVariables, StartVariable, SpreadPhis, SweepPhis, Execute, TakeEdge, Running, LinkInv, BeforeSweep
<1>2. CASE InsertUndefs
  <2>1. visited' = visited /\ stage = "phis"
    BY <1>2 DEF InsertUndefs
  <2>2. visited' = {}
    BY <2>1 DEF Shape, EarlyPart
  <2> QED
    BY <2>2 DEF LinkInv
<1>3. CASE FillSuccessor
  <2> PICK b : b = Top.block
    OBVIOUS
  <2> PICK s : s = fn.succ[b][SuccessorIndex]
    OBVIOUS
  <2> PICK fed : fed = PhisOf(s)
    OBVIOUS
  <2> PICK bare : bare = {p \in fed : regStack[phis[p].var] = <<>>}
    BY Zenon
  <2>0. Filling(b, s, fed, bare)
    BY <1>3, FillFacts
  <2>1. /\ UNCHANGED <<fn, variableInfo, visited, held>> /\ stage = "rename" /\ undefs \subseteq undefs'
        /\ phis' = [p \in DOMAIN phis |-> phis'[p]]
        /\ \A p \in DOMAIN phis \ fed : phis'[p] = phis[p]
        /\ \A p \in fed : \E v \in Nat : phis'[p] = [phis[p] EXCEPT !.values = [@ EXCEPT ![OperandFor(p, b)] = v]]
    BY <2>0, ZenonT(40) DEF Filling, phiVars, Renaming
  <2>2. \A p \in DOMAIN phis : /\ phis'[p].block = phis[p].block /\ phis'[p].var = phis[p].var
                               /\ phis'[p].result = phis[p].result
    <3> TAKE p \in DOMAIN phis
    <3>1. phis[p] \in PhiRecords
      BY PhiTyped
    <3>2. CASE p \in fed
      <4>1. PICK v \in Nat : phis'[p] = [phis[p] EXCEPT !.values = [@ EXCEPT ![OperandFor(p, b)] = v]]
        BY <2>1, <3>2
      <4> QED
        BY <3>1, <4>1 DEF PhiRecords
    <3>3. CASE p \notin fed
      BY <2>1, <3>3
    <3> QED
      BY <3>2, <3>3
  <2>3. DOMAIN phis' = DOMAIN phis
    BY <2>1
  <2> QED
    BY <2>1, <2>2, <2>3, LinkSame DEF BeforeSweep
<1>4. CASE VisitChild \/ LeaveBlock \/ MarkPhi \/ Stopped \/ UNCHANGED vars
  <2>1. UNCHANGED <<fn, variableInfo, visited, held, undefs, phis>>
    BY <1>4 DEF VisitChild, LeaveBlock, MarkPhi, Stopped, vars, phiVars, renameVars
  <2>2. BeforeSweep' => BeforeSweep
    BY <1>4 DEF VisitChild, LeaveBlock, BlockRenamed, Renaming, MarkPhi, Stopped, vars, BeforeSweep
  <2>3. CASE BeforeSweep
    BY <2>1, <2>3, LinkSame
  <2>4. CASE ~BeforeSweep
    BY <2>2, <2>4 DEF LinkInv
  <2> QED
    BY <2>3, <2>4
<1> QED
  BY <1>1, <1>2, <1>3, <1>4, LinkEnter, LinkRename, LinkClean DEF Next

----------------------------------------------------------------------------
(* What a phi reads: a register left undefined, or what the predecessor    *)
(* held of its variable at the end.                                        *)

Operand(p, k) ==
  LET x == phis[p].values[k]
      a == phis[p].blocks[k]
  IN /\ stage = "mark" => x # NoReg
     /\ \/ x = NoReg \/ x \in undefs
        \/ a \in visited /\ Len(held[a]) = Final(a) /\ x = held[a][Final(a)][phis[p].var]
OperandInv == stage \notin {"run", "rejected"} => \A p \in DOMAIN phis : \A k \in DOMAIN phis[p].values : Operand(p, k)

LEMMA OperandSame ==
  ASSUME Shape, OperandInv, stage \notin {"run", "rejected"}, stage' = "mark" => stage = "mark", fn' = fn,
         undefs \subseteq undefs', visited \subseteq visited',
         \A a \in Blocks : Len(held[a]) = Final(a) => held'[a] = held[a],
         DOMAIN phis' = DOMAIN phis,
         \A p \in DOMAIN phis : /\ phis'[p].blocks = phis[p].blocks /\ phis'[p].var = phis[p].var
                                /\ phis'[p].values = phis[p].values
  PROVE  OperandInv'
<1>1. \A a : Final(a)' = Final(a)
  BY DEF Final
<1>2. visited \subseteq Blocks
  BY DEF Shape, WalkPart
<1>3. ASSUME NEW p \in DOMAIN phis, NEW k \in DOMAIN phis[p].values PROVE Operand(p, k)'
  <2>1. Operand(p, k)
    BY DEF OperandInv
  <2> QED
    BY <2>1, <1>1, <1>2 DEF Operand, NoReg
<1> QED
  BY <1>3 DEF OperandInv

LEMMA OperandKeeps ==
  ASSUME NEW p, NEW k, Operand(p, k), UNCHANGED <<fn, visited, held>>, undefs \subseteq undefs',
         phis'[p].values[k] = phis[p].values[k], phis'[p].blocks = phis[p].blocks, phis'[p].var = phis[p].var,
         stage' = "mark" => phis[p].values[k] # NoReg
  PROVE  Operand(p, k)'
<1> PICK x : x = phis[p].values[k]
  OBVIOUS
<1> PICK a : a = phis[p].blocks[k]
  OBVIOUS
<1>1. \/ x = NoReg \/ x \in undefs
      \/ a \in visited /\ Len(held[a]) = Final(a) /\ x = held[a][Final(a)][phis[p].var]
  BY DEF Operand
<1>2. x = phis'[p].values[k] /\ a = phis'[p].blocks[k] /\ Final(a)' = Final(a)
  BY DEF Final
<1>3. \/ x = NoReg \/ x \in undefs'
      \/ a \in visited' /\ Len(held'[a]) = Final(a)' /\ x = held'[a][Final(a)'][phis'[p].var]
  BY <1>1, <1>2
<1> QED
  BY <1>2, <1>3 DEF Operand, NoReg

LEMMA OperandSpread == Shape /\ OperandInv /\ SpreadPhis => OperandInv'
<1> SUFFICES ASSUME Shape, OperandInv, SpreadPhis PROVE OperandInv'
  OBVIOUS
<1> PICK fresh : fresh = {b \in tree.frontier[Head(worklist)] : ~HasPhiFor(b, placing)}
  OBVIOUS
<1>1. /\ stage = "phis" /\ placing \in variables /\ fresh \subseteq Blocks
      /\ \A k \in DOMAIN phis : phis'[k] = phis[k]
      /\ \A k \in DOMAIN phis' : k \in DOMAIN phis \/ \E b \in fresh : phis'[k] = NewPhi(b, placing)
  BY SpreadFactsOf, SMTT(30)
<1>2. UNCHANGED <<fn, stage, undefs, visited, held>> /\ \A a : Final(a)' = Final(a)
  BY DEF SpreadPhis, renameVars, Final
<1>3. fn \in Functions
  BY DEF Shape, FnPart
<1>4. ASSUME NEW p \in DOMAIN phis', NEW k \in DOMAIN phis'[p].values PROVE Operand(p, k)'
  <2>1. CASE p \in DOMAIN phis
    <3>1. Operand(p, k) /\ phis'[p] = phis[p]
      BY <1>1, <1>4, <2>1 DEF OperandInv
    <3> QED
      BY <3>1, <1>2 DEF Operand, NoReg
  <2>2. CASE p \notin DOMAIN phis
    <3>1. PICK b \in fresh : phis'[p] = NewPhi(b, placing)
      BY <1>1, <2>2
    <3>2. phis'[p].values[k] = NoReg
      BY <3>1, <1>1, <1>3, <1>4, NewPhiFacts
    <3> QED
      BY <3>2, <1>1, <1>2 DEF Operand, NoReg
  <2> QED
    BY <2>1, <2>2
<1> QED
  BY <1>4 DEF OperandInv

LEMMA OperandFill == Shape /\ WalkInv /\ StackInv /\ TopsInv /\ OperandInv /\ FillSuccessor => OperandInv'
<1> SUFFICES ASSUME Shape, WalkInv, StackInv, TopsInv, OperandInv, FillSuccessor PROVE OperandInv'
  OBVIOUS
<1> PICK b : b = Top.block
  OBVIOUS
<1> PICK s : s = fn.succ[b][SuccessorIndex]
  OBVIOUS
<1> PICK fed : fed = PhisOf(s)
  OBVIOUS
<1> PICK bare : bare = {p \in fed : regStack[phis[p].var] = <<>>}
  OBVIOUS
<1>0. Filling(b, s, fed, bare)
  BY FillFacts
<1>1. /\ Renaming /\ b \in Blocks /\ Edge(fn.succ, b, s) /\ Top.pc > Len(code[b]) /\ fed \subseteq DOMAIN phis
      /\ bare = {p \in fed : regStack[phis[p].var] = <<>>}
      /\ UNCHANGED <<fn, stage, visited, held>> /\ DOMAIN phis' = DOMAIN phis
      /\ undefs' = undefs \cup {Allocated(Rank(p, bare)) : p \in bare}
      /\ \A p \in DOMAIN phis \ fed : phis'[p] = phis[p]
      /\ \A p \in fed : LET v == IF p \in bare THEN Allocated(Rank(p, bare)) ELSE Last(regStack[phis[p].var])
                        IN v \in Nat /\ phis'[p] = [phis[p] EXCEPT !.values = [@ EXCEPT ![OperandFor(p, b)] = v]]
  BY <1>0 DEF Filling
<1>2. /\ stage = "rename" /\ stage' = "rename" /\ Top.pc \in Nat /\ Len(fn.code[b]) \in Nat /\ Top.pc > Len(fn.code[b])
      /\ regStack \in [variables -> Seq(Nat)] /\ walk # <<>>
  BY <1>1, TopFacts
<1>3. b \in visited /\ Len(held[b]) = Final(b)
  <2> PICK n : n = Len(walk)
    OBVIOUS
  <2>0. n \in Nat \ {0} /\ DOMAIN walk = 1..n /\ Top = walk[n]
    BY <1>1, TopFacts
  <2>1. n \in DOMAIN walk /\ Top.pc > 0 /\ ~(Top.pc <= Len(fn.code[b]))
    BY <2>0, <1>2
  <2>2. b \in visited
    BY <2>0, <2>1 DEF WalkInv, FramesInv, FrameInv
  <2> QED
    BY <2>1, <2>2, <1>1 DEF WalkInv, HeldInv, HeldLength, Final
<1>4. \A a : Final(a)' = Final(a)
  BY <1>1 DEF Final
<1>5. ASSUME NEW p \in DOMAIN phis', NEW k \in DOMAIN phis'[p].values PROVE Operand(p, k)'
  <2>0. p \in DOMAIN phis /\ phis[p] \in PhiRecords /\ phis[p].var \in variables
    BY <1>1, PhiTyped
  <2>1. CASE p \notin fed
    <3>1. Operand(p, k) /\ phis'[p] = phis[p]
      BY <1>1, <1>2, <1>5, <2>0, <2>1 DEF OperandInv
    <3>2. undefs \subseteq undefs'
      BY <1>1
    <3> QED
      BY <3>1, <3>2, <1>1, <1>2, OperandKeeps
  <2>2. CASE p \in fed
    <3> PICK v : v = IF p \in bare THEN Allocated(Rank(p, bare)) ELSE Last(regStack[phis[p].var])
      OBVIOUS
    <3> PICK j : j = OperandFor(p, b)
      OBVIOUS
    <3>1. v \in Nat /\ phis'[p] = [phis[p] EXCEPT !.values = [@ EXCEPT ![j] = v]]
      BY <1>1, <2>2
    <3>2. j \in DOMAIN phis[p].values /\ phis[p].blocks[j] = b
      <4>1. phis[p].block = s
        BY <2>2 DEF PhisOf
      <4> QED
        BY <4>1, <2>0, <1>1, OperandFacts
    <3>3. /\ phis'[p].var = phis[p].var /\ phis'[p].blocks = phis[p].blocks
          /\ phis'[p].values = [phis[p].values EXCEPT ![j] = v]
      BY <2>0, <3>1 DEF PhiRecords
    <3>4. k \in DOMAIN phis[p].values
      BY <3>3, <1>5
    <3>5. CASE k = j
      <4>1. phis'[p].values[k] = v
        BY <3>2, <3>3, <3>5
      <4>2. CASE p \in bare
        <5>1. v \in undefs'
          BY <4>2, <1>1
        <5> QED
          BY <4>1, <5>1, <1>2 DEF Operand
      <4>3. CASE p \notin bare
        <5> PICK w : w = phis[p].var
          OBVIOUS
        <5>1. w \in variables /\ regStack[w] # <<>>
          BY <2>0, <2>2, <4>3
        <5>2. v = CurrentRegister(regStack, w)
          BY <5>1, <4>3 DEF CurrentRegister
        <5>3. Latest(b)[w] = CurrentRegister(regStack, w)
          <6>1. Top.pc > 0
            BY <1>2
          <6> QED
            BY <6>1, <5>1, <1>1, TopIsHeld
        <5>4. v = held[b][Final(b)][w]
          BY <5>2, <5>3, <1>3 DEF Latest
        <5> QED
          BY <3>2, <3>3, <3>5, <4>1, <5>4, <1>1, <1>2, <1>3, <1>4, Zenon DEF Operand
      <4> QED
        BY <4>2, <4>3
    <3>6. CASE k # j
      <4>1. phis'[p].values[k] = phis[p].values[k]
        BY <3>3, <3>4, <3>6
      <4>2. Operand(p, k)
        BY <3>4, <2>0, <1>2 DEF OperandInv
      <4>3. undefs \subseteq undefs'
        BY <1>1
      <4> QED
        BY <3>3, <4>1, <4>2, <4>3, <1>1, <1>2, OperandKeeps
    <3> QED
      BY <3>5, <3>6
  <2> QED
    BY <2>1, <2>2
<1> QED
  BY <1>5 DEF OperandInv

LEMMA OperandClean == Shape /\ OperandInv /\ CleanUnreachable => OperandInv'
<1> SUFFICES ASSUME Shape, OperandInv, CleanUnreachable PROVE OperandInv'
  OBVIOUS
<1> PICK bare : bare = {p \in DOMAIN phis : phis[p].block \in Missed}
  OBVIOUS
<1> PICK n : n = Cardinality(bare)
  OBVIOUS
<1> PICK filled : filled = n + Cardinality(Holes)
  OBVIOUS
<1> PICK shared : shared = Allocated(filled + 1)
  OBVIOUS
<1>0. Cleaning(n, bare, filled, shared)
  BY CleanFacts
<1>1. /\ UNCHANGED <<fn, visited, held>> /\ stage = "cleanup" /\ stage' = "mark" /\ n \in Nat
      /\ \A h \in Holes : Nth(n, h) \in (n + 1)..filled
      /\ undefs' = undefs \cup {Allocated(Nth(n, h)) : h \in Holes} \cup (IF Tests = {} THEN {} ELSE {shared})
      /\ phis' = [p \in DOMAIN phis |->
                [phis[p] EXCEPT
                   !.result = IF p \in bare THEN Allocated(Rank(p, bare)) ELSE @,
                   !.values = [k \in DOMAIN @ |-> IF @[k] = NoReg THEN Allocated(Nth(n, <<p, k>>)) ELSE @[k]]]]
  BY <1>0, Zenon DEF Cleaning
<1>2. ASSUME NEW p \in DOMAIN phis
      PROVE  /\ phis'[p].var = phis[p].var /\ phis'[p].blocks = phis[p].blocks
             /\ DOMAIN phis'[p].values = DOMAIN phis[p].values
             /\ \A k \in DOMAIN phis[p].values :
                  phis'[p].values[k] = IF phis[p].values[k] = NoReg THEN Allocated(Nth(n, <<p, k>>)) ELSE phis[p].values[k]
  <2>1. phis[p] \in PhiRecords
    BY PhiTyped
  <2>2. /\ phis'[p].var = phis[p].var /\ phis'[p].blocks = phis[p].blocks
        /\ phis'[p].values = [k \in DOMAIN phis[p].values |->
                                IF phis[p].values[k] = NoReg THEN Allocated(Nth(n, <<p, k>>)) ELSE phis[p].values[k]]
    BY <2>1, <1>1, Zenon DEF PhiRecords
  <2> QED
    BY <2>2
<1>3. \A a : Final(a)' = Final(a)
  BY <1>1, Zenon DEF Final
<1>4. ASSUME NEW p \in DOMAIN phis, NEW k \in DOMAIN phis[p].values PROVE Operand(p, k)'
  <2>1. CASE phis[p].values[k] = NoReg
    <3> PICK h : h = <<p, k>>
      OBVIOUS
    <3>1. h \in Holes
      BY <2>1, <1>4, HolesFacts
    <3>2. phis'[p].values[k] = Allocated(Nth(n, h)) /\ Allocated(Nth(n, h)) \in undefs'
      <4>1. phis'[p].values[k] = Allocated(Nth(n, h))
        BY <2>1, <1>2
      <4>2. Allocated(Nth(n, h)) \in {Allocated(Nth(n, g)) : g \in Holes}
        BY <3>1
      <4> QED
        BY <4>1, <4>2, <1>1, Zenon
    <3>3. Allocated(Nth(n, h)) # NoReg
      <4>1. RegisterLimit < NoReg /\ RegisterLimit \in Nat \ {0} /\ nextReg \in Nat
        BY FnState DEF Shape, RegisterPart, FnPart
      <4>2. Nth(n, h) \in (n + 1)..filled
        BY <3>1, <1>1, Zenon
      <4>3. Nth(n, h) \in Int
        BY <4>2
      <4> QED
        BY <4>1, <4>3 DEF Allocated, NoReg
    <3> QED
      BY <3>2, <3>3 DEF Operand, NoReg
  <2>2. CASE phis[p].values[k] # NoReg
    <3>1. Operand(p, k)
      BY <1>1, Zenon DEF OperandInv
    <3>2. undefs \subseteq undefs'
      BY <1>1, Zenon
    <3>3. phis'[p].values[k] = phis[p].values[k] /\ phis'[p].blocks = phis[p].blocks /\ phis'[p].var = phis[p].var
      BY <2>2, <1>2
    <3> QED
      BY <2>2, <3>1, <3>2, <3>3, <1>1, OperandKeeps, Zenon
  <2> QED
    BY <2>1, <2>2
<1>5. ASSUME NEW p \in DOMAIN phis', NEW k \in DOMAIN phis'[p].values PROVE Operand(p, k)'
  BY <1>1, <1>2, <1>4, <1>5, Zenon
<1> QED
  BY <1>5 DEF OperandInv

LEMMA OperandStep ==
  Shape /\ Shape' /\ WalkInv /\ StackInv /\ TopsInv /\ OperandInv /\ [Next]_vars => OperandInv'
<1> SUFFICES ASSUME Shape, Shape', WalkInv, StackInv, TopsInv, OperandInv, [Next]_vars PROVE OperandInv'
  OBVIOUS
<1>1. CASE IdentifyVariables
  <2>1. phis' = phis /\ stage = "variables"
    BY <1>1 DEF IdentifyVariables
  <2>2. phis' = <<>>
    BY <2>1 DEF Shape, EarlyPart
  <2>3. DOMAIN phis' = {}
    BY <2>2
  <2> QED
    BY <2>3 DEF OperandInv
<1>2. CASE SweepPhis \/ Execute \/ TakeEdge
  BY <1>2, Zenon DEF SweepPhis, Execute, TakeEdge, Running, OperandInv
<1>3. CASE InsertUndefs
  <2> PICK bare : bare = {v \in variables : EntryBlock \notin variableInfo[v].defBlocks}
    OBVIOUS
  <2>0. Starting(bare)
    BY <1>3, StartingFacts
  <2>1. /\ UNCHANGED <<fn, phis, visited, held>> /\ stage = "phis" /\ (variables # {} => stage' # "mark")
    BY <2>0 DEF Starting
  <2>2. CASE variables = {}
    <3>1. \A p \in DOMAIN phis : FALSE
      BY <2>2, PhiTyped
    <3> QED
      BY <3>1, <2>1 DEF OperandInv
  <2>3. CASE variables # {}
    <3>1. undefs \subseteq undefs'
      BY <2>1 DEF Shape, EarlyPart
    <3> QED
      BY <2>1, <2>3, <3>1, OperandSame
  <2> QED
    BY <2>2, <2>3
<1>4. CASE EnterBlock
  <2> PICK b : b = Top.block
    OBVIOUS
  <2> PICK mine : mine = PhisOf(b)
    OBVIOUS
  <2>0. Entering(b, mine)
    BY <1>4, EnterFacts
  <2>1. /\ Renaming /\ Top.pc = 0 /\ b \in Blocks /\ Remember /\ regStack' \in [variables -> Seq(Nat)]
        /\ visited \subseteq visited' /\ UNCHANGED <<fn, stage, variableInfo, undefs>>
        /\ DOMAIN phis' = DOMAIN phis
        /\ \A p \in DOMAIN phis : phis'[p] = IF p \in mine THEN [phis[p] EXCEPT !.result = Allocated(Rank(p, mine))]
                                                           ELSE phis[p]
    BY <2>0 DEF Entering, phiVars
  <2>2. variables' = variables /\ Blocks' = Blocks
    BY <2>1, FixedFn DEF variables
  <2>3. \A c \in Blocks \ {b} : held'[c] = held[c]
    BY <2>1, <2>2, HeldGrows
  <2>4. Len(held[b]) # Final(b)
    <3> PICK n : n = Len(walk)
      OBVIOUS
    <3>1. n \in Nat \ {0} /\ DOMAIN walk = 1..n /\ Top = walk[n] /\ Len(fn.code[b]) \in Nat
      BY <2>1, TopFacts
    <3>2. n \in DOMAIN walk /\ b \notin visited
      BY <2>1, <3>1 DEF WalkInv, FramesInv, FrameInv
    <3>3. Len(held[b]) = 0
      BY <3>2, <2>1 DEF WalkInv, HeldInv, HeldLength
    <3> QED
      BY <3>1, <3>3 DEF Final
  <2>5. ASSUME NEW p \in DOMAIN phis
        PROVE  /\ phis'[p].blocks = phis[p].blocks /\ phis'[p].var = phis[p].var
               /\ phis'[p].values = phis[p].values
    <3>1. phis[p] \in PhiRecords
      BY PhiTyped
    <3> QED
      BY <3>1, <2>1 DEF PhiRecords
  <2>6. stage = "rename"
    BY <2>1 DEF Renaming
  <2> QED
    BY <2>1, <2>3, <2>4, <2>5, <2>6, OperandSame
<1>5. CASE RenameInstruction
  <2>1. /\ UNCHANGED <<fn, stage, variableInfo, visited, phis, undefs>> /\ stage = "rename"
        /\ \A a \in Blocks : Len(held[a]) = Final(a) => held'[a] = held[a]
    BY <1>5, RenameKeeps
  <2> QED
    BY <2>1, OperandSame
<1>6. CASE StartVariable \/ VisitChild \/ LeaveBlock \/ MarkPhi \/ Stopped \/ UNCHANGED vars
  <2>1. UNCHANGED <<fn, visited, held, undefs, phis>>
    BY <1>6 DEF StartVariable, VisitChild, LeaveBlock, MarkPhi, Stopped, vars, phiVars, renameVars
  <2>2. /\ stage \in {"run", "rejected"} => stage' = stage
        /\ stage' = "mark" => stage = "mark"
    BY <1>6 DEF StartVariable, VisitChild, LeaveBlock, BlockRenamed, Renaming, MarkPhi, Stopped, vars
  <2>3. CASE stage \in {"run", "rejected"}
    BY <2>2, <2>3 DEF OperandInv
  <2>4. CASE stage \notin {"run", "rejected"}
    BY <2>1, <2>2, <2>4, OperandSame
  <2> QED
    BY <2>3, <2>4
<1> QED
  BY <1>1, <1>2, <1>3, <1>4, <1>5, <1>6, OperandSpread, OperandFill, OperandClean DEF Next

----------------------------------------------------------------------------
(* Blocks the walk never enters define nothing any more; a function        *)
(* without variables is left as it was.                                    *)

UnseenInv ==
  /\ variables = {} => stage # "cleanup" /\ code = fn.code
  /\ stage \in {"mark", "run", "rejected"} /\ variables # {} =>
       \A q \in Places : q[1] \notin visited => ~Defines(code[q[1]][q[2]])

LEMMA UnseenStep == Shape /\ Shape' /\ WalkInv /\ UnseenInv /\ [Next]_vars => UnseenInv'
<1> SUFFICES ASSUME Shape, Shape', WalkInv, UnseenInv, [Next]_vars PROVE UnseenInv'
  OBVIOUS
<1>1. CASE IdentifyVariables \/ StartVariable \/ SpreadPhis
  <2>1. stage' \in {"variables", "phis"}
    BY <1>1 DEF IdentifyVariables, StartVariable, SpreadPhis
  <2>2. code' = fn'.code
    BY <2>1 DEF Shape, EarlyPart
  <2> QED
    BY <2>1, <2>2 DEF UnseenInv
<1>2. CASE InsertUndefs
  <2> PICK bare : bare = {v \in variables : EntryBlock \notin variableInfo[v].defBlocks}
    OBVIOUS
  <2>0. Starting(bare)
    BY <1>2, StartingFacts
  <2>1. /\ UNCHANGED <<fn, code, variableInfo>> /\ stage = "phis"
        /\ IF variables = {} THEN stage' = "mark" ELSE stage' = "rename"
    BY <2>0 DEF Starting, phiVars
  <2>2. variables' = variables
    BY <2>1 DEF variables
  <2> QED
    BY <2>1, <2>2 DEF UnseenInv
<1>3. CASE EnterBlock \/ RenameInstruction \/ FillSuccessor \/ VisitChild \/ LeaveBlock
  <2>1. stage = "rename" /\ stage' \in {"rename", "cleanup"} /\ variableInfo' = variableInfo
    BY <1>3, Zenon DEF EnterBlock, RenameInstruction, FillSuccessor, VisitChild, LeaveBlock, BlockRenamed, Renaming, phiVars
  <2>2. variables # {} /\ variables' = variables
    BY <2>1 DEF WalkInv, VisitedInv, variables
  <2> QED
    BY <2>1, <2>2 DEF UnseenInv
<1>4. CASE CleanUnreachable
  <2> PICK bare : bare = {p \in DOMAIN phis : phis[p].block \in Missed}
    OBVIOUS
  <2> PICK n : n = Cardinality(bare)
    OBVIOUS
  <2> PICK filled : filled = n + Cardinality(Holes)
    OBVIOUS
  <2> PICK shared : shared = Allocated(filled + 1)
    OBVIOUS
  <2>0. Cleaning(n, bare, filled, shared)
    BY <1>4, CleanFacts
  <2>1. /\ UNCHANGED <<fn, variableInfo, visited>> /\ stage = "cleanup"
        /\ code' = [b \in Blocks |-> IF b \in visited THEN code[b] ELSE [i \in DOMAIN code[b] |-> Emptied(b, i, shared)]]
    BY <2>0, Zenon DEF Cleaning, phiVars
  <2>2. variables # {} /\ variables' = variables /\ Places' = Places /\ fn \in Functions
    BY <2>1, FixedFn DEF UnseenInv, variables, Shape, FnPart
  <2>3. ASSUME NEW q \in Places, q[1] \notin visited PROVE ~Defines(code'[q[1]][q[2]])
    <3> PICK b : b = q[1]
      OBVIOUS
    <3> PICK i : i = q[2]
      OBVIOUS
    <3>1. b \in Blocks /\ i \in DOMAIN fn.code[b]
      BY PlacesArePairs
    <3>2. i \in DOMAIN code[b] /\ code[b][i] \in Written
      <4> PICK cs : cs = code[b]
        OBVIOUS
      <4>1. cs \in Seq(Written) /\ Len(cs) = Len(fn.code[b])
        BY <3>1 DEF Shape, CodePart
      <4>2. i \in 1..Len(fn.code[b])
        BY <2>2, <3>1, CodePositions
      <4> QED
        BY <4>1, <4>2
    <3>3. code'[b][i] = Emptied(b, i, shared)
      BY <2>1, <2>3, <3>1, <3>2
    <3>4. ~Defines(Emptied(b, i, shared))
      <4> PICK e : e = Emptied(b, i, shared)
        OBVIOUS
      <4>1. e.op \in {"branch", "ret", "nop"}
        <5>1. CASE <<b, i>> \in Tests
          <6>1. e = [code[b][i] EXCEPT !.srcs = <<shared>>] /\ code[b][i].op = "branch"
            BY <5>1 DEF Emptied, Tests
          <6> QED
            BY <6>1, <3>2 DEF Written
        <5>2. CASE <<b, i>> \notin Tests
          BY <5>2 DEF Emptied
        <5> QED
          BY <5>1, <5>2
      <4> QED
        BY <4>1 DEF Defines
    <3> QED
      BY <3>3, <3>4
  <2> QED
    BY <2>1, <2>2, <2>3 DEF UnseenInv, Defines
<1>5. CASE MarkPhi \/ SweepPhis \/ Execute \/ TakeEdge \/ Stopped \/ UNCHANGED vars
  <2>1. UNCHANGED <<fn, variableInfo, visited, code>>
    BY <1>5, Zenon DEF MarkPhi, SweepPhis, Execute, TakeEdge, Stopped, vars, phiVars, renameVars
  <2>2. /\ variables' = variables /\ Places' = Places
        /\ stage' \in {"mark", "run", "rejected"} => stage \in {"mark", "run", "rejected"}
        /\ stage' = "cleanup" => stage = "cleanup"
    BY <1>5, <2>1, FixedFn, Zenon DEF MarkPhi, SweepPhis, Execute, TakeEdge, Running, Stopped, vars, variables
  <2> QED
    BY <2>1, <2>2 DEF UnseenInv, Defines
<1> QED
  BY <1>1, <1>2, <1>3, <1>4, <1>5 DEF Next

----------------------------------------------------------------------------
(* A register that is not a variable has one definition at most.           *)
LEMMA OneDefinition ==
  ASSUME Shape, stage # "variables", NEW r \in 0..(fn.regs - 1), r \notin fn.memory, r \notin variables
  PROVE  AtMostOne(DefinitionsOf(r))
<1> PICK D : D = DefinitionsOf(r)
  OBVIOUS
<1>1. fn \in Functions /\ ~NeedsSSA(r)
  BY DEF Shape, FnPart, VariablePart
<1>2. D \subseteq Places
  BY DEF DefinitionsOf
<1>3. IsFiniteSet(D) /\ Cardinality(D) \in Nat
  BY <1>1, <1>2, PlacesAreFinite, FS_Subset, FS_CardinalityType
<1>4. D = {} \/ ~(Cardinality(D) > 1)
  BY <1>1 DEF NeedsSSA, RegDefs
<1>5. ASSUME NEW d \in D, NEW e \in D, d # e PROVE FALSE
  <2>1. Cardinality({d, e}) = 2 /\ IsFiniteSet({d, e})
    <3>1. IsFiniteSet({d}) /\ Cardinality({d}) = 1
      BY FS_Singleton
    <3>2. Cardinality({d} \cup {e}) = 1 + 1
      BY <3>1, <1>5, FS_AddElement
    <3>3. {d, e} = {d} \cup {e}
      OBVIOUS
    <3>4. IsFiniteSet({d} \cup {e})
      BY <3>1, FS_AddElement
    <3> QED
      BY <3>2, <3>3, <3>4
  <2>2. Cardinality({d, e}) <= Cardinality(D)
    <3>1. {d, e} \subseteq D
      BY <1>5
    <3> QED
      BY <3>1, <1>3, FS_Subset
  <2> QED
    BY <2>1, <2>2, <1>3, <1>4
<1> QED
  BY <1>5 DEF AtMostOne

----------------------------------------------------------------------------
(* When renaming has finished: what a block holds at any point is defined  *)
(* above that point.                                                       *)

Provided(x, b, i) == \E d \in Definers(x) : Above(d, b, i)
Finished == /\ Shape /\ WalkInv /\ ReachInv /\ FreshInv /\ CodeInv /\ LinkInv /\ OperandInv /\ UnseenInv
            /\ stage = "mark" /\ ~limitExceeded
HeldWell(b, i, v) ==
  LET h == held[b][i][v]
  IN IF h = NoReg THEN b = EntryBlock /\ Base(v) = 0 /\ \A j \in 1..(i - 1) : ~DefinesAt(fn, b, j, v)
                  ELSE h \notin fn.memory /\ Provided(h, b, i)

LEMMA FinishedFacts ==
  ASSUME Finished, variables # {}
  PROVE  /\ visited = Reachable(fn.succ) /\ fn \in Functions /\ EntryBlock \in visited /\ visited \subseteq Blocks
         /\ \A b \in visited : Len(held[b]) = Final(b) /\ DOMAIN fn.code[b] = 1..Len(fn.code[b]) /\ Len(fn.code[b]) \in Nat
         /\ \A b \in visited : \A i \in DOMAIN fn.code[b] : Rewrote(b, i)
<1>0. Shape /\ WalkInv /\ ReachInv /\ CodeInv /\ stage = "mark" /\ fn \in Functions
  BY DEF Finished, Shape, FnPart
<1>1. visited = Reachable(fn.succ)
  BY <1>0, AllAreVisited
<1>2. EntryBlock \in visited /\ visited \subseteq Blocks /\ walk = <<>>
  BY <1>0 DEF WalkInv, VisitedInv, Shape, WalkPart
<1>3. ASSUME NEW b \in visited
      PROVE  Len(held[b]) = Final(b) /\ DOMAIN fn.code[b] = 1..Len(fn.code[b]) /\ Len(fn.code[b]) \in Nat
  <2>1. b \in Blocks
    BY <1>2
  <2>2. Len(held[b]) = HeldLength(b)
    BY <2>1, <1>0 DEF WalkInv, HeldInv
  <2>3. HeldLength(b) = Final(b)
    BY <1>2 DEF HeldLength, Final
  <2> PICK cs : cs = fn.code[b]
    OBVIOUS
  <2>4. cs \in Seq(Instruction(fn.regs))
    BY <1>0, <2>1, FnState
  <2>5. DOMAIN cs = 1..Len(cs) /\ Len(cs) \in Nat
    BY <2>4
  <2> QED
    BY <2>2, <2>3, <2>5
<1>4. ASSUME NEW b \in visited, NEW i \in DOMAIN fn.code[b] PROVE Rewrote(b, i)
  <2>1. b \in Blocks /\ i \in Nat /\ i <= Len(fn.code[b]) /\ Len(fn.code[b]) \in Nat
    BY <1>0, <1>2, CodePositions
  <2>2. i < Final(b)
    BY <2>1 DEF Final
  <2> QED
    BY <2>1, <2>2, <1>0, <1>3 DEF CodeInv
<1> QED
  BY <1>0, <1>1, <1>2, <1>3, <1>4

LEMMA DominatorIsReachable ==
  ASSUME NEW g, IsGraph(g), NEW c \in DOMAIN g, NEW b \in Reachable(g), c # b, Dominates(g, c, b)
  PROVE  c \in Reachable(g)
<1> PICK R : R = Reachable(g)
  OBVIOUS
<1>1. CASE c = EntryBlock
  BY <1>1, ReachableFacts
<1>2. CASE c # EntryBlock
  <2> SUFFICES ASSUME c \notin R PROVE FALSE
    OBVIOUS
  <2> PICK A : A = ReachedAvoiding(g, {c})
    OBVIOUS
  <2>1. A \subseteq R
    BY AvoidingIsReachable
  <2>2. EntryBlock \in A /\ \A q \in A : \A x \in DOMAIN g \ {c} : Edge(g, q, x) => x \in A
    BY <1>2, ReachedFacts
  <2>3. \A q \in A : ~Edge(g, q, c)
    BY <2>1, ReachableFacts
  <2>4. \A q \in A : \A x \in DOMAIN g : Edge(g, q, x) => x \in A
    BY <2>2, <2>3
  <2>5. R \subseteq A
    BY <2>2, <2>4, ReachableFacts
  <2> QED
    BY <2>5, <1>2 DEF Dominates
<1> QED
  BY <1>1, <1>2

LEMMA AboveFacts ==
  ASSUME NEW b, NEW i
  PROVE  /\ Above(<<"undef", 0, 0>>, b, i)
         /\ \A p : Above(<<"phi", p, 0>>, b, i) <=> Dominates(fn.succ, phis[p].block, b)
         /\ \A c, j : Above(<<"ins", c, j>>, b, i) <=> IF c = b THEN j < i ELSE Dominates(fn.succ, c, b)
BY DEF Above

(* What is defined above a point is defined above those it dominates.      *)
LEMMA ProvidedLater ==
  ASSUME fn \in Functions, NEW x, NEW b, NEW i \in Nat, NEW j \in Nat, i <= j, Provided(x, b, i)
  PROVE  Provided(x, b, j)
<1>1. PICK d \in Definers(x) : Above(d, b, i)
  BY DEF Provided
<1>2. \/ d = <<"undef", 0, 0>>
      \/ \E p \in DOMAIN phis : d = <<"phi", p, 0>>
      \/ \E q \in Places : d = <<"ins", q[1], q[2]>>
  BY DefinerIs
<1>3. CASE d = <<"undef", 0, 0>> \/ \E p \in DOMAIN phis : d = <<"phi", p, 0>>
  <2>1. Above(d, b, j)
    BY <1>1, <1>3, AboveFacts
  <2> QED
    BY <2>1 DEF Provided
<1>4. CASE \E q \in Places : d = <<"ins", q[1], q[2]>>
  <2> PICK q \in Places : d = <<"ins", q[1], q[2]>>
    BY <1>4
  <2> PICK c : c = q[1]
    OBVIOUS
  <2> PICK k : k = q[2]
    OBVIOUS
  <2>1. k \in Nat
    BY PlacesArePairs, CodePositions
  <2>2. IF c = b THEN k < i ELSE Dominates(fn.succ, c, b)
    BY <1>1, AboveFacts
  <2>3. k < i => k < j
    BY <2>1
  <2>4. Above(d, b, j)
    BY <2>2, <2>3, AboveFacts
  <2> QED
    BY <2>4 DEF Provided
<1> QED
  BY <1>2, <1>3, <1>4

LEMMA ProvidedBelow ==
  ASSUME fn \in Functions, NEW x, NEW a \in Blocks, NEW b \in Kids(a), NEW i, NEW j, Provided(x, a, i)
  PROVE  Provided(x, b, j)
<1> PICK g : g = fn.succ
  OBVIOUS
<1>0. IsGraph(g) /\ a # b /\ Dominates(g, a, b) /\ ~Dominates(g, b, a)
  BY FnState, KidFacts
<1>1. PICK d \in Definers(x) : Above(d, a, i)
  BY DEF Provided
<1>2. \/ d = <<"undef", 0, 0>>
      \/ \E p \in DOMAIN phis : d = <<"phi", p, 0>>
      \/ \E q \in Places : d = <<"ins", q[1], q[2]>>
  BY DefinerIs
<1>3. CASE d = <<"undef", 0, 0>>
  BY <1>3, AboveFacts DEF Provided
<1>4. CASE \E p \in DOMAIN phis : d = <<"phi", p, 0>>
  <2> PICK p \in DOMAIN phis : d = <<"phi", p, 0>>
    BY <1>4
  <2>1. Dominates(g, phis[p].block, a)
    BY <1>1, AboveFacts
  <2>2. Dominates(g, phis[p].block, b)
    BY <2>1, <1>0, DominanceIsTransitive
  <2>3. Above(d, b, j)
    BY <2>2, AboveFacts
  <2> QED
    BY <2>3 DEF Provided
<1>5. CASE \E q \in Places : d = <<"ins", q[1], q[2]>>
  <2> PICK q \in Places : d = <<"ins", q[1], q[2]>>
    BY <1>5
  <2> PICK c : c = q[1]
    OBVIOUS
  <2> PICK k : k = q[2]
    OBVIOUS
  <2>1. IF c = a THEN k < i ELSE Dominates(g, c, a)
    BY <1>1, AboveFacts
  <2>2. c # b
    BY <2>1, <1>0
  <2>3. Dominates(g, c, b)
    BY <2>1, <1>0, DominanceIsTransitive
  <2>4. Above(d, b, j)
    BY <2>2, <2>3, AboveFacts
  <2> QED
    BY <2>4 DEF Provided
<1> QED
  BY <1>2, <1>3, <1>4, <1>5

(* An instruction that defines a register defines it below itself.         *)
LEMMA ProvidedByInstruction ==
  ASSUME fn \in Functions, NEW b \in Blocks, NEW i \in DOMAIN fn.code[b], NEW x, Writes(<<b, i>>, x)
  PROVE  /\ \A j : i < j => Provided(x, b, j)
         /\ \A c, j : c # b /\ Dominates(fn.succ, b, c) => Provided(x, c, j)
<1> PICK q : q = <<b, i>>
  OBVIOUS
<1> PICK d : d = <<"ins", b, i>>
  OBVIOUS
<1>1. q \in Places /\ d = <<"ins", q[1], q[2]>>
  BY PlaceOf
<1>2. d \in Definers(x)
  BY <1>1, DefinerIs
<1> QED
  BY <1>2, AboveFacts DEF Provided

(* The registers of the function: what an instruction reads.               *)
LEMMA ReadsAreRegisters ==
  ASSUME fn \in Functions, NEW b \in Blocks, NEW i \in DOMAIN fn.code[b], NEW r \in Reads(fn.code[b][i])
  PROVE  r \in 0..(fn.regs - 1) /\ r # NoReg
<1> PICK was : was = fn.code[b][i]
  OBVIOUS
<1>1. was \in [op : Ops, dest : 0..(fn.regs - 1), srcs : Seq(0..(fn.regs - 1))] /\ Elems(was.srcs) \subseteq 0..(fn.regs - 1)
  BY InstructionFacts DEF Blocks
<1>2. r \in 0..(fn.regs - 1)
  BY <1>1 DEF Reads
<1>3. fn.regs \in Nat /\ fn.regs <= RegisterLimit /\ RegisterLimit \in Nat /\ RegisterLimit < NoReg /\ NoReg \in Nat
  BY FnState DEF NoReg
<1> QED
  BY <1>2, <1>3

(* A definition of a register that is not a variable is left in place.     *)
LEMMA KeptDefinition ==
  ASSUME fn \in Functions, NEW b \in Blocks, NEW i \in DOMAIN fn.code[b], NEW r, r \notin variables,
         DefinesAt(fn, b, i, r), Rewrote(b, i)
  PROVE  Writes(<<b, i>>, r)
<1> PICK was : was = fn.code[b][i]
  OBVIOUS
<1>1. Defines(was) /\ was.dest = r /\ ~Tracked(was) /\ was.op # "out"
  BY DEF DefinesAt, Defines, Tracked
<1>2. code[b][i].op = was.op /\ code[b][i].dest = r
  BY <1>1 DEF Rewrote
<1> QED
  BY <1>1, <1>2 DEF Writes, Defines

(* What an instruction reads is defined above it, if what its block holds  *)
(* there is.                                                               *)
LEMMA ReadIsProvided ==
  ASSUME Finished, variables # {}, DefinitelyAssigned(fn), NEW b \in visited, NEW i \in DOMAIN fn.code[b],
         NEW r \in Reads(fn.code[b][i]), r \notin fn.memory, \A v \in variables : HeldWell(b, i, v)
  PROVE  /\ Provided(ReadAs(b, i, r), b, i) /\ ReadAs(b, i, r) # NoReg
         /\ ReadAs(b, i, r) \notin fn.memory
<1> PICK g : g = fn.succ
  OBVIOUS
<1>0. /\ visited = Reachable(g) /\ fn \in Functions /\ visited \subseteq Blocks /\ b \in Blocks /\ Blocks = DOMAIN fn.code
      /\ IsGraph(g) /\ DOMAIN g = Blocks /\ \A c \in visited : \A k \in DOMAIN fn.code[c] : Rewrote(c, k)
  BY FinishedFacts, FnState DEF Blocks
<1>1. r \in 0..(fn.regs - 1) /\ r # NoReg
  BY <1>0, ReadsAreRegisters
<1> PICK S : S = {c \in DOMAIN fn.code \ {b} : DefinesIn(fn, c, r)}
  OBVIOUS
<1>2. (\E j \in 1..(i - 1) : DefinesAt(fn, b, j, r)) \/ b \notin ReachedAvoiding(g, S)
  BY <1>0 DEF DefinitelyAssigned, AssignedAt
<1>3. CASE r \in variables
  <2> PICK h : h = held[b][i][r]
    OBVIOUS
  <2>1. h # NoReg
    <3> SUFFICES ASSUME h = NoReg PROVE FALSE
      OBVIOUS
    <3>1. b = EntryBlock /\ \A j \in 1..(i - 1) : ~DefinesAt(fn, b, j, r)
      BY <1>3 DEF HeldWell
    <3>2. EntryBlock \notin S
      BY <3>1
    <3>3. EntryBlock \in ReachedAvoiding(g, S)
      BY <3>2, <1>0, ReachedFacts
    <3> QED
      BY <3>1, <3>3, <1>2
  <2>2. Provided(h, b, i) /\ ReadAs(b, i, r) = h /\ h \notin fn.memory
    BY <2>1, <1>3 DEF HeldWell, ReadAs
  <2> QED
    BY <2>1, <2>2
<1>4. CASE r \notin variables
  <2>1. ReadAs(b, i, r) = r
    BY <1>4 DEF ReadAs
  <2>2. CASE \E j \in 1..(i - 1) : DefinesAt(fn, b, j, r)
    <3>1. PICK j \in 1..(i - 1) : DefinesAt(fn, b, j, r)
      BY <2>2
    <3>2. j \in DOMAIN fn.code[b] /\ j < i
      <4>1. i \in Nat /\ i <= Len(fn.code[b])
        BY <1>0, CodePositions
      <4>2. j \in 1..Len(fn.code[b]) /\ j < i
        BY <4>1, <3>1, FinishedFacts
      <4> QED
        BY <4>2, FinishedFacts
    <3>3. Writes(<<b, j>>, r)
      BY <3>1, <3>2, <1>0, <1>4, KeptDefinition
    <3> QED
      BY <3>2, <3>3, <2>1, <1>0, <1>1, ProvidedByInstruction
  <2>3. CASE b \notin ReachedAvoiding(g, S)
    <3>1. S # {}
      <4>1. b \in ReachedAvoiding(g, {})
        BY <1>0 DEF Reachable
      <4> QED
        BY <4>1, <2>3
    <3>2. PICK c \in S : TRUE
      BY <3>1
    <3>3. c \in Blocks /\ c # b /\ DefinesIn(fn, c, r)
      BY <3>2, <1>0
    <3>4. PICK j \in DOMAIN fn.code[c] : DefinesAt(fn, c, j, r)
      BY <3>3 DEF DefinesIn
    <3>5. \A e \in S : e = c
      <4> TAKE e \in S
      <4>1. PICK k \in DOMAIN fn.code[e] : DefinesAt(fn, e, k, r)
        BY DEF DefinesIn
      <4> PICK p : p = <<c, j>>
        OBVIOUS
      <4> PICK q : q = <<e, k>>
        OBVIOUS
      <4>2. p \in Places /\ q \in Places
        BY <3>3, <3>4, <4>1, <1>0, PlaceOf
      <4>3. p \in DefinitionsOf(r) /\ q \in DefinitionsOf(r)
        BY <3>4, <4>1, <4>2 DEF DefinitionsOf, DefinesAt
      <4>4. AtMostOne(DefinitionsOf(r))
        BY <1>1, <1>4, OneDefinition DEF Finished
      <4>5. p = q
        BY <4>3, <4>4 DEF AtMostOne
      <4> QED
        BY <4>5
    <3>6. S = {c}
      BY <3>2, <3>5
    <3>7. Dominates(g, c, b)
      BY <3>6, <2>3 DEF Dominates
    <3>8. c \in visited
      BY <3>3, <3>7, <1>0, DominatorIsReachable
    <3>9. Writes(<<c, j>>, r)
      BY <3>4, <3>8, <1>0, <1>4, KeptDefinition
    <3> QED
      BY <3>3, <3>4, <3>7, <3>9, <2>1, <1>0, <1>1, ProvidedByInstruction
  <2> QED
    BY <2>2, <2>3, <1>2
<1> QED
  BY <1>3, <1>4

(* Behind an instruction.                                                  *)
LEMMA HeldWellNext ==
  ASSUME Finished, variables # {}, DefinitelyAssigned(fn), NEW b \in visited, NEW i \in DOMAIN fn.code[b],
         \A v \in variables : HeldWell(b, i, v), NEW v \in variables
  PROVE  HeldWell(b, i + 1, v)
<1> PICK was : was = fn.code[b][i]
  OBVIOUS
<1> PICK is : is = code[b][i]
  OBVIOUS
<1> PICK now : now = held[b][i]
  OBVIOUS
<1> PICK k : k = i + 1
  OBVIOUS
<1> PICK next : next = held[b][k]
  OBVIOUS
<1>0. /\ fn \in Functions /\ b \in Blocks /\ i \in Nat /\ k \in Nat /\ i <= k /\ i < k /\ i \in 1..(k - 1)
      /\ Rewrote(b, i) /\ \A j \in 1..(k - 1) : j \in 1..(i - 1) \/ j = i
  <2>1. fn \in Functions /\ b \in Blocks /\ Rewrote(b, i)
    BY FinishedFacts
  <2>2. i \in Nat /\ i > 0
    BY <2>1, CodePositions
  <2> QED
    BY <2>1, <2>2
<1>1. i \in 1..Len(held[b]) /\ held[b] \in Seq([variables -> Nat])
  <2>1. Len(held[b]) = Final(b) /\ i \in 1..Len(fn.code[b]) /\ Len(fn.code[b]) \in Nat
    BY FinishedFacts
  <2>2. held[b] \in Seq([variables -> Nat])
    BY <1>0 DEF Finished, Shape, HeldPart
  <2> QED
    BY <2>1, <2>2 DEF Final
<1>2. now \in [variables -> Nat]
  BY <1>1
<1>3. ASSUME next[v] = now[v], ~DefinesAt(fn, b, i, v) PROVE HeldWell(b, k, v)
  <2>1. HeldWell(b, i, v)
    OBVIOUS
  <2>2. CASE now[v] = NoReg
    <3>1. b = EntryBlock /\ Base(v) = 0 /\ \A j \in 1..(i - 1) : ~DefinesAt(fn, b, j, v)
      BY <2>1, <2>2 DEF HeldWell
    <3>2. \A j \in 1..(k - 1) : ~DefinesAt(fn, b, j, v)
      BY <3>1, <1>0, <1>3
    <3> QED
      BY <2>2, <3>1, <3>2, <1>3 DEF HeldWell
  <2>3. CASE now[v] # NoReg
    <3>1. Provided(now[v], b, i) /\ now[v] \notin fn.memory
      BY <2>1, <2>3 DEF HeldWell
    <3>2. Provided(now[v], b, k)
      BY <3>1, <1>0, ProvidedLater
    <3> QED
      BY <2>3, <3>1, <3>2, <1>3 DEF HeldWell
  <2> QED
    BY <2>2, <2>3
<1>4. CASE Tracked(was) /\ ~Aliases(was)
  <2>1. /\ is.op = (IF was.op \in {"const", "copy"} THEN "load" ELSE was.op)
        /\ next = [now EXCEPT ![was.dest] = is.dest] /\ is.dest \in fn.regs..(NoReg - 1)
    BY <1>0, <1>4 DEF Rewrote, Finished
  <2>2. CASE v # was.dest
    <3>1. next[v] = now[v]
      BY <2>1, <2>2
    <3>2. ~DefinesAt(fn, b, i, v)
      BY <2>2 DEF DefinesAt
    <3> QED
      BY <3>1, <3>2, <1>3
  <2>3. CASE v = was.dest
    <3> PICK x : x = is.dest
      OBVIOUS
    <3>1. next[v] = x
      BY <2>1, <2>3, <1>2
    <3>2. x # NoReg /\ x \notin fn.memory
      <4>1. fn.regs \in Nat /\ fn.memory \subseteq 0..(fn.regs - 1)
        BY <1>0, FnState, FnFacts
      <4> QED
        BY <4>1, <2>1 DEF NoReg
    <3>3. Writes(<<b, i>>, x)
      BY <2>1, <1>4 DEF Writes, Tracked, Defines
    <3>4. Provided(x, b, k)
      BY <3>3, <1>0, ProvidedByInstruction
    <3> QED
      BY <3>1, <3>2, <3>4 DEF HeldWell
  <2> QED
    BY <2>2, <2>3
<1>5. CASE Tracked(was) /\ Aliases(was)
  <2>1. next = [now EXCEPT ![was.dest] = is.srcs[1]] /\ was.op = "copy" /\ was.srcs[1] \notin fn.memory
        /\ is.srcs = [j \in DOMAIN was.srcs |-> ReadAs(b, i, was.srcs[j])]
    BY <1>0, <1>5 DEF Rewrote, Aliases
  <2>2. CASE v # was.dest
    <3>1. next[v] = now[v]
      BY <2>1, <2>2
    <3>2. ~DefinesAt(fn, b, i, v)
      BY <2>2 DEF DefinesAt
    <3> QED
      BY <3>1, <3>2, <1>3
  <2>3. CASE v = was.dest
    <3> PICK r : r = was.srcs[1]
      OBVIOUS
    <3> PICK x : x = ReadAs(b, i, r)
      OBVIOUS
    <3>1. 1 \in DOMAIN was.srcs
      <4> PICK ss : ss = was.srcs
        OBVIOUS
      <4>1. Len(ss) = 1 /\ ss \in Seq(Nat)
        BY <2>1, <1>0, InstructionFacts DEF Blocks
      <4> QED
        BY <4>1
    <3>2. is.srcs[1] = x
      BY <3>1, <2>1
    <3>3. r \in Reads(was)
      BY <3>1, <2>1 DEF Reads, Elems
    <3>4. Provided(x, b, i) /\ x # NoReg /\ x \notin fn.memory
      BY <3>3, <2>1, ReadIsProvided
    <3>5. Provided(x, b, k)
      BY <3>4, <1>0, ProvidedLater
    <3>6. next[v] = x
      BY <2>1, <2>3, <3>2, <1>2
    <3> QED
      BY <3>4, <3>5, <3>6 DEF HeldWell
  <2> QED
    BY <2>2, <2>3
<1>6. CASE ~Tracked(was)
  <2>1. next = now
    BY <1>0, <1>6 DEF Rewrote
  <2>2. ~DefinesAt(fn, b, i, v)
    BY <1>6 DEF DefinesAt, Tracked
  <2> QED
    BY <2>1, <2>2, <1>3
<1> QED
  BY <1>4, <1>5, <1>6

LEMMA HeldWellThrough ==
  ASSUME Finished, variables # {}, DefinitelyAssigned(fn), NEW b \in visited, \A v \in variables : HeldWell(b, 1, v)
  PROVE  \A i \in 1..Final(b) : \A v \in variables : HeldWell(b, i, v)
<1> PICK l : l = Len(fn.code[b])
  OBVIOUS
<1> DEFINE Good == {n \in Nat : n < l + 1 => \A v \in variables : HeldWell(b, n + 1, v)}
<1>0. l \in Nat /\ DOMAIN fn.code[b] = 1..l /\ Final(b) = l + 1
  BY FinishedFacts DEF Final
<1>1. 0 \in Good
  BY <1>0
<1>2. ASSUME NEW n \in Nat, n \in Good PROVE n + 1 \in Good
  <2> PICK m : m = n + 1
    OBVIOUS
  <2> SUFFICES ASSUME m < l + 1 PROVE \A v \in variables : HeldWell(b, m + 1, v)
    OBVIOUS
  <2>1. m \in DOMAIN fn.code[b] /\ n < l + 1
    BY <1>0
  <2>2. \A v \in variables : HeldWell(b, m, v)
    BY <2>1, <1>2
  <2> QED
    BY <2>1, <2>2, HeldWellNext
<1>3. Nat \subseteq Good
  <2> HIDE DEF Good
  <2> QED
    BY <1>1, <1>2, NatSetInduction
<1>4. ASSUME NEW i \in 1..Final(b) PROVE \A v \in variables : HeldWell(b, i, v)
  <2> PICK n : n = i - 1
    OBVIOUS
  <2>1. n \in Nat /\ n < l + 1 /\ i = n + 1
    BY <1>0
  <2>2. n \in Good
    BY <2>1, <1>3
  <2> QED
    BY <2>1, <2>2
<1> QED
  BY <1>4

(* In front of the first instruction of a block with a phi.                *)
LEMMA HeldWellAtPhi ==
  ASSUME Finished, variables # {}, NEW b \in visited, NEW v \in variables,
         NEW p \in DOMAIN phis, phis[p].block = b, phis[p].var = v
  PROVE  HeldWell(b, 1, v)
<1> PICK x : x = phis[p].result
  OBVIOUS
<1>1. held[b][1][v] = x /\ x # NoReg
  BY DEF Finished, LinkInv, BeforeSweep, Linked
<1> PICK d : d = <<"phi", p, 0>>
  OBVIOUS
<1>2. d \in Definers(x)
  BY DefinerIs
<1>3. Dominates(fn.succ, b, b)
  BY DEF Dominates
<1>4. Provided(x, b, 1)
  BY <1>2, <1>3, AboveFacts DEF Provided
<1>5. x \notin fn.memory
  <2>1. x >= fn.regs
    BY DEF Finished, FreshInv
  <2>2. fn.regs \in Nat /\ fn.memory \subseteq 0..(fn.regs - 1)
    BY FnState, FnFacts, FinishedFacts
  <2> QED
    BY <2>1, <2>2
<1> QED
  BY <1>1, <1>4, <1>5 DEF HeldWell

LEMMA HeldWellAtEntry ==
  ASSUME Finished, variables # {}, NEW v \in variables
  PROVE  HeldWell(EntryBlock, 1, v)
<1> PICK b : b = EntryBlock
  OBVIOUS
<1>0. b \in visited /\ fn \in Functions
  BY FinishedFacts
<1>1. CASE \E p \in DOMAIN phis : phis[p].block = b /\ phis[p].var = v
  BY <1>0, <1>1, HeldWellAtPhi
<1>2. CASE \A p \in DOMAIN phis : ~(phis[p].block = b /\ phis[p].var = v)
  <2> PICK x : x = held[b][1][v]
    OBVIOUS
  <2>1. IF Base(v) = 1 THEN x \in undefs ELSE x = NoReg
    BY <1>0, <1>2 DEF Finished, LinkInv, BeforeSweep, Linked
  <2>2. CASE Base(v) = 1
    <3>1. x \in undefs /\ x \in fn.regs..(nextReg - 1)
      BY <2>1, <2>2 DEF Finished, FreshInv
    <3>2. x # NoReg /\ x \notin fn.memory
      <4>1. nextReg \in Nat /\ nextReg < NoReg /\ fn.regs \in Nat /\ fn.memory \subseteq 0..(fn.regs - 1)
        BY <1>0, FreshBounds, FnFacts DEF Finished, Shape
      <4> QED
        BY <3>1, <4>1 DEF NoReg
    <3>3. Provided(x, b, 1)
      BY <3>1, DefinerIs, AboveFacts DEF Provided
    <3> QED
      BY <3>2, <3>3 DEF HeldWell
  <2>3. CASE Base(v) # 1
    <3>1. x = NoReg /\ Base(v) = 0
      BY <2>1, <2>3 DEF Base
    <3>2. \A j \in 1..(1 - 1) : FALSE
      OBVIOUS
    <3> QED
      BY <3>1, <3>2 DEF HeldWell
  <2> QED
    BY <2>2, <2>3
<1> QED
  BY <1>1, <1>2

(* At the end of a block every variable has a register.                    *)
LEMMA HeldAtTheEnd ==
  ASSUME Finished, variables # {}, NEW a \in visited, NEW v \in variables, HeldWell(a, Final(a), v)
  PROVE  /\ held[a][Final(a)][v] # NoReg /\ Provided(held[a][Final(a)][v], a, Final(a))
         /\ held[a][Final(a)][v] \notin fn.memory
<1>1. held[a][Final(a)][v] # NoReg
  <2> SUFFICES ASSUME held[a][Final(a)][v] = NoReg PROVE FALSE
    OBVIOUS
  <2>1. a = EntryBlock /\ Base(v) = 0 /\ \A j \in 1..(Final(a) - 1) : ~DefinesAt(fn, a, j, v)
    BY DEF HeldWell
  <2>2. EntryBlock \in variableInfo[v].defBlocks
    BY <2>1 DEF Base
  <2>3. PICK q \in DefinitionsOf(v) : q[1] = EntryBlock
    BY <2>2, DefBlocksFacts DEF Finished
  <2>4. q \in Places /\ DefinesAt(fn, a, q[2], v)
    BY <2>1, <2>3 DEF DefinitionsOf, DefinesAt
  <2>5. q[2] \in DOMAIN fn.code[a]
    BY <2>1, <2>3, <2>4, PlacesArePairs
  <2>6. q[2] \in 1..(Final(a) - 1)
    <3>1. DOMAIN fn.code[a] = 1..Len(fn.code[a]) /\ Len(fn.code[a]) \in Nat
      BY FinishedFacts
    <3> QED
      BY <3>1, <2>5 DEF Final
  <2> QED
    BY <2>1, <2>4, <2>6
<1> QED
  BY <1>1 DEF HeldWell

LEMMA HeldWellAtChild ==
  ASSUME Finished, variables # {}, NEW a \in visited, NEW b \in Kids(a), NEW v \in variables, HeldWell(a, Final(a), v)
  PROVE  HeldWell(b, 1, v)
<1>0. fn \in Functions /\ a \in Blocks /\ visited = Reachable(fn.succ)
  BY FinishedFacts
<1>1. b \in visited
  BY <1>0, KidFacts
<1>2. CASE \E p \in DOMAIN phis : phis[p].block = b /\ phis[p].var = v
  BY <1>1, <1>2, HeldWellAtPhi
<1>3. CASE \A p \in DOMAIN phis : ~(phis[p].block = b /\ phis[p].var = v)
  <2> PICK x : x = held[a][Final(a)][v]
    OBVIOUS
  <2>1. held[b][1][v] = x
    BY <1>0, <1>1, <1>3 DEF Finished, LinkInv, BeforeSweep, Linked
  <2>2. x # NoReg /\ Provided(x, a, Final(a)) /\ x \notin fn.memory
    BY HeldAtTheEnd
  <2>3. Provided(x, b, 1)
    BY <2>2, <1>0, ProvidedBelow
  <2> QED
    BY <2>1, <2>2, <2>3 DEF HeldWell
<1> QED
  BY <1>2, <1>3

LEMMA HeldWellEverywhere ==
  ASSUME Finished, variables # {}, DefinitelyAssigned(fn)
  PROVE  \A b \in visited : \A i \in 1..Final(b) : \A v \in variables : HeldWell(b, i, v)
<1> PICK S : S = {b \in Blocks : \A v \in variables : HeldWell(b, 1, v)}
  OBVIOUS
<1>0. fn \in Functions /\ visited = Reachable(fn.succ) /\ visited \subseteq Blocks /\ EntryBlock \in visited
  BY FinishedFacts
<1>1. EntryBlock \in S
  BY <1>0, HeldWellAtEntry
<1>2. ASSUME NEW a \in S \cap Reachable(fn.succ), NEW b \in Kids(a) PROVE b \in S
  <2>1. a \in visited /\ \A v \in variables : HeldWell(a, 1, v)
    BY <1>0
  <2>2. Final(a) \in 1..Final(a)
    <3>1. Len(fn.code[a]) \in Nat
      BY <2>1, FinishedFacts
    <3> QED
      BY <3>1 DEF Final
  <2>3. \A v \in variables : HeldWell(a, Final(a), v)
    BY <2>1, <2>2, HeldWellThrough
  <2>4. \A v \in variables : HeldWell(b, 1, v)
    BY <2>1, <2>3, HeldWellAtChild
  <2>5. b \in Blocks
    BY <2>1, <1>0, KidFacts
  <2> QED
    BY <2>4, <2>5
<1>3. Reachable(fn.succ) \subseteq S
  BY <1>0, <1>1, <1>2, TreeInduction
<1>4. \A b \in visited : \A v \in variables : HeldWell(b, 1, v)
  BY <1>0, <1>3
<1> QED
  BY <1>4, HeldWellThrough

----------------------------------------------------------------------------
(* The converted function before the phis nothing reads are swept.         *)

ReadsProvided ==
  \A q \in Places : q[1] \in visited /\ code[q[1]][q[2]].op # "nop" =>
    \A r \in Reads(code[q[1]][q[2]]) : r \in fn.memory \/ Provided(r, q[1], q[2])
OperandsProvided ==
  \A p \in DOMAIN phis : \A k \in DOMAIN phis[p].values :
    LET x == phis[p].values[k]
        a == phis[p].blocks[k]
    IN Definers(x) # {} /\ (a \in visited => Provided(x, a, Final(a)))
DefinedOnce == \A r \in (0..(nextReg - 1)) \ fn.memory : AtMostOne(Definers(r))

LEMMA FinishedReads ==
  ASSUME Finished, DefinitelyAssigned(fn)
  PROVE  ReadsProvided
<1> SUFFICES ASSUME NEW q \in Places, q[1] \in visited, NEW r \in Reads(code[q[1]][q[2]]), r \notin fn.memory
             PROVE  Provided(r, q[1], q[2])
  BY DEF ReadsProvided
<1> PICK b : b = q[1]
  OBVIOUS
<1> PICK i : i = q[2]
  OBVIOUS
<1> PICK was : was = fn.code[b][i]
  OBVIOUS
<1> PICK is : is = code[b][i]
  OBVIOUS
<1>0. variables # {}
  BY DEF Finished, WalkInv, VisitedInv
<1>1. fn \in Functions /\ b \in Blocks /\ i \in DOMAIN fn.code[b] /\ Rewrote(b, i)
  BY <1>0, PlacesArePairs, FinishedFacts
<1>2. \A v \in variables : HeldWell(b, i, v)
  <2>1. i \in 1..Final(b)
    <3>1. i \in 1..Len(fn.code[b]) /\ Len(fn.code[b]) \in Nat
      BY <1>1, CodePositions
    <3> QED
      BY <3>1 DEF Final
  <2> QED
    BY <2>1, <1>0, HeldWellEverywhere
<1>3. ASSUME NEW s \in Reads(was), r = ReadAs(b, i, s) PROVE Provided(r, b, i)
  <2>1. s \in fn.memory => s \notin variables
    BY DEF Finished, Shape, VariablePart
  <2>2. s \notin fn.memory
    BY <2>1, <1>3 DEF ReadAs
  <2> QED
    BY <2>2, <1>0, <1>1, <1>2, <1>3, ReadIsProvided
<1>4. CASE was.op = "out"
  <2>1. is.op = "out" /\ is.dest = ReadAs(b, i, was.dest)
    BY <1>1, <1>4 DEF Rewrote, Tracked, Defines
  <2>2. r = ReadAs(b, i, was.dest) /\ was.dest \in Reads(was)
    BY <2>1, <1>4 DEF Reads
  <2> QED
    BY <2>2, <1>3
<1>5. CASE was.op # "out"
  <2>1. is.op # "out" /\ is.srcs = [k \in DOMAIN was.srcs |-> ReadAs(b, i, was.srcs[k])]
    <3>1. is.op = was.op \/ is.op = "load"
      BY <1>1, Zenon DEF Rewrote
    <3> QED
      BY <3>1, <1>1, <1>5, Zenon DEF Rewrote
  <2>2. PICK k \in DOMAIN is.srcs : r = is.srcs[k]
    BY <2>1, Zenon DEF Reads, Elems
  <2>3. k \in DOMAIN was.srcs /\ r = ReadAs(b, i, was.srcs[k])
    BY <2>1, <2>2, Zenon
  <2>4. was.srcs[k] \in Reads(was)
    BY <2>3, <1>5, Zenon DEF Reads, Elems
  <2> QED
    BY <2>3, <2>4, <1>3, Zenon
<1> QED
  BY <1>4, <1>5

LEMMA FinishedOperands ==
  ASSUME Finished, DefinitelyAssigned(fn)
  PROVE  OperandsProvided
<1> SUFFICES ASSUME NEW p \in DOMAIN phis, NEW k \in DOMAIN phis[p].values, NEW x, x = phis[p].values[k],
                    NEW a, a = phis[p].blocks[k]
             PROVE  Definers(x) # {} /\ (a \in visited => Provided(x, a, Final(a)))
  BY DEF OperandsProvided
<1>0. phis[p].var \in variables /\ variables # {}
  BY PhiTyped DEF Finished
<1>1. /\ x # NoReg
      /\ x \in undefs \/ (a \in visited /\ x = held[a][Final(a)][phis[p].var])
  BY DEF Finished, OperandInv, Operand
<1>2. CASE x \in undefs
  BY <1>2, DefinerIs, AboveFacts DEF Provided
<1>3. CASE a \in visited /\ x = held[a][Final(a)][phis[p].var]
  <2>1. Final(a) \in 1..Final(a)
    <3>1. Len(fn.code[a]) \in Nat
      BY <1>0, <1>3, FinishedFacts
    <3> QED
      BY <3>1 DEF Final
  <2>2. HeldWell(a, Final(a), phis[p].var)
    BY <2>1, <1>0, <1>3, HeldWellEverywhere
  <2>3. Provided(x, a, Final(a))
    BY <2>2, <1>0, <1>3, HeldAtTheEnd
  <2> QED
    BY <2>3 DEF Provided
<1> QED
  BY <1>1, <1>2, <1>3

LEMMA FinishedOnce ==
  ASSUME Finished
  PROVE  DefinedOnce
<1> SUFFICES ASSUME NEW r \in (0..(nextReg - 1)) \ fn.memory PROVE AtMostOne(Definers(r))
  BY DEF DefinedOnce
<1>0. /\ fn \in Functions /\ Shape /\ stage = "mark" /\ r \in Nat /\ nextReg \in Nat /\ nextReg < NoReg /\ fn.regs \in Nat
      /\ r < nextReg /\ NoReg \in Nat
  <2>1. fn \in Functions /\ Shape /\ stage = "mark"
    BY DEF Finished, Shape, FnPart
  <2>2. nextReg \in Nat /\ nextReg < NoReg /\ fn.regs \in Nat /\ NoReg \in Nat
    BY <2>1, FreshBounds DEF Shape
  <2> QED
    BY <2>1, <2>2
<1>1. CASE r >= fn.regs
  <2>1. r \in fn.regs..(NoReg - 1)
    BY <1>0, <1>1
  <2> QED
    BY <2>1 DEF Finished, FreshInv
<1>2. CASE ~(r >= fn.regs)
  <2>1. r \notin undefs /\ \A p \in DOMAIN phis : phis[p].result # r
    BY <1>0, <1>2 DEF Finished, FreshInv
  <2>2. r \in 0..(fn.regs - 1)
    BY <1>0, <1>2
  <2>3. ASSUME NEW q \in Places, Writes(q, r) PROVE q \in DefinitionsOf(r) /\ r \notin variables
    <3> PICK b : b = q[1]
      OBVIOUS
    <3> PICK i : i = q[2]
      OBVIOUS
    <3> PICK was : was = fn.code[b][i]
      OBVIOUS
    <3> PICK is : is = code[b][i]
      OBVIOUS
    <3>0. Defines(is) /\ is.dest = r /\ (is.op = "copy" => r \notin variables) /\ b \in Blocks /\ i \in DOMAIN fn.code[b]
      BY <2>3, PlacesArePairs DEF Writes
    <3>1. CASE variables = {}
      <4>1. is = was
        BY <3>1 DEF Finished, UnseenInv
      <4> QED
        BY <4>1, <3>0, <3>1 DEF DefinitionsOf
    <3>2. CASE variables # {}
      <4>1. b \in visited
        BY <3>0, <3>2 DEF Finished, UnseenInv
      <4>2. Rewrote(b, i)
        BY <4>1, <3>0, <3>2, FinishedFacts
      <4>3. ~(Tracked(was) /\ ~Aliases(was))
        <5> SUFFICES ASSUME Tracked(was), ~Aliases(was) PROVE FALSE
          OBVIOUS
        <5>1. is.dest \in fn.regs..(NoReg - 1)
          BY <4>2, Zenon DEF Rewrote, Finished
        <5> QED
          BY <5>1, <3>0, <1>0, <1>2
      <4>4. is.op = was.op /\ is.dest = IF was.op = "out" THEN ReadAs(b, i, was.dest) ELSE was.dest
        BY <4>2, <4>3, Zenon DEF Rewrote
      <4>5. Defines(was) /\ was.dest = r
        BY <4>4, <3>0 DEF Defines
      <4>6. r \notin variables
        BY <4>3, <4>4, <4>5, <3>0 DEF Tracked, Aliases
      <4> QED
        BY <4>5, <4>6 DEF DefinitionsOf
    <3> QED
      BY <3>1, <3>2
  <2>4. \A d \in Definers(r) : \E q \in Places : Writes(q, r) /\ d = <<"ins", q[1], q[2]>>
    BY <2>1, DefinerIs
  <2>5. CASE r \in variables
    <3>1. Definers(r) = {}
      BY <2>3, <2>4, <2>5
    <3> QED
      BY <3>1 DEF AtMostOne
  <2>6. CASE r \notin variables
    <3>1. AtMostOne(DefinitionsOf(r))
      BY <2>2, <2>6, <1>0, OneDefinition
    <3>2. ASSUME NEW d \in Definers(r), NEW e \in Definers(r) PROVE d = e
      <4>1. PICK q \in Places : Writes(q, r) /\ d = <<"ins", q[1], q[2]>>
        BY <2>4
      <4>2. PICK t \in Places : Writes(t, r) /\ e = <<"ins", t[1], t[2]>>
        BY <2>4
      <4>3. q = t
        BY <4>1, <4>2, <2>3, <3>1 DEF AtMostOne
      <4> QED
        BY <4>1, <4>2, <4>3
    <3> QED
      BY <3>2 DEF AtMostOne
  <2> QED
    BY <2>5, <2>6
<1> QED
  BY <1>1, <1>2

LEMMA AboveNext ==
  ASSUME NEW b, NEW i
  PROVE  /\ Above(<<"undef", 0, 0>>, b, i)'
         /\ \A p : Above(<<"phi", p, 0>>, b, i)' <=> Dominates(fn'.succ, phis'[p].block, b)
         /\ \A c, j : Above(<<"ins", c, j>>, b, i)' <=> IF c = b THEN j < i ELSE Dominates(fn'.succ, c, b)
BY DEF Above

LEMMA SweepKeepsWhat ==
  ASSUME NEW n, NEW order, Sweeping(n, order)
  PROVE  /\ UNCHANGED <<fn, variableInfo, nextReg, limitExceeded, undefs, code, visited>>
         /\ DOMAIN phis' = 1..n /\ \A k \in 1..n : phis'[k] = phis[order[k]] /\ order[k] \in live
         /\ live \subseteq DOMAIN phis /\ \A p \in live : \E k \in 1..n : order[k] = p
         /\ \A j, k \in 1..n : order[j] = order[k] => j = k
         /\ variables' = variables /\ Places' = Places
         /\ \A q, r : Writes(q, r)' <=> Writes(q, r)
<1>1. /\ UNCHANGED <<fn, variableInfo, nextReg, limitExceeded, undefs, code, visited>>
      /\ DOMAIN phis' = 1..n /\ \A k \in 1..n : phis'[k] = phis[order[k]] /\ order[k] \in live
      /\ live \subseteq DOMAIN phis /\ \A p \in live : \E k \in 1..n : order[k] = p
      /\ \A j, k \in 1..n : order[j] = order[k] => j = k
  BY DEF Sweeping, phiVars, renameVars
<1>2. variables' = variables /\ Places' = Places
  BY <1>1, FixedFn DEF variables
<1>3. \A q, r : Writes(q, r)' <=> Writes(q, r)
  BY <1>1, <1>2 DEF Writes, Defines
<1> QED
  BY <1>1, <1>2, <1>3

(* The definition of what an instruction or a live phi reads is not swept. *)
LEMMA SweepKeepsDefiner ==
  ASSUME NEW n, NEW order, Sweeping(n, order), NEW x, NEW d \in Definers(x),
         Appears(x) \/ \E p \in live : x \in Elems(phis[p].values)
  PROVE  \E e \in Definers(x)' : \A b, i : Above(d, b, i) => Above(e, b, i)'
<1>0. /\ UNCHANGED <<fn, undefs>>
      /\ DOMAIN phis' = 1..n /\ \A k \in 1..n : phis'[k] = phis[order[k]]
      /\ \A p \in live : \E k \in 1..n : order[k] = p
      /\ Places' = Places /\ \A q, r : Writes(q, r)' <=> Writes(q, r)
      /\ \A p \in DOMAIN phis \ live : ~KeepsAlive(p)
  BY SweepKeepsWhat DEF Sweeping
<1>1. CASE d = <<"undef", 0, 0>> /\ x \in undefs
  <2>1. d \in Definers(x)'
    BY <1>0, <1>1, DefinerIsNext
  <2> QED
    BY <2>1, <1>1, AboveNext
<1>2. CASE \E q \in Places : Writes(q, x) /\ d = <<"ins", q[1], q[2]>>
  <2> PICK q \in Places : Writes(q, x) /\ d = <<"ins", q[1], q[2]>>
    BY <1>2
  <2> PICK c : c = q[1]
    OBVIOUS
  <2> PICK j : j = q[2]
    OBVIOUS
  <2>1. d \in Definers(x)'
    BY <1>0, DefinerIsNext
  <2>2. ASSUME NEW b, NEW i, Above(d, b, i) PROVE Above(d, b, i)'
    <3>1. IF c = b THEN j < i ELSE Dominates(fn.succ, c, b)
      BY <2>2, AboveFacts
    <3> QED
      BY <3>1, <1>0, AboveNext
  <2> QED
    BY <2>1, <2>2
<1>3. CASE \E p \in DOMAIN phis : phis[p].result = x /\ d = <<"phi", p, 0>>
  <2> PICK p \in DOMAIN phis : phis[p].result = x /\ d = <<"phi", p, 0>>
    BY <1>3
  <2>1. p \in live
    BY <1>0 DEF KeepsAlive
  <2> PICK k \in 1..n : order[k] = p
    BY <2>1, <1>0
  <2> PICK e : e = <<"phi", k, 0>>
    OBVIOUS
  <2>2. phis'[k] = phis[p]
    BY <1>0
  <2>3. e \in Definers(x)'
    BY <2>2, <1>0, DefinerIsNext
  <2>4. \A b, i : Above(d, b, i) => Above(e, b, i)'
    BY <2>2, <1>0, AboveNext, AboveFacts
  <2> QED
    BY <2>3, <2>4
<1> QED
  BY <1>1, <1>2, <1>3, DefinerIs

LEMMA SweepKeepsProvided ==
  ASSUME NEW n, NEW order, Sweeping(n, order), NEW x, NEW b, NEW i, Provided(x, b, i),
         Appears(x) \/ \E p \in live : x \in Elems(phis[p].values)
  PROVE  Provided(x, b, i)'
<1>1. PICK d \in Definers(x) : Above(d, b, i)
  BY DEF Provided
<1>2. PICK e \in Definers(x)' : \A c, j : Above(d, c, j) => Above(e, c, j)'
  BY SweepKeepsDefiner
<1>3. Above(e, b, i)'
  BY <1>1, <1>2
<1> QED
  BY <1>3 DEF Provided

LEMMA SweepReads ==
  ASSUME NEW n, NEW order, Sweeping(n, order), ReadsProvided
  PROVE  ReadsProvided'
<1>0. /\ UNCHANGED <<fn, code, visited>> /\ Places' = Places
  BY SweepKeepsWhat
<1> SUFFICES ASSUME NEW q \in Places, q[1] \in visited, code[q[1]][q[2]].op # "nop",
                    NEW r \in Reads(code[q[1]][q[2]]), r \notin fn.memory
             PROVE  Provided(r, q[1], q[2])'
  BY <1>0 DEF ReadsProvided, Reads, Elems
<1>1. Provided(r, q[1], q[2])
  BY DEF ReadsProvided
<1>2. Appears(r)
  BY DEF Appears, Reads
<1> QED
  BY <1>1, <1>2, SweepKeepsProvided

LEMMA SweepOperands ==
  ASSUME Shape, NEW n, NEW order, Sweeping(n, order), OperandsProvided
  PROVE  OperandsProvided'
<1>0. /\ UNCHANGED <<fn, visited>> /\ DOMAIN phis' = 1..n /\ live \subseteq DOMAIN phis
      /\ \A k \in 1..n : phis'[k] = phis[order[k]] /\ order[k] \in live
  BY SweepKeepsWhat
<1>1. ASSUME NEW k \in DOMAIN phis', NEW j \in DOMAIN phis'[k].values, NEW x, x = phis'[k].values[j],
             NEW a, a = phis'[k].blocks[j]
      PROVE  Definers(x)' # {} /\ (a \in visited => Provided(x, a, Final(a))')
  <2> PICK p : p = order[k]
    OBVIOUS
  <2>1. p \in live /\ phis'[k] = phis[p] /\ p \in DOMAIN phis
    BY <1>0
  <2>2. Definers(x) # {} /\ (a \in visited => Provided(x, a, Final(a)))
    BY <2>1, <1>1 DEF OperandsProvided
  <2>3. x \in Elems(phis[p].values)
    BY <2>1, <1>1 DEF Elems
  <2>4. Definers(x)' # {}
    <3>1. PICK d : d \in Definers(x)
      BY <2>2
    <3> QED
      BY <3>1, <2>1, <2>3, SweepKeepsDefiner
  <2>5. Final(a)' = Final(a)
    BY <1>0 DEF Final
  <2>6. ASSUME a \in visited PROVE Provided(x, a, Final(a))'
    <3> PICK i : i = Final(a)
      OBVIOUS
    <3>1. Provided(x, a, i)'
      BY <2>1, <2>2, <2>3, <2>6, SweepKeepsProvided
    <3> QED
      BY <3>1, <2>5
  <2> QED
    BY <2>4, <2>6
<1> QED
  BY <1>0, <1>1 DEF OperandsProvided

LEMMA SweepOnce ==
  ASSUME NEW n, NEW order, Sweeping(n, order), DefinedOnce
  PROVE  DefinedOnce'
<1>1. /\ UNCHANGED <<fn, nextReg, undefs>>
      /\ DOMAIN phis' = 1..n /\ \A k \in 1..n : phis'[k] = phis[order[k]] /\ order[k] \in DOMAIN phis
      /\ \A j, k \in 1..n : order[j] = order[k] => j = k
      /\ Places' = Places /\ \A q, r : Writes(q, r)' <=> Writes(q, r)
  BY SweepKeepsWhat
<1>2. ASSUME NEW r \in (0..(nextReg - 1)) \ fn.memory PROVE AtMostOne(Definers(r))'
  <2> DEFINE before(d) == IF d[1] = "phi" THEN <<"phi", order[d[2]], 0>> ELSE d
  <2>1. ASSUME NEW d \in Definers(r)'
        PROVE  before(d) \in Definers(r) /\ (d[1] = "phi" => d = <<"phi", d[2], 0>> /\ d[2] \in 1..n)
    BY <1>1, DefinerIs, DefinerIsNext
  <2>2. AtMostOne(Definers(r))
    BY DEF DefinedOnce
  <2>3. ASSUME NEW d \in Definers(r)', NEW e \in Definers(r)' PROVE d = e
    <3>1. before(d) = before(e)
      BY <2>1, <2>2, <2>3 DEF AtMostOne
    <3> QED
      BY <3>1, <2>1, <2>3, <1>1
  <2> QED
    BY <2>3 DEF AtMostOne
<1> QED
  BY <1>1, <1>2 DEF DefinedOnce

----------------------------------------------------------------------------
(* What the converted function is like once the program runs.              *)
MeaningInv == stage = "run" => DefinedOnce /\ (DefinitelyAssigned(fn) => ReadsProvided /\ OperandsProvided)
MeaningParts == /\ WalkInv /\ StackInv /\ ReachInv /\ FreshInv /\ TopsInv /\ CodeInv
                /\ LinkInv /\ OperandInv /\ UnseenInv /\ MeaningInv

LEMMA MeaningSame ==
  ASSUME UNCHANGED <<fn, phis, code, undefs, visited, variableInfo, nextReg>>
  PROVE  /\ DefinedOnce => DefinedOnce'
         /\ ReadsProvided => ReadsProvided'
         /\ OperandsProvided => OperandsProvided'
<1>1. variables' = variables /\ Places' = Places /\ \A b : Final(b)' = Final(b)
  BY FixedFn DEF variables, Final
<1>2. \A q, r : Writes(q, r)' <=> Writes(q, r)
  BY <1>1 DEF Writes, Defines
<1>3. ASSUME NEW r PROVE Definers(r)' = Definers(r)
  <2>1. \A d : d \in Definers(r)' <=> d \in Definers(r)
    BY <1>1, <1>2, DefinerIs, DefinerIsNext
  <2> QED
    BY <2>1
<1>4. ASSUME NEW x, NEW b, NEW i PROVE Provided(x, b, i)' <=> Provided(x, b, i)
  BY <1>3 DEF Provided, Above
<1>5. DefinedOnce => DefinedOnce'
  BY <1>3 DEF DefinedOnce, AtMostOne
<1>6. ReadsProvided => ReadsProvided'
  BY <1>1, <1>4 DEF ReadsProvided, Reads, Elems
<1>7. OperandsProvided => OperandsProvided'
  <2> SUFFICES ASSUME OperandsProvided, NEW p \in DOMAIN phis, NEW k \in DOMAIN phis[p].values,
                      NEW x, x = phis[p].values[k], NEW a, a = phis[p].blocks[k], NEW i, i = Final(a)
               PROVE  Definers(x)' # {} /\ (a \in visited => Provided(x, a, i)')
    BY <1>1 DEF OperandsProvided
  <2>1. Definers(x) # {} /\ (a \in visited => Provided(x, a, i))
    BY DEF OperandsProvided
  <2> QED
    BY <2>1, <1>3, <1>4
<1> QED
  BY <1>5, <1>6, <1>7

LEMMA MeaningStep ==
  Shape /\ Shape' /\ WalkInv /\ ReachInv /\ FreshInv /\ CodeInv /\ LinkInv /\ OperandInv /\ UnseenInv
  /\ MeaningInv /\ [Next]_vars => MeaningInv'
<1> SUFFICES ASSUME Shape, Shape', WalkInv, ReachInv, FreshInv, CodeInv, LinkInv, OperandInv, UnseenInv,
                    MeaningInv, [Next]_vars, stage' = "run"
             PROVE  DefinedOnce' /\ (DefinitelyAssigned(fn') => ReadsProvided' /\ OperandsProvided')
  BY DEF MeaningInv
<1>1. CASE IdentifyVariables \/ StartVariable \/ SpreadPhis \/ InsertUndefs \/ EnterBlock \/ RenameInstruction
           \/ FillSuccessor \/ VisitChild \/ LeaveBlock \/ CleanUnreachable \/ MarkPhi
  <2>1. CASE IdentifyVariables \/ StartVariable \/ SpreadPhis \/ CleanUnreachable \/ MarkPhi
    BY <2>1 DEF IdentifyVariables, StartVariable, SpreadPhis, CleanUnreachable, MarkPhi
  <2>2. CASE EnterBlock \/ RenameInstruction \/ FillSuccessor \/ VisitChild \/ LeaveBlock
    BY <2>2, Zenon DEF EnterBlock, RenameInstruction, FillSuccessor, VisitChild, LeaveBlock, BlockRenamed, Renaming
  <2>3. CASE InsertUndefs
    BY <2>3 DEF InsertUndefs
  <2> QED
    BY <1>1, <2>1, <2>2, <2>3
<1>2. CASE Execute \/ TakeEdge \/ Stopped \/ UNCHANGED vars
  <2>1. UNCHANGED <<fn, stage, phis, code, undefs, visited, variableInfo, nextReg>>
    BY <1>2, Zenon DEF Execute, TakeEdge, Stopped, vars, phiVars, renameVars
  <2> QED
    BY <2>1, MeaningSame DEF MeaningInv
<1>3. CASE SweepPhis
  <2> PICK n : n = Cardinality(live)
    OBVIOUS
  <2> PICK order : order = InOrder(live)
    OBVIOUS
  <2>1. Sweeping(n, order)
    BY <1>3, SweepFacts
  <2>2. stage = "mark" /\ ~limitExceeded /\ fn' = fn
    BY <2>1, SweepKeepsWhat DEF Sweeping
  <2>3. Finished
    BY <2>2 DEF Finished
  <2>4. DefinedOnce'
    BY <2>1, <2>3, FinishedOnce, SweepOnce
  <2>5. ASSUME DefinitelyAssigned(fn) PROVE ReadsProvided' /\ OperandsProvided'
    BY <2>1, <2>3, <2>5, FinishedReads, FinishedOperands, SweepReads, SweepOperands
  <2> QED
    BY <2>2, <2>4, <2>5
<1> QED
  BY <1>1, <1>2, <1>3 DEF Next

LEMMA MeaningInit == Init => Shape /\ MeaningParts
<1> SUFFICES ASSUME Init PROVE Shape /\ MeaningParts
  OBVIOUS
<1>1. Shape /\ WalkInv /\ StackInv /\ FreshInv /\ CodeInv
  BY InitShape, WalkInit, StackInit, FreshInit, CodeInit
<1>2. stage = "variables" /\ visited = {} /\ phis = <<>> /\ code = fn.code
  BY DEF Init
<1>3. ReachInv /\ TopsInv /\ LinkInv /\ OperandInv /\ UnseenInv /\ MeaningInv
  BY <1>2 DEF ReachInv, TopsInv, LinkInv, BeforeSweep, OperandInv, UnseenInv, MeaningInv
<1> QED
  BY <1>1, <1>3 DEF MeaningParts

LEMMA MeaningPartsStep == Shape /\ Shape' /\ MeaningParts /\ [Next]_vars => MeaningParts'
<1> SUFFICES ASSUME Shape, Shape', MeaningParts, [Next]_vars PROVE MeaningParts'
  OBVIOUS
<1>0. /\ WalkInv /\ StackInv /\ ReachInv /\ FreshInv /\ TopsInv /\ CodeInv
      /\ LinkInv /\ OperandInv /\ UnseenInv /\ MeaningInv
  BY DEF MeaningParts
<1>1. WalkInv' /\ StackInv'
  BY <1>0, WalkStep, StackStep
<1>2. ReachInv' /\ FreshInv' /\ TopsInv' /\ CodeInv'
  BY <1>0, <1>1, ReachStep, FreshStep, TopsStep, CodeStep
<1>3. LinkInv' /\ OperandInv' /\ UnseenInv' /\ MeaningInv'
  BY <1>0, <1>1, LinkStep, OperandStep, UnseenStep, MeaningStep
<1> QED
  BY <1>1, <1>2, <1>3 DEF MeaningParts

(* The whole invariant: the frames of the walk are a path of the dominator *)
(* tree and the stacks lie along it; fresh registers are fresh; held, code *)
(* and operands of phis are linked by what each step of the renaming does; *)
(* and, where the construction ends, one definition per register and a     *)
(* provided definition for every read.                                     *)
THEOREM MeaningHolds == Spec => []MeaningParts
<1>1. Init => Shape /\ MeaningParts
  BY MeaningInit
<1>2. Shape /\ Shape' /\ MeaningParts /\ [Next]_vars => MeaningParts'
  BY MeaningPartsStep
<1> QED
  BY <1>1, <1>2, ShapeHolds, PTL DEF Spec

LEMMA FewDefiners ==
  ASSUME NEW S, AtMostOne(S)
  PROVE  Cardinality(S) < 2
<1>1. CASE S = {}
  BY <1>1, FS_EmptySet
<1>2. CASE S # {}
  <2> PICK d : d \in S
    BY <1>2
  <2>1. S = {d}
    BY DEF AtMostOne
  <2>2. Cardinality(S) = 1
    BY <2>1, FS_Singleton
  <2> QED
    BY <2>2
<1> QED
  BY <1>1, <1>2

LEMMA MeaningIsSingle == MeaningInv /\ DefinitelyAssigned(fn) => SingleDefinition
<1> SUFFICES ASSUME MeaningInv, DefinitelyAssigned(fn), stage = "run"
             PROVE  /\ \A r \in (0..(nextReg - 1)) \ fn.memory : Cardinality(Definers(r)) < 2
                    /\ \A p \in Elems(phis) : \A k \in DOMAIN p.values : Definers(p.values[k]) # {}
  BY DEF SingleDefinition
<1>1. DefinedOnce /\ OperandsProvided
  BY DEF MeaningInv
<1>2. \A r \in (0..(nextReg - 1)) \ fn.memory : Cardinality(Definers(r)) < 2
  BY <1>1, FewDefiners DEF DefinedOnce
<1>3. \A j \in DOMAIN phis : \A k \in DOMAIN phis[j].values : Definers(phis[j].values[k]) # {}
  BY <1>1 DEF OperandsProvided
<1>4. \A p \in Elems(phis) : \A k \in DOMAIN p.values : Definers(p.values[k]) # {}
  BY <1>3 DEF Elems
<1> QED
  BY <1>2, <1>4

LEMMA MeaningDominates == Shape /\ MeaningInv /\ DefinitelyAssigned(fn) => DefinitionsDominateReads
<1> SUFFICES ASSUME Shape, MeaningInv, DefinitelyAssigned(fn), stage = "run"
             PROVE  DefinitionsDominateReads
  BY DEF DefinitionsDominateReads
<1>1. ReadsProvided /\ OperandsProvided
  BY DEF MeaningInv
<1>2. \A q \in Places : LET ins == code[q[1]][q[2]] IN
        q[1] \in visited /\ ins.op # "nop" =>
          \A r \in Reads(ins) : r \in fn.memory \/ \E d \in Definers(r) : Above(d, q[1], q[2])
  BY <1>1 DEF ReadsProvided, Provided
<1>3. ASSUME NEW j \in DOMAIN phis, NEW k \in DOMAIN phis[j].values, phis[j].blocks[k] \in visited
      PROVE  \E d \in Definers(phis[j].values[k]) : Above(d, phis[j].blocks[k], Len(code[phis[j].blocks[k]]) + 1)
  <2> PICK a : a = phis[j].blocks[k]
    OBVIOUS
  <2>1. Provided(phis[j].values[k], a, Final(a))
    BY <1>1, <1>3 DEF OperandsProvided
  <2>2. Final(a) = Len(code[a]) + 1
    BY <1>3 DEF Shape, WalkPart, CodePart, Final
  <2> QED
    BY <2>1, <2>2 DEF Provided
<1>4. \A p \in Elems(phis) : \A k \in DOMAIN p.values : p.blocks[k] \in visited =>
        \E d \in Definers(p.values[k]) : Above(d, p.blocks[k], Len(code[p.blocks[k]]) + 1)
  BY <1>3 DEF Elems
<1> QED
  BY <1>2, <1>4 DEF DefinitionsDominateReads

(* In the converted function no register outside memory has two            *)
(* definitions, whatever the function was (RenameInstruction, the phis and *)
(* the undefined registers draw on one counter; the limit rejects).        *)
THEOREM RegistersAreDefinedOnce == Spec => [](stage = "run" => DefinedOnce)
<1>1. MeaningParts => (stage = "run" => DefinedOnce)
  BY DEF MeaningParts, MeaningInv
<1> QED
  BY <1>1, MeaningHolds, PTL

(* If every register is written before it is read, the result is in SSA    *)
(* form: no second definition, and no phi reads a register that nothing    *)
(* defines unless no reachable block writes it (VerifySSA).                *)
THEOREM ResultIsSsa == Spec => [](DefinitelyAssigned(fn) => SingleDefinition)
<1>1. MeaningParts => (DefinitelyAssigned(fn) => SingleDefinition)
  BY MeaningIsSingle DEF MeaningParts
<1> QED
  BY <1>1, MeaningHolds, PTL

(* If every register is written before it is read, the definition of what  *)
(* an instruction reads dominates the read, and the definition of a phi's  *)
(* operand dominates the end of the predecessor it comes from              *)
(* (ComputeIDF, RenameBlock, CleanUnreachable together).                   *)
THEOREM DefinitionsAlwaysDominate == Spec => [](DefinitelyAssigned(fn) => DefinitionsDominateReads)
<1>1. Shape /\ MeaningParts => (DefinitelyAssigned(fn) => DefinitionsDominateReads)
  BY MeaningDominates DEF MeaningParts
<1> QED
  BY <1>1, ShapeHolds, MeaningHolds, PTL

----------------------------------------------------------------------------
(* Where the phis are: wherever a definition of a variable, or a phi of    *)
(* it, stops dominating.                                                   *)

Covered(v, b) == \A s \in FrontierOf(IdomChains, b) : HasPhiFor(s, v)
PlacedFor(v) ==
  IF stage = "phis" /\ v = placing
    THEN /\ variableInfo[v].defBlocks \subseteq queued
         /\ \A p \in DOMAIN phis : phis[p].var = v => phis[p].block \in queued
         /\ \A b \in queued : Covered(v, b) \/ b \in Elems(worklist)
    ELSE /\ \A b \in variableInfo[v].defBlocks : Covered(v, b)
         /\ \A p \in DOMAIN phis : phis[p].var = v => Covered(v, phis[p].block)
PlacedInv ==
  stage \in {"phis"} \cup {"rename", "cleanup", "mark"} =>
    /\ \A p \in DOMAIN phis : phis[p].var \notin unplaced
    /\ \A v \in variables \ unplaced : PlacedFor(v)
    /\ stage # "phis" => unplaced = {}
    /\ stage = "phis" /\ worklist # <<>> => placing \notin unplaced

LEMMA CoveredStays ==
  ASSUME fn' = fn, \A p \in DOMAIN phis : p \in DOMAIN phis' /\ phis'[p].block = phis[p].block /\ phis'[p].var = phis[p].var,
         NEW v, NEW b, Covered(v, b)
  PROVE  Covered(v, b)'
<1>1. \A c, s : FrontierOf(c, s)' = FrontierOf(c, s)
  BY FixedFn
<1>2. IdomChains' = IdomChains
  BY FixedFn
<1>3. \A s : HasPhiFor(s, v) => HasPhiFor(s, v)'
  BY DEF HasPhiFor, Elems
<1>4. FrontierOf(IdomChains, b)' = FrontierOf(IdomChains, b)
  BY <1>1, <1>2 DEF FrontierOf, Blocks, Preds
<1> QED
  BY <1>3, <1>4 DEF Covered

LEMMA PlacedSame ==
  ASSUME PlacedInv, stage \in {"rename", "cleanup", "mark"}, stage' \in {"rename", "cleanup", "mark"},
         UNCHANGED <<fn, phiVars>>, DOMAIN phis' = DOMAIN phis,
         \A p \in DOMAIN phis : phis'[p].block = phis[p].block /\ phis'[p].var = phis[p].var
  PROVE  PlacedInv'
<1>1. variables' = variables /\ variableInfo' = variableInfo /\ unplaced' = unplaced /\ unplaced = {}
  BY DEF phiVars, variables, PlacedInv
<1>2. \A v, b : Covered(v, b) => Covered(v, b)'
  BY CoveredStays
<1>3. \A v \in variables : PlacedFor(v)
  BY <1>1 DEF PlacedInv
<1>4. \A v \in variables : PlacedFor(v)'
  BY <1>1, <1>2, <1>3 DEF PlacedFor
<1> QED
  BY <1>1, <1>4 DEF PlacedInv

LEMMA PlacedStart == Shape /\ Shape' /\ PlacedInv /\ StartVariable => PlacedInv'
<1> SUFFICES ASSUME Shape, Shape', PlacedInv, StartVariable PROVE PlacedInv'
  OBVIOUS
<1> PICK u : u = placing'
  OBVIOUS
<1>1. /\ stage = "phis" /\ stage' = "phis" /\ worklist = <<>> /\ unplaced # {} /\ u = Least(unplaced)
      /\ unplaced' = unplaced \ {u} /\ worklist' = InOrder(variableInfo[u].defBlocks)
      /\ queued' = variableInfo[u].defBlocks
      /\ UNCHANGED <<fn, variableInfo, phis>> /\ variables' = variables
  BY DEF StartVariable, variables
<1>2. \A v, b : Covered(v, b) => Covered(v, b)'
  BY <1>1, CoveredStays
<1>3. \A p \in DOMAIN phis : phis[p].var \notin unplaced
  BY <1>1 DEF PlacedInv
<1>4. unplaced \subseteq variables /\ unplaced \in SUBSET Nat
  <2>1. unplaced \subseteq variables /\ variables \subseteq 0..(fn.regs - 1)
    BY DEF Shape, PlacePart, VariablePart
  <2> QED
    BY <2>1
<1>5. u \in unplaced
  BY <1>1, <1>4, LeastFacts
<1>6. PlacedFor(u)'
  <2> PICK D : D = variableInfo[u].defBlocks
    OBVIOUS
  <2>1. D \subseteq Blocks /\ fn \in Functions
    BY <1>4, <1>5, DefBlocksFacts DEF Shape, FnPart
  <2>2. D \in SUBSET Nat /\ IsFiniteSet(D)
    BY <2>1, FnState, FS_Subset
  <2>3. ASSUME NEW b \in D PROVE b \in Elems(InOrder(D))
    <3>1. Rank(b, D) \in DOMAIN InOrder(D) /\ InOrder(D)[Rank(b, D)] = b
      BY <2>2, InOrderFacts
    <3> QED
      BY <3>1 DEF Elems
  <2>4. \A b \in queued' : b \in Elems(worklist')
    BY <2>3, <1>1
  <2>5. \A p \in DOMAIN phis' : phis'[p].var # u
    BY <1>1, <1>3, <1>5
  <2>6. \A b \in queued' : b \in Elems(worklist)'
    BY <2>4 DEF Elems
  <2> QED
    BY <1>1, <2>5, <2>6 DEF PlacedFor
<1>7. ASSUME NEW v \in variables \ unplaced PROVE PlacedFor(v)'
  <2>0. PlacedFor(v)
    BY <1>1 DEF PlacedInv
  <2>1. /\ \A b \in variableInfo[v].defBlocks : Covered(v, b)
        /\ \A p \in DOMAIN phis : phis[p].var = v => Covered(v, phis[p].block)
    <3>1. CASE v = placing
      <4>1. \A b \in queued : Covered(v, b)
        BY <2>0, <3>1, <1>1 DEF PlacedFor, Elems
      <4> QED
        BY <4>1, <2>0, <3>1, <1>1 DEF PlacedFor
    <3>2. CASE v # placing
      BY <2>0, <3>2 DEF PlacedFor
    <3> QED
      BY <3>1, <3>2
  <2>2. v # u
    BY <1>5
  <2> QED
    BY <1>1, <1>2, <2>1, <2>2 DEF PlacedFor
<1>8. \A p \in DOMAIN phis' : phis'[p].var \notin unplaced'
  BY <1>1, <1>3
<1> QED
  BY <1>1, <1>6, <1>7, <1>8 DEF PlacedInv

LEMMA PlacedSpread == Shape /\ Shape' /\ PlacedInv /\ SpreadPhis => PlacedInv'
<1> SUFFICES ASSUME Shape, Shape', PlacedInv, SpreadPhis PROVE PlacedInv'
  OBVIOUS
<1> PICK fresh : fresh = {b \in tree.frontier[Head(worklist)] : ~HasPhiFor(b, placing)}
  OBVIOUS
<1> PICK u : u = placing
  OBVIOUS
<1> PICK h : h = Head(worklist)
  OBVIOUS
<1>1. /\ stage = "phis" /\ stage' = "phis" /\ worklist # <<>> /\ placing' = u /\ unplaced' = unplaced
      /\ worklist' = Tail(worklist) \o InOrder(fresh \ queued) /\ queued' = queued \cup fresh
      /\ UNCHANGED <<fn, variableInfo>> /\ variables' = variables
  BY DEF SpreadPhis, variables
<1>2. /\ u \in variables /\ h \in Blocks /\ fresh \subseteq Blocks /\ fresh \in SUBSET Nat /\ IsFiniteSet(fresh)
      /\ DOMAIN phis \subseteq DOMAIN phis' /\ \A k \in DOMAIN phis : phis'[k] = phis[k]
      /\ \A k \in DOMAIN phis' : k \in DOMAIN phis \/ \E b \in fresh : phis'[k] = NewPhi(b, u)
      /\ \A b \in fresh : \E k \in DOMAIN phis' \ DOMAIN phis : phis'[k] = NewPhi(b, u)
  <2>1. /\ placing \in variables /\ Head(worklist) \in Blocks /\ fresh \subseteq Blocks /\ fresh \in SUBSET Nat
        /\ IsFiniteSet(fresh)
        /\ DOMAIN phis \subseteq DOMAIN phis' /\ \A k \in DOMAIN phis : phis'[k] = phis[k]
    BY SpreadFactsOf
  <2>2. \A k \in DOMAIN phis' : k \in DOMAIN phis
                                \/ \E b \in fresh : phis'[k] = NewPhi(b, placing) /\ k = Len(phis) + Rank(b, fresh)
    BY SpreadFactsOf
  <2>3. \A b \in fresh : \E k \in DOMAIN phis' \ DOMAIN phis : phis'[k] = NewPhi(b, placing)
    BY SpreadFactsOf
  <2> QED
    BY <2>1, <2>2, <2>3
<1>3. fn \in Functions /\ worklist \in Seq(Blocks) /\ tree.frontier[h] = FrontierOf(IdomChains, h)
  BY <1>1, <1>2 DEF Shape, FnPart, PlacePart, TreePart
<1>4. \A v, b : Covered(v, b) => Covered(v, b)'
  BY <1>1, <1>2, CoveredStays
<1>5. ASSUME NEW k \in DOMAIN phis', k \notin DOMAIN phis
      PROVE  phis'[k].var = u /\ phis'[k].block \in fresh
  BY <1>2, <1>3, <1>5, NewPhiFacts
<1>6. u \notin unplaced /\ PlacedFor(u) /\ \A p \in DOMAIN phis : phis[p].var \notin unplaced
  BY <1>1, <1>2 DEF PlacedInv
<1>7. /\ variableInfo[u].defBlocks \subseteq queued
      /\ \A p \in DOMAIN phis : phis[p].var = u => phis[p].block \in queued
      /\ \A b \in queued : Covered(u, b) \/ b \in Elems(worklist)
  BY <1>1, <1>6 DEF PlacedFor
<1>8. Covered(u, h)'
  <2>1. ASSUME NEW s \in FrontierOf(IdomChains, h) PROVE HasPhiFor(s, u)'
    <3>1. CASE HasPhiFor(s, u)
      BY <3>1, <1>2 DEF HasPhiFor, Elems
    <3>2. CASE ~HasPhiFor(s, u)
      <4>1. s \in fresh
        BY <3>2, <1>3
      <4>2. PICK k \in DOMAIN phis' : phis'[k] = NewPhi(s, u)
        BY <4>1, <1>2
      <4>3. phis'[k].block = s /\ phis'[k].var = u
        BY <4>1, <4>2, <1>2, <1>3, NewPhiFacts
      <4> QED
        BY <4>3 DEF HasPhiFor, Elems
    <3> QED
      BY <3>1, <3>2
  <2>2. FrontierOf(IdomChains, h)' = FrontierOf(IdomChains, h)
    BY <1>1, FixedFn DEF FrontierOf, Blocks, Preds
  <2> QED
    BY <2>1, <2>2 DEF Covered
<1>9. ASSUME NEW b \in queued' PROVE Covered(u, b)' \/ b \in Elems(worklist)'
  <2> PICK more : more = InOrder(fresh \ queued)
    OBVIOUS
  <2> PICK rest : rest = Tail(worklist)
    OBVIOUS
  <2>1. (fresh \ queued) \in SUBSET Nat /\ IsFiniteSet(fresh \ queued)
    BY <1>2, FS_Subset
  <2>2. /\ more \in Seq(fresh \ queued) /\ \A x \in fresh \ queued : \E k \in DOMAIN more : more[k] = x
    <3> PICK S : S = fresh \ queued
      OBVIOUS
    <3>1. S \in SUBSET Nat /\ IsFiniteSet(S) /\ more = InOrder(S)
      BY <2>1
    <3>2. /\ InOrder(S) \in Seq(S) /\ DOMAIN InOrder(S) = 1..Cardinality(S)
          /\ \A x \in S : Rank(x, S) \in 1..Cardinality(S) /\ InOrder(S)[Rank(x, S)] = x
      BY ONLY <3>1, InOrderFacts
    <3> QED
      BY <3>1, <3>2, Zenon
  <2>3. more \in Seq(Blocks) /\ rest \in Seq(Blocks)
    <3>1. fresh \ queued \subseteq Blocks
      BY <1>2
    <3> QED
      BY <3>1, <2>2, <1>1, <1>3, SequenceWidens
  <2>4. worklist' = rest \o more
    BY <1>1
  <2>5. /\ \A k \in DOMAIN rest : k \in DOMAIN worklist' /\ worklist'[k] = rest[k]
        /\ \A k \in DOMAIN more : Len(rest) + k \in DOMAIN worklist' /\ worklist'[Len(rest) + k] = more[k]
    <3> PICK w : w = worklist'
      OBVIOUS
    <3>1. w = rest \o more
      BY <2>4
    <3>2. /\ \A k \in DOMAIN rest : k \in DOMAIN w /\ w[k] = rest[k]
          /\ \A k \in DOMAIN more : Len(rest) + k \in DOMAIN w /\ w[Len(rest) + k] = more[k]
      BY ONLY <2>3, <3>1, ConcatFacts
    <3> QED
      BY <3>2
  <2>6. CASE b \in fresh \ queued
    BY <2>6, <2>2, <2>5 DEF Elems
  <2>7. CASE b \in queued /\ b \in Elems(worklist) /\ b # h
    <3>1. PICK k \in DOMAIN worklist : worklist[k] = b
      BY <2>7 DEF Elems
    <3>2. k - 1 \in DOMAIN rest /\ rest[k - 1] = b
      BY <3>1, <2>7, <1>1, <1>3
    <3> QED
      BY <3>2, <2>5 DEF Elems
  <2>8. CASE b = h
    BY <2>8, <1>8
  <2>9. CASE b \in queued /\ Covered(u, b)
    BY <2>9, <1>4
  <2> QED
    BY <2>6, <2>7, <2>8, <2>9, <1>1, <1>7
<1>10. PlacedFor(u)'
  BY <1>1, <1>2, <1>5, <1>7, <1>9 DEF PlacedFor
<1>11. ASSUME NEW v \in variables \ unplaced, v # u PROVE PlacedFor(v)'
  <2>1. PlacedFor(v)
    BY <1>1 DEF PlacedInv
  <2>2. /\ \A b \in variableInfo[v].defBlocks : Covered(v, b)
        /\ \A p \in DOMAIN phis : phis[p].var = v => Covered(v, phis[p].block)
    BY <2>1, <1>11 DEF PlacedFor
  <2>3. \A p \in DOMAIN phis' : phis'[p].var = v => p \in DOMAIN phis /\ phis'[p] = phis[p]
    BY <1>2, <1>5, <1>11
  <2> QED
    BY <1>1, <1>4, <1>11, <2>2, <2>3 DEF PlacedFor
<1>12. \A p \in DOMAIN phis' : phis'[p].var \notin unplaced'
  BY <1>1, <1>2, <1>5, <1>6
<1> QED
  BY <1>1, <1>6, <1>10, <1>11, <1>12 DEF PlacedInv

LEMMA PlacedStep == Shape /\ Shape' /\ PlacedInv /\ [Next]_vars => PlacedInv'
<1> SUFFICES ASSUME Shape, Shape', PlacedInv, [Next]_vars PROVE PlacedInv'
  OBVIOUS
<1>1. CASE IdentifyVariables
  <2>1. phis' = <<>> /\ unplaced' = variables' /\ stage' = "phis" /\ worklist' = <<>>
    BY <1>1 DEF IdentifyVariables, Shape, EarlyPart, variables
  <2> QED
    BY <2>1 DEF PlacedInv
<1>2. CASE InsertUndefs
  <2>1. stage = "phis" /\ stage' \in {"rename", "mark"} /\ worklist = <<>> /\ unplaced = {}
        /\ UNCHANGED <<fn, phiVars, phis>>
    BY <1>2, Zenon DEF InsertUndefs
  <2>2. variables' = variables /\ variableInfo' = variableInfo /\ unplaced' = unplaced
    BY <2>1 DEF phiVars, variables
  <2>3. \A v, b : Covered(v, b) => Covered(v, b)'
    BY <2>1, CoveredStays
  <2>4. ASSUME NEW v \in variables PROVE PlacedFor(v)'
    <3>1. PlacedFor(v)
      BY <2>1 DEF PlacedInv
    <3>2. /\ \A b \in variableInfo[v].defBlocks : Covered(v, b)
          /\ \A p \in DOMAIN phis : phis[p].var = v => Covered(v, phis[p].block)
      <4>1. CASE v = placing
        <5>1. \A b \in queued : Covered(v, b)
          BY <3>1, <4>1, <2>1 DEF PlacedFor, Elems
        <5> QED
          BY <5>1, <3>1, <4>1, <2>1 DEF PlacedFor
      <4>2. CASE v # placing
        BY <3>1, <4>2 DEF PlacedFor
      <4> QED
        BY <4>1, <4>2
    <3> QED
      BY <2>1, <2>2, <2>3, <3>2 DEF PlacedFor
  <2> QED
    BY <2>1, <2>2, <2>4 DEF PlacedInv
<1>3. CASE EnterBlock
  <2> PICK b : b = Top.block
    OBVIOUS
  <2> PICK mine : mine = PhisOf(b)
    OBVIOUS
  <2>0. Entering(b, mine)
    BY <1>3, EnterFacts
  <2>1. stage = "rename" /\ UNCHANGED <<fn, stage, phiVars>>
    BY <2>0 DEF Entering, Renaming
  <2>2. DOMAIN phis' = DOMAIN phis /\ \A p \in DOMAIN phis :
          phis'[p] = IF p \in mine THEN [phis[p] EXCEPT !.result = Allocated(Rank(p, mine))] ELSE phis[p]
    BY <2>0, Zenon DEF Entering
  <2>3. \A p \in DOMAIN phis : phis[p] \in PhiRecords
    BY PhiTyped
  <2>4. \A p \in DOMAIN phis : phis'[p].block = phis[p].block /\ phis'[p].var = phis[p].var
    BY <2>2, <2>3 DEF PhiRecords
  <2> QED
    BY <2>1, <2>2, <2>4, PlacedSame
<1>4. CASE RenameInstruction \/ VisitChild \/ LeaveBlock \/ MarkPhi
  <2>1. CASE RenameInstruction \/ VisitChild
    <3>1. stage = "rename" /\ UNCHANGED <<fn, stage, phiVars, phis>>
      BY <2>1, Zenon DEF RenameInstruction, VisitChild, BlockRenamed, Renaming
    <3> QED
      BY <3>1, PlacedSame
  <2>2. CASE LeaveBlock
    <3>1. stage = "rename" /\ stage' \in {"rename", "cleanup"} /\ UNCHANGED <<fn, phiVars, phis>>
      BY <2>2, Zenon DEF LeaveBlock, BlockRenamed, Renaming
    <3> QED
      BY <3>1, PlacedSame
  <2>3. CASE MarkPhi
    <3>1. stage = "mark" /\ UNCHANGED <<fn, stage, phiVars, phis>>
      BY <2>3, Zenon DEF MarkPhi
    <3> QED
      BY <3>1, PlacedSame
  <2> QED
    BY <1>4, <2>1, <2>2, <2>3
<1>5. CASE FillSuccessor
  <2> PICK b : b = Top.block
    OBVIOUS
  <2> PICK s : s = fn.succ[b][SuccessorIndex]
    OBVIOUS
  <2> PICK fed : fed = PhisOf(s)
    OBVIOUS
  <2> PICK bare : bare = {p \in fed : regStack[phis[p].var] = <<>>}
    OBVIOUS
  <2>0. Filling(b, s, fed, bare)
    BY <1>5, FillFacts
  <2>1. stage = "rename" /\ UNCHANGED <<fn, stage, phiVars>>
    BY <2>0, Zenon DEF Filling, Renaming
  <2>2. DOMAIN phis' = DOMAIN phis /\ (\A p \in DOMAIN phis \ fed : phis'[p] = phis[p])
        /\ \A p \in fed : \E vs : phis'[p] = [phis[p] EXCEPT !.values = vs]
    BY <2>0 DEF Filling
  <2>3. \A p \in DOMAIN phis : phis[p] \in PhiRecords
    BY PhiTyped
  <2>4. \A p \in DOMAIN phis : phis'[p].block = phis[p].block /\ phis'[p].var = phis[p].var
    BY <2>2, <2>3, ZenonT(40) DEF PhiRecords
  <2> QED
    BY <2>1, <2>2, <2>4, PlacedSame
<1>6. CASE CleanUnreachable
  <2> PICK bare : bare = {p \in DOMAIN phis : phis[p].block \in Missed}
    OBVIOUS
  <2> PICK n : n = Cardinality(bare)
    OBVIOUS
  <2> PICK filled : filled = n + Cardinality(Holes)
    OBVIOUS
  <2> PICK shared : shared = Allocated(filled + 1)
    OBVIOUS
  <2>0. Cleaning(n, bare, filled, shared)
    BY <1>6, CleanFacts
  <2>1. stage = "cleanup" /\ stage' = "mark" /\ UNCHANGED <<fn, phiVars>>
    BY <2>0, Zenon DEF Cleaning
  <2>2. DOMAIN phis' = DOMAIN phis
        /\ \A p \in DOMAIN phis : \E x, vs : phis'[p] = [phis[p] EXCEPT !.result = x, !.values = vs]
    BY <2>0, Zenon DEF Cleaning
  <2>3. \A p \in DOMAIN phis : phis[p] \in PhiRecords
    BY PhiTyped
  <2>4. \A p \in DOMAIN phis : phis'[p].block = phis[p].block /\ phis'[p].var = phis[p].var
    BY <2>2, <2>3, Zenon DEF PhiRecords
  <2> QED
    BY <2>1, <2>2, <2>4, PlacedSame, Zenon
<1>7. CASE SweepPhis \/ Execute \/ TakeEdge
  <2>1. stage' \in {"run", "rejected"}
    BY <1>7, Zenon DEF SweepPhis, Execute, TakeEdge, Running
  <2> QED
    BY <2>1 DEF PlacedInv
<1>8. CASE Stopped \/ UNCHANGED vars
  <2>1. UNCHANGED <<fn, stage, phiVars, phis>>
    BY <1>8 DEF Stopped, vars
  <2>2. UNCHANGED <<variableInfo, unplaced, placing, worklist, queued>> /\ variables' = variables
    BY <2>1 DEF phiVars, variables
  <2>3. \A v, b : Covered(v, b) => Covered(v, b)'
    BY <2>1, CoveredStays
  <2>4. ASSUME NEW v, PlacedFor(v) PROVE PlacedFor(v)'
    BY <2>1, <2>2, <2>3, <2>4 DEF PlacedFor, Elems
  <2> QED
    BY <2>1, <2>2, <2>4 DEF PlacedInv
<1> QED
  BY <1>1, <1>2, <1>3, <1>4, <1>5, <1>6, <1>7, <1>8, PlacedStart, PlacedSpread DEF Next

----------------------------------------------------------------------------
(* A block the walk has entered has given its phi operands to its          *)
(* successors, or a frame of the walk is still to do it.                   *)

Filled(p, a) ==
  LET g == held[a][Final(a)][phis[p].var]
  IN Len(held[a]) = Final(a) /\ (g # NoReg => phis[p].values[OperandFor(p, a)] = g)
Pending(a, j) == \E f \in DOMAIN walk : walk[f].block = a /\ walk[f].pc <= Len(fn.code[a]) + j
FilledInv ==
  BeforeSweep =>
    \A a \in visited : \A j \in DOMAIN fn.succ[a] : \A p \in DOMAIN phis :
      phis[p].block = fn.succ[a][j] => Filled(p, a) \/ Pending(a, j)

LEMMA SuccessorNumbers ==
  ASSUME fn \in Functions, NEW a \in Blocks, NEW j \in DOMAIN fn.succ[a]
  PROVE  j \in Nat /\ j >= 1 /\ j <= Len(fn.succ[a]) /\ Len(fn.succ[a]) \in Nat /\ Len(fn.code[a]) \in Nat
         /\ fn.succ[a][j] \in Blocks /\ Edge(fn.succ, a, fn.succ[a][j])
<1> PICK ss : ss = fn.succ[a]
  OBVIOUS
<1> PICK cs : cs = fn.code[a]
  OBVIOUS
<1>1. ss \in Seq(Blocks) /\ cs \in Seq(Instruction(fn.regs))
  BY FnState
<1>2. j \in 1..Len(ss) /\ Len(ss) \in Nat /\ Len(cs) \in Nat /\ ss[j] \in Blocks
  BY <1>1
<1> QED
  BY <1>2 DEF Edge

LEMMA FilledKeeps ==
  ASSUME NEW p, NEW a, Filled(p, a), fn' = fn, held'[a] = held[a],
         phis'[p].blocks = phis[p].blocks, phis'[p].var = phis[p].var,
         NEW k, k = OperandFor(p, a),
         phis[p].values[k] # NoReg => phis'[p].values[k] = phis[p].values[k]
  PROVE  Filled(p, a)'
<1>1. Final(a)' = Final(a) /\ OperandFor(p, a)' = OperandFor(p, a)
  BY DEF Final, OperandFor, Least
<1> PICK g : g = held[a][Final(a)][phis[p].var]
  OBVIOUS
<1>2. Len(held[a]) = Final(a) /\ (g # NoReg => phis[p].values[k] = g)
  BY DEF Filled
<1>3. g = held'[a][Final(a)'][phis'[p].var]
  BY <1>1
<1> QED
  BY <1>1, <1>2, <1>3 DEF Filled, NoReg

LEMMA PendingAdvance ==
  ASSUME Shape, NEW b \in Blocks, NEW fr \in Frames, Advancing(b, fr), NEW a, NEW j
  PROVE  /\ a # b /\ Pending(a, j) => Pending(a, j)'
         /\ a = b /\ Top.pc + 1 <= Len(fn.code[b]) + j => Pending(a, j)'
<1> PICK n : n = Len(walk)
  OBVIOUS
<1>1. /\ n \in Nat \ {0} /\ DOMAIN walk = 1..n /\ Top = walk[n] /\ walk # <<>>
      /\ DOMAIN walk' = 1..n /\ walk'[n] = fr
      /\ \A f \in 1..(n - 1) : f \in 1..n /\ f # n /\ walk'[f] = walk[f]
      /\ \A f \in 1..n : f = n \/ f \in 1..(n - 1)
  BY AdvancedWalk
<1>2. b = Top.block /\ fr.block = b /\ fr.pc = Top.pc + 1 /\ fn' = fn /\ n \in 1..n
  BY <1>1 DEF Advancing
<1>3. ASSUME a # b, Pending(a, j) PROVE Pending(a, j)'
  <2>1. PICK f \in DOMAIN walk : walk[f].block = a /\ walk[f].pc <= Len(fn.code[a]) + j
    BY <1>3 DEF Pending
  <2>2. f # n
    BY <2>1, <1>1, <1>2, <1>3
  <2>3. f \in DOMAIN walk' /\ walk'[f] = walk[f]
    BY <2>1, <2>2, <1>1
  <2> QED
    BY <2>1, <2>3, <1>2 DEF Pending
<1>4. ASSUME a = b, Top.pc + 1 <= Len(fn.code[b]) + j PROVE Pending(a, j)'
  BY <1>1, <1>2, <1>4 DEF Pending
<1> QED
  BY <1>3, <1>4

(* Nothing changes but the results of phis, operands nobody filled and the *)
(* frames that have nothing to do.                                         *)
LEMMA FilledSame ==
  ASSUME FilledInv, BeforeSweep, UNCHANGED <<fn, visited>>, visited \subseteq Blocks,
         \A a \in Blocks : Len(held[a]) = Final(a) => held'[a] = held[a],
         DOMAIN phis' = DOMAIN phis,
         \A p \in DOMAIN phis :
           /\ phis'[p].block = phis[p].block /\ phis'[p].var = phis[p].var /\ phis'[p].blocks = phis[p].blocks
           /\ \A k : phis[p].values[k] # NoReg => phis'[p].values[k] = phis[p].values[k],
         \A a \in visited : \A j \in DOMAIN fn.succ[a] : Pending(a, j) => Pending(a, j)'
  PROVE  FilledInv'
<1>1. ASSUME NEW a \in visited, NEW j \in DOMAIN fn.succ[a], NEW p \in DOMAIN phis, phis[p].block = fn.succ[a][j]
      PROVE  Filled(p, a)' \/ Pending(a, j)'
  <2>1. Filled(p, a) \/ Pending(a, j)
    BY <1>1 DEF FilledInv
  <2>2. CASE Filled(p, a)
    <3> PICK k : k = OperandFor(p, a)
      OBVIOUS
    <3>1. held'[a] = held[a]
      BY <2>2 DEF Filled
    <3>2. phis[p].values[k] # NoReg => phis'[p].values[k] = phis[p].values[k]
      OBVIOUS
    <3>3. phis'[p].blocks = phis[p].blocks /\ phis'[p].var = phis[p].var
      OBVIOUS
    <3> QED
      BY <2>2, <3>1, <3>2, <3>3, FilledKeeps
  <2> QED
    BY <2>1, <2>2
<1> QED
  BY <1>1 DEF FilledInv

LEMMA FilledEnter == Shape /\ WalkInv /\ FilledInv /\ EnterBlock => FilledInv'
<1> SUFFICES ASSUME Shape, WalkInv, FilledInv, EnterBlock PROVE FilledInv'
  OBVIOUS
<1> PICK b : b = Top.block
  OBVIOUS
<1> PICK mine : mine = PhisOf(b)
  OBVIOUS
<1>0. Entering(b, mine)
  BY EnterFacts
<1>1. /\ Renaming /\ Top.pc = 0 /\ b \in Blocks /\ visited' = visited \cup {b} /\ Remember
      /\ regStack' \in [variables -> Seq(Nat)]
      /\ UNCHANGED <<fn, stage, variableInfo>>
      /\ DOMAIN phis' = DOMAIN phis
      /\ \A p \in DOMAIN phis : phis'[p] = IF p \in mine THEN [phis[p] EXCEPT !.result = Allocated(Rank(p, mine))]
                                                         ELSE phis[p]
  BY <1>0 DEF Entering, phiVars
<1>2. PICK c \in Blocks, fr \in Frames : Advancing(c, fr)
  BY AdvanceFacts
<1>3. c = b /\ stage = "rename" /\ fn \in Functions
  BY <1>1, <1>2 DEF Advancing, Renaming, Shape, FnPart
<1>4. variables' = variables /\ Blocks' = Blocks
  BY <1>1, FixedFn DEF variables
<1>5. \A a \in Blocks \ {b} : held'[a] = held[a]
  BY <1>1, <1>4, HeldGrows
<1>6. ASSUME NEW p \in DOMAIN phis
      PROVE  /\ phis'[p].block = phis[p].block /\ phis'[p].var = phis[p].var /\ phis'[p].blocks = phis[p].blocks
             /\ phis'[p].values = phis[p].values
  <2>1. phis[p] \in PhiRecords
    BY PhiTyped
  <2> QED
    BY <2>1, <1>1 DEF PhiRecords
<1>7. visited \subseteq Blocks
  BY DEF Shape, WalkPart
<1>8. ASSUME NEW a \in visited', NEW j \in DOMAIN fn.succ[a], NEW p \in DOMAIN phis, phis[p].block = fn.succ[a][j]
      PROVE  Filled(p, a)' \/ Pending(a, j)'
  <2>0. a \in Blocks
    BY <1>1, <1>7
  <2>1. CASE a = b
    <3>1. j \in Nat /\ j >= 1 /\ Len(fn.code[b]) \in Nat
      BY <2>0, <2>1, <1>3, SuccessorNumbers
    <3>2. Top.pc + 1 <= Len(fn.code[b]) + j
      BY <3>1, <1>1
    <3> QED
      BY <2>1, <3>2, <1>2, <1>3, PendingAdvance
  <2>2. CASE a # b
    <3>1. Filled(p, a) \/ Pending(a, j)
      BY <2>2, <1>1, <1>3, <1>8 DEF FilledInv, BeforeSweep
    <3>2. CASE Pending(a, j)
      BY <3>2, <2>2, <1>2, <1>3, PendingAdvance
    <3>3. CASE Filled(p, a)
      BY <3>3, <2>0, <2>2, <1>1, <1>5, <1>6, FilledKeeps
    <3> QED
      BY <3>1, <3>2, <3>3
  <2> QED
    BY <2>1, <2>2
<1> QED
  BY <1>1, <1>6, <1>8 DEF FilledInv

LEMMA FilledRename == Shape /\ WalkInv /\ FilledInv /\ RenameInstruction => FilledInv'
<1> SUFFICES ASSUME Shape, WalkInv, FilledInv, RenameInstruction PROVE FilledInv'
  OBVIOUS
<1>1. /\ UNCHANGED <<fn, stage, variableInfo, visited, phis, undefs>> /\ stage = "rename"
      /\ \A a \in Blocks : Len(held[a]) = Final(a) => held'[a] = held[a]
  BY RenameKeeps
<1>2. PICK b \in Blocks, fr \in Frames : Advancing(b, fr)
  BY AdvanceFacts
<1>3. Renaming /\ b = Top.block /\ Top.pc \in DOMAIN code[b]
  BY <1>2, Zenon DEF Advancing, RenameInstruction
<1>4. Top.pc \in Nat /\ Top.pc <= Len(fn.code[b]) /\ Len(fn.code[b]) \in Nat /\ fn \in Functions
  <2>1. /\ Top.pc \in Nat /\ fn \in Functions /\ Len(code[b]) = Len(fn.code[b]) /\ Len(code[b]) \in Nat
        /\ DOMAIN code[b] = 1..Len(code[b])
    BY <1>3, TopFacts
  <2> QED
    BY <2>1, <1>3
<1>5. visited \subseteq Blocks
  BY DEF Shape, WalkPart
<1>6. ASSUME NEW a \in visited, NEW j \in DOMAIN fn.succ[a], Pending(a, j) PROVE Pending(a, j)'
  <2>1. CASE a = b
    <3>1. j \in Nat /\ j >= 1
      BY <2>1, <1>4, <1>5, SuccessorNumbers
    <3>2. Top.pc + 1 <= Len(fn.code[b]) + j
      BY <3>1, <1>4
    <3> QED
      BY <2>1, <3>2, <1>2, PendingAdvance
  <2>2. CASE a # b
    BY <1>6, <2>2, <1>2, PendingAdvance
  <2> QED
    BY <2>1, <2>2
<1> QED
  BY <1>1, <1>5, <1>6, FilledSame DEF BeforeSweep

LEMMA FilledFill == Shape /\ WalkInv /\ StackInv /\ TopsInv /\ FilledInv /\ FillSuccessor => FilledInv'
<1> SUFFICES ASSUME Shape, WalkInv, StackInv, TopsInv, FilledInv, FillSuccessor PROVE FilledInv'
  OBVIOUS
<1> PICK b : b = Top.block
  OBVIOUS
<1> PICK i : i = SuccessorIndex
  OBVIOUS
<1> PICK s : s = fn.succ[b][i]
  OBVIOUS
<1> PICK fed : fed = PhisOf(s)
  OBVIOUS
<1> PICK bare : bare = {p \in fed : regStack[phis[p].var] = <<>>}
  BY Zenon
<1>0. Filling(b, s, fed, bare)
  BY FillFacts
<1>1. /\ Renaming /\ b \in Blocks /\ Edge(fn.succ, b, s) /\ Top.pc > Len(code[b]) /\ fed \subseteq DOMAIN phis
      /\ bare = {p \in fed : regStack[phis[p].var] = <<>>} /\ i \in DOMAIN fn.succ[b]
      /\ UNCHANGED <<fn, stage, visited, held>> /\ DOMAIN phis' = DOMAIN phis
      /\ \A p \in DOMAIN phis \ fed : phis'[p] = phis[p]
      /\ \A p \in fed : LET v == IF p \in bare THEN Allocated(Rank(p, bare)) ELSE Last(regStack[phis[p].var])
                        IN v \in Nat /\ phis'[p] = [phis[p] EXCEPT !.values = [@ EXCEPT ![OperandFor(p, b)] = v]]
  BY <1>0, Zenon DEF Filling
<1> PICK n : n = Len(walk)
  OBVIOUS
<1>2. /\ stage = "rename" /\ stage' = "rename" /\ Top.pc \in Nat /\ Len(fn.code[b]) \in Nat /\ Top.pc > Len(fn.code[b])
      /\ regStack \in [variables -> Seq(Nat)] /\ walk # <<>> /\ fn \in Functions
      /\ n \in Nat \ {0} /\ DOMAIN walk = 1..n /\ Top = walk[n] /\ Len(code[b]) = Len(fn.code[b])
  BY <1>1, TopFacts
<1>3. b \in visited /\ Len(held[b]) = Final(b)
  <2>1. n \in DOMAIN walk /\ Top.pc > 0 /\ ~(Top.pc <= Len(fn.code[b]))
    BY <1>2
  <2>2. b \in visited
    BY <1>2, <2>1 DEF WalkInv, FramesInv, FrameInv
  <2> QED
    BY <2>1, <2>2, <1>1 DEF WalkInv, HeldInv, HeldLength, Final
<1>4. PICK c \in Blocks, fr \in Frames : Advancing(c, fr)
  BY AdvanceFacts
<1>5. c = b
  BY <1>4 DEF Advancing
<1>6. Top.pc = Len(fn.code[b]) + i /\ i \in Nat /\ i >= 1
  <2>1. i \in Nat /\ i >= 1
    BY <1>1, <1>2, SuccessorNumbers, Zenon
  <2> PICK pc : pc = Top.pc
    OBVIOUS
  <2> PICK l : l = Len(fn.code[b])
    BY Zenon
  <2>2. i = pc - l
    BY <1>2, Zenon DEF SuccessorIndex
  <2>3. pc \in Nat /\ l \in Nat
    BY <1>2
  <2>4. pc = l + i
    BY ONLY <2>1, <2>2, <2>3
  <2> QED
    BY <2>1, <2>4
<1>7. ASSUME NEW p \in fed
      PROVE  \E v \in Nat : /\ phis'[p].block = phis[p].block /\ phis'[p].var = phis[p].var
                            /\ phis'[p].blocks = phis[p].blocks
                            /\ phis'[p].values = [phis[p].values EXCEPT ![OperandFor(p, b)] = v]
                            /\ OperandFor(p, b) \in DOMAIN phis[p].values /\ phis[p].blocks[OperandFor(p, b)] = b
                            /\ held[b][Final(b)][phis[p].var] # NoReg => v = held[b][Final(b)][phis[p].var]
  <2>0. p \in DOMAIN phis /\ phis[p] \in PhiRecords /\ phis[p].var \in variables /\ phis[p].block = s
    BY <1>1, PhiTyped DEF PhisOf
  <2> PICK v : v = IF p \in bare THEN Allocated(Rank(p, bare)) ELSE Last(regStack[phis[p].var])
    OBVIOUS
  <2> PICK j : j = OperandFor(p, b)
    OBVIOUS
  <2> PICK w : w = phis[p].var
    OBVIOUS
  <2>1. v \in Nat /\ phis'[p] = [phis[p] EXCEPT !.values = [@ EXCEPT ![j] = v]]
    BY <1>1
  <2>2. j \in DOMAIN phis[p].values /\ phis[p].blocks[j] = b
    BY <2>0, <1>1, OperandFacts
  <2>3. /\ phis'[p].block = phis[p].block /\ phis'[p].var = phis[p].var /\ phis'[p].blocks = phis[p].blocks
        /\ phis'[p].values = [phis[p].values EXCEPT ![j] = v]
    BY <2>0, <2>1 DEF PhiRecords
  <2>4. held[b][Final(b)][w] = CurrentRegister(regStack, w)
    <3>1. Top.pc > 0
      BY <1>2
    <3>2. Latest(b)[w] = CurrentRegister(regStack, w)
      BY <3>1, <2>0, <1>1, TopIsHeld
    <3> QED
      BY <3>2, <1>3 DEF Latest
  <2>5. held[b][Final(b)][w] # NoReg => v = held[b][Final(b)][w]
    <3>1. CASE regStack[w] = <<>>
      BY <3>1, <2>4 DEF CurrentRegister
    <3>2. CASE regStack[w] # <<>>
      <4>1. p \notin bare
        BY <3>2, <1>1
      <4> QED
        BY <3>2, <4>1, <2>4 DEF CurrentRegister
    <3> QED
      BY <3>1, <3>2
  <2> QED
    BY <2>1, <2>2, <2>3, <2>5
<1>8. visited \subseteq Blocks /\ \A a : Final(a)' = Final(a)
  BY <1>1 DEF Shape, WalkPart, Final
<1>9. ASSUME NEW p \in DOMAIN phis
      PROVE  phis'[p].block = phis[p].block /\ phis'[p].blocks = phis[p].blocks /\ phis'[p].var = phis[p].var
  BY <1>1, <1>7
<1>10. ASSUME NEW a \in visited, NEW j \in DOMAIN fn.succ[a], NEW p \in DOMAIN phis, phis[p].block = fn.succ[a][j]
       PROVE  Filled(p, a)' \/ Pending(a, j)'
  <2>1. Filled(p, a) \/ Pending(a, j)
    BY <1>2, <1>10 DEF FilledInv, BeforeSweep
  <2>2. a \in Blocks /\ j \in Nat /\ Edge(fn.succ, a, phis[p].block)
    BY <1>2, <1>8, <1>10, SuccessorNumbers
  <2>3. CASE a = b /\ p \in fed
    <3> PICK k : k = OperandFor(p, b)
      OBVIOUS
    <3> PICK g : g = held[b][Final(b)][phis[p].var]
      OBVIOUS
    <3>1. PICK v \in Nat : /\ phis'[p].var = phis[p].var /\ phis'[p].blocks = phis[p].blocks
                           /\ phis'[p].values = [phis[p].values EXCEPT ![k] = v]
                           /\ k \in DOMAIN phis[p].values /\ (g # NoReg => v = g)
      BY <2>3, <1>7
    <3>2. OperandFor(p, b)' = k
      BY <3>1, <1>1 DEF OperandFor, Least
    <3>3. phis'[p].values[k] = v
      BY <3>1
    <3> QED
      BY <2>3, <3>1, <3>2, <3>3, <1>1, <1>3, <1>8 DEF Filled, NoReg
  <2>4. CASE a = b /\ p \notin fed
    <3>1. phis'[p] = phis[p] /\ j # i
      BY <2>4, <1>1, <1>10 DEF PhisOf
    <3>2. CASE j > i
      <4>1. Top.pc + 1 <= Len(fn.code[b]) + j
        BY <3>2, <2>2, <1>2, <1>6
      <4> QED
        BY <4>1, <2>4, <1>4, <1>5, PendingAdvance
    <3>3. CASE j < i
      <4>1. ~Pending(a, j)
        <5> SUFFICES ASSUME Pending(a, j) PROVE FALSE
          OBVIOUS
        <5>1. PICK f \in DOMAIN walk : walk[f].block = a /\ walk[f].pc <= Len(fn.code[a]) + j
          BY DEF Pending
        <5>2. f = n
          BY <5>1, <2>4, <1>2 DEF WalkInv, FramesInv
        <5> QED
          BY <5>1, <5>2, <3>3, <2>2, <2>4, <1>2, <1>6
      <4> QED
        BY <4>1, <2>1, <3>1, <1>1, FilledKeeps
    <3> QED
      BY <3>1, <3>2, <3>3, <2>2, <1>6
  <2>5. CASE a # b
    <3>1. CASE Pending(a, j)
      BY <3>1, <2>5, <1>4, <1>5, PendingAdvance
    <3>2. CASE Filled(p, a)
      <4> PICK k : k = OperandFor(p, a)
        OBVIOUS
      <4>1. k \in DOMAIN phis[p].values /\ phis[p].blocks[k] = a
        BY <2>2, OperandFacts
      <4>2. phis'[p].values[k] = phis[p].values[k]
        <5>1. CASE p \in fed
          <6>1. PICK v \in Nat : /\ phis'[p].values = [phis[p].values EXCEPT ![OperandFor(p, b)] = v]
                                 /\ phis[p].blocks[OperandFor(p, b)] = b
            BY <5>1, <1>7
          <6>2. k # OperandFor(p, b)
            BY <6>1, <4>1, <2>5
          <6> QED
            BY <6>1, <6>2, <4>1
        <5>2. CASE p \notin fed
          BY <5>2, <1>1
        <5> QED
          BY <5>1, <5>2
      <4> QED
        BY <3>2, <4>2, <1>1, <1>9, FilledKeeps
    <3> QED
      BY <2>1, <3>1, <3>2
  <2> QED
    BY <2>3, <2>4, <2>5
<1> QED
  BY <1>1, <1>9, <1>10 DEF FilledInv

LEMMA FilledVisit == Shape /\ FilledInv /\ VisitChild => FilledInv'
<1> SUFFICES ASSUME Shape, FilledInv, VisitChild PROVE FilledInv'
  OBVIOUS
<1> PICK b : b = Top.block
  OBVIOUS
<1> PICK child : child = Least(Top.todo)
  OBVIOUS
<1>0. Visiting(b, child)
  BY VisitFacts
<1> PICK x : x = [Top EXCEPT !.todo = @ \ {child}]
  OBVIOUS
<1> PICK y : y = Frame(child)
  OBVIOUS
<1>1. /\ Renaming /\ walk' = Front(walk) \o <<x, y>> /\ x \in Frames /\ y \in Frames
      /\ UNCHANGED <<fn, stage, phis, visited, held>> /\ stage = "rename"
  BY <1>0 DEF Visiting, Renaming
<1> PICK n : n = Len(walk)
  OBVIOUS
<1>2. /\ n \in Nat \ {0} /\ DOMAIN walk = 1..n /\ Top = walk[n] /\ Top \in Frames /\ walk \in Seq(Frames) /\ walk # <<>>
  BY <1>1, TopFacts
<1>3. x.block = Top.block /\ x.pc = Top.pc
  BY <1>2 DEF Frames
<1>4. walk' \in Seq(Frames) /\ Extended(walk', walk, x, y)
  <2> PICK w : w = walk'
    OBVIOUS
  <2> PICK ww : ww = walk
    OBVIOUS
  <2>1. ww \in Seq(Frames) /\ ww # <<>> /\ x \in Frames /\ y \in Frames /\ w = Front(ww) \o <<x, y>>
    BY <1>1, <1>2
  <2>2. w \in Seq(Frames) /\ Extended(w, ww, x, y)
    BY ONLY <2>1, AddFrame
  <2> QED
    BY <2>2
<1>5. ASSUME NEW f \in DOMAIN walk
      PROVE  f \in DOMAIN walk' /\ walk'[f].block = walk[f].block /\ walk'[f].pc = walk[f].pc
  <2>1. Len(walk') = n + 1 /\ walk'[n] = x /\ \A k \in 1..(n - 1) : walk'[k] = walk[k]
    BY <1>4 DEF Extended
  <2>2. DOMAIN walk' = 1..(n + 1)
    BY <2>1, <1>4
  <2>3. f = n \/ f \in 1..(n - 1)
    BY <1>2
  <2>4. f \in 1..(n + 1)
    BY <1>2
  <2> QED
    BY <2>1, <2>2, <2>3, <2>4, <1>2, <1>3
<1>6. \A a, j : Pending(a, j) => Pending(a, j)'
  BY <1>1, <1>5 DEF Pending
<1>7. visited \subseteq Blocks
  BY DEF Shape, WalkPart
<1> QED
  BY <1>1, <1>6, <1>7, FilledSame DEF BeforeSweep

LEMMA FilledLeave == Shape /\ FilledInv /\ LeaveBlock => FilledInv'
<1> SUFFICES ASSUME Shape, FilledInv, LeaveBlock PROVE FilledInv'
  OBVIOUS
<1> PICK b : b = Top.block
  OBVIOUS
<1>0. Leaving(b)
  BY LeaveFacts
<1>1. /\ Renaming /\ walk' = Front(walk) /\ b \in Blocks
      /\ UNCHANGED <<fn, phis, visited, held>> /\ stage = "rename"
      /\ SuccessorIndex > Len(fn.succ[b])
  BY <1>0 DEF Leaving, Renaming
<1> PICK n : n = Len(walk)
  OBVIOUS
<1>2. /\ n \in Nat \ {0} /\ DOMAIN walk = 1..n /\ Top = walk[n] /\ Top \in Frames /\ walk \in Seq(Frames) /\ walk # <<>>
      /\ Top.pc \in Nat /\ Len(code[b]) = Len(fn.code[b]) /\ Len(code[b]) \in Nat /\ fn \in Functions
  BY <1>1, TopFacts
<1>3. Front(walk) \in Seq(Frames) /\ Len(Front(walk)) = n - 1 /\ \A k \in 1..(n - 1) : Front(walk)[k] = walk[k]
  BY <1>2, FrontFacts
<1>4. DOMAIN walk' = 1..(n - 1) /\ \A k \in 1..(n - 1) : walk'[k] = walk[k]
  BY <1>1, <1>3
<1>7. visited \subseteq Blocks
  BY DEF Shape, WalkPart
<1>5. ASSUME NEW a \in visited, NEW j \in DOMAIN fn.succ[a], Pending(a, j) PROVE Pending(a, j)'
  <2>1. PICK f \in DOMAIN walk : walk[f].block = a /\ walk[f].pc <= Len(fn.code[a]) + j
    BY <1>5 DEF Pending
  <2>2. f # n
    <3> SUFFICES ASSUME f = n PROVE FALSE
      OBVIOUS
    <3>1. a = b
      BY <2>1, <1>2
    <3>2. j \in Nat /\ j <= Len(fn.succ[b]) /\ Len(fn.succ[b]) \in Nat
      BY <3>1, <1>2, <1>7, SuccessorNumbers
    <3>3. Top.pc - Len(fn.code[b]) > Len(fn.succ[b])
      BY <1>1, <1>2 DEF SuccessorIndex
    <3>4. Top.pc <= Len(fn.code[b]) + j
      BY <2>1, <3>1, <1>2
    <3>5. Top.pc \in Nat /\ Len(fn.code[b]) \in Nat
      BY <1>2
    <3> QED
      BY ONLY <3>2, <3>3, <3>4, <3>5, SMTT(30)
  <2>3. f \in 1..(n - 1)
    BY <2>2, <1>2
  <2> QED
    BY <2>1, <2>3, <1>1, <1>4 DEF Pending
<1> QED
  BY <1>1, <1>5, <1>7, FilledSame DEF BeforeSweep

LEMMA FilledClean == Shape /\ FilledInv /\ CleanUnreachable => FilledInv'
<1> SUFFICES ASSUME Shape, FilledInv, CleanUnreachable PROVE FilledInv'
  OBVIOUS
<1> PICK bare : bare = {p \in DOMAIN phis : phis[p].block \in Missed}
  OBVIOUS
<1> PICK n : n = Cardinality(bare)
  OBVIOUS
<1> PICK filled : filled = n + Cardinality(Holes)
  OBVIOUS
<1> PICK shared : shared = Allocated(filled + 1)
  OBVIOUS
<1>0. Cleaning(n, bare, filled, shared)
  BY CleanFacts
<1>1. /\ UNCHANGED <<fn, visited, held, walk>> /\ stage = "cleanup"
      /\ phis' = [p \in DOMAIN phis |->
                [phis[p] EXCEPT
                   !.result = IF p \in bare THEN Allocated(Rank(p, bare)) ELSE @,
                   !.values = [k \in DOMAIN @ |-> IF @[k] = NoReg THEN Allocated(Nth(n, <<p, k>>)) ELSE @[k]]]]
  BY <1>0, Zenon DEF Cleaning
<1>2. ASSUME NEW a \in visited, NEW j \in DOMAIN fn.succ[a], NEW p \in DOMAIN phis, phis[p].block = fn.succ[a][j]
      PROVE  Filled(p, a)' \/ Pending(a, j)'
  <2>1. Filled(p, a) \/ Pending(a, j)
    BY <1>1, <1>2, Zenon DEF FilledInv, BeforeSweep
  <2>2. Pending(a, j) => Pending(a, j)'
    BY <1>1, Zenon DEF Pending
  <2> PICK k : k = OperandFor(p, a)
    OBVIOUS
  <2>3. phis[p] \in PhiRecords /\ fn \in Functions /\ a \in Blocks
    BY PhiTyped DEF Shape, FnPart, WalkPart
  <2>4. Edge(fn.succ, a, phis[p].block)
    BY <2>3, <1>2, SuccessorNumbers
  <2>5. k \in DOMAIN phis[p].values
    BY <2>3, <2>4, OperandFacts
  <2>6. /\ phis'[p].var = phis[p].var /\ phis'[p].blocks = phis[p].blocks
        /\ phis'[p].values = [m \in DOMAIN phis[p].values |->
                                IF phis[p].values[m] = NoReg THEN Allocated(Nth(n, <<p, m>>)) ELSE phis[p].values[m]]
    BY <2>3, <1>1, Zenon DEF PhiRecords
  <2>7. phis[p].values[k] # NoReg => phis'[p].values[k] = phis[p].values[k]
    BY <2>5, <2>6
  <2>8. fn' = fn /\ held' = held
    BY <1>1, Zenon
  <2> QED
    BY <2>1, <2>2, <2>6, <2>7, <2>8, FilledKeeps, Zenon
<1>3. ASSUME NEW p \in DOMAIN phis PROVE phis'[p].block = phis[p].block
  <2>1. phis[p] \in PhiRecords
    BY PhiTyped
  <2> QED
    BY <2>1, <1>1, Zenon DEF PhiRecords
<1>4. DOMAIN phis' = DOMAIN phis
  BY <1>1, Zenon
<1>5. fn' = fn /\ visited' = visited
  BY <1>1, Zenon
<1>6. ASSUME NEW a \in visited', NEW j \in DOMAIN fn'.succ[a], NEW p \in DOMAIN phis', phis'[p].block = fn'.succ[a][j]
      PROVE  Filled(p, a)' \/ Pending(a, j)'
  <2>1. a \in visited /\ j \in DOMAIN fn.succ[a] /\ p \in DOMAIN phis
    BY <1>4, <1>5
  <2>2. phis[p].block = fn.succ[a][j]
    BY <2>1, <1>3, <1>5, <1>6
  <2> QED
    BY <2>1, <2>2, <1>2
<1> QED
  BY <1>6 DEF FilledInv

LEMMA FilledStep ==
  Shape /\ Shape' /\ WalkInv /\ StackInv /\ TopsInv /\ FilledInv /\ [Next]_vars => FilledInv'
<1> SUFFICES ASSUME Shape, Shape', WalkInv, StackInv, TopsInv, FilledInv, [Next]_vars PROVE FilledInv'
  OBVIOUS
<1>1. CASE IdentifyVariables \/ StartVariable \/ SpreadPhis \/ SweepPhis \/ Execute \/ TakeEdge
  BY <1>1, Zenon DEF IdentifyVariables, StartVariable, SpreadPhis, SweepPhis, Execute, TakeEdge, Running, FilledInv,
                     BeforeSweep
<1>2. CASE InsertUndefs
  <2>1. visited' = visited /\ stage = "phis"
    BY <1>2 DEF InsertUndefs
  <2>2. visited' = {}
    BY <2>1 DEF Shape, EarlyPart
  <2> QED
    BY <2>2 DEF FilledInv
<1>3. CASE MarkPhi \/ Stopped \/ UNCHANGED vars
  <2>1. UNCHANGED <<fn, visited, held, phis, walk, stage>>
    BY <1>3 DEF MarkPhi, Stopped, vars, phiVars, renameVars
  <2>2. \A a, j : Pending(a, j) => Pending(a, j)'
    BY <2>1 DEF Pending
  <2>3. visited \subseteq Blocks
    BY DEF Shape, WalkPart
  <2>4. CASE BeforeSweep
    BY <2>1, <2>2, <2>3, <2>4, FilledSame
  <2>5. CASE ~BeforeSweep
    BY <2>1, <2>5 DEF FilledInv, BeforeSweep
  <2> QED
    BY <2>4, <2>5
<1> QED
  BY <1>1, <1>2, <1>3, FilledEnter, FilledRename, FilledFill, FilledVisit, FilledLeave, FilledClean DEF Next

(* The result of a phi is a register or not given out yet.                 *)
BoundInv == \A p \in DOMAIN phis : phis[p].result <= NoReg

LEMMA AllocatedIsBelow ==
  ASSUME fn \in Functions, RegisterPart, NEW k \in Nat \ {0}
  PROVE  Allocated(k) <= NoReg
<1>1. nextReg \in Nat /\ RegisterLimit \in Nat /\ RegisterLimit < NoReg /\ NoReg \in Nat
  BY FnState, FreshBounds
<1>2. (Allocated(k) = nextReg + k - 1 /\ nextReg + k - 1 < RegisterLimit) \/ Allocated(k) = 0
  BY DEF Allocated
<1> QED
  BY <1>1, <1>2

LEMMA BoundSpread == Shape /\ BoundInv /\ SpreadPhis => BoundInv'
<1> SUFFICES ASSUME Shape, BoundInv, SpreadPhis PROVE BoundInv'
  OBVIOUS
<1> PICK fresh : fresh = {b \in tree.frontier[Head(worklist)] : ~HasPhiFor(b, placing)}
  OBVIOUS
<1>1. \A k \in DOMAIN phis' : \/ k \in DOMAIN phis /\ phis'[k] = phis[k]
                              \/ \E b \in fresh : phis'[k] = NewPhi(b, placing)
  <2>1. \A k \in DOMAIN phis : phis'[k] = phis[k]
    BY SpreadFactsOf
  <2>2. \A k \in DOMAIN phis' : \/ k \in DOMAIN phis
                                \/ \E b \in fresh : phis'[k] = NewPhi(b, placing) /\ k = Len(phis) + Rank(b, fresh)
    BY SpreadFactsOf
  <2> QED
    BY <2>1, <2>2
<1>2. fresh \subseteq Blocks /\ placing \in variables /\ fn \in Functions
  BY SpreadFactsOf DEF Shape, FnPart
<1>3. \A b \in fresh : NewPhi(b, placing).result <= NoReg
  BY <1>2, NewPhiFacts DEF NoReg
<1> QED
  BY <1>1, <1>3 DEF BoundInv, NoReg

LEMMA BoundEnter == Shape /\ BoundInv /\ EnterBlock => BoundInv'
<1> SUFFICES ASSUME Shape, BoundInv, EnterBlock PROVE BoundInv'
  OBVIOUS
<1> PICK b : b = Top.block
  OBVIOUS
<1> PICK mine : mine = PhisOf(b)
  OBVIOUS
<1>0. Entering(b, mine) /\ fn \in Functions /\ RegisterPart
  BY EnterFacts DEF Shape, FnPart
<1>1. DOMAIN phis' = DOMAIN phis /\ \A p \in DOMAIN phis :
        phis'[p] = IF p \in mine THEN [phis[p] EXCEPT !.result = Allocated(Rank(p, mine))] ELSE phis[p]
  BY <1>0, Zenon DEF Entering
<1>2. \A p \in mine : Rank(p, mine) \in Nat \ {0}
  BY <1>0, SMTT(30) DEF Entering
<1>3. \A p \in mine : Allocated(Rank(p, mine)) <= NoReg
  BY <1>0, <1>2, AllocatedIsBelow
<1>4. \A p \in DOMAIN phis : phis[p] \in PhiRecords
  BY PhiTyped
<1>5. \A p \in DOMAIN phis : phis'[p].result = IF p \in mine THEN Allocated(Rank(p, mine)) ELSE phis[p].result
  BY <1>1, <1>4 DEF PhiRecords
<1> QED
  BY <1>1, <1>3, <1>5 DEF BoundInv, NoReg

LEMMA BoundClean == Shape /\ BoundInv /\ CleanUnreachable => BoundInv'
<1> SUFFICES ASSUME Shape, BoundInv, CleanUnreachable PROVE BoundInv'
  OBVIOUS
<1> PICK bare : bare = {p \in DOMAIN phis : phis[p].block \in Missed}
  OBVIOUS
<1> PICK n : n = Cardinality(bare)
  OBVIOUS
<1> PICK filled : filled = n + Cardinality(Holes)
  OBVIOUS
<1> PICK shared : shared = Allocated(filled + 1)
  OBVIOUS
<1>0. Cleaning(n, bare, filled, shared) /\ fn \in Functions /\ RegisterPart
  BY CleanFacts DEF Shape, FnPart
<1>1. DOMAIN phis' = DOMAIN phis
  BY <1>0, Zenon DEF Cleaning
<1>2. ASSUME NEW p \in DOMAIN phis
      PROVE  phis'[p].result = IF p \in bare THEN Allocated(Rank(p, bare)) ELSE phis[p].result
  <2>1. phis[p] \in PhiRecords
    BY PhiTyped
  <2>2. phis'[p] = [phis[p] EXCEPT
                 !.result = IF p \in bare THEN Allocated(Rank(p, bare)) ELSE @,
                 !.values = [k \in DOMAIN @ |-> IF @[k] = NoReg THEN Allocated(Nth(n, <<p, k>>)) ELSE @[k]]]
    BY <1>0, Zenon DEF Cleaning
  <2> QED
    BY <2>1, <2>2 DEF PhiRecords
<1>3. \A p \in bare : Rank(p, bare) \in Nat \ {0}
  <2>1. \A p \in bare : Rank(p, bare) \in 1..n
    BY <1>0, Zenon DEF Cleaning
  <2> QED
    BY <2>1
<1>4. \A p \in bare : Allocated(Rank(p, bare)) <= NoReg
  BY <1>0, <1>3, AllocatedIsBelow
<1> QED
  BY <1>1, <1>2, <1>4 DEF BoundInv, NoReg

LEMMA BoundStep == Shape /\ BoundInv /\ [Next]_vars => BoundInv'
<1> SUFFICES ASSUME Shape, BoundInv, [Next]_vars PROVE BoundInv'
  OBVIOUS
<1>1. CASE IdentifyVariables \/ StartVariable \/ InsertUndefs \/ MarkPhi
  <2>1. phis' = phis
    BY <1>1 DEF IdentifyVariables, StartVariable, InsertUndefs, MarkPhi
  <2> QED
    BY <2>1 DEF BoundInv, NoReg
<1>2. CASE RenameInstruction \/ VisitChild \/ LeaveBlock
  <2>1. phis' = phis
    BY <1>2, Zenon DEF RenameInstruction, VisitChild, LeaveBlock
  <2> QED
    BY <2>1 DEF BoundInv, NoReg
<1>3. CASE Execute \/ TakeEdge \/ Stopped \/ UNCHANGED vars
  <2>1. phis' = phis
    BY <1>3, Zenon DEF Execute, TakeEdge, Stopped, vars
  <2> QED
    BY <2>1 DEF BoundInv, NoReg
<1>4. CASE FillSuccessor
  <2> PICK b : b = Top.block
    OBVIOUS
  <2> PICK s : s = fn.succ[b][SuccessorIndex]
    OBVIOUS
  <2> PICK fed : fed = PhisOf(s)
    OBVIOUS
  <2> PICK bare : bare = {p \in fed : regStack[phis[p].var] = <<>>}
    OBVIOUS
  <2>0. Filling(b, s, fed, bare)
    BY <1>4, FillFacts
  <2>1. DOMAIN phis' = DOMAIN phis /\ (\A p \in DOMAIN phis \ fed : phis'[p] = phis[p])
        /\ \A p \in fed : \E vs : phis'[p] = [phis[p] EXCEPT !.values = vs]
    BY <2>0 DEF Filling
  <2>2. \A p \in DOMAIN phis : phis[p] \in PhiRecords
    BY PhiTyped
  <2>3. \A p \in DOMAIN phis : phis'[p].result = phis[p].result
    BY <2>1, <2>2, Zenon DEF PhiRecords
  <2> QED
    BY <2>1, <2>3 DEF BoundInv, NoReg
<1>5. CASE SweepPhis
  <2> PICK n : n = Cardinality(live)
    OBVIOUS
  <2> PICK order : order = InOrder(live)
    OBVIOUS
  <2>1. Sweeping(n, order)
    BY <1>5, SweepFacts
  <2>2. DOMAIN phis' = 1..n /\ \A k \in 1..n : phis'[k] = phis[order[k]] /\ order[k] \in DOMAIN phis
    BY <2>1, SweepKeepsWhat
  <2> QED
    BY <2>2 DEF BoundInv, NoReg
<1> QED
  BY <1>1, <1>2, <1>3, <1>4, <1>5, BoundSpread, BoundEnter, BoundClean DEF Next

----------------------------------------------------------------------------
(* What the run of the two programs rests on: no instruction writes a      *)
(* register that is held in front of it, what is read is defined, what is  *)
(* assigned is held, and an edge carries what its block held at the end    *)
(* to what the next one holds, in a phi or in the same register.           *)
HeldApart == \A b \in visited : \A i \in DOMAIN fn.code[b] : \A v \in variables : ~Writes(<<b, i>>, held[b][i][v])
HeldReads == \A b \in visited : \A i \in DOMAIN fn.code[b] : \A r \in Reads(fn.code[b][i]) \ fn.memory :
               Definers(ReadAs(b, i, r)) # {}
AssignedHeld == \A b \in visited : \A i \in 1..Final(b) : \A v \in variables :
                  AssignedAt(fn, b, i, v) => held[b][i][v] \in 0..(nextReg - 1)
Carried(a, s, v) ==
  LET h == held[s][1][v]
      g == held[a][Final(a)][v]
  IN \/ Definers(h) = {}
     \/ h = g /\ \A p \in DOMAIN phis : phis[p].block = s => phis[p].result # h
     \/ \E p \in DOMAIN phis : phis[p].block = s /\ phis[p].result = h /\ phis[p].values[OperandFor(p, a)] = g
EdgesCarry == \A a, s \in visited : Edge(fn.succ, a, s) /\ s # EntryBlock => \A v \in variables : Carried(a, s, v)
Settled == HeldApart /\ HeldReads /\ AssignedHeld /\ EdgesCarry
SettledInv == stage = "run" => ~limitExceeded /\ (variables # {} /\ DefinitelyAssigned(fn) => Settled)

(* What has a definition before the sweep has one only.                    *)
LEMMA FinishedDefiner ==
  ASSUME Finished, NEW h \in Nat, h < NoReg, h \notin fn.memory, Definers(h) # {}
  PROVE  AtMostOne(Definers(h)) /\ h < nextReg
<1>1. /\ fn \in Functions /\ Shape /\ nextReg \in Nat /\ nextReg < NoReg /\ fn.regs \in Nat /\ fn.regs <= nextReg
      /\ NoReg \in Nat
  <2>1. fn \in Functions /\ Shape
    BY DEF Finished, Shape, FnPart
  <2>2. nextReg \in Nat /\ nextReg < NoReg /\ fn.regs \in Nat /\ NoReg \in Nat /\ nextReg >= fn.regs
    BY <2>1, FreshBounds DEF Shape
  <2> QED
    BY <2>1, <2>2
<1>2. h < nextReg
  <2>1. CASE h < fn.regs
    BY <1>1, <2>1
  <2>2. CASE h >= fn.regs
    <3>1. h \in fn.regs..(NoReg - 1)
      BY <1>1, <2>2
    <3> QED
      BY <3>1 DEF Finished, FreshInv
  <2> QED
    BY <1>1, <2>1, <2>2
<1>3. h \in (0..(nextReg - 1)) \ fn.memory
  BY <1>1, <1>2
<1> QED
  BY <1>2, <1>3, FinishedOnce DEF DefinedOnce

LEMMA FinishedApart ==
  ASSUME Finished, variables # {}, DefinitelyAssigned(fn)
  PROVE  HeldApart
<1> SUFFICES ASSUME NEW b \in visited, NEW i \in DOMAIN fn.code[b], NEW v \in variables,
                    NEW h, h = held[b][i][v], Writes(<<b, i>>, h)
             PROVE  FALSE
  BY DEF HeldApart
<1> PICK was : was = fn.code[b][i]
  OBVIOUS
<1> PICK is : is = code[b][i]
  OBVIOUS
<1>0. fn \in Functions /\ b \in Blocks /\ Rewrote(b, i) /\ Defines(is) /\ is.dest = h
  BY FinishedFacts DEF Writes
<1>1. fn.regs \in Nat /\ fn.regs < NoReg /\ NoReg \in Nat
  BY <1>0, FnState DEF NoReg
<1>2. h \in Nat /\ h < NoReg
  <2>1. CASE Tracked(was) /\ ~Aliases(was)
    <3>1. h \in fn.regs..(NoReg - 1)
      BY <1>0, <2>1 DEF Rewrote, Finished
    <3> QED
      BY <3>1, <1>1
  <2>2. CASE ~(Tracked(was) /\ ~Aliases(was))
    <3>1. is.op = was.op /\ (was.op # "out" => h = was.dest)
      BY <1>0, <2>2, Zenon DEF Rewrote
    <3>2. h = was.dest
      BY <3>1, <1>0 DEF Defines
    <3>3. was.dest \in 0..(fn.regs - 1)
      BY <1>0, InstructionFacts DEF Blocks
    <3> QED
      BY <3>2, <3>3, <1>1
  <2> QED
    BY <2>1, <2>2
<1>3. i \in 1..Final(b)
  <2>1. i \in 1..Len(fn.code[b]) /\ Len(fn.code[b]) \in Nat
    BY <1>0, CodePositions
  <2> QED
    BY <2>1 DEF Final
<1>4. HeldWell(b, i, v)
  BY <1>3, HeldWellEverywhere
<1>5. h \notin fn.memory /\ Provided(h, b, i)
  BY <1>1, <1>2, <1>4 DEF HeldWell
<1>6. PICK e \in Definers(h) : Above(e, b, i)
  BY <1>5 DEF Provided
<1> PICK d : d = <<"ins", b, i>>
  OBVIOUS
<1>7. d \in Definers(h)
  <2>1. <<b, i>> \in Places
    BY <1>0, PlaceOf
  <2> QED
    BY <2>1, DefinerIs
<1>8. e = d
  BY <1>2, <1>5, <1>7, FinishedDefiner DEF AtMostOne
<1>9. i < i
  BY <1>6, <1>8, AboveFacts
<1> QED
  BY <1>3, <1>9

(* A register with a definition has been handed out.                       *)
LEMMA DefinerBound ==
  ASSUME Finished, BoundInv, variables # {}, NEW h \in Nat, h # NoReg, Definers(h) # {}
  PROVE  h \in 0..(nextReg - 1)
<1>0. /\ fn \in Functions /\ Shape /\ nextReg \in Nat /\ nextReg < NoReg /\ fn.regs \in Nat /\ fn.regs <= nextReg
      /\ NoReg \in Nat /\ ~limitExceeded
  <2>1. fn \in Functions /\ Shape /\ ~limitExceeded
    BY DEF Finished, Shape, FnPart
  <2>2. nextReg \in Nat /\ nextReg < NoReg /\ fn.regs \in Nat /\ NoReg \in Nat /\ nextReg >= fn.regs
    BY <2>1, FreshBounds DEF Shape
  <2> QED
    BY <2>1, <2>2
<1>1. h < NoReg \/ h < nextReg
  <2>1. PICK d \in Definers(h) : TRUE
    OBVIOUS
  <2>2. CASE h \in undefs
    <3>1. h \in fn.regs..(nextReg - 1)
      BY <2>2, <1>0 DEF Finished, FreshInv
    <3> QED
      BY <3>1, <1>0
  <2>3. CASE \E p \in DOMAIN phis : phis[p].result = h
    <3>1. h <= NoReg
      BY <2>3 DEF BoundInv
    <3> QED
      BY <3>1, <1>0
  <2>4. CASE \E q \in Places : Writes(q, h)
    <3>1. PICK q \in Places : Writes(q, h)
      BY <2>4
    <3> PICK b : b = q[1]
      OBVIOUS
    <3> PICK i : i = q[2]
      OBVIOUS
    <3> PICK was : was = fn.code[b][i]
      OBVIOUS
    <3> PICK is : is = code[b][i]
      OBVIOUS
    <3>2. Defines(is) /\ is.dest = h /\ b \in Blocks /\ i \in DOMAIN fn.code[b]
      BY <3>1, PlacesArePairs DEF Writes
    <3>3. b \in visited
      BY <3>1, <3>2 DEF Finished, UnseenInv
    <3>4. Rewrote(b, i)
      BY <3>2, <3>3, FinishedFacts
    <3>5. CASE Tracked(was) /\ ~Aliases(was)
      <4>1. h \in fn.regs..(NoReg - 1)
        BY <3>2, <3>4, <3>5, <1>0, Zenon DEF Rewrote
      <4> QED
        BY <4>1, <1>0
    <3>6. CASE ~(Tracked(was) /\ ~Aliases(was))
      <4>1. is.op = was.op /\ (was.op # "out" => is.dest = was.dest)
        BY <3>4, <3>6, Zenon DEF Rewrote
      <4>2. h = was.dest
        BY <4>1, <3>2 DEF Defines
      <4>3. was.dest \in 0..(fn.regs - 1)
        BY <3>2, <1>0, InstructionFacts DEF Blocks
      <4> QED
        BY <4>2, <4>3, <1>0
    <3> QED
      BY <3>5, <3>6
  <2> QED
    BY <2>1, <2>2, <2>3, <2>4, DefinerIs
<1>2. h < nextReg
  <2>1. CASE h < fn.regs
    BY <1>0, <2>1
  <2>2. CASE h >= fn.regs /\ h < NoReg
    <3>1. h \in fn.regs..(NoReg - 1)
      BY <1>0, <2>2
    <3> QED
      BY <3>1, <1>0 DEF Finished, FreshInv
  <2> QED
    BY <1>0, <1>1, <2>1, <2>2
<1> QED
  BY <1>0, <1>2

(* What is assigned in front of an instruction is held there.              *)
LEMMA FinishedHeld ==
  ASSUME Finished, BoundInv, variables # {}, DefinitelyAssigned(fn)
  PROVE  AssignedHeld
<1> SUFFICES ASSUME NEW b \in visited, NEW i \in 1..Final(b), NEW v \in variables, AssignedAt(fn, b, i, v),
                    NEW h, h = held[b][i][v]
             PROVE  h \in 0..(nextReg - 1)
  BY DEF AssignedHeld
<1> PICK S : S = {c \in DOMAIN fn.code \ {b} : DefinesIn(fn, c, v)}
  OBVIOUS
<1>1. HeldWell(b, i, v)
  BY HeldWellEverywhere
<1>2. h # NoReg
  <2> SUFFICES ASSUME h = NoReg PROVE FALSE
    OBVIOUS
  <2>1. b = EntryBlock /\ \A j \in 1..(i - 1) : ~DefinesAt(fn, b, j, v)
    BY <1>1 DEF HeldWell
  <2>2. EntryBlock \in ReachedAvoiding(fn.succ, S)
    <3>1. IsGraph(fn.succ) /\ EntryBlock \notin S
      BY <2>1, FnState, FinishedFacts
    <3> QED
      BY <3>1, ReachedFacts
  <2> QED
    BY <2>1, <2>2 DEF AssignedAt
<1>3. Definers(h) # {}
  BY <1>1, <1>2 DEF HeldWell, Provided
<1>4. h \in Nat
  <2>1. held[b] \in Seq([variables -> Nat]) /\ Len(held[b]) = Final(b)
    BY FinishedFacts DEF Finished, Shape, HeldPart
  <2>2. held[b][i] \in [variables -> Nat]
    BY <2>1
  <2> QED
    BY <2>2
<1> QED
  BY <1>2, <1>3, <1>4, DefinerBound

(* The instruction that reads r reads what stands for r.                   *)
LEMMA ReadAppears ==
  ASSUME Finished, variables # {}, NEW b \in visited, NEW i \in DOMAIN fn.code[b], NEW r \in Reads(fn.code[b][i])
  PROVE  Appears(ReadAs(b, i, r))
<1> PICK was : was = fn.code[b][i]
  OBVIOUS
<1> PICK is : is = code[b][i]
  OBVIOUS
<1>0. fn \in Functions /\ b \in Blocks /\ Rewrote(b, i) /\ <<b, i>> \in Places
  BY FinishedFacts, PlaceOf
<1>1. was.op \in {"const", "out", "nop"} => was.srcs = <<>>
  BY <1>0, InstructionFacts DEF Blocks
<1>2. was.op # "nop"
  BY <1>1 DEF Reads, Elems
<1>3. is.op = was.op \/ is.op = "load"
  BY <1>0, Zenon DEF Rewrote
<1>4. ReadAs(b, i, r) \in Elems(is.srcs) \cup {is.dest}
  <2>1. CASE was.op = "out"
    <3>1. r = was.dest /\ ~Tracked(was)
      BY <2>1 DEF Reads, Tracked, Defines
    <3>2. is.dest = ReadAs(b, i, was.dest)
      BY <3>1, <2>1, <1>0, Zenon DEF Rewrote
    <3> QED
      BY <3>1, <3>2
  <2>2. CASE was.op # "out"
    <3>1. is.srcs = [k \in DOMAIN was.srcs |-> ReadAs(b, i, was.srcs[k])]
      BY <2>2, <1>0, Zenon DEF Rewrote
    <3>2. PICK k \in DOMAIN was.srcs : r = was.srcs[k]
      BY <2>2, Zenon DEF Reads, Elems
    <3> QED
      BY <3>1, <3>2, Zenon DEF Elems
  <2> QED
    BY <2>1, <2>2
<1>5. code[b][i].op # "nop"
  BY <1>2, <1>3
<1> QED
  BY <1>0, <1>4, <1>5 DEF Appears

LEMMA FinishedHeldReads ==
  ASSUME Finished, variables # {}, DefinitelyAssigned(fn), NEW b \in visited, NEW i \in DOMAIN fn.code[b],
         NEW r \in Reads(fn.code[b][i]), r \notin fn.memory
  PROVE  Definers(ReadAs(b, i, r)) # {}
<1>1. i \in 1..Final(b)
  <2>1. i \in 1..Len(fn.code[b]) /\ Len(fn.code[b]) \in Nat
    BY FinishedFacts
  <2> QED
    BY <2>1 DEF Final
<1>2. \A v \in variables : HeldWell(b, i, v)
  BY <1>1, HeldWellEverywhere
<1>3. Provided(ReadAs(b, i, r), b, i)
  BY <1>2, ReadIsProvided
<1> QED
  BY <1>3 DEF Provided

(* A block that does not define a variable holds the same of it throughout.*)
LEMMA HeldThrough ==
  ASSUME Finished, variables # {}, NEW b \in visited, NEW v \in variables,
         \A i \in DOMAIN fn.code[b] : ~DefinesAt(fn, b, i, v)
  PROVE  held[b][Final(b)][v] = held[b][1][v]
<1> PICK l : l = Len(fn.code[b])
  OBVIOUS
<1> PICK hs : hs = held[b]
  OBVIOUS
<1> PICK x : x = hs[1][v]
  OBVIOUS
<1> DEFINE Good == {n \in Nat : n < l + 1 => hs[n + 1][v] = x}
<1>0. l \in Nat /\ DOMAIN fn.code[b] = 1..l /\ Final(b) = l + 1 /\ Len(hs) = l + 1 /\ hs \in Seq([variables -> Nat])
  <2>1. l \in Nat /\ DOMAIN fn.code[b] = 1..l /\ Len(hs) = Final(b) /\ b \in Blocks
    BY FinishedFacts
  <2>2. hs \in Seq([variables -> Nat])
    BY <2>1 DEF Finished, Shape, HeldPart
  <2> QED
    BY <2>1, <2>2 DEF Final
<1>1. 0 \in Good
  OBVIOUS
<1>2. ASSUME NEW n \in Nat, n \in Good PROVE n + 1 \in Good
  <2> PICK m : m = n + 1
    OBVIOUS
  <2> SUFFICES ASSUME m < l + 1 PROVE hs[m + 1][v] = x
    OBVIOUS
  <2>1. m \in DOMAIN fn.code[b] /\ hs[m][v] = x /\ m \in 1..Len(hs)
    BY <1>0, <1>2, SMTT(30)
  <2>2. hs[m] \in [variables -> Nat]
    BY <1>0, <2>1
  <2> PICK was : was = fn.code[b][m]
    OBVIOUS
  <2> PICK is : is = code[b][m]
    OBVIOUS
  <2> PICK k : k = m + 1
    OBVIOUS
  <2>3. hs[k] = hs[m] \/ (Tracked(was) /\ \E y : hs[k] = [hs[m] EXCEPT ![was.dest] = y])
    <3>1. Rewrote(b, m)
      BY <2>1, FinishedFacts
    <3>2. CASE Tracked(was) /\ ~Aliases(was)
      <4>1. hs[k] = [hs[m] EXCEPT ![was.dest] = is.dest]
        BY <3>1, <3>2, Zenon DEF Rewrote
      <4> QED
        BY <3>2, <4>1
    <3>3. CASE ~(Tracked(was) /\ ~Aliases(was))
      <4>1. hs[k] = IF Tracked(was) THEN [hs[m] EXCEPT ![was.dest] = is.srcs[1]] ELSE hs[m]
        BY <3>1, <3>3, Zenon DEF Rewrote
      <4> PICK y : y = is.srcs[1]
        OBVIOUS
      <4>2. CASE Tracked(was)
        <5>1. hs[k] = [hs[m] EXCEPT ![was.dest] = y]
          BY <4>1, <4>2
        <5> QED
          BY <4>2, <5>1
      <4>3. CASE ~Tracked(was)
        BY <4>1, <4>3
      <4> QED
        BY <4>2, <4>3
    <3> QED
      BY <3>2, <3>3
  <2>4. Tracked(was) => was.dest # v
    BY <2>1 DEF Tracked, DefinesAt
  <2>5. hs[k][v] = hs[m][v]
    BY <2>2, <2>3, <2>4
  <2> QED
    BY <2>1, <2>5
<1>3. Nat \subseteq Good
  <2> HIDE DEF Good
  <2> QED
    BY <1>1, <1>2, NatSetInduction
<1>4. l \in Good
  BY <1>0, <1>3
<1>5. hs[l + 1][v] = x
  <2>1. l < l + 1
    BY <1>0
  <2> QED
    BY <1>4, <2>1
<1> QED
  BY <1>0, <1>5

(* A block without a definition or a phi of a variable holds at its end    *)
(* what its parent held.                                                   *)
LEMMA HeldPast ==
  ASSUME Finished, variables # {}, NEW c \in visited, NEW e \in Kids(c), NEW v \in variables,
         e \notin variableInfo[v].defBlocks, \A p \in DOMAIN phis : phis[p].var = v => phis[p].block # e
  PROVE  held[e][Final(e)][v] = held[c][Final(c)][v]
<1>0. fn \in Functions /\ c \in Blocks /\ visited = Reachable(fn.succ)
  BY FinishedFacts
<1>1. e \in visited /\ e \in Blocks
  BY <1>0, KidFacts
<1>2. held[e][1][v] = held[c][Final(c)][v]
  BY <1>0, <1>1 DEF Finished, LinkInv, BeforeSweep, Linked
<1>3. ASSUME NEW i \in DOMAIN fn.code[e], DefinesAt(fn, e, i, v) PROVE FALSE
  <2> PICK q : q = <<e, i>>
    OBVIOUS
  <2>1. q \in Places /\ q[1] = e /\ q[2] = i
    BY <1>0, <1>1, PlaceOf
  <2>2. q \in DefinitionsOf(v)
    BY <2>1, <1>3 DEF DefinitionsOf, DefinesAt
  <2>3. e \in variableInfo[v].defBlocks
    BY <2>1, <2>2, DefBlocksFacts DEF Finished
  <2> QED
    BY <2>3
<1> QED
  BY <1>1, <1>2, <1>3, HeldThrough

(* Below the parent of a block without a phi, on the way to a predecessor  *)
(* of the block, nothing defines the variable: the phi would be there.     *)
LEMMA NothingBetween ==
  ASSUME Shape, PlacedInv, stage = "mark", NEW s \in Blocks, NEW d \in Blocks, s \in Kids(d), s # EntryBlock,
         NEW a \in Reachable(fn.succ), Edge(fn.succ, a, s), Len(Preds(s)) > 1, NEW v \in variables, ~HasPhiFor(s, v),
         NEW e \in Blocks, e \in Reachable(fn.succ), e # d, Dominates(fn.succ, d, e), Dominates(fn.succ, e, a)
  PROVE  e \notin variableInfo[v].defBlocks /\ \A p \in DOMAIN phis : phis[p].var = v => phis[p].block # e
<1> PICK g : g = fn.succ
  OBVIOUS
<1> PICK R : R = Reachable(g)
  OBVIOUS
<1>0. fn \in Functions /\ IsGraph(g) /\ DOMAIN g = Blocks /\ a \in Blocks
  <2>1. fn \in Functions /\ IsGraph(g) /\ DOMAIN g = Blocks
    BY FnState DEF Shape, FnPart, Blocks
  <2> QED
    BY <2>1, ReachableFacts
<1>1. e \in IdomChains[a]
  BY <1>0, ChainFacts
<1>2. e \notin IdomChains[s] \ {s}
  <2> SUFFICES ASSUME e \in IdomChains[s], e # s PROVE FALSE
    OBVIOUS
  <2>1. s \in R
    BY <1>0, KidFacts
  <2>2. Dominates(g, e, s)
    BY <2>1, <1>0, ChainFacts
  <2>3. Dominates(g, e, d) /\ d \in R
    BY <2>2, <1>0, KidFacts
  <2> QED
    BY <2>3, <1>0, DominanceIsAntisymmetric
<1>3. a \in Elems(Preds(s))
  <2>1. a \in ToSet(Preds(s))
    <3>1. a \in EdgesTo(g, s)
      BY <1>0 DEF EdgesTo, Edge
    <3> QED
      BY <3>1, <1>0, FnState
  <2> QED
    BY <2>1 DEF ToSet, Elems
<1>4. s \in FrontierOf(IdomChains, e)
  BY <1>1, <1>2, <1>3 DEF FrontierOf
<1>5. PlacedFor(v)
  BY DEF PlacedInv
<1>6. /\ \A b \in variableInfo[v].defBlocks : Covered(v, b)
      /\ \A p \in DOMAIN phis : phis[p].var = v => Covered(v, phis[p].block)
  BY <1>5 DEF PlacedFor
<1>7. ~Covered(v, e)
  BY <1>4 DEF Covered
<1> QED
  BY <1>6, <1>7

(* So an edge carries what the parent of such a block held.                *)
LEMMA CarriedOver ==
  ASSUME Finished, PlacedInv, variables # {}, NEW a \in visited, NEW s \in visited, Edge(fn.succ, a, s), s # EntryBlock,
         NEW d \in Blocks, s \in Kids(d), NEW v \in variables, ~HasPhiFor(s, v)
  PROVE  held[a][Final(a)][v] = held[d][Final(d)][v]
<1> PICK g : g = fn.succ
  OBVIOUS
<1> PICK R : R = Reachable(g)
  OBVIOUS
<1>0. /\ fn \in Functions /\ IsGraph(g) /\ DOMAIN g = Blocks /\ visited = R /\ R \subseteq Blocks /\ Shape /\ stage = "mark"
      /\ s \in Blocks /\ a \in Blocks
  <2>1. fn \in Functions /\ visited = R /\ visited \subseteq Blocks /\ Shape /\ stage = "mark"
    BY FinishedFacts DEF Finished
  <2> QED
    BY <2>1, FnState DEF Blocks
<1>1. d # s /\ d \in R /\ Dominates(g, d, s) /\ \A c \in Blocks : c # s /\ Dominates(g, c, s) => Dominates(g, c, d)
  BY <1>0, KidFacts
<1>2. Dominates(g, d, a)
  BY <1>0, <1>1, DominatesPredecessors
<1>3. CASE Len(Preds(s)) > 1
  <2> PICK H : H = held[d][Final(d)][v]
    OBVIOUS
  <2> PICK S : S = {e \in Blocks : Dominates(g, d, e) /\ Dominates(g, e, a) => held[e][Final(e)][v] = H}
    OBVIOUS
  <2>1. EntryBlock \in S
    <3>1. EntryBlock \in Blocks
      BY <1>0, FnState
    <3>2. Dominates(g, d, EntryBlock) => d = EntryBlock
      BY <1>0, EntryIsUndominated
    <3> QED
      BY <3>1, <3>2
  <2>2. ASSUME NEW c \in S \cap Reachable(fn.succ), NEW e \in Kids(c) PROVE e \in S
    <3>1. c \in visited /\ c \in Blocks
      BY <1>0
    <3>2. e \in Blocks /\ e \in R /\ Dominates(g, c, e) /\ \A x \in Blocks : x # e /\ Dominates(g, x, e) => Dominates(g, x, c)
      BY <3>1, <1>0, KidFacts
    <3>3. ASSUME Dominates(g, d, e), Dominates(g, e, a), e # d PROVE held[e][Final(e)][v] = H
      <4>1. Dominates(g, d, c) /\ Dominates(g, c, a)
        BY <3>2, <3>3, <1>0, DominanceIsTransitive
      <4>2. held[c][Final(c)][v] = H
        BY <4>1, <2>2
      <4>3. e \notin variableInfo[v].defBlocks /\ \A p \in DOMAIN phis : phis[p].var = v => phis[p].block # e
        BY <3>2, <3>3, <1>0, <1>3, NothingBetween
      <4> QED
        BY <4>2, <4>3, <3>1, HeldPast
    <3> QED
      BY <3>2, <3>3
  <2>3. R \subseteq S
    BY <1>0, <2>1, <2>2, TreeInduction
  <2>4. Dominates(g, a, a)
    BY DEF Dominates
  <2>5. a \in S
    BY <2>3, <1>0
  <2> QED
    BY <2>4, <2>5, <1>2
<1>4. CASE ~(Len(Preds(s)) > 1)
  <2> PICK ps : ps = Preds(s)
    OBVIOUS
  <2>1. ps \in Seq(Blocks) /\ ToSet(ps) = EdgesTo(g, s)
    BY <1>0, FnState
  <2>2. \A q \in Blocks : Edge(g, q, s) => q \in {ps[k] : k \in 1..Len(ps)}
    BY <2>1, <1>0 DEF EdgesTo, Edge, ToSet
  <2>3. \A j, k \in 1..Len(ps) : j = k
    BY <2>1, <1>4
  <2>4. \A q \in DOMAIN g : Edge(g, q, s) => q = a
    BY <2>2, <2>3, <1>0
  <2>5. a # s /\ Dominates(g, a, s)
    BY <2>4, <1>0, OnlyPredecessorDominates
  <2>6. Dominates(g, a, d)
    BY <2>5, <1>0, <1>1
  <2>7. a = d
    BY <2>6, <1>0, <1>1, <1>2, DominanceIsAntisymmetric
  <2> QED
    BY <2>7
<1> QED
  BY <1>3, <1>4

LEMMA FinishedCarries ==
  ASSUME Finished, PlacedInv, FilledInv, BoundInv, variables # {}, DefinitelyAssigned(fn)
  PROVE  EdgesCarry
<1> SUFFICES ASSUME NEW a \in visited, NEW s \in visited, Edge(fn.succ, a, s), s # EntryBlock, NEW v \in variables
             PROVE  Carried(a, s, v)
  BY DEF EdgesCarry
<1> PICK h : h = held[s][1][v]
  OBVIOUS
<1> PICK g : g = held[a][Final(a)][v]
  OBVIOUS
<1>0. fn \in Functions /\ Shape /\ stage = "mark" /\ visited = Reachable(fn.succ) /\ visited \subseteq Blocks
      /\ s \in Blocks /\ a \in Blocks /\ BeforeSweep /\ LinkInv
  BY FinishedFacts DEF Finished, BeforeSweep
<1>1. Linked(s, v)
  BY <1>0 DEF LinkInv
<1>2. ASSUME NEW b \in visited PROVE HeldWell(b, Final(b), v)
  <2>1. Final(b) \in 1..Final(b)
    <3>1. Len(fn.code[b]) \in Nat
      BY FinishedFacts
    <3> QED
      BY <3>1 DEF Final
  <2> QED
    BY <2>1, HeldWellEverywhere
<1>3. CASE \E p \in DOMAIN phis : phis[p].block = s /\ phis[p].var = v
  <2>1. PICK p \in DOMAIN phis : phis[p].block = s /\ phis[p].var = v
    BY <1>3
  <2>2. phis[p].result = h
    BY <2>1, <1>1 DEF Linked
  <2>3. PICK j \in DOMAIN fn.succ[a] : fn.succ[a][j] = s
    BY DEF Edge
  <2>4. ~Pending(a, j)
    <3>1. walk = <<>>
      BY <1>0 DEF Shape, WalkPart
    <3> QED
      BY <3>1 DEF Pending
  <2>5. Filled(p, a)
    BY <2>1, <2>3, <2>4, <1>0 DEF FilledInv
  <2>6. g # NoReg
    BY <1>2, HeldAtTheEnd
  <2>7. phis[p].values[OperandFor(p, a)] = g
    BY <2>1, <2>5, <2>6 DEF Filled
  <2> QED
    BY <2>1, <2>2, <2>7 DEF Carried
<1>4. CASE \A p \in DOMAIN phis : ~(phis[p].block = s /\ phis[p].var = v)
  <2>1. PICK d \in Blocks : s \in Kids(d)
    BY <1>0, ParentExists
  <2>2. ~HasPhiFor(s, v)
    BY <1>4 DEF HasPhiFor, Elems
  <2>3. h = held[d][Final(d)][v]
    BY <2>1, <1>1, <1>4 DEF Linked
  <2>4. h = g
    BY <2>1, <2>2, <2>3, CarriedOver
  <2>5. d \in visited /\ ~Dominates(fn.succ, s, d)
    BY <2>1, <1>0, KidFacts
  <2>6. h # NoReg /\ Provided(h, d, Final(d)) /\ h \notin fn.memory
    BY <2>3, <2>5, <1>2, HeldAtTheEnd
  <2>7. ASSUME NEW q \in DOMAIN phis, phis[q].block = s, phis[q].result = h PROVE FALSE
    <3> PICK t : t = <<"phi", q, 0>>
      OBVIOUS
    <3>1. t \in Definers(h)
      BY <2>7, DefinerIs
    <3>2. h \in Nat /\ h < NoReg
      <4>1. phis[q].result \in Nat
        BY <1>0, PhiTyped
      <4>2. h <= NoReg
        BY <2>7 DEF BoundInv
      <4> QED
        BY <4>1, <4>2, <2>6, <2>7 DEF NoReg
    <3>3. PICK e \in Definers(h) : Above(e, d, Final(d))
      BY <2>6 DEF Provided
    <3>4. e = t
      BY <3>1, <3>2, <2>6, FinishedDefiner DEF AtMostOne
    <3>5. Dominates(fn.succ, s, d)
      BY <3>3, <3>4, <2>7, AboveFacts
    <3> QED
      BY <3>5, <2>5
  <2> QED
    BY <2>4, <2>7 DEF Carried
<1> QED
  BY <1>3, <1>4

(* A step that takes no definition of anything read and no link along an   *)
(* edge.                                                                   *)
LEMMA SettledKeeps ==
  ASSUME Settled, UNCHANGED <<fn, variableInfo, visited, held, code, nextReg>>,
         \A b \in visited : \A i \in DOMAIN fn.code[b] : \A r \in Reads(fn.code[b][i]) \ fn.memory :
           \A x : x = ReadAs(b, i, r) => Definers(x)' # {},
         \A a, s \in visited : \A v \in variables : Edge(fn.succ, a, s) /\ Carried(a, s, v) => Carried(a, s, v)'
  PROVE  Settled'
<1>0. HeldApart /\ HeldReads /\ AssignedHeld /\ EdgesCarry
  BY DEF Settled
<1>1. variables' = variables /\ (\A b : Final(b)' = Final(b)) /\ Places' = Places
  BY FixedFn DEF variables, Final
<1>2. \A q, r : Writes(q, r)' <=> Writes(q, r)
  BY <1>1 DEF Writes, Defines
<1>3. HeldApart'
  <2> SUFFICES ASSUME NEW b \in visited, NEW i \in DOMAIN fn.code[b], NEW v \in variables, NEW h, h = held[b][i][v]
               PROVE  ~Writes(<<b, i>>, h)'
    BY <1>1 DEF HeldApart
  <2> QED
    BY <1>0, <1>2 DEF HeldApart
<1>4. HeldReads'
  <2>1. \A b, i, r : ReadAs(b, i, r)' = ReadAs(b, i, r)
    BY <1>1 DEF ReadAs, NoReg
  <2> SUFFICES ASSUME NEW b \in visited, NEW i \in DOMAIN fn.code[b], NEW r \in Reads(fn.code[b][i]) \ fn.memory,
                      NEW x, x = ReadAs(b, i, r)
               PROVE  Definers(x)' # {}
    BY <2>1 DEF HeldReads, Reads, Elems
  <2> QED
    OBVIOUS
<1>5. AssignedHeld'
  BY <1>0, <1>1 DEF AssignedHeld
<1>6. EdgesCarry'
  BY <1>0, <1>1 DEF EdgesCarry
<1> QED
  BY <1>3, <1>4, <1>5, <1>6 DEF Settled

LEMMA SettledSame ==
  ASSUME Settled, UNCHANGED <<fn, phis, code, undefs, visited, variableInfo, held, nextReg>>
  PROVE  Settled'
<1>1. variables' = variables /\ Places' = Places /\ \A b : Final(b)' = Final(b)
  BY FixedFn DEF variables, Final
<1>2. \A q, r : Writes(q, r)' <=> Writes(q, r)
  BY <1>1 DEF Writes, Defines
<1>3. ASSUME NEW r PROVE Definers(r)' = Definers(r)
  <2>1. \A d : d \in Definers(r)' <=> d \in Definers(r)
    BY <1>1, <1>2, DefinerIs, DefinerIsNext
  <2> QED
    BY <2>1
<1>4. \A b \in visited : \A i \in DOMAIN fn.code[b] : \A r \in Reads(fn.code[b][i]) \ fn.memory :
        \A x : x = ReadAs(b, i, r) => Definers(x)' # {}
  BY <1>3 DEF Settled, HeldReads
<1>5. ASSUME NEW a \in visited, NEW s \in visited, NEW v \in variables, Carried(a, s, v) PROVE Carried(a, s, v)'
  <2> PICK h : h = held[s][1][v]
    OBVIOUS
  <2> PICK g : g = held[a][Final(a)][v]
    OBVIOUS
  <2>1. h = held'[s][1][v] /\ g = held'[a][Final(a)'][v]
    BY <1>1
  <2>2. \A p : OperandFor(p, a)' = OperandFor(p, a)
    BY DEF OperandFor, Least
  <2>3. \/ Definers(h)' = {}
        \/ h = g /\ \A p \in DOMAIN phis : phis[p].block = s => phis[p].result # h
        \/ \E p \in DOMAIN phis : phis[p].block = s /\ phis[p].result = h /\ phis[p].values[OperandFor(p, a)] = g
    BY <1>3, <1>5 DEF Carried
  <2> QED
    BY <2>1, <2>2, <2>3 DEF Carried
<1> QED
  BY <1>4, <1>5, SettledKeeps

(* The sweep takes the phis nothing reads, and with them the definitions   *)
(* of their registers.                                                     *)
LEMMA SettledSweep ==
  ASSUME Finished, PlacedInv, FilledInv, BoundInv, variables # {}, DefinitelyAssigned(fn),
         NEW n, NEW order, Sweeping(n, order)
  PROVE  Settled'
<1>1. HeldApart /\ HeldReads /\ AssignedHeld /\ EdgesCarry
  BY FinishedApart, FinishedHeld, FinishedCarries, FinishedHeldReads DEF HeldReads
<1>2. /\ UNCHANGED <<fn, variableInfo, visited, code, undefs, nextReg>>
      /\ DOMAIN phis' = 1..n /\ \A k \in 1..n : phis'[k] = phis[order[k]] /\ order[k] \in live
      /\ live \subseteq DOMAIN phis /\ \A p \in live : \E k \in 1..n : order[k] = p
      /\ Places' = Places /\ \A q, r : Writes(q, r)' <=> Writes(q, r)
  BY SweepKeepsWhat
<1>3. held' = held /\ \A b : Final(b)' = Final(b)
  BY <1>2 DEF Sweeping, renameVars, Final
<1>4. ASSUME NEW b \in visited, NEW i \in DOMAIN fn.code[b], NEW r \in Reads(fn.code[b][i]) \ fn.memory,
             NEW x, x = ReadAs(b, i, r)
      PROVE  Definers(x)' # {}
  <2>1. PICK d : d \in Definers(x)
    BY <1>1, <1>4 DEF HeldReads
  <2>2. Appears(x)
    BY <1>4, ReadAppears
  <2> QED
    BY <2>1, <2>2, SweepKeepsDefiner
<1>5. ASSUME NEW a \in visited, NEW s \in visited, NEW v \in variables, Edge(fn.succ, a, s), Carried(a, s, v)
      PROVE  Carried(a, s, v)'
  <2> PICK h : h = held[s][1][v]
    OBVIOUS
  <2> PICK g : g = held[a][Final(a)][v]
    OBVIOUS
  <2>1. h = held'[s][1][v] /\ g = held'[a][Final(a)'][v]
    BY <1>3
  <2>2. \A d : d \in Definers(h)' =>
          (d \in Definers(h) /\ d[1] # "phi") \/ \E k \in 1..n : phis[order[k]].result = h /\ d = <<"phi", k, 0>>
    BY <1>2, DefinerIs, DefinerIsNext
  <2>3. CASE Definers(h) = {}
    <3>1. ASSUME NEW k \in 1..n, phis[order[k]].result = h PROVE FALSE
      <4>1. <<"phi", order[k], 0>> \in Definers(h)
        BY <3>1, <1>2, DefinerIs
      <4> QED
        BY <4>1, <2>3
    <3>2. Definers(h)' = {}
      BY <2>2, <2>3, <3>1
    <3> QED
      BY <3>2, <2>1 DEF Carried
  <2>4. CASE h = g /\ \A p \in DOMAIN phis : phis[p].block = s => phis[p].result # h
    <3>1. \A p \in DOMAIN phis' : phis'[p].block = s => phis'[p].result # h
      BY <2>4, <1>2
    <3> QED
      BY <3>1, <2>1, <2>4 DEF Carried
  <2>5. CASE \E p \in DOMAIN phis : phis[p].block = s /\ phis[p].result = h /\ phis[p].values[OperandFor(p, a)] = g
    <3>1. PICK p \in DOMAIN phis : phis[p].block = s /\ phis[p].result = h /\ phis[p].values[OperandFor(p, a)] = g
      BY <2>5
    <3>2. CASE p \in live
      <4>1. PICK k \in 1..n : order[k] = p
        BY <3>2, <1>2
      <4>2. phis'[k] = phis[p]
        BY <4>1, <1>2
      <4>3. OperandFor(k, a)' = OperandFor(p, a)
        BY <4>2 DEF OperandFor, Least
      <4> QED
        BY <3>1, <4>2, <4>3, <1>2, <2>1 DEF Carried
    <3>3. CASE p \notin live
      <4> PICK t : t = <<"phi", p, 0>>
        OBVIOUS
      <4>1. t \in Definers(h)
        BY <3>1, DefinerIs
      <4>2. h \in Nat /\ h < NoReg /\ h \notin fn.memory
        <5> PICK w : w = phis[p].var
          OBVIOUS
        <5>0. Shape /\ LinkInv /\ BeforeSweep /\ FreshInv /\ ~limitExceeded /\ fn \in Functions
          BY FinishedFacts DEF Finished, BeforeSweep
        <5>1. h \in Nat /\ w \in variables
          BY <3>1, <5>0, PhiTyped
        <5>2. h # NoReg
          BY <3>1, <5>0, <5>1 DEF LinkInv, Linked
        <5>3. h <= NoReg /\ h >= fn.regs
          BY <3>1, <5>0 DEF BoundInv, FreshInv
        <5>4. fn.regs \in Nat /\ fn.memory \subseteq 0..(fn.regs - 1)
          BY <5>0, FnState, FnFacts
        <5> QED
          BY <5>1, <5>2, <5>3, <5>4 DEF NoReg
      <4>3. \A d \in Definers(h) : d = t
        BY <4>1, <4>2, FinishedDefiner DEF AtMostOne
      <4>4. ASSUME NEW k \in 1..n, phis[order[k]].result = h PROVE FALSE
        <5>1. <<"phi", order[k], 0>> \in Definers(h)
          BY <4>4, <1>2, DefinerIs
        <5>2. order[k] = p
          BY <5>1, <4>3
        <5> QED
          BY <5>2, <3>3, <1>2
      <4>5. Definers(h)' = {}
        BY <2>2, <4>3, <4>4
      <4> QED
        BY <4>5, <2>1 DEF Carried
    <3> QED
      BY <3>2, <3>3
  <2> QED
    BY <2>3, <2>4, <2>5, <1>5 DEF Carried
<1> QED
  BY <1>1, <1>2, <1>3, <1>4, <1>5, SettledKeeps DEF Settled

----------------------------------------------------------------------------
(* The sweep brings this about, and no step after it takes it away.        *)
LEMMA SettledStep ==
  Shape /\ Shape' /\ WalkInv /\ ReachInv /\ FreshInv /\ CodeInv /\ LinkInv /\ OperandInv /\ UnseenInv
  /\ PlacedInv /\ FilledInv /\ BoundInv /\ SettledInv /\ [Next]_vars => SettledInv'
<1> SUFFICES ASSUME Shape, Shape', WalkInv, ReachInv, FreshInv, CodeInv, LinkInv, OperandInv, UnseenInv,
                    PlacedInv, FilledInv, BoundInv, SettledInv, [Next]_vars, stage' = "run"
             PROVE  ~limitExceeded' /\ (variables' # {} /\ DefinitelyAssigned(fn') => Settled')
  BY DEF SettledInv
<1>1. CASE IdentifyVariables \/ StartVariable \/ SpreadPhis \/ InsertUndefs \/ EnterBlock \/ RenameInstruction
           \/ FillSuccessor \/ VisitChild \/ LeaveBlock \/ CleanUnreachable \/ MarkPhi
  <2>1. CASE IdentifyVariables \/ StartVariable \/ SpreadPhis \/ CleanUnreachable \/ MarkPhi
    BY <2>1 DEF IdentifyVariables, StartVariable, SpreadPhis, CleanUnreachable, MarkPhi
  <2>2. CASE EnterBlock \/ RenameInstruction \/ FillSuccessor \/ VisitChild \/ LeaveBlock
    BY <2>2, Zenon DEF EnterBlock, RenameInstruction, FillSuccessor, VisitChild, LeaveBlock, BlockRenamed, Renaming
  <2>3. CASE InsertUndefs
    BY <2>3 DEF InsertUndefs
  <2> QED
    BY <1>1, <2>1, <2>2, <2>3
<1>2. CASE Execute \/ TakeEdge \/ Stopped \/ UNCHANGED vars
  <2>1. UNCHANGED <<fn, stage, phis, code, undefs, visited, variableInfo, held, nextReg>> /\ limitExceeded' = limitExceeded
    BY <1>2, Zenon DEF Execute, TakeEdge, Stopped, vars, phiVars, renameVars
  <2>2. variables' = variables
    BY <2>1 DEF variables
  <2> QED
    BY <2>1, <2>2, SettledSame DEF SettledInv
<1>3. CASE SweepPhis
  <2> PICK n : n = Cardinality(live)
    OBVIOUS
  <2> PICK order : order = InOrder(live)
    OBVIOUS
  <2>1. Sweeping(n, order)
    BY <1>3, SweepFacts
  <2>2. stage = "mark" /\ ~limitExceeded /\ fn' = fn /\ limitExceeded' = limitExceeded /\ variables' = variables
    BY <2>1, SweepKeepsWhat DEF Sweeping
  <2>3. Finished
    BY <2>2 DEF Finished
  <2>4. ASSUME variables # {}, DefinitelyAssigned(fn) PROVE Settled'
    BY <2>1, <2>3, <2>4, SettledSweep
  <2> QED
    BY <2>2, <2>4
<1> QED
  BY <1>1, <1>2, <1>3 DEF Next

LEMMA ReachedBlocks ==
  ASSUME fn \in Functions
  PROVE  Reachable(fn.succ) \subseteq Blocks
<1> PICK g : g = fn.succ
  OBVIOUS
<1> PICK R : R = Reachable(g)
  OBVIOUS
<1>1. IsGraph(g)
  BY FnState
<1>2. R \subseteq DOMAIN g
  BY <1>1, ReachedFacts DEF Reachable
<1> QED
  BY <1>2 DEF Blocks

(* The converted function while it runs.                                   *)
Ended == Shape /\ WalkInv /\ ReachInv /\ FreshInv /\ CodeInv /\ UnseenInv /\ stage = "run"

LEMMA EndedFacts ==
  ASSUME Ended, variables # {}
  PROVE  /\ visited = Reachable(fn.succ) /\ visited \subseteq Blocks
         /\ \A b \in visited : Len(held[b]) = Final(b) /\ \A i \in DOMAIN fn.code[b] : Rewrote(b, i)
<1>0. Shape /\ WalkInv /\ ReachInv /\ CodeInv /\ stage = "run" /\ fn \in Functions
  BY DEF Ended, Shape, FnPart
<1>1. visited = Reachable(fn.succ)
  BY <1>0, AllAreVisited
<1>2. visited \subseteq Blocks /\ walk = <<>>
  BY <1>0 DEF Shape, WalkPart
<1>3. ASSUME NEW b \in visited PROVE Len(held[b]) = Final(b)
  <2>1. Len(held[b]) = HeldLength(b)
    BY <1>2, <1>0 DEF WalkInv, HeldInv
  <2>2. HeldLength(b) = Final(b)
    BY <1>2 DEF HeldLength, Final
  <2> QED
    BY <2>1, <2>2
<1>4. ASSUME NEW b \in visited, NEW i \in DOMAIN fn.code[b] PROVE Rewrote(b, i)
  <2>1. b \in Blocks /\ i \in Nat /\ i <= Len(fn.code[b]) /\ Len(fn.code[b]) \in Nat
    BY <1>0, <1>2, CodePositions
  <2>2. i < Final(b)
    BY <2>1 DEF Final
  <2> QED
    BY <2>1, <2>2, <1>0, <1>3 DEF CodeInv
<1> QED
  BY <1>1, <1>2, <1>3, <1>4

(* What an instruction has become, whether the function has variables or   *)
(* not.                                                                    *)
LEMMA ReadsRewritten ==
  ASSUME Ended, NEW b \in Reachable(fn.succ), NEW i \in DOMAIN fn.code[b],
         NEW was, was = fn.code[b][i], NEW is, is = code[b][i]
  PROVE  /\ is.op = was.op \/ (is.op = "load" /\ was.op \in {"const", "copy"})
         /\ was.op # "out" => /\ DOMAIN is.srcs = DOMAIN was.srcs
                              /\ \A k \in DOMAIN was.srcs : is.srcs[k] = ReadAs(b, i, was.srcs[k])
         /\ was.op = "out" => is.dest = ReadAs(b, i, was.dest)
         /\ ~Tracked(was) => is.op = was.op /\ (was.op # "out" => is.dest = was.dest)
<1>1. CASE variables = {}
  <2>1. is = was
    BY <1>1 DEF Ended, UnseenInv
  <2>2. \A r : ReadAs(b, i, r) = r
    BY <1>1 DEF ReadAs
  <2> QED
    BY <2>1, <2>2
<1>2. CASE variables # {}
  <2>1. Rewrote(b, i)
    BY <1>2, EndedFacts
  <2>2. was.op # "out" => is.srcs = [k \in DOMAIN was.srcs |-> ReadAs(b, i, was.srcs[k])]
    BY <2>1, Zenon DEF Rewrote
  <2>3. was.op # "out" => /\ DOMAIN is.srcs = DOMAIN was.srcs
                          /\ \A k \in DOMAIN was.srcs : is.srcs[k] = ReadAs(b, i, was.srcs[k])
    BY <2>2
  <2>4. CASE Tracked(was) /\ ~Aliases(was)
    <3>1. is.op = (IF was.op \in {"const", "copy"} THEN "load" ELSE was.op)
      BY <2>1, <2>4, Zenon DEF Rewrote
    <3>2. was.op # "out"
      BY <2>4 DEF Tracked, Defines
    <3> QED
      BY <2>4, <2>3, <3>1, <3>2
  <2>5. CASE ~(Tracked(was) /\ ~Aliases(was))
    <3>1. is.op = was.op /\ is.dest = (IF was.op = "out" THEN ReadAs(b, i, was.dest) ELSE was.dest)
      BY <2>1, <2>5, Zenon DEF Rewrote
    <3> QED
      BY <2>3, <3>1
  <2> QED
    BY <2>4, <2>5
<1> QED
  BY <1>1, <1>2

LEMMA SourceRewritten ==
  ASSUME Ended, NEW b \in Reachable(fn.succ), NEW i \in DOMAIN fn.code[b], fn.code[b][i].op # "out",
         NEW k \in DOMAIN fn.code[b][i].srcs
  PROVE  code[b][i].srcs[k] = ReadAs(b, i, fn.code[b][i].srcs[k])
<1> PICK was : was = fn.code[b][i]
  OBVIOUS
<1> PICK is : is = code[b][i]
  OBVIOUS
<1>1. was.op # "out" => /\ DOMAIN is.srcs = DOMAIN was.srcs
                        /\ \A j \in DOMAIN was.srcs : is.srcs[j] = ReadAs(b, i, was.srcs[j])
  BY ReadsRewritten
<1> QED
  BY <1>1

(* What agrees while the two programs run: the registers the conversion    *)
(* leaves alone, and of each variable the register held.                   *)
Agrees(b, i, v) == LET h == held[b][i][v] IN Definers(h) # {} => new[h] = old[v]
RunInv ==
  stage = "run" /\ DefinitelyAssigned(fn) =>
    /\ at.block \in Reachable(fn.succ) /\ at.pc \in 1..Final(at.block)
    /\ \A r \in 0..(fn.regs - 1) : r \notin variables /\ old[r] # 0 => new[r] = old[r]
    /\ \A v \in variables : old[v] # 0 /\ AssignedAt(fn, at.block, at.pc, v) => Agrees(at.block, at.pc, v)
Comparing == Ended /\ MeaningInv /\ SettledInv /\ RunInv /\ DefinitelyAssigned(fn)

(* What an instruction reads has the same value in both programs.          *)
LEMMA ReadValue ==
  ASSUME Comparing, NEW b, b = at.block, NEW i, i = at.pc, i \in DOMAIN fn.code[b],
         NEW r \in Reads(fn.code[b][i]), old[r] # 0
  PROVE  new[ReadAs(b, i, r)] = old[r]
<1>0. /\ Shape /\ stage = "run" /\ fn \in Functions /\ Ended
      /\ at.block \in Reachable(fn.succ) /\ at.pc \in 1..Final(at.block)
      /\ \A x \in 0..(fn.regs - 1) : x \notin variables /\ old[x] # 0 => new[x] = old[x]
      /\ \A v \in variables : old[v] # 0 /\ AssignedAt(fn, at.block, at.pc, v) => Agrees(at.block, at.pc, v)
  BY DEF Comparing, Ended, RunInv, Shape, FnPart
<1>1. b \in Blocks
  BY <1>0, ReachedBlocks
<1>2. r \in 0..(fn.regs - 1) /\ r # NoReg
  BY <1>0, <1>1, ReadsAreRegisters
<1>3. CASE r \notin variables
  BY <1>0, <1>2, <1>3 DEF ReadAs
<1>4. CASE r \in variables
  <2>1. b \in visited /\ Settled
    BY <1>0, <1>4, EndedFacts DEF Comparing, SettledInv
  <2>2. AssignedAt(fn, b, i, r)
    BY <1>1, FnState, <1>0 DEF Comparing, DefinitelyAssigned
  <2>3. r \notin fn.memory
    BY <1>0, <1>4 DEF Shape, VariablePart
  <2> PICK h : h = held[b][i][r]
    OBVIOUS
  <2>4. h \in 0..(nextReg - 1)
    BY <1>0, <1>4, <2>1, <2>2 DEF Settled, AssignedHeld
  <2>5. h # NoReg
    BY <2>4, <1>0, FreshBounds DEF Shape
  <2>6. ReadAs(b, i, r) = h
    BY <2>5, <1>4 DEF ReadAs
  <2>7. Definers(h) # {}
    BY <2>1, <2>3, <2>6 DEF Settled, HeldReads
  <2>8. Agrees(b, i, r)
    BY <1>0, <1>4, <2>2
  <2> QED
    BY <2>6, <2>7, <2>8 DEF Agrees
<1> QED
  BY <1>3, <1>4

(* What an instruction makes of its register in the two programs.          *)
Idle(is) == ~Defines(is) \/ (is.op = "copy" /\ is.dest \in variables)
OldValue(was) == IF was.op = "copy" THEN old[was.srcs[1]] ELSE steps + 1
NewValue(is) == IF is.op \in {"copy", "load"} /\ is.srcs # <<>> THEN new[is.srcs[1]] ELSE steps + 1

(* A definition makes the same value of the same reads.                    *)
LEMMA SameValue ==
  ASSUME Comparing, NEW b \in Reachable(fn.succ), b = at.block, NEW i \in DOMAIN fn.code[b], i = at.pc,
         NEW was, was = fn.code[b][i], NEW is, is = code[b][i], Defines(was), OldValue(was) # 0
  PROVE  NewValue(is) = OldValue(was) /\ (was.op = "copy" => is.srcs # <<>>)
<1>0. /\ Ended /\ Shape /\ fn \in Functions /\ b \in Reachable(fn.succ) /\ b \in Blocks /\ b \in DOMAIN fn.succ
  <2>1. Ended /\ Shape /\ fn \in Functions /\ b \in Reachable(fn.succ)
    BY DEF Comparing, Ended, RunInv, Shape, FnPart
  <2>2. b \in Blocks
    BY <2>1, ReachedBlocks
  <2> QED
    BY <2>1, <2>2 DEF Blocks
<1>1. /\ was.op \in Ops /\ was.srcs \in Seq(Nat) /\ (was.op = "copy" => Len(was.srcs) = 1)
      /\ (was.op = "const" => was.srcs = <<>>)
  BY <1>0, InstructionFacts
<1>2. /\ is.op = was.op \/ (is.op = "load" /\ was.op \in {"const", "copy"})
      /\ was.op # "out" => /\ DOMAIN is.srcs = DOMAIN was.srcs
                           /\ \A k \in DOMAIN was.srcs : is.srcs[k] = ReadAs(b, i, was.srcs[k])
  <2>1. is.op = was.op \/ (is.op = "load" /\ was.op \in {"const", "copy"})
    BY <1>0, ReadsRewritten
  <2>2. was.op # "out" => DOMAIN is.srcs = DOMAIN was.srcs
    BY <1>0, ReadsRewritten
  <2>3. ASSUME was.op # "out", NEW k \in DOMAIN was.srcs PROVE is.srcs[k] = ReadAs(b, i, was.srcs[k])
    BY <1>0, <2>3, SourceRewritten
  <2> QED
    BY <2>1, <2>2, <2>3, Zenon
<1>3. was.op \in {"def", "const", "copy", "discard"}
  BY <1>1 DEF Defines, Ops
<1>4. is.srcs \in Seq(Nat)
  <2>1. i \in DOMAIN code[b] /\ code[b] \in Seq(Written)
    BY <1>0, CodePositions DEF Shape, CodePart
  <2>2. is \in Written
    BY <2>1
  <2> QED
    BY <2>2 DEF Written
<1>5. CASE was.op \in {"def", "discard"}
  BY <1>2, <1>5 DEF NewValue, OldValue
<1>6. CASE was.op = "const"
  <2>1. DOMAIN was.srcs = {}
    BY <1>1, <1>6
  <2> PICK s \in Seq(Nat) : s = is.srcs
    BY <1>4
  <2>2. DOMAIN s = {}
    BY <2>1, <1>2, <1>6
  <2>3. s = <<>>
    BY ONLY s \in Seq(Nat), <2>2
  <2> QED
    BY <2>3, <1>2, <1>6 DEF NewValue, OldValue
<1>7. CASE was.op = "copy"
  <2> PICK r : r = was.srcs[1]
    OBVIOUS
  <2>1. 1 \in DOMAIN was.srcs
    BY <1>1, <1>7
  <2>2. is.srcs[1] = ReadAs(b, i, r) /\ 1 \in DOMAIN is.srcs
    BY <2>1, <1>2, <1>7
  <2>3. is.srcs # <<>>
    BY <2>2
  <2>4. r \in Reads(fn.code[b][i])
    BY <2>1, <1>7 DEF Reads, Elems
  <2>5. old[r] # 0
    BY <1>7 DEF OldValue
  <2>6. new[ReadAs(b, i, r)] = old[r]
    BY <2>4, <2>5, ReadValue, SMTT(30)
  <2> QED
    BY <2>2, <2>3, <2>6, <1>2, <1>7, Zenon DEF NewValue, OldValue
<1> QED
  BY <1>3, <1>5, <1>6, <1>7

LEMMA DefinersSame ==
  ASSUME UNCHANGED <<fn, phis, code, undefs, variableInfo>>
  PROVE  \A r : Definers(r)' = Definers(r)
<1>1. variables' = variables /\ Places' = Places
  BY FixedFn DEF variables
<1>2. \A q, r : Writes(q, r)' <=> Writes(q, r)
  BY <1>1 DEF Writes, Defines
<1>3. ASSUME NEW r PROVE Definers(r)' = Definers(r)
  <2>1. \A d : d \in Definers(r)' <=> d \in Definers(r)
    BY <1>1, <1>2, DefinerIs, DefinerIsNext
  <2> QED
    BY <2>1
<1> QED
  BY <1>3

LEMMA ExecuteFacts ==
  ASSUME Shape, Execute, NEW b, b = at.block, NEW i, i = at.pc,
         NEW was, was = fn.code[b][i], NEW is, is = code[b][i]
  PROVE  /\ UNCHANGED <<fn, phis, code, undefs, visited, variableInfo, held, nextReg>>
         /\ i \in DOMAIN fn.code[b] /\ at'.block = b /\ at'.pc = i + 1
         /\ \A r \in 0..(fn.regs - 1) : old'[r] = IF Defines(was) /\ was.dest = r THEN OldValue(was) ELSE old[r]
         /\ \A r \in 0..(nextReg - 1) : new'[r] = IF ~Idle(is) /\ is.dest = r THEN NewValue(is) ELSE new[r]
<1>1. /\ stage = "run" /\ i \in DOMAIN fn.code[b] /\ at' = [at EXCEPT !.pc = @ + 1] /\ steps' = steps + 1
      /\ old' = IF ~Defines(was) THEN old
                ELSE [old EXCEPT ![was.dest] = IF was.op = "copy" THEN old[was.srcs[1]] ELSE steps']
      /\ new' = IF ~Defines(is) \/ (is.op = "copy" /\ is.dest \in variables) THEN new
                ELSE [new EXCEPT ![is.dest] = IF is.op \in {"copy", "load"} /\ is.srcs # <<>> THEN new[is.srcs[1]] ELSE steps']
  BY DEF Execute, Running, OldIns, NewIns
<1>2. UNCHANGED <<fn, phis, code, undefs, visited, variableInfo, held, nextReg>>
  BY DEF Execute, phiVars, renameVars
<1>3. /\ at \in [block : Blocks, pc : Nat \ {0}] /\ old \in [0..(fn.regs - 1) -> Nat]
      /\ new = [r \in 0..(nextReg - 1) |-> new[r]]
  BY <1>1 DEF Shape, RunPart
<1>4. at'.block = b /\ at'.pc = i + 1
  BY <1>1, <1>3
<1>5. old' = IF ~Defines(was) THEN old ELSE [old EXCEPT ![was.dest] = OldValue(was)]
  BY <1>1, Zenon DEF OldValue
<1>6. new' = IF Idle(is) THEN new ELSE [new EXCEPT ![is.dest] = NewValue(is)]
  BY <1>1, Zenon DEF NewValue, Idle
<1>7. ASSUME NEW r \in 0..(fn.regs - 1) PROVE old'[r] = IF Defines(was) /\ was.dest = r THEN OldValue(was) ELSE old[r]
  BY <1>3, <1>5
<1>8. ASSUME NEW r \in 0..(nextReg - 1) PROVE new'[r] = IF ~Idle(is) /\ is.dest = r THEN NewValue(is) ELSE new[r]
  <2>1. r \in DOMAIN new
    BY <1>3
  <2> QED
    BY <2>1, <1>6
<1> QED
  BY <1>1, <1>2, <1>4, <1>7, <1>8, Zenon

(* What the two programs need of an instruction that has been renamed.     *)
LEMMA ExecuteUntouched ==
  ASSUME Comparing, NEW b, b = at.block, NEW i, i = at.pc, i \in DOMAIN fn.code[b],
         NEW was, was = fn.code[b][i], NEW is, is = code[b][i],
         NEW r \in 0..(fn.regs - 1), r \notin variables
  PROVE  /\ Defines(was) /\ was.dest = r => ~Idle(is) /\ is.dest = r
         /\ ~Idle(is) /\ is.dest = r => Defines(was) /\ was.dest = r
<1>0. Ended /\ Shape /\ b \in Reachable(fn.succ) /\ ~limitExceeded /\ fn \in Functions
  BY DEF Comparing, Ended, RunInv, SettledInv, Shape, FnPart
<1>1. /\ is.op = was.op \/ (is.op = "load" /\ was.op \in {"const", "copy"})
      /\ ~Tracked(was) => is.op = was.op /\ (was.op # "out" => is.dest = was.dest)
  BY <1>0, ReadsRewritten
<1>2. CASE ~Tracked(was)
  <2>1. Defines(was) => was.dest \notin variables /\ was.op # "out"
    BY <1>2 DEF Tracked, Defines
  <2>2. Defines(is) <=> Defines(was)
    BY <1>1, <1>2 DEF Defines
  <2> QED
    BY <2>1, <2>2, <1>1, <1>2 DEF Idle
<1>3. CASE Tracked(was)
  <2>1. was.dest # r /\ variables # {}
    BY <1>3 DEF Tracked
  <2>2. Rewrote(b, i)
    BY <1>0, <2>1, EndedFacts
  <2>3. CASE Aliases(was)
    <3>1. is.op = was.op /\ is.dest = (IF was.op = "out" THEN ReadAs(b, i, was.dest) ELSE was.dest)
      BY <2>2, <2>3, Zenon DEF Rewrote
    <3>2. is.op = "copy" /\ is.dest = was.dest
      BY <3>1, <2>3 DEF Aliases
    <3> QED
      BY <3>2, <2>1
  <2>4. CASE ~Aliases(was)
    <3>1. is.dest \in fn.regs..(NoReg - 1)
      BY <1>0, <1>3, <2>2, <2>4, Zenon DEF Rewrote
    <3>2. is.dest # r
      BY <3>1, <1>0, FnState
    <3> QED
      BY <3>2, <2>1
  <2> QED
    BY <2>3, <2>4
<1> QED
  BY <1>2, <1>3

(* What the block holds of a variable behind the instruction: its result,  *)
(* under the new name or the alias, or what it held before.                *)
LEMMA ExecuteHeld ==
  ASSUME Comparing, NEW b, b = at.block, NEW i, i = at.pc, i \in DOMAIN fn.code[b],
         NEW was, was = fn.code[b][i], NEW is, is = code[b][i], NEW v \in variables,
         NEW h, h = held[b][i + 1][v]
  PROVE  /\ Defines(was) /\ was.dest = v =>
              \/ ~Idle(is) /\ h = is.dest
              \/ Idle(is) /\ is.op = "copy" /\ was.op = "copy" /\ h = is.srcs[1]
         /\ ~(Defines(was) /\ was.dest = v) => h = held[b][i][v] /\ (Idle(is) \/ is.dest # h)
<1>0. Ended /\ Shape /\ b \in Reachable(fn.succ) /\ variables # {} /\ fn \in Functions
  BY DEF Comparing, Ended, RunInv, Shape, FnPart
<1>1. b \in visited /\ b \in Blocks /\ Rewrote(b, i) /\ Len(held[b]) = Final(b) /\ Settled
  <2>1. Settled
    BY <1>0 DEF Comparing, SettledInv, Ended
  <2>2. b \in visited /\ Rewrote(b, i) /\ Len(held[b]) = Final(b)
    BY <1>0, EndedFacts
  <2>3. b \in Blocks
    BY <1>0, ReachedBlocks
  <2> QED
    BY <2>1, <2>2, <2>3
<1>2. held[b][i] \in [variables -> Nat]
  <2>1. held[b] \in Seq([variables -> Nat])
    BY <1>0, <1>1 DEF Shape, HeldPart
  <2>2. i \in Nat /\ i > 0 /\ i <= Len(fn.code[b]) /\ Len(fn.code[b]) \in Nat
    BY <1>0, <1>1, CodePositions
  <2>3. i \in 1..Len(held[b])
    BY <2>2, <1>1 DEF Final
  <2> QED
    BY <2>1, <2>3
<1>3. ASSUME Defines(was), was.dest = v
      PROVE  \/ ~Idle(is) /\ h = is.dest
             \/ Idle(is) /\ is.op = "copy" /\ was.op = "copy" /\ h = is.srcs[1]
  <2>1. Tracked(was)
    BY <1>3 DEF Tracked
  <2>2. CASE Aliases(was)
    <3>1. /\ is.op = was.op /\ is.dest = (IF was.op = "out" THEN ReadAs(b, i, was.dest) ELSE was.dest)
          /\ held[b][i + 1] = IF Tracked(was) THEN [held[b][i] EXCEPT ![was.dest] = is.srcs[1]] ELSE held[b][i]
      BY <1>1, <2>2, Zenon DEF Rewrote
    <3>2. is.op = "copy" /\ was.op = "copy" /\ is.dest = v
      BY <3>1, <1>3, <2>2 DEF Aliases
    <3>3. h = is.srcs[1]
      BY <3>1, <2>1, <1>2, <1>3
    <3> QED
      BY <3>2, <3>3 DEF Idle
  <2>3. CASE ~Aliases(was)
    <3>1. /\ is.op = (IF was.op \in {"const", "copy"} THEN "load" ELSE was.op)
          /\ held[b][i + 1] = [held[b][i] EXCEPT ![was.dest] = is.dest]
      BY <1>1, <2>1, <2>3, Zenon DEF Rewrote
    <3>2. h = is.dest
      BY <3>1, <1>2, <1>3
    <3>3. ~Idle(is)
      BY <3>1, <1>3 DEF Idle, Defines
    <3> QED
      BY <3>2, <3>3
  <2> QED
    BY <2>2, <2>3
<1>4. ASSUME ~(Defines(was) /\ was.dest = v) PROVE h = held[b][i][v]
  <2>1. CASE Tracked(was) /\ ~Aliases(was)
    <3>1. held[b][i + 1] = [held[b][i] EXCEPT ![was.dest] = is.dest]
      BY <1>1, <2>1, Zenon DEF Rewrote
    <3> QED
      BY <3>1, <2>1, <1>2, <1>4 DEF Tracked
  <2>2. CASE ~(Tracked(was) /\ ~Aliases(was))
    <3>1. held[b][i + 1] = IF Tracked(was) THEN [held[b][i] EXCEPT ![was.dest] = is.srcs[1]] ELSE held[b][i]
      BY <1>1, <2>2, Zenon DEF Rewrote
    <3> QED
      BY <3>1, <1>2, <1>4 DEF Tracked
  <2> QED
    BY <2>1, <2>2
<1>5. ASSUME h = held[b][i][v] PROVE Idle(is) \/ is.dest # h
  <2>1. ~Writes(<<b, i>>, h)
    BY <1>1, <1>5 DEF Settled, HeldApart
  <2>2. ~(Defines(is) /\ is.dest = h /\ (is.op = "copy" => h \notin variables))
    BY <2>1 DEF Writes
  <2> QED
    BY <2>2 DEF Idle
<1> QED
  BY <1>3, <1>4, <1>5

(* One instruction of each program.                                        *)
LEMMA RunExecute ==
  ASSUME Comparing, Execute
  PROVE  RunInv'
<1> PICK b : b = at.block
  OBVIOUS
<1> PICK i : i = at.pc
  OBVIOUS
<1> PICK was : was = fn.code[b][i]
  OBVIOUS
<1> PICK is : is = code[b][i]
  OBVIOUS
<1>0. /\ Ended /\ Shape /\ fn \in Functions /\ b \in Reachable(fn.succ) /\ b \in Blocks
      /\ \A r \in 0..(fn.regs - 1) : r \notin variables /\ old[r] # 0 => new[r] = old[r]
      /\ \A v \in variables : old[v] # 0 /\ AssignedAt(fn, b, i, v) => Agrees(b, i, v)
  <2>1. Ended /\ Shape /\ fn \in Functions /\ RunInv /\ stage = "run" /\ DefinitelyAssigned(fn)
    BY DEF Comparing, Ended, Shape, FnPart
  <2>2. b \in Reachable(fn.succ)
    BY <2>1 DEF RunInv
  <2>3. b \in Blocks
    BY <2>1, <2>2, ReachedBlocks
  <2> QED
    BY <2>1, <2>2, <2>3 DEF RunInv
<1>1. /\ UNCHANGED <<fn, phis, code, undefs, visited, variableInfo, held, nextReg>>
      /\ i \in DOMAIN fn.code[b] /\ at'.block = b /\ at'.pc = i + 1
      /\ \A r \in 0..(fn.regs - 1) : old'[r] = IF Defines(was) /\ was.dest = r THEN OldValue(was) ELSE old[r]
      /\ \A r \in 0..(nextReg - 1) : new'[r] = IF ~Idle(is) /\ is.dest = r THEN NewValue(is) ELSE new[r]
  BY <1>0, ExecuteFacts
<1>2. variables' = variables /\ Final(b)' = Final(b) /\ \A r : Definers(r)' = Definers(r)
  BY <1>1, DefinersSame DEF variables, Final
<1>3. i \in Nat /\ i + 1 \in 1..Final(b) /\ i > 0
  <2>1. i \in Nat /\ i > 0 /\ i <= Len(fn.code[b]) /\ Len(fn.code[b]) \in Nat
    BY <1>0, <1>1, CodePositions
  <2> QED
    BY <2>1 DEF Final
<1>4. Defines(was) /\ OldValue(was) # 0 => NewValue(is) = OldValue(was) /\ (was.op = "copy" => is.srcs # <<>>)
  BY <1>0, <1>1, SameValue
<1>5. nextReg \in Nat /\ nextReg >= fn.regs /\ fn.regs \in Nat
  BY <1>0, FreshBounds DEF Shape
<1>6. ASSUME NEW r \in 0..(fn.regs - 1), r \notin variables, old'[r] # 0 PROVE new'[r] = old'[r]
  <2>1. r \in 0..(nextReg - 1)
    BY <1>5
  <2>2. /\ Defines(was) /\ was.dest = r => ~Idle(is) /\ is.dest = r
        /\ ~Idle(is) /\ is.dest = r => Defines(was) /\ was.dest = r
    BY <1>1, <1>6, ExecuteUntouched
  <2>3. CASE Defines(was) /\ was.dest = r
    BY <1>1, <1>4, <1>6, <2>1, <2>2, <2>3
  <2>4. CASE ~(Defines(was) /\ was.dest = r)
    BY <1>0, <1>1, <1>6, <2>1, <2>2, <2>4
  <2> QED
    BY <2>3, <2>4
<1>7. ASSUME NEW v \in variables, old'[v] # 0, AssignedAt(fn, b, i + 1, v), NEW h, h = held[b][i + 1][v],
             Definers(h) # {}
      PROVE  new'[h] = old'[v]
  <2>1. b \in visited /\ Settled /\ v \in 0..(fn.regs - 1)
    BY <1>0, <1>7, EndedFacts DEF Comparing, SettledInv, Shape, VariablePart, Ended
  <2>2. h \in 0..(nextReg - 1)
    BY <1>3, <1>7, <2>1 DEF Settled, AssignedHeld
  <2>3. /\ Defines(was) /\ was.dest = v =>
             \/ ~Idle(is) /\ h = is.dest
             \/ Idle(is) /\ is.op = "copy" /\ was.op = "copy" /\ h = is.srcs[1]
        /\ ~(Defines(was) /\ was.dest = v) => h = held[b][i][v] /\ (Idle(is) \/ is.dest # h)
    BY <1>1, <1>7, ExecuteHeld
  <2>4. CASE Defines(was) /\ was.dest = v
    <3>1. old'[v] = OldValue(was) /\ NewValue(is) = OldValue(was) /\ (was.op = "copy" => is.srcs # <<>>)
      BY <1>1, <1>4, <1>7, <2>1, <2>4
    <3>2. CASE ~Idle(is) /\ h = is.dest
      BY <1>1, <2>2, <3>1, <3>2
    <3>3. CASE Idle(is) /\ is.op = "copy" /\ was.op = "copy" /\ h = is.srcs[1]
      <4>1. new'[h] = new[h]
        BY <1>1, <2>2, <3>3
      <4>2. NewValue(is) = new[h]
        BY <3>1, <3>3 DEF NewValue
      <4> QED
        BY <3>1, <4>1, <4>2
    <3> QED
      BY <2>3, <2>4, <3>2, <3>3
  <2>5. CASE ~(Defines(was) /\ was.dest = v)
    <3>1. old'[v] = old[v] /\ new'[h] = new[h] /\ h = held[b][i][v]
      BY <1>1, <2>1, <2>2, <2>3, <2>5
    <3>2. AssignedAt(fn, b, i, v)
      <4>1. CASE \E j \in 1..i : DefinesAt(fn, b, j, v)
        <5>1. PICK j \in 1..i : DefinesAt(fn, b, j, v)
          BY <4>1
        <5>2. j # i
          BY <5>1, <2>5 DEF DefinesAt
        <5>3. j \in 1..(i - 1)
          BY <5>2, <1>3
        <5> QED
          BY <5>1, <5>3 DEF AssignedAt
      <4>2. CASE b \notin ReachedAvoiding(fn.succ, {c \in DOMAIN fn.code \ {b} : DefinesIn(fn, c, v)})
        BY <4>2 DEF AssignedAt
      <4>3. 1..((i + 1) - 1) = 1..i
        BY <1>3
      <4>4. \/ \E j \in 1..((i + 1) - 1) : DefinesAt(fn, b, j, v)
            \/ b \notin ReachedAvoiding(fn.succ, {c \in DOMAIN fn.code \ {b} : DefinesIn(fn, c, v)})
        BY <1>7, Zenon DEF AssignedAt
      <4> QED
        BY <4>1, <4>2, <4>3, <4>4, Zenon
    <3>3. Agrees(b, i, v)
      BY <1>0, <1>7, <3>1, <3>2
    <3> QED
      BY <1>7, <3>1, <3>3 DEF Agrees
  <2> QED
    BY <2>4, <2>5
<1>8. \A v \in variables' : old'[v] # 0 /\ AssignedAt(fn', at'.block, at'.pc, v) => Agrees(at.block, at.pc, v)'
  BY <1>1, <1>2, <1>7 DEF Agrees
<1>9. at'.block \in Reachable(fn'.succ) /\ at'.pc \in 1..Final(at.block)'
  BY <1>0, <1>1, <1>2, <1>3
<1>10. \A r \in 0..(fn'.regs - 1) : r \notin variables' /\ old'[r] # 0 => new'[r] = old'[r]
  BY <1>1, <1>2, <1>6
<1> QED
  BY <1>8, <1>9, <1>10 DEF RunInv

(* What taking the edge from a to s does.                                  *)
Branching(a, s) ==
  /\ s \in Blocks /\ Edge(fn.succ, a, s) /\ stage = "run" /\ at.pc > Len(fn.code[a])
  /\ UNCHANGED <<fn, phis, code, undefs, visited, variableInfo, held, nextReg, old>>
  /\ at'.block = s /\ at'.pc = 1
  /\ \A r \in 0..(nextReg - 1) :
       \/ \E p \in DOMAIN phis : /\ phis[p].block = s /\ phis[p].result = r
                                 /\ new'[r] = new[phis[p].values[OperandFor(p, a)]]
       \/ (\A p \in DOMAIN phis : phis[p].block = s => phis[p].result # r) /\ new'[r] = new[r]

LEMMA EdgeFacts ==
  ASSUME Shape, TakeEdge, NEW a \in Blocks, a = at.block
  PROVE  \E s : Branching(a, s)
<1>0. PICK k \in DOMAIN fn.succ[at.block] :
        LET s == fn.succ[at.block][k] IN
          /\ at' = [block |-> s, pc |-> 1]
          /\ new' = [r \in DOMAIN new |->
                       IF \E p \in DOMAIN phis : phis[p].block = s /\ phis[p].result = r
                         THEN LET p == CHOOSE q \in DOMAIN phis : phis[q].block = s /\ phis[q].result = r
                              IN new[phis[p].values[OperandFor(p, at.block)]]
                         ELSE new[r]]
  BY Zenon DEF TakeEdge
<1> PICK s : s = fn.succ[a][k]
  OBVIOUS
<1>1. /\ at' = [block |-> s, pc |-> 1]
      /\ new' = [r \in DOMAIN new |->
           IF \E p \in DOMAIN phis : phis[p].block = s /\ phis[p].result = r
             THEN LET p == CHOOSE q \in DOMAIN phis : phis[q].block = s /\ phis[q].result = r
                  IN new[phis[p].values[OperandFor(p, a)]]
             ELSE new[r]]
  BY <1>0, Zenon
<1>2. /\ stage = "run" /\ at.pc > Len(fn.code[a])
      /\ UNCHANGED <<fn, phis, code, undefs, visited, variableInfo, held, nextReg, old>>
  BY Zenon DEF TakeEdge, Running, phiVars, renameVars
<1>3. s \in Blocks /\ Edge(fn.succ, a, s)
  <2>1. PICK ss \in Seq(Blocks) : ss = fn.succ[a]
    BY FnState, Zenon DEF Shape, FnPart
  <2>2. k \in DOMAIN ss /\ s = ss[k]
    BY <1>0, <2>1, Zenon
  <2>3. ss[k] \in Blocks
    BY ONLY ss \in Seq(Blocks), <2>2
  <2> QED
    BY <1>0, <2>2, <2>3 DEF Edge
<1>4. DOMAIN new = 0..(nextReg - 1)
  BY <1>2 DEF Shape, RunPart
<1>5. ASSUME NEW r \in 0..(nextReg - 1)
      PROVE  \/ \E p \in DOMAIN phis : /\ phis[p].block = s /\ phis[p].result = r
                                       /\ new'[r] = new[phis[p].values[OperandFor(p, a)]]
             \/ (\A p \in DOMAIN phis : phis[p].block = s => phis[p].result # r) /\ new'[r] = new[r]
  <2>1. CASE \E p \in DOMAIN phis : phis[p].block = s /\ phis[p].result = r
    <3> PICK q : q = CHOOSE x \in DOMAIN phis : phis[x].block = s /\ phis[x].result = r
      OBVIOUS
    <3>1. q \in DOMAIN phis /\ phis[q].block = s /\ phis[q].result = r
      BY <2>1
    <3>2. new'[r] = new[phis[q].values[OperandFor(q, a)]]
      BY <1>1, <1>4, <2>1, Zenon
    <3> QED
      BY <3>1, <3>2, Zenon
  <2>2. CASE ~\E p \in DOMAIN phis : phis[p].block = s /\ phis[p].result = r
    BY <1>1, <1>4, <2>2, Zenon
  <2> QED
    BY <2>1, <2>2
<1>6. at'.block = s /\ at'.pc = 1
  BY <1>1, Zenon
<1>7. Branching(a, s)
  BY <1>2, <1>3, <1>5, <1>6 DEF Branching
<1> QED
  BY <1>7

(* What is assigned at the start of a block was at the end of the one      *)
(* before it, and the block is not the entry.                              *)
LEMMA AssignedBefore ==
  ASSUME fn \in Functions, NEW a \in Reachable(fn.succ), NEW s \in Blocks, Edge(fn.succ, a, s), NEW v,
         AssignedAt(fn, s, 1, v)
  PROVE  s # EntryBlock /\ AssignedAt(fn, a, Final(a), v)
<1> PICK g : g = fn.succ
  OBVIOUS
<1>0. IsGraph(g) /\ Blocks = DOMAIN g /\ DOMAIN fn.code = Blocks /\ a \in Blocks /\ Edge(g, a, s)
  BY FnState, ReachedBlocks DEF Blocks
<1> DEFINE writers(b) == {c \in DOMAIN fn.code \ {b} : DefinesIn(fn, c, v)}
<1> PICK cut : cut = writers(s)
  OBVIOUS
<1> PICK R : R = ReachedAvoiding(g, cut)
  OBVIOUS
<1>1. s \notin R /\ s \notin cut
  <2>1. ~\E j \in 1..(1 - 1) : DefinesAt(fn, s, j, v)
    OBVIOUS
  <2>2. s \notin ReachedAvoiding(fn.succ, writers(s))
    BY <2>1, Zenon DEF AssignedAt
  <2> QED
    BY <2>2
<1>2. /\ EntryBlock \notin cut => EntryBlock \in R
      /\ \A q \in R : \A b \in DOMAIN g \ cut : Edge(g, q, b) => b \in R
  BY <1>0, ReachedFacts
<1>3. s # EntryBlock
  BY <1>1, <1>2
<1>4. CASE DefinesIn(fn, a, v)
  <2>1. PICK j \in DOMAIN fn.code[a] : DefinesAt(fn, a, j, v)
    BY <1>4 DEF DefinesIn
  <2>2. j \in 1..(Final(a) - 1)
    BY <1>0, CodePositions DEF Final
  <2> QED
    BY <1>3, <2>1, <2>2 DEF AssignedAt
<1>5. CASE ~DefinesIn(fn, a, v)
  <2>1. a \notin R
    BY <1>0, <1>1, <1>2
  <2> PICK more : more = writers(a)
    OBVIOUS
  <2>2. cut \subseteq more
    BY <1>5
  <2>3. ReachedAvoiding(g, more) \subseteq R
    BY <1>0, <2>2, AvoidingMoreReachesLess
  <2>4. a \notin ReachedAvoiding(fn.succ, writers(a))
    BY <2>1, <2>3
  <2>5. AssignedAt(fn, a, Final(a), v)
    BY <2>4, Zenon DEF AssignedAt
  <2> QED
    BY <1>3, <2>5
<1> QED
  BY <1>4, <1>5

(* One edge, with the phis of its target.                                  *)
LEMMA RunEdge ==
  ASSUME Comparing, TakeEdge
  PROVE  RunInv'
<1> PICK a : a = at.block
  OBVIOUS
<1>0. /\ Ended /\ Shape /\ fn \in Functions /\ a \in Reachable(fn.succ) /\ a \in Blocks /\ ~limitExceeded
      /\ FreshInv /\ DefinedOnce /\ OperandsProvided /\ at.pc \in 1..Final(a)
      /\ \A r \in 0..(fn.regs - 1) : r \notin variables /\ old[r] # 0 => new[r] = old[r]
      /\ \A v \in variables : old[v] # 0 /\ AssignedAt(fn, a, at.pc, v) => Agrees(a, at.pc, v)
  <2>1. Ended /\ Shape /\ fn \in Functions /\ RunInv /\ stage = "run" /\ DefinitelyAssigned(fn) /\ ~limitExceeded /\ FreshInv
    BY DEF Comparing, Ended, Shape, FnPart, SettledInv
  <2>2. a \in Reachable(fn.succ)
    BY <2>1 DEF RunInv
  <2>3. a \in Blocks
    BY <2>1, <2>2, ReachedBlocks
  <2>4. DefinedOnce /\ OperandsProvided
    BY <2>1 DEF Comparing, MeaningInv
  <2> QED
    BY <2>1, <2>2, <2>3, <2>4 DEF RunInv
<1>1. PICK s : Branching(a, s)
  BY <1>0, EdgeFacts
<1>2. /\ s \in Blocks /\ Edge(fn.succ, a, s) /\ at.pc > Len(fn.code[a])
      /\ UNCHANGED <<fn, phis, code, undefs, visited, variableInfo, held, nextReg, old>>
      /\ at'.block = s /\ at'.pc = 1
      /\ \A r \in 0..(nextReg - 1) :
           \/ \E p \in DOMAIN phis : /\ phis[p].block = s /\ phis[p].result = r
                                     /\ new'[r] = new[phis[p].values[OperandFor(p, a)]]
           \/ (\A p \in DOMAIN phis : phis[p].block = s => phis[p].result # r) /\ new'[r] = new[r]
  BY <1>1, Zenon DEF Branching
<1>3. variables' = variables /\ Final(s)' = Final(s) /\ \A r : Definers(r)' = Definers(r)
  BY <1>2, DefinersSame DEF variables, Final
<1>4. at.pc = Final(a) /\ 1 \in 1..Final(s)
  <2>1. Len(fn.code[a]) \in Nat /\ Len(fn.code[s]) \in Nat
    BY <1>0, <1>2, FnState, SMTT(30)
  <2> QED
    BY <2>1, <1>0, <1>2 DEF Final
<1>5. s \in Reachable(fn.succ)
  <2> PICK g : g = fn.succ
    OBVIOUS
  <2> PICK R : R = Reachable(g)
    OBVIOUS
  <2>1. IsGraph(g) /\ s \in DOMAIN g /\ Edge(g, a, s) /\ a \in R
    BY <1>0, <1>2, FnState DEF Blocks
  <2>2. s \in R
    BY <2>1, ReachedFacts DEF Reachable
  <2> QED
    BY <2>2
<1>6. nextReg \in Nat /\ nextReg >= fn.regs /\ fn.regs \in Nat /\ \A p \in DOMAIN phis : phis[p].result >= fn.regs
  BY <1>0, FreshBounds DEF Shape, FreshInv
<1>7. ASSUME NEW r \in 0..(fn.regs - 1), r \notin variables, old[r] # 0 PROVE new'[r] = old[r]
  <2>1. r \in 0..(nextReg - 1)
    BY <1>6
  <2>2. \A p \in DOMAIN phis : phis[p].result # r
    BY <1>6
  <2>3. new'[r] = new[r]
    BY <1>2, <2>1, <2>2
  <2> QED
    BY <1>0, <1>7, <2>3
<1>8. ASSUME NEW v \in variables, old[v] # 0, AssignedAt(fn, s, 1, v), NEW h, h = held[s][1][v], Definers(h) # {}
      PROVE  new'[h] = old[v]
  <2> PICK g : g = held[a][Final(a)][v]
    OBVIOUS
  <2>1. a \in visited /\ s \in visited /\ Settled
    BY <1>0, <1>5, <1>8, EndedFacts DEF Comparing, SettledInv, Ended
  <2>2. s # EntryBlock /\ AssignedAt(fn, a, Final(a), v)
    BY <1>0, <1>2, <1>8, AssignedBefore
  <2>3. h \in 0..(nextReg - 1)
    BY <1>4, <1>8, <2>1 DEF Settled, AssignedHeld
  <2>4. Definers(g) # {} => new[g] = old[v]
    BY <1>0, <1>4, <1>8, <2>2 DEF Agrees
  <2>5. Carried(a, s, v)
    BY <1>2, <2>1, <2>2 DEF Settled, EdgesCarry
  <2>6. \/ h = g /\ \A p \in DOMAIN phis : phis[p].block = s => phis[p].result # h
        \/ \E p \in DOMAIN phis : phis[p].block = s /\ phis[p].result = h /\ phis[p].values[OperandFor(p, a)] = g
    BY <2>5, <1>8 DEF Carried
  <2>7. CASE h = g /\ \A p \in DOMAIN phis : phis[p].block = s => phis[p].result # h
    <3>1. new'[h] = new[h]
      BY <1>2, <2>3, <2>7
    <3> QED
      BY <3>1, <2>4, <2>7, <1>8
  <2>8. CASE \E p \in DOMAIN phis : phis[p].block = s /\ phis[p].result = h /\ phis[p].values[OperandFor(p, a)] = g
    <3>1. PICK p \in DOMAIN phis : phis[p].block = s /\ phis[p].result = h /\ phis[p].values[OperandFor(p, a)] = g
      BY <2>8
    <3>2. PICK q \in DOMAIN phis : phis[q].block = s /\ phis[q].result = h /\ new'[h] = new[phis[q].values[OperandFor(q, a)]]
      BY <1>2, <2>3, <3>1
    <3>3. p = q
      <4>1. h \notin fn.memory
        <5>1. h >= fn.regs /\ fn.memory \subseteq 0..(fn.regs - 1)
          BY <3>1, <1>6, <1>0, FnFacts
        <5> QED
          BY <5>1, <1>6
      <4>2. <<"phi", p, 0>> \in Definers(h) /\ <<"phi", q, 0>> \in Definers(h)
        BY <3>1, <3>2, DefinerIs
      <4>3. <<"phi", p, 0>> = <<"phi", q, 0>>
        BY <4>1, <4>2, <1>0, <2>3 DEF DefinedOnce, AtMostOne
      <4> QED
        BY <4>3
    <3>4. OperandFor(p, a) \in DOMAIN phis[p].values
      BY <1>0, <1>2, <3>1, OperandFacts
    <3>5. Definers(g) # {}
      BY <1>0, <3>1, <3>4 DEF OperandsProvided
    <3> QED
      BY <3>1, <3>2, <3>3, <3>5, <2>4
  <2> QED
    BY <2>6, <2>7, <2>8
<1>9. \A v \in variables' : old'[v] # 0 /\ AssignedAt(fn', at'.block, at'.pc, v) => Agrees(at.block, at.pc, v)'
  BY <1>2, <1>3, <1>8 DEF Agrees
<1>10. at'.block \in Reachable(fn'.succ) /\ at'.pc \in 1..Final(at.block)'
  BY <1>2, <1>3, <1>4, <1>5
<1>11. \A r \in 0..(fn'.regs - 1) : r \notin variables' /\ old'[r] # 0 => new'[r] = old'[r]
  BY <1>2, <1>3, <1>7
<1> QED
  BY <1>9, <1>10, <1>11 DEF RunInv

(* The programs start with nothing defined, and keep step.                 *)
LEMMA RunSweep == Shape /\ SweepPhis => RunInv'
<1> SUFFICES ASSUME Shape, SweepPhis PROVE RunInv'
  OBVIOUS
<1>1. /\ fn' = fn /\ at' = [block |-> EntryBlock, pc |-> 1] /\ old' = [r \in 0..(fn.regs - 1) |-> 0]
      /\ variableInfo' = variableInfo
  BY DEF SweepPhis, phiVars
<1>2. fn \in Functions /\ variables' = variables /\ variables \subseteq 0..(fn.regs - 1)
  BY <1>1 DEF Shape, FnPart, VariablePart, variables
<1>3. EntryBlock \in Reachable(fn.succ)
  <2> PICK g : g = fn.succ
    OBVIOUS
  <2>1. IsGraph(g)
    BY <1>2, FnState
  <2>2. EntryBlock \in Reachable(g)
    BY <2>1, ReachedFacts DEF Reachable
  <2> QED
    BY <2>2
<1>4. 1 \in 1..Final(EntryBlock)
  <2>1. EntryBlock \in Blocks /\ Len(fn.code[EntryBlock]) \in Nat
    BY <1>2, FnState
  <2> QED
    BY <2>1 DEF Final
<1>5. at'.block \in Reachable(fn'.succ) /\ at'.pc \in 1..Final(at.block)'
  BY <1>1, <1>3, <1>4 DEF Final
<1>6. \A r \in 0..(fn.regs - 1) : old'[r] = 0
  BY <1>1
<1> QED
  BY <1>1, <1>2, <1>5, <1>6 DEF RunInv

LEMMA RunStep ==
  Shape /\ WalkInv /\ ReachInv /\ FreshInv /\ CodeInv /\ UnseenInv /\ MeaningInv /\ SettledInv /\ RunInv
  /\ [Next]_vars => RunInv'
<1> SUFFICES ASSUME Shape, WalkInv, ReachInv, FreshInv, CodeInv, UnseenInv, MeaningInv, SettledInv, RunInv,
                    [Next]_vars, stage' = "run", DefinitelyAssigned(fn')
             PROVE  RunInv'
  BY DEF RunInv
<1>1. CASE IdentifyVariables \/ StartVariable \/ SpreadPhis \/ InsertUndefs \/ EnterBlock \/ RenameInstruction
           \/ FillSuccessor \/ VisitChild \/ LeaveBlock \/ CleanUnreachable \/ MarkPhi
  <2>1. CASE IdentifyVariables \/ StartVariable \/ SpreadPhis \/ CleanUnreachable \/ MarkPhi
    BY <2>1 DEF IdentifyVariables, StartVariable, SpreadPhis, CleanUnreachable, MarkPhi
  <2>2. CASE EnterBlock \/ RenameInstruction \/ FillSuccessor \/ VisitChild \/ LeaveBlock
    BY <2>2, Zenon DEF EnterBlock, RenameInstruction, FillSuccessor, VisitChild, LeaveBlock, BlockRenamed, Renaming
  <2>3. CASE InsertUndefs
    BY <2>3 DEF InsertUndefs
  <2> QED
    BY <1>1, <2>1, <2>2, <2>3
<1>2. CASE SweepPhis
  BY <1>2, RunSweep
<1>3. CASE Stopped \/ UNCHANGED vars
  <2>1. UNCHANGED <<fn, stage, phis, code, undefs, variableInfo, held, at, old, new>>
    BY <1>3, Zenon DEF Stopped, vars, phiVars, renameVars, runVars
  <2>2. variables' = variables /\ (\A b : Final(b)' = Final(b)) /\ \A r : Definers(r)' = Definers(r)
    BY <2>1, DefinersSame DEF variables, Final
  <2>3. \A b, i, v : Agrees(b, i, v)' <=> Agrees(b, i, v)
    BY <2>1, <2>2 DEF Agrees
  <2> QED
    BY <2>1, <2>2, <2>3 DEF RunInv
<1>4. CASE Execute \/ TakeEdge
  <2>1. stage = "run" /\ fn' = fn
    BY <1>4, Zenon DEF Execute, TakeEdge, Running
  <2>2. Comparing
    BY <2>1 DEF Comparing, Ended
  <2> QED
    BY <1>4, <2>2, RunExecute, RunEdge
<1> QED
  BY <1>1, <1>2, <1>3, <1>4 DEF Next

LEMMA RunReads == Comparing => ReadsAgree
<1> SUFFICES ASSUME Comparing, at.pc \in DOMAIN fn.code[at.block] PROVE ReadsAgree
  BY DEF ReadsAgree
<1>0. Ended /\ fn \in Functions /\ at.block \in Reachable(fn.succ)
  BY DEF Comparing, Ended, RunInv, Shape, FnPart
<1> PICK b \in Reachable(fn.succ) : b = at.block
  BY <1>0
<1> PICK i \in DOMAIN fn.code[b] : i = at.pc
  OBVIOUS
<1> PICK was : was = fn.code[b][i]
  OBVIOUS
<1> PICK is : is = code[b][i]
  OBVIOUS
<1>1. was.op = "out" => was.srcs = <<>>
  BY <1>0, ReachedBlocks, InstructionFacts DEF Blocks
<1>2. ASSUME NEW k \in DOMAIN was.srcs, old[was.srcs[k]] # 0 PROVE new[is.srcs[k]] = old[was.srcs[k]]
  <2> PICK r : r = was.srcs[k]
    OBVIOUS
  <2>1. was.op # "out"
    BY <1>1, <1>2
  <2>2. r \in Reads(fn.code[b][i])
    BY <2>1 DEF Reads, Elems
  <2>3. new[ReadAs(b, i, r)] = old[r]
    BY <1>2, <2>2, ReadValue, SMTT(30)
  <2>4. is.srcs[k] = ReadAs(b, i, was.srcs[k])
    BY <1>0, <2>1, SourceRewritten
  <2> QED
    BY <2>3, <2>4
<1>3. ASSUME was.op = "out", old[was.dest] # 0 PROVE new[is.dest] = old[was.dest]
  <2> PICK r : r = was.dest
    OBVIOUS
  <2>1. r \in Reads(fn.code[b][i])
    BY <1>3 DEF Reads
  <2>2. new[ReadAs(b, i, r)] = old[r]
    BY <1>3, <2>1, ReadValue
  <2>3. is.dest = ReadAs(b, i, was.dest)
    BY <1>0, <1>3, ReadsRewritten
  <2> QED
    BY <2>2, <2>3
<1> QED
  BY <1>2, <1>3, Zenon DEF ReadsAgree, OldIns, NewIns

(* What the run adds to the invariant of the construction.                 *)
RunParts == PlacedInv /\ FilledInv /\ BoundInv /\ SettledInv /\ RunInv

LEMMA RunInit == Init => RunParts
<1> SUFFICES ASSUME Init PROVE RunParts
  OBVIOUS
<1>1. stage = "variables" /\ phis = <<>> /\ visited = {} /\ walk = <<>>
  BY DEF Init
<1>2. PlacedInv
  BY <1>1 DEF PlacedInv
<1>3. FilledInv
  BY <1>1 DEF FilledInv
<1>4. BoundInv /\ SettledInv /\ RunInv
  BY <1>1 DEF BoundInv, SettledInv, RunInv
<1> QED
  BY <1>2, <1>3, <1>4 DEF RunParts

LEMMA RunPartsStep == Shape /\ Shape' /\ MeaningParts /\ RunParts /\ [Next]_vars => RunParts'
<1> SUFFICES ASSUME Shape, Shape', MeaningParts, RunParts, [Next]_vars PROVE RunParts'
  OBVIOUS
<1>0. /\ WalkInv /\ StackInv /\ ReachInv /\ FreshInv /\ TopsInv /\ CodeInv
      /\ LinkInv /\ OperandInv /\ UnseenInv /\ MeaningInv
      /\ PlacedInv /\ FilledInv /\ BoundInv /\ SettledInv /\ RunInv
  BY DEF MeaningParts, RunParts
<1>1. PlacedInv' /\ FilledInv' /\ BoundInv'
  BY <1>0, PlacedStep, FilledStep, BoundStep
<1>2. SettledInv' /\ RunInv'
  BY <1>0, SettledStep, RunStep
<1> QED
  BY <1>1, <1>2 DEF RunParts

LEMMA RunHolds == Spec => []RunParts
<1>1. Init => RunParts
  BY RunInit
<1>2. Shape /\ Shape' /\ MeaningParts /\ RunParts /\ [Next]_vars => RunParts'
  BY RunPartsStep
<1> QED
  BY <1>1, <1>2, ShapeHolds, MeaningHolds, PTL DEF Spec

(* If every register is written before it is read, the conversion changes  *)
(* no value: run side by side with the function it was made from, along    *)
(* any path and for any number of steps, every instruction reads in the    *)
(* converted function the value it reads in the original, through phis,    *)
(* copies taken for aliases and registers no reachable block writes (the   *)
(* whole of ConvertToSSA).                                                 *)
THEOREM ReadsAlwaysAgree == Spec => [](DefinitelyAssigned(fn) => ReadsAgree)
<1>1. Shape /\ MeaningParts /\ RunParts => (DefinitelyAssigned(fn) => ReadsAgree)
  <2> SUFFICES ASSUME Shape, MeaningParts, RunParts, DefinitelyAssigned(fn), stage = "run" PROVE ReadsAgree
    BY DEF ReadsAgree
  <2>1. Comparing
    BY DEF Comparing, Ended, MeaningParts, RunParts
  <2> QED
    BY <2>1, RunReads
<1> QED
  BY <1>1, ShapeHolds, MeaningHolds, RunHolds, PTL
=============================================================================
