------------------------------ MODULE CfgProofs ------------------------------
(***************************************************************************)
(* Proofs about the block graph builder, for every program: the dominator  *)
(* iteration ends with the immediate dominators and frontiers that paths   *)
(* give, and its fingers never leave the tree.                             *)
(***************************************************************************)
EXTENDS Cfg, DominanceProofs

----------------------------------------------------------------------------
(* Blocks of a program: numbered from 1 in program order, without gaps.    *)

LEMMA ProgramFacts ==
  ASSUME NEW p \in Programs
  PROVE  /\ p \in Seq(Instruction) /\ Len(p) \in Nat \ {0} /\ DOMAIN p = 1..Len(p)
         /\ 1 \in DOMAIN p /\ Len(p) \in DOMAIN p
         /\ \A i \in DOMAIN p : p[i] \in Instruction
<1>1. p \in Seq(Instruction) /\ p # <<>>
  BY ProgramsAssumption
<1>2. Len(p) \in Nat /\ DOMAIN p = 1..Len(p) /\ Len(p) # 0 /\ \A i \in DOMAIN p : p[i] \in Instruction
  BY <1>1
<1> QED
  BY <1>1, <1>2

LEMMA FirstBlock ==
  ASSUME NEW p \in Programs
  PROVE  BlockOf(p, 1) = 1
<1> PICK L : L = {l \in Leaders(p) \cap DOMAIN p : l <= 1}
  OBVIOUS
<1>1. 1 \in Leaders(p)
  BY DEF Leaders
<1>2. 1 \in DOMAIN p /\ \A i \in DOMAIN p : i \in Nat \ {0}
  BY ProgramFacts
<1>3. \A i \in DOMAIN p : i <= 1 => i = 1
  BY <1>2
<1>4. L = {1}
  BY <1>1, <1>2, <1>3
<1>5. Cardinality({1}) = 1
  BY FS_Singleton
<1> QED
  BY <1>4, <1>5 DEF BlockOf

LEMMA NextBlock ==
  ASSUME NEW p \in Programs, NEW i \in Nat, i \in DOMAIN p, i + 1 \in DOMAIN p
  PROVE  /\ BlockOf(p, i) \in Nat
         /\ BlockOf(p, i + 1) = IF i + 1 \in Leaders(p) THEN BlockOf(p, i) + 1 ELSE BlockOf(p, i)
<1> PICK L : L = {l \in Leaders(p) \cap DOMAIN p : l <= i}
  OBVIOUS
<1> PICK M : M = {l \in Leaders(p) \cap DOMAIN p : l <= i + 1}
  OBVIOUS
<1>1. DOMAIN p = 1..Len(p) /\ Len(p) \in Nat
  BY ProgramFacts
<1>2. IsFiniteSet(DOMAIN p)
  BY <1>1, FS_Interval
<1>3. L \subseteq DOMAIN p
  OBVIOUS
<1>4. IsFiniteSet(L) /\ Cardinality(L) \in Nat
  BY <1>2, <1>3, FS_Subset, FS_CardinalityType
<1>5. \A l \in DOMAIN p : l <= i + 1 <=> l <= i \/ l = i + 1
  BY <1>1
<1>6. M = IF i + 1 \in Leaders(p) THEN L \cup {i + 1} ELSE L
  BY <1>5
<1>7. i + 1 \notin L
  OBVIOUS
<1>8. Cardinality(L \cup {i + 1}) = Cardinality(L) + 1
  BY <1>4, <1>7, FS_AddElement
<1> QED
  BY <1>4, <1>6, <1>8 DEF BlockOf

LEMMA BlocksGrow ==
  ASSUME NEW p \in Programs, NEW i \in DOMAIN p, NEW j \in DOMAIN p, i <= j
  PROVE  BlockOf(p, i) <= BlockOf(p, j)
<1> PICK L : L = {l \in Leaders(p) \cap DOMAIN p : l <= i}
  OBVIOUS
<1> PICK M : M = {l \in Leaders(p) \cap DOMAIN p : l <= j}
  OBVIOUS
<1>1. DOMAIN p = 1..Len(p) /\ Len(p) \in Nat
  BY ProgramFacts
<1>2. IsFiniteSet(DOMAIN p)
  BY <1>1, FS_Interval
<1>3. M \subseteq DOMAIN p
  OBVIOUS
<1>4. \A l \in DOMAIN p : l <= i => l <= j
  BY <1>1
<1>5. L \subseteq M
  BY <1>4
<1>6. Cardinality(L) <= Cardinality(M)
  BY <1>2, <1>3, <1>5, FS_Subset
<1> QED
  BY <1>6 DEF BlockOf

(* Every number up to the last has a block, and the block a last           *)
(* instruction.                                                            *)
LEMMA BlocksAreNumbered ==
  ASSUME NEW p \in Programs
  PROVE  LET count == BlockOf(p, Len(p))
         IN /\ count \in Nat \ {0}
            /\ \A i \in DOMAIN p : BlockOf(p, i) \in 1..count
            /\ \A b \in 1..count : \E i \in DOMAIN p :
                 BlockOf(p, i) = b /\ (i = Len(p) \/ BlockOf(p, i + 1) # b)
<1> PICK N : N = Len(p)
  OBVIOUS
<1> PICK block : block = [i \in DOMAIN p |-> BlockOf(p, i)]
  OBVIOUS
<1>0. N \in Nat \ {0} /\ DOMAIN p = 1..N /\ block[1] = 1 /\ \A i \in 1..N : BlockOf(p, i) = block[i]
  BY ProgramFacts, FirstBlock
<1>1. \A i \in 1..N : i + 1 \in 1..N =>
        block[i] \in Nat /\ (block[i + 1] = block[i] \/ block[i + 1] = block[i] + 1)
  BY <1>0, NextBlock
<1> DEFINE Good(n) == /\ block[n] \in Nat \ {0}
                      /\ \A i \in 1..n : block[i] \in 1..block[n]
                      /\ \A b \in 1..block[n] : \E i \in 1..n : block[i] = b /\ (i = n \/ block[i + 1] # b)
           R == {n \in Nat : n \in 1..N => Good(n)}
<1>2. Good(1)
  <2>1. \A i \in 1..1 : i = 1
    OBVIOUS
  <2>2. 1 \in 1..1
    OBVIOUS
  <2> QED
    BY <1>0, <2>1, <2>2
<1>3. ASSUME NEW m \in Nat, m \in 1..N, m + 1 \in 1..N, Good(m) PROVE Good(m + 1)
  <2>1. m + 1 \in 1..(m + 1) /\ m \in 1..m
    BY <1>3
  <2>2. Good(m)
    BY <1>3
  <2>3. block[m + 1] = block[m] \/ block[m + 1] = block[m] + 1
    BY <1>1, <1>3
  <2>4. \A i \in 1..(m + 1) : i \in 1..m \/ i = m + 1
    OBVIOUS
  <2>5. \A i \in 1..m : i \in 1..(m + 1) /\ i # m + 1 /\ (i = m \/ i + 1 \in 1..m)
    OBVIOUS
  <2>6. block[m + 1] \in Nat \ {0}
    BY <2>2, <2>3
  <2>7. ASSUME NEW i \in 1..(m + 1) PROVE block[i] \in 1..block[m + 1]
    <3>1. CASE i = m + 1
      BY <2>6, <3>1
    <3>2. CASE i \in 1..m
      <4>1. block[i] \in 1..block[m] /\ block[m] \in Nat
        BY <2>2, <3>2
      <4> QED
        BY <4>1, <2>3
    <3> QED
      BY <2>4, <3>1, <3>2
  <2>8. ASSUME NEW b \in 1..block[m + 1]
        PROVE  \E i \in 1..(m + 1) : block[i] = b /\ (i = m + 1 \/ block[i + 1] # b)
    <3>1. CASE b = block[m + 1]
      BY <2>1, <3>1
    <3>2. CASE b # block[m + 1]
      <4>1. b \in 1..block[m]
        <5>1. block[m] \in Nat /\ b \in Nat /\ b <= block[m + 1]
          BY <2>2, <2>6
        <5> QED
          BY <5>1, <2>3, <3>2
      <4>2. PICK i \in 1..m : block[i] = b /\ (i = m \/ block[i + 1] # b)
        BY <2>2, <4>1
      <4> QED
        BY <2>5, <3>2, <4>2
    <3> QED
      BY <3>1, <3>2
  <2> QED
    BY <2>6, <2>7, <2>8
<1> HIDE DEF Good
<1>4. N \in R
  <2>1. 0 \in R
    OBVIOUS
  <2>2. ASSUME NEW n \in Nat, n \in R PROVE n + 1 \in R
    <3>1. CASE n = 0
      BY <1>2, <3>1
    <3>2. CASE n # 0
      <4>1. n + 1 \in 1..N => n \in 1..N
        BY <1>0, <3>2
      <4> QED
        BY <1>3, <2>2, <4>1
    <3> QED
      BY <3>1, <3>2
  <2> HIDE DEF R
  <2> QED
    BY <1>0, <2>1, <2>2, NatSetInduction
<1>5. N \in 1..N
  BY <1>0
<1>6. Good(N)
  BY <1>4, <1>5
<1>7. \A i \in 1..N : i # N => i + 1 \in 1..N
  BY <1>0
<1> USE DEF Good
<1>8. /\ block[N] \in Nat \ {0}
      /\ \A i \in 1..N : block[i] \in 1..block[N]
  BY <1>6
<1>9. ASSUME NEW b \in 1..block[N]
      PROVE  \E i \in 1..N : block[i] = b /\ (i = N \/ BlockOf(p, i + 1) # b)
  <2>1. PICK i \in 1..N : block[i] = b /\ (i = N \/ block[i + 1] # b)
    BY <1>6
  <2> QED
    BY <1>0, <1>7, <2>1
<1> HIDE DEF Good
<1> QED
  BY <1>0, <1>5, <1>8, <1>9

LEMMA SuccessorsInType ==
  ASSUME NEW p \in Programs, NEW count \in Nat \ {0}, NEW toBlock,
         \A i \in DOMAIN p : toBlock[i] \in 1..count, NEW last \in DOMAIN p
  PROVE  SuccessorsOf(p, toBlock, last, count) \in Seq((1..count) \cup {NO_BLOCK})
<1> DEFINE block(i) == IF InRange(p, i) THEN toBlock[i] ELSE NO_BLOCK
<1> PICK t : t = p[last].targets
  OBVIOUS
<1> PICK D : D = (1..count) \cup {NO_BLOCK}
  OBVIOUS
<1>1. p[last].op \in Ops /\ t \in Seq(Nat)
  BY ProgramFacts DEF Instruction
<1>2. \A i : block(i) \in D
  BY DEF InRange
<1>3. CASE p[last].op \in {"ret", "discard"}
  <2>1. SuccessorsOf(p, toBlock, last, count) = <<>>
    BY <1>3 DEF SuccessorsOf
  <2>2. <<>> \in Seq(D)
    OBVIOUS
  <2> QED
    BY <2>1, <2>2
<1>4. CASE p[last].op \in {"jump", "switch"}
  <2> PICK s : s = [k \in DOMAIN t |-> block(t[k])]
    OBVIOUS
  <2>1. s \in Seq(D)
    <3>1. Len(t) \in Nat /\ DOMAIN t = 1..Len(t)
      BY <1>1
    <3> HIDE DEF block
    <3> QED
      BY <1>2, <3>1
  <2>2. SuccessorsOf(p, toBlock, last, count) = Keep(s, 1..count)
    BY <1>4 DEF SuccessorsOf, InRange
  <2>3. Keep(s, 1..count) \in Seq(D)
    BY <2>1, KeepFacts
  <2> QED
    BY <2>2, <2>3
<1>5. CASE p[last].op = "branch"
  <2> PICK x \in D : x = block(t[1])
    BY <1>2
  <2> PICK y \in D : y = block(t[2])
    BY <1>2
  <2>1. \/ SuccessorsOf(p, toBlock, last, count) = <<x, y>>
        \/ SuccessorsOf(p, toBlock, last, count) = <<x>>
        \/ SuccessorsOf(p, toBlock, last, count) = <<>>
    BY <1>5 DEF SuccessorsOf, InRange
  <2>2. <<x, y>> \in Seq(D) /\ <<x>> \in Seq(D) /\ <<>> \in Seq(D)
    OBVIOUS
  <2> QED
    BY <2>1, <2>2
<1>6. CASE p[last].op = "op"
  <2>1. \/ toBlock[last] < count /\ SuccessorsOf(p, toBlock, last, count) = <<toBlock[last] + 1>>
        \/ SuccessorsOf(p, toBlock, last, count) = <<>>
    BY <1>6 DEF SuccessorsOf
  <2>2. toBlock[last] \in 1..count
    OBVIOUS
  <2>3. toBlock[last] < count => toBlock[last] + 1 \in D
    BY <2>2
  <2>4. \A x \in D : <<x>> \in Seq(D)
    OBVIOUS
  <2>5. <<>> \in Seq(D)
    OBVIOUS
  <2> QED
    BY <2>1, <2>3, <2>4, <2>5
<1> QED
  BY <1>1, <1>3, <1>4, <1>5, <1>6 DEF Ops

(* A leader is the first instruction of its block, and what is in front of *)
(* one, or at the end, the last.                                           *)
LEMMA LeaderIsFirst ==
  ASSUME NEW p \in Programs, NEW t \in DOMAIN p, t \in Leaders(p),
         NEW j \in DOMAIN p, BlockOf(p, j) = BlockOf(p, t)
  PROVE  t <= j
<1>1. DOMAIN p = 1..Len(p) /\ Len(p) \in Nat
  BY ProgramFacts
<1> SUFFICES ASSUME j < t PROVE FALSE
  BY <1>1
<1> PICK i \in Nat : i = t - 1 /\ i + 1 = t /\ i \in DOMAIN p /\ j <= i
  <2>1. t \in Nat /\ j \in Nat /\ j # 0 /\ t <= Len(p)
    BY <1>1
  <2>2. t - 1 \in Nat /\ (t - 1) + 1 = t /\ t - 1 \in DOMAIN p /\ j <= t - 1
    BY <1>1, <2>1
  <2> QED
    BY <2>2
<1>2. BlockOf(p, t) = BlockOf(p, i) + 1 /\ BlockOf(p, i) \in Nat
  BY NextBlock
<1>3. BlockOf(p, j) <= BlockOf(p, i)
  BY BlocksGrow
<1> QED
  BY <1>2, <1>3

LEMMA LastBeforeLeader ==
  ASSUME NEW p \in Programs, NEW i \in DOMAIN p, i = Len(p) \/ i + 1 \in Leaders(p),
         NEW j \in DOMAIN p, BlockOf(p, j) = BlockOf(p, i)
  PROVE  j <= i
<1>1. DOMAIN p = 1..Len(p) /\ Len(p) \in Nat
  BY ProgramFacts
<1> SUFFICES ASSUME i < j PROVE FALSE
  BY <1>1
<1>2. i \in Nat /\ i + 1 \in DOMAIN p /\ i + 1 <= j /\ i # Len(p)
  BY <1>1
<1>3. BlockOf(p, i + 1) = BlockOf(p, i) + 1 /\ BlockOf(p, i) \in Nat
  BY <1>2, NextBlock
<1>4. BlockOf(p, i + 1) <= BlockOf(p, j)
  BY <1>2, BlocksGrow
<1> QED
  BY <1>3, <1>4

FirstOf(p, toBlock, b) ==
  CHOOSE i \in DOMAIN p : toBlock[i] = b /\ \A j \in DOMAIN p : toBlock[j] = b => i <= j
LastOf(p, toBlock, b) ==
  CHOOSE i \in DOMAIN p : toBlock[i] = b /\ \A j \in DOMAIN p : toBlock[j] = b => j <= i

Flows(p, i) ==
  {t \in DOMAIN p : IF IsTerminator(p[i].op)
                      THEN \E k \in DOMAIN p[i].targets : p[i].targets[k] = t
                      ELSE t = i + 1}

LEMMA Boundaries ==
  ASSUME NEW p \in Programs, NEW toBlock, toBlock = [i \in DOMAIN p |-> BlockOf(p, i)]
  PROVE  /\ \A t \in DOMAIN p : t \in Leaders(p) => FirstOf(p, toBlock, toBlock[t]) = t
         /\ \A i \in DOMAIN p : i = Len(p) \/ i + 1 \in Leaders(p) => LastOf(p, toBlock, toBlock[i]) = i
<1>1. DOMAIN p \subseteq Nat
  <2>1. DOMAIN p = 1..Len(p) /\ Len(p) \in Nat
    BY ProgramFacts
  <2> QED
    BY <2>1
<1>2. \A i, j \in DOMAIN p : i <= j /\ j <= i => i = j
  BY <1>1
<1>3. ASSUME NEW t \in DOMAIN p, t \in Leaders(p) PROVE FirstOf(p, toBlock, toBlock[t]) = t
  <2>1. \A j \in DOMAIN p : toBlock[j] = toBlock[t] => t <= j
    BY <1>3, LeaderIsFirst
  <2> QED
    BY <1>2, <2>1 DEF FirstOf
<1>4. ASSUME NEW i \in DOMAIN p, i = Len(p) \/ i + 1 \in Leaders(p) PROVE LastOf(p, toBlock, toBlock[i]) = i
  <2>1. \A j \in DOMAIN p : toBlock[j] = toBlock[i] => j <= i
    BY <1>4, LastBeforeLeader
  <2> QED
    BY <1>2, <2>1 DEF LastOf
<1> QED
  BY <1>3, <1>4

(* Where the last instruction of a block may go, its successors say.       *)
LEMMA SuccessorsMean ==
  ASSUME NEW p \in Programs, NEW toBlock, toBlock = [i \in DOMAIN p |-> BlockOf(p, i)],
         NEW l \in DOMAIN p, l = Len(p) \/ l + 1 \in Leaders(p)
  PROVE  ToSet(SuccessorsOf(p, toBlock, l, BlockOf(p, Len(p)))) \ {NO_BLOCK} = {toBlock[t] : t \in Flows(p, l)}
<1> PICK count : count = BlockOf(p, Len(p))
  OBVIOUS
<1> DEFINE block(i) == IF InRange(p, i) THEN toBlock[i] ELSE NO_BLOCK
<1> PICK t : t = p[l].targets
  OBVIOUS
<1> PICK s : s = SuccessorsOf(p, toBlock, l, count)
  OBVIOUS
<1> PICK F : F = Flows(p, l)
  OBVIOUS
<1>1. /\ p[l].op \in Ops /\ t \in Seq(Nat)
      /\ p[l].op \in {"op", "ret", "discard"} => t = <<>>
      /\ p[l].op = "branch" => Len(t) = 2
  BY ProgramFacts DEF Instruction
<1>2. /\ DOMAIN p = 1..Len(p) /\ Len(p) \in Nat \ {0} /\ Len(p) \in DOMAIN p
      /\ count \in Nat \ {0} /\ \A i \in DOMAIN p : toBlock[i] \in 1..count
  BY ProgramFacts, BlocksAreNumbered
<1>3. \A i \in DOMAIN p : toBlock[i] # NO_BLOCK
  BY <1>2 DEF NO_BLOCK
<1>4. ToSet(<<>>) = {}
  BY DEF ToSet
<1>5. CASE p[l].op \in {"ret", "discard"}
  <2>1. s = <<>>
    BY <1>5 DEF SuccessorsOf
  <2>2. DOMAIN t = {}
    BY <1>1, <1>5
  <2>3. F = {}
    BY <1>5, <2>2 DEF Flows, IsTerminator
  <2> QED
    BY <1>4, <2>1, <2>3
<1>6. CASE p[l].op \in {"jump", "switch"}
  <2> PICK u : u = [k \in DOMAIN t |-> block(t[k])]
    OBVIOUS
  <2> PICK D : D = (1..count) \cup {NO_BLOCK}
    OBVIOUS
  <2>1. u \in Seq(D)
    <3>1. \A i : block(i) \in D
      BY <1>2 DEF InRange
    <3>2. Len(t) \in Nat /\ DOMAIN t = 1..Len(t)
      BY <1>1
    <3> HIDE DEF block
    <3> QED
      BY <3>1, <3>2
  <2>2. s = Keep(u, 1..count)
    BY <1>6 DEF SuccessorsOf, InRange
  <2> HIDE DEF block
  <2>3. ToSet(s) = ToSet(u) \cap (1..count)
    <3>1. ToSet(Keep(u, 1..count)) = ToSet(u) \cap (1..count)
      BY ONLY u \in Seq(D), <2>1, KeepFacts
    <3> QED
      BY <2>2, <3>1
  <2> USE DEF block
  <2>4. NO_BLOCK \notin 1..count
    BY DEF NO_BLOCK
  <2>5. ToSet(u) = {block(t[k]) : k \in DOMAIN t}
    BY DEF ToSet
  <2>6. F = {i \in DOMAIN p : \E k \in DOMAIN t : t[k] = i}
    BY <1>6 DEF Flows, IsTerminator
  <2>7. \A i \in DOMAIN p : block(i) = toBlock[i] /\ toBlock[i] \in 1..count
    BY <1>2 DEF InRange
  <2>8. \A i : i \notin DOMAIN p => block(i) = NO_BLOCK
    BY DEF InRange
  <2> HIDE DEF block
  <2>9. ToSet(u) \cap (1..count) = {toBlock[i] : i \in F}
    <3> PICK C : C = 1..count
      OBVIOUS
    <3>1. \A x \in ToSet(u) \cap C : \E i \in F : x = toBlock[i]
      BY <2>4, <2>5, <2>6, <2>7, <2>8
    <3>2. \A i \in F : toBlock[i] \in ToSet(u) \cap C
      BY <2>5, <2>6, <2>7
    <3> QED
      BY ONLY <3>1, <3>2, C = 1..count
  <2> QED
    BY <2>3, <2>4, <2>9
<1>7. CASE p[l].op = "branch"
  <2>1. F = {i \in DOMAIN p : i = t[1] \/ i = t[2]}
    <3>1. DOMAIN t = {1, 2}
      BY <1>1, <1>7
    <3> QED
      BY <1>7, <3>1 DEF Flows, IsTerminator
  <2> HIDE DEF block
  <2> PICK x : x = block(t[1])
    OBVIOUS
  <2> PICK y : y = block(t[2])
    OBVIOUS
  <2> USE DEF block
  <2>2. s = IF InRange(p, t[2]) THEN <<x, y>> ELSE IF InRange(p, t[1]) THEN <<x>> ELSE <<>>
    BY <1>7 DEF SuccessorsOf, InRange
  <2>3. ToSet(<<x, y>>) = {x, y} /\ ToSet(<<x>>) = {x}
    BY DEF ToSet
  <2>4. ToSet(s) \ {NO_BLOCK} = {x, y} \ {NO_BLOCK}
    BY <1>4, <2>2, <2>3
  <2>5. {x, y} \ {NO_BLOCK} = {toBlock[i] : i \in F}
    BY <1>3, <2>1 DEF InRange
  <2> QED
    BY <2>4, <2>5
<1>8. CASE p[l].op = "op"
  <2>1. F = {i \in DOMAIN p : i = l + 1}
    BY <1>8 DEF Flows, IsTerminator
  <2>2. s = IF toBlock[l] < count THEN <<toBlock[l] + 1>> ELSE <<>>
    BY <1>8 DEF SuccessorsOf
  <2>3. CASE l = Len(p)
    <3>1. ~(toBlock[l] < count)
      BY <1>2, <2>3
    <3>2. F = {}
      BY <1>2, <2>1, <2>3
    <3> QED
      BY <1>4, <2>2, <3>1, <3>2
  <2>4. CASE l # Len(p)
    <3>1. l \in Nat /\ l + 1 \in DOMAIN p /\ l + 1 \in Leaders(p)
      BY <1>2, <2>4
    <3>2. toBlock[l + 1] = toBlock[l] + 1
      BY <3>1, NextBlock
    <3>3. toBlock[l] < count
      <4>1. toBlock[l + 1] \in 1..count /\ toBlock[l] \in 1..count
        BY <1>2, <3>1
      <4> QED
        BY <1>2, <3>2, <4>1
    <3>4. F = {l + 1}
      BY <2>1, <3>1
    <3> PICK x : x = toBlock[l + 1]
      OBVIOUS
    <3>5. ToSet(<<x>>) = {x}
      BY DEF ToSet
    <3>6. s = <<x>> /\ x # NO_BLOCK
      BY <1>3, <2>2, <3>1, <3>2, <3>3
    <3> QED
      BY <3>4, <3>5, <3>6
  <2> QED
    BY <2>3, <2>4
<1> QED
  BY <1>1, <1>5, <1>6, <1>7, <1>8 DEF Ops

----------------------------------------------------------------------------
(* The graph, once it is built.                                            *)

(* The predecessor lists of a graph.                                       *)
Predecessors(g, P) ==
  DOMAIN P = DOMAIN g /\ \A b \in DOMAIN g : P[b] \in Seq(DOMAIN g) /\ ToSet(P[b]) = EdgesTo(g, b)

StageInv ==
  /\ ir \in Programs
  /\ stage \in {"build", "postorder", "dominators", "frontiers", "done"}
  /\ stage = "build" => stack = <<>> /\ postorder = <<>>
  /\ changed \in BOOLEAN

GraphInv ==
  stage # "build" =>
    /\ IsGraph(succ) /\ Predecessors(succ, pred) /\ Blocks = DOMAIN succ
    /\ DOMAIN idom = DOMAIN succ
    /\ stage = "postorder" => \A b \in DOMAIN succ : idom[b] = NO_BLOCK
    /\ frontier \in [DOMAIN succ -> SUBSET DOMAIN succ]
    /\ stage \in {"build", "postorder", "dominators"} => \A b \in DOMAIN succ : frontier[b] = {}

LEMMA StageInit == Init => StageInv /\ GraphInv
BY DEF Init, StageInv, GraphInv

LEMMA BuildMakesGraph ==
  ASSUME StageInv, Build
  PROVE  GraphInv'
<1> PICK p \in Programs : p = ir
  BY DEF StageInv
<1> PICK count : count = BlockOf(p, Len(p))
  OBVIOUS
<1> DEFINE last(b) == CHOOSE i \in DOMAIN p : BlockOf(p, i) = b
                                              /\ (i = Len(p) \/ BlockOf(p, i + 1) # b)
<1> PICK toBlock : toBlock = instToBlock'
  OBVIOUS
<1> PICK g : g = succ'
  OBVIOUS
<1>1. /\ count \in Nat \ {0}
      /\ \A i \in DOMAIN p : BlockOf(p, i) \in 1..count
      /\ \A b \in 1..count : \E i \in DOMAIN p :
           BlockOf(p, i) = b /\ (i = Len(p) \/ BlockOf(p, i + 1) # b)
  BY BlocksAreNumbered
<1>2. toBlock = [i \in DOMAIN p |-> BlockOf(p, i)]
  BY DEF Build
<1>3. g = [b \in 1..count |-> SuccessorsOf(p, toBlock, last(b), count)]
  BY DEF Build
<1>4. \A b \in 1..count : last(b) \in DOMAIN p
  BY <1>1
<1> HIDE DEF last
<1>5. \A b \in 1..count : g[b] \in Seq((1..count) \cup {NO_BLOCK})
  <2> SUFFICES ASSUME NEW b \in 1..count PROVE g[b] \in Seq((1..count) \cup {NO_BLOCK})
    OBVIOUS
  <2> PICK l \in DOMAIN p : l = last(b)
    BY <1>4
  <2>1. \A i \in DOMAIN p : toBlock[i] \in 1..count
    BY <1>1, <1>2
  <2>2. SuccessorsOf(p, toBlock, l, count) \in Seq((1..count) \cup {NO_BLOCK})
    BY <1>1, <2>1, SuccessorsInType
  <2> QED
    BY <1>3, <2>2
<1>6. DOMAIN g = 1..count /\ IsGraph(g)
  BY <1>1, <1>3, <1>5 DEF IsGraph
<1>7. /\ pred' = [b \in 1..count |-> PredecessorsOf(g, b)]
      /\ idom' = [b \in 1..count |-> NO_BLOCK]
      /\ frontier' = [b \in 1..count |-> {}]
      /\ stage' = "postorder" /\ ir' = p
  BY DEF Build
<1>8. Predecessors(g, pred')
  BY <1>6, <1>7, PredecessorFacts DEF Predecessors
<1>9. Blocks' = {toBlock[i] : i \in DOMAIN p}
  BY <1>7 DEF Blocks
<1>10. {toBlock[i] : i \in DOMAIN p} = 1..count
  BY <1>1, <1>2
<1> QED
  BY <1>6, <1>7, <1>8, <1>9, <1>10 DEF GraphInv

----------------------------------------------------------------------------
(* The depth-first search.  Every strict dominator of a block on the stack *)
(* is below it on the stack, so a block is finished before what dominates  *)
(* it.                                                                     *)

SDom(g, a, b) == a # b /\ Dominates(g, a, b)

Search(g, st, po) ==
  /\ st \in Seq(DOMAIN g) /\ po \in Seq(DOMAIN g)
  /\ \A j, k \in DOMAIN st : st[j] = st[k] => j = k
  /\ ToSet(st) \cap ToSet(po) = {}
  /\ \A k \in DOMAIN st, a \in DOMAIN g : SDom(g, a, st[k]) => \E j \in DOMAIN st : j < k /\ st[j] = a
  /\ EntryBlock \in ToSet(st) \cup ToSet(po)
  /\ \A q \in ToSet(po), c \in DOMAIN g : Edge(g, q, c) => c \in ToSet(st) \cup ToSet(po)
  /\ \A k \in DOMAIN po, a \in DOMAIN g : SDom(g, a, po[k]) => \A j \in 1..k : po[j] # a

(* Among the reachable blocks, dominators come later.                      *)
Ordered(g, po) ==
  /\ po \in Seq(DOMAIN g) /\ ToSet(po) = DOMAIN g
  /\ \A k \in DOMAIN po, a \in DOMAIN g :
       po[k] \in Reachable(g) /\ SDom(g, a, po[k]) => \A j \in 1..k : po[j] # a

LEMMA AppendFacts ==
  ASSUME NEW T, NEW s \in Seq(T), NEW x \in T
  PROVE  /\ Append(s, x) \in Seq(T) /\ Append(s, x)[Len(s) + 1] = x
         /\ Len(s) \in Nat /\ DOMAIN s = 1..Len(s) /\ DOMAIN Append(s, x) = 1..(Len(s) + 1)
         /\ \A k \in 1..Len(s) : Append(s, x)[k] = s[k]
         /\ \A k \in 1..(Len(s) + 1) : k \in 1..Len(s) \/ k = Len(s) + 1
         /\ \A k \in 1..Len(s) : k \in 1..(Len(s) + 1) /\ k < Len(s) + 1
         /\ Len(s) + 1 \in 1..(Len(s) + 1)
         /\ \A y : y \in ToSet(Append(s, x)) <=> y = x \/ y \in ToSet(s)
<1>1. Len(s) \in Nat /\ DOMAIN s = 1..Len(s)
  OBVIOUS
<1>2. /\ Append(s, x) \in Seq(T) /\ Append(s, x)[Len(s) + 1] = x /\ DOMAIN Append(s, x) = 1..(Len(s) + 1)
      /\ \A k \in 1..Len(s) : Append(s, x)[k] = s[k]
  OBVIOUS
<1> PICK n \in Nat : n = Len(s)
  BY <1>1
<1>3. /\ \A k \in 1..(n + 1) : k \in 1..n \/ k = n + 1
      /\ \A k \in 1..n : k \in 1..(n + 1) /\ k < n + 1
      /\ n + 1 \in 1..(n + 1)
  BY ONLY n \in Nat
<1> QED
  BY <1>1, <1>2, <1>3, AppendElements

LEMMA FrontFacts ==
  ASSUME NEW T, NEW s \in Seq(T), s # <<>>
  PROVE  /\ Len(s) \in Nat \ {0} /\ DOMAIN s = 1..Len(s) /\ Len(s) \in 1..Len(s) /\ Last(s) = s[Len(s)] /\ Last(s) \in T
         /\ Front(s) \in Seq(T) /\ DOMAIN Front(s) = 1..(Len(s) - 1)
         /\ \A k \in 1..(Len(s) - 1) : k \in 1..Len(s) /\ k # Len(s) /\ Front(s)[k] = s[k]
         /\ \A k \in 1..Len(s) : k = Len(s) \/ k \in 1..(Len(s) - 1)
         /\ ToSet(s) = ToSet(Front(s)) \cup {Last(s)}
<1>1. Len(s) \in Nat \ {0} /\ DOMAIN s = 1..Len(s)
  OBVIOUS
<1> PICK n \in Nat \ {0} : n = Len(s)
  BY <1>1
<1>2. /\ n - 1 \in Nat /\ n \in 1..n
      /\ \A k \in 1..(n - 1) : k \in 1..n /\ k # n
      /\ \A k \in 1..n : k = n \/ k \in 1..(n - 1)
  BY ONLY n \in Nat \ {0}
<1> PICK f : f = Front(s)
  OBVIOUS
<1>3. f = [k \in 1..(n - 1) |-> s[k]]
  BY <1>1, <1>2 DEF Front
<1>4. \A k \in 1..n : s[k] \in T
  BY <1>1
<1>5. f \in Seq(T) /\ DOMAIN f = 1..(n - 1) /\ \A k \in 1..(n - 1) : f[k] = s[k]
  BY <1>2, <1>3, <1>4
<1>6. Last(s) = s[n]
  BY DEF Last
<1>7. ToSet(s) = ToSet(f) \cup {s[n]}
  BY <1>1, <1>2, <1>5 DEF ToSet
<1> QED
  BY <1>1, <1>2, <1>4, <1>5, <1>6, <1>7

LEMMA SearchStarts ==
  ASSUME NEW g, IsGraph(g)
  PROVE  Search(g, <<EntryBlock>>, <<>>)
<1> PICK st : st = <<EntryBlock>>
  OBVIOUS
<1> PICK po : po = <<>>
  OBVIOUS
<1>1. EntryBlock \in DOMAIN g
  BY GraphDomain
<1>2. st \in Seq(DOMAIN g) /\ DOMAIN st = {1} /\ st[1] = EntryBlock
  BY <1>1
<1>3. po \in Seq(DOMAIN g) /\ DOMAIN po = {}
  OBVIOUS
<1>4. ToSet(st) = {EntryBlock} /\ ToSet(po) = {}
  BY <1>2, <1>3 DEF ToSet
<1>5. \A k \in DOMAIN st, a \in DOMAIN g : ~SDom(g, a, st[k])
  BY <1>2, EntryIsUndominated DEF SDom
<1>6. Search(g, st, po)
  BY <1>2, <1>3, <1>4, <1>5 DEF Search
<1> QED
  BY <1>6

LEMMA SearchDescends ==
  ASSUME NEW g, IsGraph(g), NEW st, NEW po, Search(g, st, po), st # <<>>,
         NEW c \in DOMAIN g, Edge(g, Last(st), c), c \notin ToSet(st) \cup ToSet(po)
  PROVE  Search(g, Append(st, c), po)
<1> PICK n : n = Len(st)
  OBVIOUS
<1> PICK s : s = Append(st, c)
  OBVIOUS
<1>0. st \in Seq(DOMAIN g)
  BY DEF Search
<1>1. /\ s \in Seq(DOMAIN g) /\ s[n + 1] = c
      /\ n \in Nat /\ DOMAIN st = 1..n /\ DOMAIN s = 1..(n + 1)
      /\ \A k \in 1..n : s[k] = st[k]
      /\ \A k \in 1..(n + 1) : k \in 1..n \/ k = n + 1
      /\ \A k \in 1..n : k \in 1..(n + 1) /\ k < n + 1
      /\ n + 1 \in 1..(n + 1)
      /\ \A y : y \in ToSet(s) <=> y = c \/ y \in ToSet(st)
  BY <1>0, AppendFacts
<1>2. n \in 1..n /\ Last(st) = st[n]
  BY <1>0, FrontFacts
<1>3. \A k \in 1..n : st[k] # c
  BY <1>1 DEF ToSet
<1>4. \A j, k \in DOMAIN s : s[j] = s[k] => j = k
  BY <1>1, <1>3 DEF Search
<1>5. ASSUME NEW k \in DOMAIN s, NEW a \in DOMAIN g, SDom(g, a, s[k])
      PROVE  \E j \in DOMAIN s : j < k /\ s[j] = a
  <2>1. CASE k \in 1..n
    <3>1. SDom(g, a, st[k])
      BY <1>1, <1>5, <2>1
    <3>2. PICK j \in DOMAIN st : j < k /\ st[j] = a
      BY <1>1, <2>1, <3>1 DEF Search
    <3> QED
      BY <1>1, <3>2
  <2>2. CASE k = n + 1
    <3>1. Dominates(g, a, st[n])
      BY <1>1, <1>2, <1>5, <2>2, DominatesPredecessors DEF SDom
    <3>2. CASE a = st[n]
      BY <1>1, <1>2, <2>2, <3>2
    <3>3. CASE a # st[n]
      <4>1. SDom(g, a, st[n])
        BY <3>1, <3>3 DEF SDom
      <4>2. PICK j \in DOMAIN st : j < n /\ st[j] = a
        BY <1>1, <1>2, <4>1 DEF Search
      <4> QED
        BY <1>1, <2>2, <4>2
    <3> QED
      BY <3>2, <3>3
  <2> QED
    BY <1>1, <2>1, <2>2
<1>6. ToSet(s) \cap ToSet(po) = {}
  BY <1>1 DEF Search
<1>7. /\ EntryBlock \in ToSet(s) \cup ToSet(po)
      /\ \A q \in ToSet(po), x \in DOMAIN g : Edge(g, q, x) => x \in ToSet(s) \cup ToSet(po)
  BY <1>1 DEF Search
<1>8. Search(g, s, po)
  BY <1>1, <1>4, <1>5, <1>6, <1>7 DEF Search
<1> QED
  BY <1>8

LEMMA SearchFinishes ==
  ASSUME NEW g, IsGraph(g), NEW st, NEW po, Search(g, st, po), st # <<>>,
         \A c \in DOMAIN g : Edge(g, Last(st), c) => c \in ToSet(st) \cup ToSet(po)
  PROVE  Search(g, Front(st), Append(po, Last(st)))
<1> PICK n : n = Len(st)
  OBVIOUS
<1> PICK m : m = Len(po)
  OBVIOUS
<1> PICK f : f = Front(st)
  OBVIOUS
<1> PICK y : y = Last(st)
  OBVIOUS
<1> PICK p : p = Append(po, y)
  OBVIOUS
<1>0. st \in Seq(DOMAIN g) /\ po \in Seq(DOMAIN g)
  BY DEF Search
<1>1. /\ n \in Nat \ {0} /\ DOMAIN st = 1..n /\ n \in 1..n /\ y = st[n] /\ y \in DOMAIN g
      /\ f \in Seq(DOMAIN g) /\ DOMAIN f = 1..(n - 1)
      /\ \A k \in 1..(n - 1) : k \in 1..n /\ k # n /\ f[k] = st[k]
      /\ \A k \in 1..n : k = n \/ k \in 1..(n - 1)
      /\ ToSet(st) = ToSet(f) \cup {y}
  <2>1. st # <<>>
    OBVIOUS
  <2>2. /\ Len(st) \in Nat \ {0} /\ DOMAIN st = 1..Len(st) /\ Len(st) \in 1..Len(st)
        /\ Last(st) = st[Len(st)] /\ Last(st) \in DOMAIN g
        /\ Front(st) \in Seq(DOMAIN g) /\ DOMAIN Front(st) = 1..(Len(st) - 1)
        /\ \A k \in 1..(Len(st) - 1) : k \in 1..Len(st) /\ k # Len(st) /\ Front(st)[k] = st[k]
        /\ \A k \in 1..Len(st) : k = Len(st) \/ k \in 1..(Len(st) - 1)
        /\ ToSet(st) = ToSet(Front(st)) \cup {Last(st)}
    BY ONLY <1>0, <2>1, FrontFacts, Zenon
  <2> QED
    BY ONLY <2>2, n = Len(st), f = Front(st), y = Last(st), Zenon
<1>2. /\ p \in Seq(DOMAIN g) /\ p[m + 1] = y
      /\ m \in Nat /\ DOMAIN po = 1..m /\ DOMAIN p = 1..(m + 1)
      /\ \A k \in 1..m : p[k] = po[k]
      /\ \A k \in 1..(m + 1) : k \in 1..m \/ k = m + 1
      /\ \A z : z \in ToSet(p) <=> z = y \/ z \in ToSet(po)
  BY <1>0, <1>1, AppendFacts
<1>3. ToSet(f) \cup ToSet(p) = ToSet(st) \cup ToSet(po)
  BY <1>1, <1>2
<1>4. y \notin ToSet(f)
  <2>1. \A k \in 1..(n - 1) : f[k] # y
    BY <1>1 DEF Search
  <2> QED
    BY <1>1, <2>1 DEF ToSet
<1>5. \A j, k \in DOMAIN f : f[j] = f[k] => j = k
  <2> PICK D : D = 1..(n - 1)
    OBVIOUS
  <2>1. \A j, k \in 1..n : st[j] = st[k] => j = k
    BY <1>1 DEF Search
  <2>2. DOMAIN f = D /\ \A k \in D : k \in 1..n /\ f[k] = st[k]
    BY <1>1
  <2> QED
    BY ONLY <2>1, <2>2
<1>6. ToSet(f) \cap ToSet(p) = {}
  BY <1>1, <1>2, <1>4 DEF Search
<1>7. ASSUME NEW k \in DOMAIN f, NEW a \in DOMAIN g, SDom(g, a, f[k])
      PROVE  \E j \in DOMAIN f : j < k /\ f[j] = a
  <2>0. k \in 1..(n - 1) /\ k \in DOMAIN st /\ SDom(g, a, st[k])
    BY <1>1, <1>7
  <2>1. PICK j \in DOMAIN st : j < k /\ st[j] = a
    BY <2>0 DEF Search
  <2>2. j \in 1..(n - 1)
    BY <1>1, <2>0, <2>1
  <2> QED
    BY <1>1, <2>1, <2>2
<1>8. /\ EntryBlock \in ToSet(f) \cup ToSet(p)
      /\ \A q \in ToSet(p), c \in DOMAIN g : Edge(g, q, c) => c \in ToSet(f) \cup ToSet(p)
  BY <1>2, <1>3 DEF Search
<1>9. ASSUME NEW k \in DOMAIN p, NEW a \in DOMAIN g, SDom(g, a, p[k]), NEW j \in 1..k, p[j] = a
      PROVE  FALSE
  <2>1. CASE k \in 1..m
    <3>1. j \in 1..m
      BY <1>2, <2>1
    <3>2. SDom(g, a, po[k]) /\ po[j] = a /\ k \in DOMAIN po
      BY <1>2, <1>9, <2>1, <3>1
    <3> QED
      BY <3>2 DEF Search
  <2>2. CASE k = m + 1
    <3>1. SDom(g, a, st[n])
      BY <1>1, <1>2, <1>9, <2>2
    <3>2. PICK i \in DOMAIN st : i < n /\ st[i] = a
      <4>0. n \in DOMAIN st
        BY ONLY <1>1
      <4>1. \A c \in DOMAIN g : SDom(g, c, st[n]) => \E i \in DOMAIN st : i < n /\ st[i] = c
        BY ONLY <4>0, Search(g, st, po) DEF Search
      <4> QED
        BY ONLY <3>1, <4>1, a \in DOMAIN g
    <3>3. a \in ToSet(st) /\ a # y
      BY <1>1, <3>1, <3>2 DEF ToSet, SDom
    <3>4. j \in DOMAIN p
      BY <1>2, <2>2
    <3>5. a \in ToSet(p)
      BY <1>9, <3>4 DEF ToSet
    <3> QED
      BY <1>2, <3>3, <3>5 DEF Search
  <2> QED
    BY <1>2, <2>1, <2>2
<1>10. Search(g, f, p)
  <2>1. \A k \in DOMAIN p, a \in DOMAIN g : SDom(g, a, p[k]) => \A j \in 1..k : p[j] # a
    BY <1>9
  <2>2. f \in Seq(DOMAIN g) /\ p \in Seq(DOMAIN g)
    BY <1>1, <1>2
  <2> QED
    BY <2>1, <2>2, <1>5, <1>6, <1>7, <1>8 DEF Search
<1> QED
  BY <1>10

LEMMA SearchEnds ==
  ASSUME NEW g, IsGraph(g), NEW po, Search(g, <<>>, po),
         NEW rest \in Seq(DOMAIN g), ToSet(rest) = DOMAIN g \ ToSet(po)
  PROVE  Ordered(g, po \o rest)
<1> PICK p : p = po \o rest
  OBVIOUS
<1>0. po \in Seq(DOMAIN g)
  BY DEF Search
<1>1. ToSet(<<>>) = {}
  BY DEF ToSet
<1>2. Reachable(g) \subseteq ToSet(po)
  <2>1. EntryBlock \in ToSet(po) /\ \A q \in ToSet(po), c \in DOMAIN g : Edge(g, q, c) => c \in ToSet(po)
    BY <1>1 DEF Search
  <2> QED
    BY <2>1, ReachableFacts
<1>3. p \in Seq(DOMAIN g) /\ ToSet(p) = ToSet(po) \cup ToSet(rest)
  BY <1>0, ConcatElements
<1>4. ToSet(p) = DOMAIN g
  <2>1. ToSet(po) \subseteq DOMAIN g
    BY <1>0 DEF ToSet
  <2> QED
    BY <1>3, <2>1
<1> PICK m \in Nat : m = Len(po)
  BY <1>0
<1>5. /\ DOMAIN po = 1..m /\ \A k \in 1..m : p[k] = po[k]
      /\ \A k \in DOMAIN p : k \in 1..m \/ (k \in Nat /\ k > m)
      /\ \A k \in DOMAIN p : k > m => k - m \in DOMAIN rest /\ p[k] = rest[k - m]
  BY <1>0
<1>6. ASSUME NEW k \in DOMAIN p, p[k] \in Reachable(g)
      PROVE  k \in 1..m
  <2> SUFFICES ASSUME k > m PROVE FALSE
    BY <1>5
  <2>1. k - m \in DOMAIN rest /\ p[k] = rest[k - m]
    BY <1>5
  <2>2. p[k] \in ToSet(rest)
    BY <2>1 DEF ToSet
  <2> QED
    BY <1>2, <1>6, <2>2
<1>7. ASSUME NEW k \in DOMAIN p, NEW a \in DOMAIN g, p[k] \in Reachable(g), SDom(g, a, p[k]), NEW j \in 1..k
      PROVE  p[j] # a
  <2>1. k \in 1..m /\ j \in 1..m
    BY <1>6, <1>7
  <2>2. SDom(g, a, po[k]) /\ p[j] = po[j] /\ k \in DOMAIN po
    BY <1>5, <1>7, <2>1
  <2> QED
    BY <2>2 DEF Search
<1>8. Ordered(g, p)
  BY <1>3, <1>4, <1>7 DEF Ordered
<1> QED
  BY <1>8

----------------------------------------------------------------------------
(* The dominators computed so far, d, and one block's round of Intersect.  *)

Known(d, b) == d[b] # NO_BLOCK

(* The blocks the climb from c along d meets.                              *)
Above(d, c) ==
  {x \in DOMAIN d :
     \A S \in SUBSET DOMAIN d : c \in S /\ (\A y \in S : Known(d, y) => d[y] \in S) => x \in S}

(* What is known stays true of paths: every strict dominator of a block    *)
(* dominates the dominator found for it so far.                            *)
Tree(g, d) ==
  /\ d \in [DOMAIN g -> DOMAIN g \cup {NO_BLOCK}] /\ d[EntryBlock] = EntryBlock
  /\ \A b \in DOMAIN g : Known(d, b) => b \in Reachable(g) /\ Known(d, d[b])
  /\ \A b \in DOMAIN g \ {EntryBlock} : Known(d, b) => \E p \in EdgesTo(g, b) : Known(d, p)
  /\ \A b \in DOMAIN g \ {EntryBlock}, a \in DOMAIN g :
       Known(d, b) /\ SDom(g, a, b) => Dominates(g, a, d[b])

(* The dominator of b is above every predecessor that has one.             *)
Settled(g, d, b) ==
  b # EntryBlock => \A p \in EdgesTo(g, b) : Known(d, p) => Known(d, b) /\ d[b] \in Above(d, p)

(* Block b's round: the predecessors in front of e are seen, n and o are   *)
(* the fingers.  What strictly dominates b dominates both.                 *)
Finger(g, d, b, x) == Known(d, x) /\ \A a \in DOMAIN g : SDom(g, a, b) => Dominates(g, a, x)

Walk(g, P, d, b, e, n, o) ==
  /\ e \in Nat \ {0} /\ n \in DOMAIN g \cup {NO_BLOCK} /\ o \in DOMAIN g \cup {NO_BLOCK}
  /\ b \in DOMAIN g \ {EntryBlock}
  /\ n = NO_BLOCK => \A k \in DOMAIN P[b] : k < e => ~Known(d, P[b][k])
  /\ n # NO_BLOCK => Finger(g, d, b, n) /\ \E k \in DOMAIN P[b] : Known(d, P[b][k])
  /\ \A k \in DOMAIN P[b] : k < e /\ Known(d, P[b][k]) => n \in Above(d, P[b][k])
  /\ o # NO_BLOCK => n # NO_BLOCK /\ Finger(g, d, b, o) /\ e \in DOMAIN P[b] /\ o \in Above(d, P[b][e])

LEMMA AboveFacts ==
  ASSUME NEW g, NEW d \in [DOMAIN g -> DOMAIN g \cup {NO_BLOCK}], NO_BLOCK \notin DOMAIN g, NEW c \in DOMAIN g
  PROVE  /\ Above(d, c) \subseteq DOMAIN g /\ c \in Above(d, c)
         /\ \A x \in Above(d, c) : Known(d, x) => d[x] \in Above(d, c)
         /\ \A S \in SUBSET DOMAIN g :
              c \in S /\ (\A y \in S : Known(d, y) => d[y] \in S) => Above(d, c) \subseteq S
<1>1. \A x \in DOMAIN g : Known(d, x) => d[x] \in DOMAIN g
  BY DEF Known
<1>2. DOMAIN d = DOMAIN g
  OBVIOUS
<1>3. ASSUME NEW x \in Above(d, c), Known(d, x) PROVE d[x] \in Above(d, c)
  <2>1. x \in DOMAIN g /\ d[x] \in DOMAIN g
    BY <1>1, <1>2, <1>3 DEF Above
  <2>2. ASSUME NEW S \in SUBSET DOMAIN d, c \in S, \A y \in S : Known(d, y) => d[y] \in S
        PROVE  d[x] \in S
    <3>1. x \in S
      BY <2>2 DEF Above
    <3> QED
      BY <1>3, <2>2, <3>1
  <2> QED
    BY <1>2, <2>1, <2>2 DEF Above
<1>4. Above(d, c) \subseteq DOMAIN g /\ c \in Above(d, c)
  BY <1>2 DEF Above
<1>5. \A S \in SUBSET DOMAIN g :
        c \in S /\ (\A y \in S : Known(d, y) => d[y] \in S) => Above(d, c) \subseteq S
  BY <1>2 DEF Above
<1> QED
  BY <1>3, <1>4, <1>5

LEMMA PredecessorEdges ==
  ASSUME NEW g, IsGraph(g), NEW P, Predecessors(g, P), NEW b \in DOMAIN g
  PROVE  /\ Len(P[b]) \in Nat /\ DOMAIN P[b] = 1..Len(P[b])
         /\ \A k \in DOMAIN P[b] : P[b][k] \in DOMAIN g /\ P[b][k] \in EdgesTo(g, b) /\ Edge(g, P[b][k], b)
         /\ \A p \in EdgesTo(g, b) : \E k \in DOMAIN P[b] : P[b][k] = p
<1>1. P[b] \in Seq(DOMAIN g) /\ ToSet(P[b]) = EdgesTo(g, b)
  BY DEF Predecessors
<1>2. Len(P[b]) \in Nat /\ DOMAIN P[b] = 1..Len(P[b]) /\ \A k \in DOMAIN P[b] : P[b][k] \in DOMAIN g
  BY <1>1
<1>3. \A k \in DOMAIN P[b] : P[b][k] \in EdgesTo(g, b)
  BY <1>1 DEF ToSet
<1>4. \A p \in EdgesTo(g, b) : \E k \in DOMAIN P[b] : P[b][k] = p
  BY <1>1 DEF ToSet
<1>5. \A p \in EdgesTo(g, b) : Edge(g, p, b)
  BY DEF EdgesTo, Edge
<1> QED
  BY <1>2, <1>3, <1>4, <1>5

LEMMA WalkStarts ==
  ASSUME NEW g, IsGraph(g), NEW P, Predecessors(g, P), NEW d, NEW b \in DOMAIN g \ {EntryBlock}
  PROVE  Walk(g, P, d, b, 1, NO_BLOCK, NO_BLOCK)
<1>1. \A k \in DOMAIN P[b] : ~(k < 1)
  BY PredecessorEdges
<1> QED
  BY <1>1 DEF Walk

LEMMA WalkPasses ==
  ASSUME NEW g, IsGraph(g), NEW P, Predecessors(g, P), NEW d, NEW b, NEW e, NEW n,
         Walk(g, P, d, b, e, n, NO_BLOCK), ~Known(d, P[b][e])
  PROVE  Walk(g, P, d, b, e + 1, n, NO_BLOCK)
<1>1. \A k \in DOMAIN P[b] : k < e + 1 <=> k < e \/ k = e
  BY PredecessorEdges DEF Walk
<1>2. e + 1 \in Nat \ {0}
  BY DEF Walk
<1> QED
  BY <1>1, <1>2 DEF Walk

(* A predecessor of b is dominated by what strictly dominates b.           *)
LEMMA PredecessorIsFinger ==
  ASSUME NEW g, IsGraph(g), NEW P, Predecessors(g, P), NEW d, NEW b \in DOMAIN g,
         NEW k \in DOMAIN P[b], Known(d, P[b][k])
  PROVE  Finger(g, d, b, P[b][k])
<1>1. Edge(g, P[b][k], b)
  BY PredecessorEdges
<1>2. \A a \in DOMAIN g : SDom(g, a, b) => Dominates(g, a, P[b][k])
  BY <1>1, DominatesPredecessors DEF SDom
<1> QED
  BY <1>2 DEF Finger

LEMMA WalkTakesFirst ==
  ASSUME NEW g, IsGraph(g), NEW P, Predecessors(g, P), NEW d, Tree(g, d), NEW b, NEW e,
         Walk(g, P, d, b, e, NO_BLOCK, NO_BLOCK), e \in DOMAIN P[b], Known(d, P[b][e])
  PROVE  Walk(g, P, d, b, e + 1, P[b][e], NO_BLOCK)
<1>0. b \in DOMAIN g
  BY DEF Walk
<1>1. \A k \in DOMAIN P[b] : k < e + 1 <=> k < e \/ k = e
  BY PredecessorEdges DEF Walk
<1>2. e + 1 \in Nat \ {0}
  BY DEF Walk
<1>3. P[b][e] \in DOMAIN g
  BY <1>0, PredecessorEdges
<1> PICK p \in DOMAIN g : p = P[b][e] /\ p # NO_BLOCK
  BY <1>3, GraphDomain
<1>4. Finger(g, d, b, P[b][e])
  BY <1>0, PredecessorIsFinger
<1>5. p \in Above(d, p)
  <2>1. NO_BLOCK \notin DOMAIN g /\ d \in [DOMAIN g -> DOMAIN g \cup {NO_BLOCK}]
    BY GraphDomain DEF Tree
  <2> QED
    BY <2>1, AboveFacts
<1> QED
  BY <1>1, <1>2, <1>3, <1>4, <1>5 DEF Walk

LEMMA WalkTakesNext ==
  ASSUME NEW g, IsGraph(g), NEW P, Predecessors(g, P), NEW d, Tree(g, d), NEW b, NEW e, NEW n,
         Walk(g, P, d, b, e, n, NO_BLOCK), n # NO_BLOCK, e \in DOMAIN P[b], Known(d, P[b][e])
  PROVE  Walk(g, P, d, b, e, n, P[b][e])
<1>0. b \in DOMAIN g
  BY DEF Walk
<1>3. P[b][e] \in DOMAIN g
  BY <1>0, PredecessorEdges
<1> PICK p \in DOMAIN g : p = P[b][e]
  BY <1>3
<1>4. Finger(g, d, b, P[b][e])
  BY <1>0, PredecessorIsFinger
<1>5. p \in Above(d, p)
  <2>1. NO_BLOCK \notin DOMAIN g /\ d \in [DOMAIN g -> DOMAIN g \cup {NO_BLOCK}]
    BY GraphDomain DEF Tree
  <2> QED
    BY <2>1, AboveFacts
<1> QED
  BY <1>3, <1>4, <1>5 DEF Walk

LEMMA WalkMeets ==
  ASSUME NEW g, IsGraph(g), NEW P, Predecessors(g, P), NEW d, NEW b, NEW e, NEW n,
         Walk(g, P, d, b, e, n, n), n # NO_BLOCK
  PROVE  Walk(g, P, d, b, e + 1, n, NO_BLOCK)
<1>1. \A k \in DOMAIN P[b] : k < e + 1 <=> k < e \/ k = e
  BY PredecessorEdges DEF Walk
<1>2. e + 1 \in Nat \ {0}
  BY DEF Walk
<1> QED
  BY <1>1, <1>2 DEF Walk

(* The finger that comes first in postorder may climb: it cannot be a      *)
(* dominator of the other.                                                 *)
LEMMA FingerClimbs ==
  ASSUME NEW g, IsGraph(g), NEW d, Tree(g, d), NEW po, Ordered(g, po), NEW b,
         NEW x \in DOMAIN g, Finger(g, d, b, x), NEW y \in DOMAIN g, Finger(g, d, b, y), x # y,
         NEW i \in DOMAIN po, po[i] = x, NEW j \in DOMAIN po, po[j] = y, i <= j
  PROVE  Finger(g, d, b, d[x])
<1>1. Known(d, d[x])
  BY DEF Finger, Tree
<1>2. ASSUME NEW a \in DOMAIN g, SDom(g, a, b) PROVE Dominates(g, a, d[x])
  <2>1. Dominates(g, a, x) /\ Dominates(g, a, y)
    BY <1>2 DEF Finger
  <2>2. CASE a = x
    <3>1. SDom(g, a, po[j]) /\ po[j] \in Reachable(g)
      BY <2>1, <2>2 DEF SDom, Finger, Tree
    <3>2. i \in 1..j
      <4>1. po \in Seq(DOMAIN g)
        BY DEF Ordered
      <4> QED
        BY <4>1
    <3> QED
      BY <2>2, <3>1, <3>2 DEF Ordered
  <2>3. CASE a # x
    <3>1. x # EntryBlock /\ SDom(g, a, x)
      BY <2>1, <2>3, EntryIsUndominated DEF SDom
    <3> QED
      BY <3>1 DEF Finger, Tree
  <2> QED
    BY <2>2, <2>3
<1> QED
  BY <1>1, <1>2 DEF Finger

LEMMA WalkClimbs ==
  ASSUME NEW g, IsGraph(g), NEW P, Predecessors(g, P), NEW d, Tree(g, d), NEW po, Ordered(g, po),
         NEW b, NEW e, NEW n, NEW o, Walk(g, P, d, b, e, n, o), o # NO_BLOCK, n # o,
         NEW i \in DOMAIN po, po[i] = n, NEW j \in DOMAIN po, po[j] = o
  PROVE  /\ i <= j => Walk(g, P, d, b, e, d[n], o)
         /\ j <= i => Walk(g, P, d, b, e, n, d[o])
<1>1. /\ n \in DOMAIN g /\ o \in DOMAIN g /\ n # NO_BLOCK /\ b \in DOMAIN g
      /\ Finger(g, d, b, n) /\ Finger(g, d, b, o)
  BY DEF Walk
<1>2. NO_BLOCK \notin DOMAIN g /\ d \in [DOMAIN g -> DOMAIN g \cup {NO_BLOCK}]
  BY GraphDomain DEF Tree
<1>3. \A k \in DOMAIN P[b] : P[b][k] \in DOMAIN g
  BY <1>1, PredecessorEdges
<1>4. \A c \in DOMAIN g : \A x \in Above(d, c) : Known(d, x) => d[x] \in Above(d, c)
  BY <1>2, AboveFacts
<1>5. ASSUME i <= j PROVE Walk(g, P, d, b, e, d[n], o)
  <2>1. Finger(g, d, b, d[n])
    BY <1>1, <1>5, FingerClimbs
  <2>2. d[n] \in DOMAIN g /\ d[n] # NO_BLOCK /\ Known(d, n)
    BY <1>1, <1>2 DEF Finger, Known
  <2>3. \A k \in DOMAIN P[b] : k < e /\ Known(d, P[b][k]) => d[n] \in Above(d, P[b][k])
    BY <1>3, <1>4, <2>2 DEF Walk
  <2> QED
    BY <1>1, <2>1, <2>2, <2>3 DEF Walk
<1>6. ASSUME j <= i PROVE Walk(g, P, d, b, e, n, d[o])
  <2>1. Finger(g, d, b, d[o])
    BY <1>1, <1>6, FingerClimbs
  <2>2. d[o] \in DOMAIN g /\ d[o] # NO_BLOCK /\ Known(d, o)
    BY <1>1, <1>2 DEF Finger, Known
  <2>3. e \in DOMAIN P[b] /\ d[o] \in Above(d, P[b][e])
    BY <1>3, <1>4, <2>2 DEF Walk
  <2> QED
    BY <1>1, <2>1, <2>2, <2>3 DEF Walk
<1> QED
  BY <1>5, <1>6

(* Setting the dominator at the end of a round keeps the tree, and leaves  *)
(* the block settled when it changes nothing.                              *)
LEMMA WalkEnds ==
  ASSUME NEW g, IsGraph(g), NEW P, Predecessors(g, P), NEW d, Tree(g, d),
         NEW b, NEW e, NEW n, Walk(g, P, d, b, e, n, NO_BLOCK), e > Len(P[b])
  PROVE  /\ Tree(g, [d EXCEPT ![b] = n])
         /\ n = d[b] => [d EXCEPT ![b] = n] = d /\ Settled(g, d, b)
<1> PICK d1 : d1 = [d EXCEPT ![b] = n]
  OBVIOUS
<1>0. b \in DOMAIN g \ {EntryBlock} /\ d \in [DOMAIN g -> DOMAIN g \cup {NO_BLOCK}] /\ NO_BLOCK \notin DOMAIN g
  BY GraphDomain DEF Walk, Tree
<1>1. n = d[b] => d1 = d
  BY <1>0
<1>2. /\ \A k \in DOMAIN P[b] : k < e /\ P[b][k] \in EdgesTo(g, b) /\ P[b][k] \in DOMAIN g /\ Edge(g, P[b][k], b)
      /\ \A p \in EdgesTo(g, b) : \E k \in DOMAIN P[b] : P[b][k] = p
  BY <1>0, PredecessorEdges DEF Walk
<1>3. CASE n = NO_BLOCK
  <2>1. \A p \in EdgesTo(g, b) : ~Known(d, p)
    BY <1>2, <1>3 DEF Walk
  <2>2. ~Known(d, b)
    BY <1>0, <2>1 DEF Tree
  <2>3. d1 = d /\ Settled(g, d, b)
    BY <1>1, <1>3, <2>1, <2>2 DEF Known, Settled
  <2> QED
    BY <2>3
<1>4. CASE n # NO_BLOCK
  <2>1. n \in DOMAIN g /\ Finger(g, d, b, n)
    BY <1>4 DEF Walk
  <2>2. PICK k \in DOMAIN P[b] : Known(d, P[b][k])
    BY <1>4 DEF Walk
  <2>3. d1 \in [DOMAIN g -> DOMAIN g \cup {NO_BLOCK}] /\ d1[b] = n /\ \A x \in DOMAIN g \ {b} : d1[x] = d[x]
    BY <1>0, <2>1
  <2>4. \A x \in DOMAIN g : Known(d1, x) <=> Known(d, x) \/ x = b
    BY <1>0, <1>4, <2>3 DEF Known
  <2>5. b \in Reachable(g)
    BY <1>0, <1>2, <2>2, ReachableFacts DEF Tree
  <2>6. \A x \in DOMAIN g : Known(d, x) => x \in Reachable(g) /\ Known(d, d[x]) /\ d[x] \in DOMAIN g
    BY <1>0 DEF Tree, Known
  <2>7. \A x \in DOMAIN g : Known(d1, x) => x \in Reachable(g) /\ Known(d1, d1[x])
    BY <2>1, <2>3, <2>4, <2>5, <2>6 DEF Finger
  <2>8. \A x \in DOMAIN g \ {EntryBlock} : Known(d1, x) => \E p \in EdgesTo(g, x) : Known(d1, p)
    <3>1. \A x : EdgesTo(g, x) \subseteq DOMAIN g
      BY DEF EdgesTo
    <3>2. \A x \in DOMAIN g \ {EntryBlock} : Known(d, x) => \E p \in EdgesTo(g, x) : Known(d, p)
      BY DEF Tree
    <3> QED
      BY <1>2, <2>2, <2>4, <3>1, <3>2
  <2>9. \A x \in DOMAIN g \ {EntryBlock}, a \in DOMAIN g :
          Known(d1, x) /\ SDom(g, a, x) => Dominates(g, a, d1[x])
    <3>1. \A x \in DOMAIN g \ {EntryBlock}, a \in DOMAIN g :
            Known(d, x) /\ SDom(g, a, x) => Dominates(g, a, d[x])
      BY DEF Tree
    <3> QED
      BY <2>1, <2>3, <2>4, <3>1 DEF Finger
  <2>10. d1[EntryBlock] = EntryBlock
    BY <1>0, <2>3, GraphDomain DEF Tree
  <2>11. Tree(g, d1)
    BY <2>3, <2>7, <2>8, <2>9, <2>10 DEF Tree
  <2>12. n = d[b] => Settled(g, d, b)
    <3>1. \A p \in EdgesTo(g, b) : Known(d, p) => n \in Above(d, p)
      BY <1>2 DEF Walk
    <3> QED
      BY <1>4, <3>1 DEF Settled, Known
  <2> QED
    BY <1>1, <2>11, <2>12
<1> QED
  BY <1>3, <1>4

(* The dominators paths give.                                              *)
Immediate(g, d) ==
  \A b \in DOMAIN g :
    IF b \notin Reachable(g) THEN d[b] = NO_BLOCK
    ELSE IF b = EntryBlock THEN d[b] = b
    ELSE /\ d[b] # b /\ Dominates(g, d[b], b)
         /\ \A a \in Reachable(g) \ {b} : Dominates(g, a, b) => Dominates(g, a, d[b])

Complete(g, d) == Tree(g, d) /\ Immediate(g, d) /\ \A b \in Reachable(g) : Known(d, b)

(* A sweep that changes nothing has found them.                            *)
LEMMA SettledIsImmediate ==
  ASSUME NEW g, IsGraph(g), NEW d, Tree(g, d), \A b \in DOMAIN g : Settled(g, d, b)
  PROVE  Complete(g, d)
<1>0. /\ NO_BLOCK \notin DOMAIN g /\ EntryBlock \in DOMAIN g /\ d \in [DOMAIN g -> DOMAIN g \cup {NO_BLOCK}]
      /\ d[EntryBlock] = EntryBlock /\ Reachable(g) \subseteq DOMAIN g
  BY GraphDomain, ReachableFacts DEF Tree
<1>1. \A q \in DOMAIN g : \A b : Edge(g, q, b) <=> q \in EdgesTo(g, b)
  BY DEF Edge, EdgesTo
<1>2. \A b \in Reachable(g) : Known(d, b)
  <2> PICK T : T = {b \in DOMAIN g : Known(d, b)}
    OBVIOUS
  <2>1. EntryBlock \in T
    BY <1>0 DEF Known
  <2>2. \A q \in T \cap Reachable(g), b \in DOMAIN g : Edge(g, q, b) => b \in T
    BY <1>1, <2>1 DEF Settled
  <2>3. Reachable(g) \subseteq T
    BY <2>1, <2>2, ReachableFacts
  <2> QED
    BY <2>3
<1>3. ASSUME NEW a \in DOMAIN g, a # EntryBlock, NEW c \in ReachedAvoiding(g, {a})
      PROVE  a \notin Above(d, c)
  <2> PICK T : T = {x \in DOMAIN g : a \notin Above(d, x)}
    OBVIOUS
  <2> PICK R : R = ReachedAvoiding(g, {a})
    OBVIOUS
  <2>1. EntryBlock \in T
    <3> PICK S : S = {EntryBlock}
      OBVIOUS
    <3>1. S \in SUBSET DOMAIN g /\ EntryBlock \in S /\ \A y \in S : d[y] \in S
      BY <1>0
    <3>2. Above(d, EntryBlock) \subseteq S
      BY <1>0, <3>1, AboveFacts
    <3> QED
      BY <1>0, <1>3, <3>2
  <2>2. ASSUME NEW q \in T \cap R, NEW x \in DOMAIN g \ {a}, Edge(g, q, x) PROVE x \in T
    <3>1. q \in DOMAIN g /\ Known(d, q)
      BY <1>2, AvoidingIsReachable
    <3>2. CASE x = EntryBlock
      BY <2>1, <3>2
    <3>3. CASE x # EntryBlock
      <4> PICK U : U = Above(d, q) \cup {x}
        OBVIOUS
      <4>1. Known(d, x) /\ d[x] \in Above(d, q)
        BY <1>1, <2>2, <3>1, <3>3 DEF Settled
      <4>2. Above(d, q) \subseteq DOMAIN g /\ \A y \in Above(d, q) : Known(d, y) => d[y] \in Above(d, q)
        BY <1>0, <3>1, AboveFacts
      <4>3. U \in SUBSET DOMAIN g /\ x \in U /\ \A y \in U : Known(d, y) => d[y] \in U
        BY <4>1, <4>2
      <4>4. Above(d, x) \subseteq U
        BY <1>0, <4>3, AboveFacts
      <4> QED
        BY <4>4
    <3> QED
      BY <3>2, <3>3
  <2>3. \A U : /\ EntryBlock \in U
               /\ \A q \in U \cap R : \A x \in DOMAIN g \ {a} : Edge(g, q, x) => x \in U
               => R \subseteq U
    BY ReachedFacts
  <2>4. R \subseteq T
    BY <2>1, <2>2, <2>3
  <2> QED
    BY <2>4
<1>4. ASSUME NEW b \in Reachable(g), b # EntryBlock
      PROVE  d[b] # b /\ Dominates(g, d[b], b)
  <2>0. b \in DOMAIN g /\ Known(d, b) /\ d[b] \in DOMAIN g
    BY <1>0, <1>2 DEF Known
  <2>1. PICK p \in ReachedAvoiding(g, {b}) : Edge(g, p, b)
    BY <1>4, FirstArrival
  <2>2. b \notin Above(d, p) /\ p \in DOMAIN g /\ Known(d, p)
    BY <1>0, <1>2, <1>3, <1>4, <2>0, AvoidingIsReachable
  <2>3. d[b] \in Above(d, p)
    BY <1>1, <1>4, <2>0, <2>1, <2>2 DEF Settled
  <2>4. d[b] \in Above(d, b)
    BY <1>0, <2>0, AboveFacts
  <2>5. d[b] # EntryBlock => b \notin ReachedAvoiding(g, {d[b]})
    BY <1>3, <2>0, <2>4
  <2> QED
    BY <2>2, <2>3, <2>5 DEF Dominates
<1>5. ASSUME NEW b \in Reachable(g), b # EntryBlock, NEW a \in Reachable(g) \ {b}, Dominates(g, a, b)
      PROVE  Dominates(g, a, d[b])
  <2>1. SDom(g, a, b) /\ a \in DOMAIN g /\ b \in DOMAIN g \ {EntryBlock} /\ Known(d, b)
    BY <1>0, <1>2, <1>5 DEF SDom
  <2> QED
    BY <2>1 DEF Tree
<1>6. \A b \in DOMAIN g : b \notin Reachable(g) => d[b] = NO_BLOCK
  BY DEF Tree, Known
<1>7. Immediate(g, d)
  BY <1>0, <1>4, <1>5, <1>6 DEF Immediate
<1> QED
  BY <1>2, <1>7 DEF Complete

----------------------------------------------------------------------------
(* The frontier pass: what block b puts into the frontier of a for its     *)
(* predecessor p, and what has been put there when the runner for the      *)
(* predecessor in front of e stands at o.                                  *)

Ends(g, a, b, p) == p \in Reachable(g) /\ Dominates(g, a, p) /\ ~SDom(g, a, b)

Reported(g, P, a, b, c, e, o) ==
  b \in Reachable(g) /\ \E k \in DOMAIN P[b] :
    /\ Ends(g, a, b, P[b][k])
    /\ b < c \/ (b = c /\ k < e /\ ~(o # NO_BLOCK /\ k = e - 1 /\ Dominates(g, a, o)))

(* The runner is between the predecessor and the dominator of c.           *)
Runner(g, P, d, c, e, o) ==
  o # NO_BLOCK =>
    /\ o \in DOMAIN g /\ c \in DOMAIN g /\ e - 1 \in DOMAIN P[c]
    /\ P[c][e - 1] \in Reachable(g) <=> o \in Reachable(g)
    /\ o \in Reachable(g) => Dominates(g, o, P[c][e - 1]) /\ (c # EntryBlock => SDom(g, d[c], o))

Filled(g, P, f, c, e, o) ==
  \A a \in Reachable(g), b \in DOMAIN g \ {EntryBlock} : b \in f[a] <=> Reported(g, P, a, b, c, e, o)

LEMMA CompleteFacts ==
  ASSUME NEW g, IsGraph(g), NEW d, Complete(g, d), NEW b \in Reachable(g), b # EntryBlock
  PROVE  /\ d[b] \in Reachable(g) /\ d[b] # NO_BLOCK /\ d[b] # b /\ Dominates(g, d[b], b)
         /\ \A a \in Reachable(g) : SDom(g, a, b) <=> Dominates(g, a, d[b])
<1>1. /\ b \in DOMAIN g /\ Known(d, b) /\ d[b] # b /\ Dominates(g, d[b], b)
      /\ \A a \in Reachable(g) \ {b} : Dominates(g, a, b) => Dominates(g, a, d[b])
  BY ReachableFacts DEF Complete, Immediate
<1>2. d[b] # NO_BLOCK /\ d[b] \in DOMAIN g /\ Known(d, d[b])
  BY <1>1 DEF Complete, Tree, Known
<1>3. d[b] \in Reachable(g)
  BY <1>2 DEF Complete, Tree
<1>4. ASSUME NEW a \in Reachable(g), Dominates(g, a, d[b]) PROVE SDom(g, a, b)
  <2>1. Dominates(g, a, b)
    BY <1>1, <1>4, DominanceIsTransitive
  <2>2. a # b
    BY <1>1, <1>4, DominanceIsAntisymmetric
  <2> QED
    BY <2>1, <2>2 DEF SDom
<1> QED
  BY <1>1, <1>2, <1>3, <1>4 DEF SDom

(* A block with one predecessor is in no frontier.                         *)
LEMMA OnePredecessorEndsNothing ==
  ASSUME NEW g, IsGraph(g), NEW P, Predecessors(g, P), NEW c \in Reachable(g), c # EntryBlock,
         Len(P[c]) < 2, NEW a \in Reachable(g), NEW k \in DOMAIN P[c]
  PROVE  ~Ends(g, a, c, P[c][k])
<1> SUFFICES ASSUME Ends(g, a, c, P[c][k]) PROVE FALSE
  OBVIOUS
<1>0. c \in DOMAIN g
  BY ReachableFacts
<1>1. /\ DOMAIN P[c] = 1..Len(P[c]) /\ Len(P[c]) \in Nat
      /\ \A p \in EdgesTo(g, c) : \E j \in DOMAIN P[c] : P[c][j] = p
  BY <1>0, PredecessorEdges
<1>2. \A j \in DOMAIN P[c] : j = k
  BY <1>1
<1> PICK q : q = P[c][k]
  OBVIOUS
<1>3. \A p \in DOMAIN g : Edge(g, p, c) => p = q
  BY <1>1, <1>2 DEF Edge, EdgesTo
<1>4. q # c /\ Dominates(g, q, c)
  BY <1>3, OnlyPredecessorDominates
<1>5. q \in Reachable(g) /\ Dominates(g, a, q) /\ ~SDom(g, a, c)
  BY DEF Ends
<1>6. Dominates(g, a, c)
  BY <1>4, <1>5, DominanceIsTransitive
<1>7. a # c
  BY <1>4, <1>5, DominanceIsAntisymmetric
<1> QED
  BY <1>5, <1>6, <1>7 DEF SDom

LEMMA FilledPassesOver ==
  ASSUME NEW g, IsGraph(g), NEW P, Predecessors(g, P), NEW f, NEW c \in DOMAIN g, NEW e,
         Filled(g, P, f, c, e, NO_BLOCK), Len(P[c]) < 2 \/ e > Len(P[c]), e \in Nat
  PROVE  Filled(g, P, f, c + 1, 1, NO_BLOCK)
<1> SUFFICES ASSUME NEW a \in Reachable(g), NEW b \in DOMAIN g \ {EntryBlock}
             PROVE  Reported(g, P, a, b, c, e, NO_BLOCK) <=> Reported(g, P, a, b, c + 1, 1, NO_BLOCK)
  BY DEF Filled
<1>0. b \in Nat /\ c \in Nat /\ DOMAIN P[b] = 1..Len(P[b]) /\ Len(P[b]) \in Nat
  <2>1. DOMAIN g \subseteq Nat
    BY GraphDomain
  <2>2. DOMAIN P[b] = 1..Len(P[b]) /\ Len(P[b]) \in Nat
    BY PredecessorEdges
  <2> QED
    BY <2>1, <2>2
<1>1. \A k \in DOMAIN P[b] : ~(k < 1)
  BY <1>0
<1>2. b < c + 1 <=> b < c \/ b = c
  BY <1>0
<1>3. ASSUME b = c, b \in Reachable(g), NEW k \in DOMAIN P[b], Ends(g, a, b, P[b][k]) PROVE k < e
  <2>1. ~(Len(P[c]) < 2)
    BY <1>3, OnePredecessorEndsNothing
  <2> QED
    BY <1>0, <1>3, <2>1
<1> QED
  BY <1>1, <1>2, <1>3 DEF Reported

LEMMA RunnerStarts ==
  ASSUME NEW g, IsGraph(g), NEW P, Predecessors(g, P), NEW d, Complete(g, d), NEW f, NEW c \in DOMAIN g,
         NEW e \in Nat, e \in DOMAIN P[c], Filled(g, P, f, c, e, NO_BLOCK),
         NEW o, o = IF P[c][e] = d[c] THEN NO_BLOCK ELSE P[c][e]
  PROVE  Runner(g, P, d, c, e + 1, o) /\ Filled(g, P, f, c, e + 1, o)
<1> PICK p \in DOMAIN g : p = P[c][e] /\ Edge(g, p, c)
  BY PredecessorEdges
<1>0. (e + 1) - 1 = e
  OBVIOUS
<1>1. p \in Reachable(g) => c \in Reachable(g)
  BY ReachableFacts
<1>2. ASSUME o # NO_BLOCK, p \in Reachable(g), c # EntryBlock PROVE SDom(g, d[c], p)
  <2>1. d[c] # c /\ Dominates(g, d[c], c)
    BY <1>1, <1>2, CompleteFacts
  <2>2. Dominates(g, d[c], p)
    BY <2>1, DominatesPredecessors
  <2> QED
    BY <1>2, <2>2 DEF SDom
<1>3. Runner(g, P, d, c, e + 1, o)
  <2>1. o # NO_BLOCK => o = p
    OBVIOUS
  <2>2. Dominates(g, p, p)
    BY DEF Dominates
  <2> QED
    BY <1>0, <1>2, <2>1, <2>2 DEF Runner
<1>4. ASSUME NEW a \in Reachable(g), NEW b \in DOMAIN g \ {EntryBlock}
      PROVE  Reported(g, P, a, b, c, e, NO_BLOCK) <=> Reported(g, P, a, b, c, e + 1, o)
  <2>1. CASE b # c
    BY <2>1 DEF Reported
  <2>2. CASE b = c
    <3>1. \A k \in DOMAIN P[c] : k < e + 1 <=> k < e \/ k = e
      BY PredecessorEdges
    <3>2. \A k \in DOMAIN P[c] : k < e => k # e
      BY PredecessorEdges
    <3>3. ASSUME c \in Reachable(g), Ends(g, a, c, p) PROVE o # NO_BLOCK /\ Dominates(g, a, o)
      <4>1. Dominates(g, a, p) /\ ~SDom(g, a, c)
        BY <3>3 DEF Ends
      <4>2. p # d[c]
        BY <2>2, <3>3, <4>1, CompleteFacts
      <4>3. p # NO_BLOCK
        BY GraphDomain
      <4> QED
        BY <4>1, <4>2, <4>3
    <3>4. ~(c < c)
      <4>1. c \in Nat
        BY GraphDomain
      <4> QED
        BY <4>1
    <3> QED
      BY <1>0, <2>2, <3>1, <3>2, <3>3, <3>4 DEF Reported
  <2> QED
    BY <2>1, <2>2
<1> QED
  BY <1>3, <1>4 DEF Filled

LEMMA RunnerClimbs ==
  ASSUME NEW g, IsGraph(g), NEW P, Predecessors(g, P), NEW d, Complete(g, d), NEW c, NEW e \in Nat \ {0}, NEW o,
         NEW f \in [DOMAIN g -> SUBSET DOMAIN g],
         o # NO_BLOCK, Runner(g, P, d, c, e, o), Filled(g, P, f, c, e, o),
         NEW up, up = IF d[o] = d[c] THEN NO_BLOCK ELSE d[o]
  PROVE  /\ Runner(g, P, d, c, e, up)
         /\ Filled(g, P, [f EXCEPT ![o] = @ \cup {c}], c, e, up)
<1> PICK h : h = [f EXCEPT ![o] = @ \cup {c}]
  OBVIOUS
<1> PICK p : p = P[c][e - 1]
  OBVIOUS
<1>0. /\ o \in DOMAIN g /\ c \in DOMAIN g /\ e - 1 \in DOMAIN P[c]
      /\ p \in Reachable(g) <=> o \in Reachable(g)
      /\ o \in Reachable(g) => Dominates(g, o, p) /\ (c # EntryBlock => SDom(g, d[c], o))
  BY DEF Runner
<1>1. \A a \in DOMAIN g, b \in DOMAIN g : b \in h[a] <=> b \in f[a] \/ (a = o /\ b = c)
  BY <1>0
<1>2. Reachable(g) \subseteq DOMAIN g /\ p \in DOMAIN g /\ Edge(g, p, c)
  <2> PICK m \in DOMAIN P[c] : p = P[c][m]
    BY <1>0
  <2>1. \A k \in DOMAIN P[c] : P[c][k] \in DOMAIN g /\ Edge(g, P[c][k], c)
    BY <1>0, PredecessorEdges
  <2>2. p \in DOMAIN g /\ Edge(g, p, c)
    BY <2>1
  <2> QED
    BY <2>2, ReachableFacts
<1>3. d[EntryBlock] = EntryBlock
  BY DEF Complete, Tree
<1>4. CASE o \notin Reachable(g)
  <2>1. d[o] = NO_BLOCK /\ up = NO_BLOCK
    BY <1>0, <1>4 DEF Complete, Immediate
  <2>2. Runner(g, P, d, c, e, up)
    BY <2>1 DEF Runner
  <2>3. \A a : ~Ends(g, a, c, p)
    BY <1>0, <1>4 DEF Ends
  <2>4. \A a \in Reachable(g), b \in DOMAIN g \ {EntryBlock} :
          Reported(g, P, a, b, c, e, o) <=> Reported(g, P, a, b, c, e, up)
    BY <2>1, <2>3 DEF Reported
  <2>5. \A a \in Reachable(g), b \in DOMAIN g \ {EntryBlock} : b \in h[a] <=> b \in f[a]
    BY <1>1, <1>2, <1>4
  <2>6. Filled(g, P, h, c, e, up)
    BY <2>4, <2>5 DEF Filled
  <2> QED
    BY <2>2, <2>6
<1>5. CASE o \in Reachable(g) /\ c = EntryBlock
  <2>1. \A a \in Reachable(g), b \in DOMAIN g \ {EntryBlock} : b \in h[a] <=> b \in f[a]
    BY <1>1, <1>2, <1>5
  <2>2. \A a \in Reachable(g), b \in DOMAIN g \ {EntryBlock} :
          Reported(g, P, a, b, c, e, o) <=> Reported(g, P, a, b, c, e, up)
    BY <1>5 DEF Reported
  <2>3. Filled(g, P, h, c, e, up)
    BY <2>1, <2>2 DEF Filled
  <2>4. Runner(g, P, d, c, e, up)
    <3>1. CASE o = EntryBlock
      <4>1. up = NO_BLOCK
        BY <1>3, <1>5, <3>1
      <4> QED
        BY <4>1 DEF Runner
    <3>2. CASE o # EntryBlock
      <4>1. d[o] \in Reachable(g) /\ Dominates(g, d[o], o)
        BY <1>5, <3>2, CompleteFacts
      <4>2. Dominates(g, d[o], p)
        BY <1>0, <1>5, <4>1, DominanceIsTransitive
      <4> QED
        BY <1>0, <1>2, <1>5, <4>1, <4>2 DEF Runner
    <3> QED
      BY <3>1, <3>2
  <2> QED
    BY <2>3, <2>4
<1>6. CASE o \in Reachable(g) /\ c # EntryBlock
  <2>1. p \in Reachable(g) /\ Dominates(g, o, p) /\ SDom(g, d[c], o) /\ c \in Reachable(g)
    BY <1>0, <1>2, <1>6, ReachableFacts
  <2>2. /\ d[c] \in Reachable(g) /\ d[c] # NO_BLOCK
        /\ \A a \in Reachable(g) : SDom(g, a, c) <=> Dominates(g, a, d[c])
    BY <1>6, <2>1, CompleteFacts
  <2>3. o # EntryBlock
    BY <2>1, EntryIsUndominated DEF SDom
  <2>4. /\ d[o] \in Reachable(g) /\ d[o] # NO_BLOCK /\ d[o] # o /\ Dominates(g, d[o], o)
        /\ \A a \in Reachable(g) : SDom(g, a, o) <=> Dominates(g, a, d[o])
    BY <1>6, <2>3, CompleteFacts
  <2>5. Dominates(g, d[o], p)
    BY <2>1, <2>4, DominanceIsTransitive
  <2>6. Dominates(g, d[c], d[o])
    BY <2>1, <2>2, <2>4
  <2>7. Runner(g, P, d, c, e, up)
    <3>1. up # NO_BLOCK => SDom(g, d[c], up) /\ up = d[o]
      BY <2>6 DEF SDom
    <3> QED
      BY <1>0, <1>2, <2>1, <2>4, <2>5, <3>1 DEF Runner
  <2>8. Ends(g, o, c, p)
    <3>1. ~Dominates(g, o, d[c])
      BY <1>6, <2>1, <2>2, DominanceIsAntisymmetric DEF SDom
    <3> QED
      BY <1>6, <2>1, <2>2, <3>1 DEF Ends
  <2>9. ASSUME NEW a \in Reachable(g)
        PROVE  Ends(g, a, c, p) /\ ~(up # NO_BLOCK /\ Dominates(g, a, up))
               <=> (Ends(g, a, c, p) /\ ~Dominates(g, a, o)) \/ a = o
    <3>1. Dominates(g, a, o) <=> a = o \/ Dominates(g, a, d[o])
      BY <2>4 DEF SDom, Dominates
    <3>2. ~Dominates(g, o, d[o])
      BY <1>6, <2>4 DEF SDom
    <3>3. Ends(g, a, c, p) => ~Dominates(g, a, d[c])
      BY <2>2 DEF Ends
    <3>4. CASE d[o] = d[c]
      <4>1. up = NO_BLOCK
        BY <3>4
      <4> QED
        BY <2>8, <3>1, <3>3, <3>4, <4>1
    <3>5. CASE d[o] # d[c]
      <4>1. up = d[o]
        BY <3>5
      <4> QED
        BY <2>4, <2>8, <3>1, <3>2, <4>1
    <3> QED
      BY <3>4, <3>5
  <2>10. ASSUME NEW a \in Reachable(g), NEW b \in DOMAIN g \ {EntryBlock}
         PROVE  Reported(g, P, a, b, c, e, up) <=> Reported(g, P, a, b, c, e, o) \/ (a = o /\ b = c)
    <3>1. CASE b # c
      BY <3>1 DEF Reported
    <3>2. CASE b = c
      <4>1. ~(c < c) /\ e - 1 < e
        <5>1. c \in Nat
          BY <1>0, GraphDomain
        <5> QED
          BY <5>1
      <4>2. Reported(g, P, a, b, c, e, up)
            <=> \E k \in DOMAIN P[c] : Ends(g, a, c, P[c][k]) /\ k < e /\ ~(up # NO_BLOCK /\ k = e - 1 /\ Dominates(g, a, up))
        BY <2>1, <3>2, <4>1 DEF Reported
      <4>3. Reported(g, P, a, b, c, e, o)
            <=> \E k \in DOMAIN P[c] : Ends(g, a, c, P[c][k]) /\ k < e /\ ~(k = e - 1 /\ Dominates(g, a, o))
        BY <2>1, <3>2, <4>1 DEF Reported
      <4> PICK m : m = e - 1
        OBVIOUS
      <4>4. m \in DOMAIN P[c] /\ P[c][m] = p /\ m < e
        BY <1>0, <4>1
      <4>5. Ends(g, a, c, p) /\ ~(up # NO_BLOCK /\ Dominates(g, a, up))
            <=> (Ends(g, a, c, p) /\ ~Dominates(g, a, o)) \/ a = o
        BY <2>9
      <4> QED
        BY ONLY <3>2, <4>2, <4>3, <4>4, <4>5, m = e - 1
    <3> QED
      BY <3>1, <3>2
  <2>11. Filled(g, P, h, c, e, up)
    BY <1>1, <1>2, <2>10 DEF Filled
  <2> QED
    BY <2>7, <2>11
<1> QED
  BY <1>4, <1>5, <1>6

(* When every block has had its turn the frontiers are those of paths.     *)
LEMMA FilledIsFrontier ==
  ASSUME NEW g, IsGraph(g), NEW P, Predecessors(g, P), NEW f \in [DOMAIN g -> SUBSET DOMAIN g],
         NEW c \in Nat, c > Cardinality(DOMAIN g), NEW e, NEW o, Filled(g, P, f, c, e, o),
         NEW a \in Reachable(g)
  PROVE  f[a] \ {EntryBlock} =
           {b \in Reachable(g) \ {EntryBlock} :
              /\ \E q \in Reachable(g) : q \in EdgesTo(g, b) /\ Dominates(g, a, q)
              /\ ~(a # b /\ Dominates(g, a, b))}
<1>1. Reachable(g) \subseteq DOMAIN g /\ f[a] \subseteq DOMAIN g
  BY ReachableFacts
<1>2. ASSUME NEW b \in DOMAIN g \ {EntryBlock}
      PROVE  b \in f[a] <=> /\ b \in Reachable(g)
                            /\ \E q \in Reachable(g) : q \in EdgesTo(g, b) /\ Dominates(g, a, q)
                            /\ ~(a # b /\ Dominates(g, a, b))
  <2>1. b < c
    <3>1. DOMAIN g = 1..Cardinality(DOMAIN g) /\ Cardinality(DOMAIN g) \in Nat
      BY GraphDomain
    <3> PICK n \in Nat : n = Cardinality(DOMAIN g)
      BY <3>1
    <3>2. b \in 1..n
      BY <3>1
    <3> QED
      BY ONLY <3>2, n \in Nat, c > n, c \in Nat, n = Cardinality(DOMAIN g), c > Cardinality(DOMAIN g)
  <2>2. b \in f[a] <=> b \in Reachable(g) /\ \E k \in DOMAIN P[b] : Ends(g, a, b, P[b][k])
    BY <2>1 DEF Filled, Reported
  <2>3. /\ \A k \in DOMAIN P[b] : P[b][k] \in EdgesTo(g, b)
        /\ \A p \in EdgesTo(g, b) : \E k \in DOMAIN P[b] : P[b][k] = p
    BY PredecessorEdges
  <2> QED
    BY <2>2, <2>3 DEF Ends, SDom
<1> QED
  BY <1>1, <1>2

LEMMA NothingIsFilled ==
  ASSUME NEW g, IsGraph(g), NEW P, Predecessors(g, P), NEW f, \A b \in DOMAIN g : f[b] = {}
  PROVE  Filled(g, P, f, 1, 1, NO_BLOCK)
<1>1. Reachable(g) \subseteq DOMAIN g
  BY ReachableFacts
<1>2. \A b \in DOMAIN g : ~(b < 1)
  BY GraphDomain
<1>3. \A b \in DOMAIN g : \A k \in DOMAIN P[b] : ~(k < 1)
  BY PredecessorEdges
<1> QED
  BY <1>1, <1>2, <1>3 DEF Filled, Reported

----------------------------------------------------------------------------
(* The inductive invariant, pass by pass.                                  *)

PostorderInv ==
  /\ stage = "postorder" => Search(succ, stack, postorder)
  /\ stage \in {"dominators", "frontiers", "done"} => Ordered(succ, postorder)

Idle == cursor = 0 \/ (cursor > 0 /\ postorder[cursor] = EntryBlock)

DominatorInv ==
  stage = "dominators" =>
    /\ cursor \in 0..Len(postorder) /\ Tree(succ, idom)
    /\ Idle => edge = 1 /\ newIdom = NO_BLOCK /\ other = NO_BLOCK
    /\ ~Idle => Walk(succ, pred, idom, postorder[cursor], edge, newIdom, other)
    /\ ~changed => \A k \in DOMAIN postorder : k > cursor => Settled(succ, idom, postorder[k])

FrontierInv ==
  /\ stage \in {"frontiers", "done"} => Complete(succ, idom)
  /\ stage = "frontiers" =>
       /\ cursor \in 1..(Cardinality(DOMAIN succ) + 1) /\ edge \in Nat \ {0}
       /\ Runner(succ, pred, idom, cursor, edge, other)
       /\ Filled(succ, pred, frontier, cursor, edge, other)
  /\ FrontiersCorrect

CfgInv == StageInv /\ GraphInv /\ PostorderInv /\ DominatorInv /\ FrontierInv

LEMMA CfgInvInit == Init => CfgInv
<1> SUFFICES ASSUME Init PROVE CfgInv
  OBVIOUS
<1>1. StageInv /\ GraphInv
  BY StageInit
<1>2. stage = "build"
  BY DEF Init
<1> QED
  BY <1>1, <1>2 DEF CfgInv, PostorderInv, DominatorInv, FrontierInv, FrontiersCorrect

LEMMA BuildStep ==
  ASSUME CfgInv, Build
  PROVE  CfgInv'
<1>1. GraphInv'
  BY BuildMakesGraph DEF CfgInv
<1>2. stage' = "postorder" /\ stack' = <<EntryBlock>> /\ postorder' = <<>> /\ ir' = ir /\ changed' = changed
  BY DEF Build, CfgInv, StageInv, walkVars
<1>3. StageInv'
  BY <1>2 DEF CfgInv, StageInv
<1>4. Search(succ', stack', postorder')
  BY <1>1, <1>2, SearchStarts DEF GraphInv
<1> QED
  BY <1>1, <1>2, <1>3, <1>4 DEF CfgInv, PostorderInv, DominatorInv, FrontierInv, FrontiersCorrect

(* What holds of the graph is kept by the passes over it.                  *)
LEMMA PassFacts ==
  ASSUME CfgInv, stage # "build"
  PROVE  /\ IsGraph(succ) /\ Predecessors(succ, pred) /\ Blocks = DOMAIN succ
         /\ EntryBlock \in DOMAIN succ /\ NO_BLOCK \notin DOMAIN succ
         /\ \A b \in DOMAIN succ : succ[b] \in Seq(DOMAIN succ \cup {NO_BLOCK})
         /\ frontier \in [DOMAIN succ -> SUBSET DOMAIN succ]
BY GraphDomain DEF CfgInv, GraphInv

LEMMA KeepsGraph ==
  ASSUME CfgInv, stage # "build", stage' \in {"postorder", "dominators", "frontiers", "done"},
         UNCHANGED blockVars, changed' \in BOOLEAN,
         stage' = "postorder" => stage = "postorder" /\ idom' = idom,
         DOMAIN idom' = DOMAIN idom,
         frontier' \in [DOMAIN succ -> SUBSET DOMAIN succ],
         stage' \in {"postorder", "dominators"} => frontier' = frontier /\ stage \in {"postorder", "dominators"}
  PROVE  StageInv' /\ GraphInv'
<1>1. ir' = ir /\ instToBlock' = instToBlock /\ succ' = succ /\ pred' = pred
  BY DEF blockVars
<1>2. Blocks' = Blocks
  BY <1>1 DEF Blocks
<1> QED
  BY <1>1, <1>2 DEF CfgInv, StageInv, GraphInv

LEMMA VisitedFacts ==
  Visited = ToSet(stack) \cup ToSet(postorder)
BY DEF Visited, ToSet

LEMMA DescendStep ==
  ASSUME CfgInv, Descend
  PROVE  CfgInv'
<1>1. /\ stage = "postorder" /\ stage' = "postorder" /\ stack # <<>> /\ UNCHANGED <<blockVars, idom, changed, frontier, succ, postorder>>
  BY DEF Descend, walkVars, blockVars
<1>2. StageInv' /\ GraphInv'
  BY <1>1, KeepsGraph, PassFacts DEF CfgInv, StageInv
<1>3. Search(succ, stack, postorder)
  BY <1>1 DEF CfgInv, PostorderInv
<1>4. PICK k \in Unvisited(Last(stack)) : stack' = Append(stack, succ[Last(stack)][k])
  BY DEF Descend
<1> PICK c : c = succ[Last(stack)][k]
  OBVIOUS
<1>5. Last(stack) \in DOMAIN succ
  BY <1>1, <1>3, FrontFacts DEF Search
<1>6. k \in DOMAIN succ[Last(stack)] /\ c # NO_BLOCK /\ c \notin ToSet(stack) \cup ToSet(postorder)
  BY <1>4, VisitedFacts DEF Unvisited
<1>7. c \in DOMAIN succ
  <2>1. succ[Last(stack)] \in Seq(DOMAIN succ \cup {NO_BLOCK})
    BY <1>1, <1>5, PassFacts
  <2> QED
    BY <1>6, <2>1
<1>8. Edge(succ, Last(stack), c)
  BY <1>6 DEF Edge
<1>9. Search(succ, stack', postorder)
  BY <1>1, <1>3, <1>4, <1>6, <1>7, <1>8, PassFacts, SearchDescends
<1> QED
  BY <1>1, <1>2, <1>9 DEF CfgInv, PostorderInv, DominatorInv, FrontierInv, FrontiersCorrect

LEMMA FinishBlockStep ==
  ASSUME CfgInv, FinishBlock
  PROVE  CfgInv'
<1>1. /\ stage = "postorder" /\ stage' = "postorder" /\ stack # <<>> /\ UNCHANGED <<blockVars, idom, changed, frontier, succ>>
  BY DEF FinishBlock, walkVars, blockVars
<1>2. StageInv' /\ GraphInv'
  BY <1>1, KeepsGraph, PassFacts DEF CfgInv, StageInv
<1>3. Search(succ, stack, postorder)
  BY <1>1 DEF CfgInv, PostorderInv
<1>4. Unvisited(Last(stack)) = {} /\ postorder' = Append(postorder, Last(stack)) /\ stack' = Front(stack)
  BY DEF FinishBlock
<1>5. \A c \in DOMAIN succ : Edge(succ, Last(stack), c) => c \in ToSet(stack) \cup ToSet(postorder)
  <2>1. NO_BLOCK \notin DOMAIN succ
    BY <1>1, PassFacts
  <2> QED
    BY <1>4, <2>1, VisitedFacts DEF Unvisited, Edge
<1>6. Search(succ, Front(stack), Append(postorder, Last(stack)))
  BY <1>1, <1>3, <1>5, PassFacts, SearchFinishes
<1> QED
  BY <1>1, <1>2, <1>4, <1>6 DEF CfgInv, PostorderInv, DominatorInv, FrontierInv, FrontiersCorrect

LEMMA FinishPostorderStep ==
  ASSUME CfgInv, FinishPostorder
  PROVE  CfgInv'
<1>1. /\ stage = "postorder" /\ stage' = "dominators" /\ stack = <<>> /\ changed' = FALSE
      /\ cursor' = Len(postorder') /\ edge' = 1 /\ newIdom' = NO_BLOCK /\ other' = NO_BLOCK
      /\ idom' = [idom EXCEPT ![EntryBlock] = EntryBlock]
      /\ UNCHANGED <<blockVars, frontier, succ, pred>>
  BY DEF FinishPostorder, blockVars
<1>2. StageInv' /\ GraphInv'
  BY <1>1, KeepsGraph, PassFacts
<1> PICK g : g = succ
  OBVIOUS
<1> PICK P : P = pred
  OBVIOUS
<1> PICK d : d = idom'
  OBVIOUS
<1> PICK po : po = postorder'
  OBVIOUS
<1>3. /\ IsGraph(g) /\ Predecessors(g, P) /\ EntryBlock \in DOMAIN g /\ NO_BLOCK \notin DOMAIN g /\ Blocks = DOMAIN g
  BY <1>1, PassFacts
<1>4. Ordered(g, po)
  <2> PICK rest : rest = Keep([b \in DOMAIN g |-> b], DOMAIN g \ ToSet(postorder))
    OBVIOUS
  <2> PICK s : s = [b \in DOMAIN g |-> b]
    OBVIOUS
  <2>1. Search(g, <<>>, postorder)
    BY <1>1 DEF CfgInv, PostorderInv
  <2>2. s \in Seq(DOMAIN g) /\ ToSet(s) = DOMAIN g
    <3>1. DOMAIN g = 1..Cardinality(DOMAIN g) /\ Cardinality(DOMAIN g) \in Nat
      BY <1>3, GraphDomain
    <3> PICK n \in Nat : DOMAIN g = 1..n
      BY <3>1
    <3>2. s = [b \in 1..n |-> b]
      OBVIOUS
    <3>3. s \in Seq(1..n)
      BY ONLY <3>2, n \in Nat
    <3> QED
      BY <3>3 DEF ToSet
  <2>3. rest \in Seq(DOMAIN g) /\ ToSet(rest) = DOMAIN g \ ToSet(postorder)
    BY <2>2, KeepFacts
  <2>4. Visited = ToSet(postorder)
    BY <1>1, VisitedFacts DEF ToSet
  <2>5. po = postorder \o rest
    BY <1>3, <2>4 DEF FinishPostorder
  <2>6. Ordered(g, postorder \o rest)
    BY <1>3, <2>1, <2>3, SearchEnds
  <2> QED
    BY <2>5, <2>6
<1>5. /\ d \in [DOMAIN g -> DOMAIN g \cup {NO_BLOCK}] /\ d[EntryBlock] = EntryBlock
      /\ \A b \in DOMAIN g \ {EntryBlock} : d[b] = NO_BLOCK
  <2>1. DOMAIN idom = DOMAIN g /\ \A b \in DOMAIN g : idom[b] = NO_BLOCK
    BY <1>1 DEF CfgInv, GraphInv
  <2>2. DOMAIN d = DOMAIN g /\ \A b \in DOMAIN g : d[b] = IF b = EntryBlock THEN EntryBlock ELSE NO_BLOCK
    BY <1>1, <2>1
  <2>3. d = [b \in DOMAIN g |-> d[b]]
    BY <1>1, <2>2
  <2> QED
    BY <1>3, <2>2, <2>3
<1>6. Tree(g, d)
  <2>1. EntryBlock \in Reachable(g)
    BY <1>3, ReachableFacts
  <2> QED
    BY <1>3, <1>5, <2>1 DEF Tree, Known
<1>7. Len(po) \in 0..Len(po) /\ po \in Seq(DOMAIN g) /\ DOMAIN po = 1..Len(po) /\ \A k \in DOMAIN po : ~(k > Len(po))
  <2>1. po \in Seq(DOMAIN g)
    BY <1>4 DEF Ordered
  <2> QED
    BY <2>1
<1>8. ~Idle' => Walk(g, P, d, po[Len(po)], 1, NO_BLOCK, NO_BLOCK)
  <2> SUFFICES ASSUME ~Idle' PROVE Walk(g, P, d, po[Len(po)], 1, NO_BLOCK, NO_BLOCK)
    OBVIOUS
  <2>1. Len(po) # 0 /\ po[Len(po)] # EntryBlock
    BY <1>1, <1>7 DEF Idle
  <2>2. Len(po) \in DOMAIN po
    BY <1>7, <2>1
  <2>3. po[Len(po)] \in DOMAIN g \ {EntryBlock}
    BY <1>7, <2>1, <2>2
  <2> QED
    BY <1>3, <2>3, WalkStarts
<1>9. DominatorInv'
  BY <1>1, <1>6, <1>7, <1>8 DEF DominatorInv
<1> QED
  BY <1>1, <1>2, <1>4, <1>9 DEF CfgInv, PostorderInv, FrontierInv, FrontiersCorrect

LEMMA WalkKept ==
  ASSUME CfgInv, stage = "dominators", ~Idle,
         UNCHANGED <<blockVars, stage, stack, postorder, idom, cursor, changed, frontier, children>>,
         Walk(succ, pred, idom, postorder[cursor], edge', newIdom', other')
  PROVE  CfgInv'
<1>1. UNCHANGED <<stage, succ, pred, postorder, idom, cursor, changed, frontier>>
  BY DEF blockVars
<1>2. StageInv' /\ GraphInv'
  BY <1>1, KeepsGraph, PassFacts DEF CfgInv, StageInv
<1>3. ~Idle'
  BY <1>1 DEF Idle
<1>4. DominatorInv'
  BY <1>1, <1>3 DEF CfgInv, DominatorInv
<1> QED
  BY <1>1, <1>2, <1>4 DEF CfgInv, PostorderInv, FrontierInv, FrontiersCorrect

LEMMA PostorderFacts ==
  ASSUME CfgInv, stage \in {"dominators", "frontiers", "done"}
  PROVE  /\ Ordered(succ, postorder) /\ Len(postorder) \in Nat /\ DOMAIN postorder = 1..Len(postorder)
         /\ \A k \in DOMAIN postorder : postorder[k] \in DOMAIN succ
         /\ \A b \in DOMAIN succ : PostorderIndex(b) \in DOMAIN postorder /\ postorder[PostorderIndex(b)] = b
<1>1. Ordered(succ, postorder)
  BY DEF CfgInv, PostorderInv
<1>2. postorder \in Seq(DOMAIN succ) /\ ToSet(postorder) = DOMAIN succ
  BY <1>1 DEF Ordered
<1>3. Len(postorder) \in Nat /\ DOMAIN postorder = 1..Len(postorder) /\ \A k \in DOMAIN postorder : postorder[k] \in DOMAIN succ
  BY <1>2
<1>4. \A b \in DOMAIN succ : \E k \in DOMAIN postorder : postorder[k] = b
  BY <1>2 DEF ToSet
<1>5. \A b \in DOMAIN succ : PostorderIndex(b) \in DOMAIN postorder /\ postorder[PostorderIndex(b)] = b
  BY <1>4 DEF PostorderIndex
<1> QED
  BY <1>1, <1>3, <1>5

(* The round of the block under the cursor.                                *)
LEMMA RoundFacts ==
  ASSUME CfgInv, stage = "dominators", ~Idle
  PROVE  /\ Walk(succ, pred, idom, postorder[cursor], edge, newIdom, other)
         /\ cursor \in DOMAIN postorder /\ postorder[cursor] \in DOMAIN succ \ {EntryBlock}
         /\ Len(pred[postorder[cursor]]) \in Nat /\ edge \in Nat \ {0}
         /\ edge \in DOMAIN pred[postorder[cursor]] <=> edge <= Len(pred[postorder[cursor]])
<1>1. Walk(succ, pred, idom, postorder[cursor], edge, newIdom, other)
  BY DEF CfgInv, DominatorInv
<1>2. cursor \in 0..Len(postorder) /\ cursor # 0 /\ Len(postorder) \in Nat /\ DOMAIN postorder = 1..Len(postorder)
  BY PostorderFacts DEF CfgInv, DominatorInv, Idle
<1>3. cursor \in DOMAIN postorder
  BY <1>2
<1>4. postorder[cursor] \in DOMAIN succ \ {EntryBlock} /\ edge \in Nat \ {0}
  BY <1>1 DEF Walk
<1> PICK b \in DOMAIN succ : b = postorder[cursor]
  BY <1>4
<1>5. Len(pred[b]) \in Nat /\ DOMAIN pred[b] = 1..Len(pred[b])
  BY PassFacts, PredecessorEdges
<1>6. edge \in DOMAIN pred[b] <=> edge <= Len(pred[b])
  BY <1>4, <1>5
<1> QED
  BY <1>1, <1>3, <1>4, <1>5, <1>6

LEMMA TakePredecessorStep ==
  ASSUME CfgInv, TakePredecessor
  PROVE  CfgInv'
<1> PICK b : b = postorder[cursor]
  OBVIOUS
<1> PICK p : p = pred[b][edge]
  OBVIOUS
<1>1. /\ stage = "dominators" /\ cursor > 0 /\ other = NO_BLOCK /\ b # EntryBlock /\ edge <= Len(pred[b])
      /\ UNCHANGED <<blockVars, stage, stack, postorder, idom, cursor, changed, frontier, children>>
      /\ \/ idom[p] = NO_BLOCK /\ edge' = edge + 1 /\ newIdom' = newIdom /\ other' = other
         \/ idom[p] # NO_BLOCK /\ newIdom = NO_BLOCK /\ edge' = edge + 1 /\ newIdom' = p /\ other' = other
         \/ idom[p] # NO_BLOCK /\ newIdom # NO_BLOCK /\ other' = p /\ edge' = edge /\ newIdom' = newIdom
  BY DEF TakePredecessor
<1>2. ~Idle
  <2>1. cursor \in Nat
    BY <1>1, PostorderFacts DEF CfgInv, DominatorInv
  <2> QED
    BY <1>1, <2>1 DEF Idle
<1>3. Walk(succ, pred, idom, b, edge, newIdom, NO_BLOCK) /\ edge \in DOMAIN pred[b]
  BY <1>1, <1>2, RoundFacts
<1>4. IsGraph(succ) /\ Predecessors(succ, pred) /\ Tree(succ, idom)
  BY <1>1, PassFacts DEF CfgInv, DominatorInv
<1>5. Walk(succ, pred, idom, b, edge', newIdom', other')
  <2>1. CASE idom[p] = NO_BLOCK
    BY <1>1, <1>3, <1>4, <2>1, WalkPasses DEF Known
  <2>2. CASE idom[p] # NO_BLOCK /\ newIdom = NO_BLOCK
    <3>1. Walk(succ, pred, idom, b, edge + 1, p, NO_BLOCK)
      BY <1>3, <1>4, <2>2, WalkTakesFirst DEF Known
    <3> QED
      BY <1>1, <2>2, <3>1
  <2>3. CASE idom[p] # NO_BLOCK /\ newIdom # NO_BLOCK
    <3>1. Walk(succ, pred, idom, b, edge, newIdom, p)
      BY <1>3, <1>4, <2>3, WalkTakesNext DEF Known
    <3> QED
      BY <1>1, <2>3, <3>1
  <2> QED
    BY <2>1, <2>2, <2>3
<1> QED
  BY <1>1, <1>2, <1>5, WalkKept

LEMMA ClimbStep ==
  ASSUME CfgInv, Climb
  PROVE  CfgInv'
<1> PICK b : b = postorder[cursor]
  OBVIOUS
<1> PICK i : i = PostorderIndex(newIdom)
  OBVIOUS
<1> PICK j : j = PostorderIndex(other)
  OBVIOUS
<1>1. /\ stage = "dominators" /\ other # NO_BLOCK /\ newIdom # other
      /\ UNCHANGED <<blockVars, stage, stack, postorder, idom, cursor, edge, changed, frontier, children>>
      /\ \/ i < j /\ newIdom' = idom[newIdom] /\ other' = other
         \/ ~(i < j) /\ other' = idom[other] /\ newIdom' = newIdom
  BY DEF Climb
<1>2. ~Idle
  BY <1>1 DEF CfgInv, DominatorInv
<1>3. Walk(succ, pred, idom, b, edge, newIdom, other)
  BY <1>1, <1>2, RoundFacts
<1>4. IsGraph(succ) /\ Predecessors(succ, pred) /\ Tree(succ, idom) /\ Ordered(succ, postorder)
  BY <1>1, PassFacts, PostorderFacts DEF CfgInv, DominatorInv
<1>5. newIdom \in DOMAIN succ /\ other \in DOMAIN succ
  BY <1>1, <1>3 DEF Walk
<1>6. i \in DOMAIN postorder /\ postorder[i] = newIdom /\ j \in DOMAIN postorder /\ postorder[j] = other
  BY <1>1, <1>5, PostorderFacts
<1>7. i \in Nat /\ j \in Nat
  BY <1>1, <1>6, PostorderFacts
<1>8. /\ i <= j => Walk(succ, pred, idom, b, edge, idom[newIdom], other)
      /\ j <= i => Walk(succ, pred, idom, b, edge, newIdom, idom[other])
  BY <1>1, <1>3, <1>4, <1>6, WalkClimbs
<1>9. Walk(succ, pred, idom, b, edge', newIdom', other')
  BY <1>1, <1>7, <1>8
<1> QED
  BY <1>1, <1>2, <1>9, WalkKept

LEMMA FingersMeetStep ==
  ASSUME CfgInv, FingersMeet
  PROVE  CfgInv'
<1> PICK b : b = postorder[cursor]
  OBVIOUS
<1>1. /\ stage = "dominators" /\ other # NO_BLOCK /\ newIdom = other
      /\ UNCHANGED <<blockVars, stage, stack, postorder, idom, cursor, newIdom, changed, frontier, children>>
      /\ other' = NO_BLOCK /\ edge' = edge + 1
  BY DEF FingersMeet
<1>2. ~Idle
  BY <1>1 DEF CfgInv, DominatorInv
<1>3. Walk(succ, pred, idom, b, edge, newIdom, newIdom)
  BY <1>1, <1>2, RoundFacts
<1>4. Walk(succ, pred, idom, b, edge + 1, newIdom, NO_BLOCK)
  BY <1>1, <1>3, PassFacts, WalkMeets
<1> QED
  BY <1>1, <1>2, <1>4, WalkKept

(* The cursor moves to the next block, where the fingers start from rest.  *)
LEMMA CursorMoves ==
  ASSUME CfgInv, stage = "dominators", stage' = "dominators",
         UNCHANGED <<blockVars, postorder, frontier>>, changed' \in BOOLEAN,
         cursor' \in 0..Len(postorder), Tree(succ, idom'),
         edge' = 1, newIdom' = NO_BLOCK, other' = NO_BLOCK,
         ~changed' => \A k \in DOMAIN postorder : k > cursor' => Settled(succ, idom', postorder[k])
  PROVE  CfgInv'
<1>1. UNCHANGED <<succ, pred, postorder, frontier>>
  BY DEF blockVars
<1>2. DOMAIN idom' = DOMAIN idom
  BY DEF CfgInv, GraphInv, Tree
<1>3. StageInv' /\ GraphInv'
  BY <1>1, <1>2, KeepsGraph, PassFacts
<1>4. ~Idle' => Walk(succ, pred, idom', postorder[cursor'], 1, NO_BLOCK, NO_BLOCK)
  <2> SUFFICES ASSUME ~Idle' PROVE Walk(succ, pred, idom', postorder[cursor'], 1, NO_BLOCK, NO_BLOCK)
    OBVIOUS
  <2>1. cursor' # 0 /\ Len(postorder) \in Nat /\ DOMAIN postorder = 1..Len(postorder)
    BY PostorderFacts DEF Idle
  <2>2. cursor' \in DOMAIN postorder /\ cursor' > 0
    BY <2>1
  <2>3. postorder[cursor'] # EntryBlock
    BY <1>1, <2>2 DEF Idle
  <2>4. postorder[cursor'] \in DOMAIN succ \ {EntryBlock}
    BY <2>2, <2>3, PostorderFacts
  <2> QED
    BY <2>4, PassFacts, WalkStarts
<1>5. DominatorInv'
  BY <1>1, <1>4 DEF DominatorInv
<1> QED
  BY <1>1, <1>3, <1>5 DEF CfgInv, PostorderInv, FrontierInv, FrontiersCorrect

LEMMA SkipEntryStep ==
  ASSUME CfgInv, SkipEntry
  PROVE  CfgInv'
<1>1. /\ stage = "dominators" /\ cursor > 0 /\ postorder[cursor] = EntryBlock /\ cursor' = cursor - 1
      /\ stage' = "dominators"
      /\ UNCHANGED <<blockVars, postorder, idom, edge, newIdom, other, changed, frontier>>
  BY DEF SkipEntry
<1>2. /\ cursor \in 0..Len(postorder) /\ Tree(succ, idom) /\ Len(postorder) \in Nat /\ changed \in BOOLEAN
      /\ DOMAIN postorder = 1..Len(postorder)
      /\ ~changed => \A k \in DOMAIN postorder : k > cursor => Settled(succ, idom, postorder[k])
  BY <1>1, PostorderFacts DEF CfgInv, DominatorInv, StageInv
<1>3. edge = 1 /\ newIdom = NO_BLOCK /\ other = NO_BLOCK
  BY <1>1 DEF CfgInv, DominatorInv, Idle
<1>4. cursor' \in 0..Len(postorder)
  BY <1>1, <1>2
<1>5. \A k \in DOMAIN postorder : k > cursor' => k > cursor \/ k = cursor
  BY <1>1, <1>2
<1>6. Settled(succ, idom, postorder[cursor])
  BY <1>1 DEF Settled
<1>7. ~changed' => \A k \in DOMAIN postorder : k > cursor' => Settled(succ, idom', postorder[k])
  BY <1>1, <1>2, <1>5, <1>6
<1> QED
  BY <1>1, <1>2, <1>3, <1>4, <1>7, CursorMoves

LEMMA SetIdomStep ==
  ASSUME CfgInv, SetIdom
  PROVE  CfgInv'
<1> PICK b : b = postorder[cursor]
  OBVIOUS
<1>1. /\ stage = "dominators" /\ cursor > 0 /\ other = NO_BLOCK /\ b # EntryBlock /\ edge > Len(pred[b])
      /\ idom' = [idom EXCEPT ![b] = newIdom]
      /\ cursor' = cursor - 1 /\ edge' = 1 /\ newIdom' = NO_BLOCK /\ other' = NO_BLOCK
      /\ stage' = "dominators" /\ UNCHANGED <<blockVars, postorder, frontier>>
  BY DEF SetIdom
<1>2. changed' = (changed \/ newIdom # idom[b])
  BY DEF SetIdom
<1>3. changed' \in BOOLEAN /\ (~changed' => ~changed /\ newIdom = idom[b])
  BY <1>2 DEF CfgInv, StageInv
<1>4. /\ cursor \in 0..Len(postorder) /\ Tree(succ, idom) /\ Len(postorder) \in Nat
      /\ DOMAIN postorder = 1..Len(postorder)
      /\ ~changed => \A k \in DOMAIN postorder : k > cursor => Settled(succ, idom, postorder[k])
  BY <1>1, PostorderFacts DEF CfgInv, DominatorInv
<1>5. ~Idle
  <2>1. cursor # 0
    BY <1>1, <1>4
  <2> QED
    BY <1>1, <2>1 DEF Idle
<1>6. Walk(succ, pred, idom, b, edge, newIdom, NO_BLOCK)
  BY <1>1, <1>5, RoundFacts
<1>7. /\ Tree(succ, [idom EXCEPT ![b] = newIdom])
      /\ newIdom = idom[b] => [idom EXCEPT ![b] = newIdom] = idom /\ Settled(succ, idom, b)
  BY <1>1, <1>4, <1>6, PassFacts, WalkEnds
<1>8. cursor' \in 0..Len(postorder)
  BY <1>1, <1>4
<1>9. \A k \in DOMAIN postorder : k > cursor' => k > cursor \/ k = cursor
  BY <1>1, <1>4
<1>10. ~changed' => \A k \in DOMAIN postorder : k > cursor' => Settled(succ, idom', postorder[k])
  BY <1>1, <1>3, <1>4, <1>7, <1>9
<1>11. Tree(succ, idom')
  BY <1>1, <1>7
<1> QED
  BY <1>1, <1>3, <1>8, <1>10, <1>11, CursorMoves

LEMMA EndSweepStep ==
  ASSUME CfgInv, EndSweep
  PROVE  CfgInv'
<1>1. /\ stage = "dominators" /\ cursor = 0 /\ UNCHANGED <<blockVars, postorder, idom, edge, newIdom, other, frontier>>
      /\ \/ changed /\ cursor' = Len(postorder) /\ changed' = FALSE /\ stage' = stage
         \/ ~changed /\ cursor' = 1 /\ stage' = "frontiers" /\ changed' = changed
  BY DEF EndSweep
<1>2. /\ Tree(succ, idom) /\ Len(postorder) \in Nat /\ changed \in BOOLEAN
      /\ edge = 1 /\ newIdom = NO_BLOCK /\ other = NO_BLOCK
      /\ DOMAIN postorder = 1..Len(postorder)
      /\ ~changed => \A k \in DOMAIN postorder : k > cursor => Settled(succ, idom, postorder[k])
  BY <1>1, PostorderFacts DEF CfgInv, DominatorInv, StageInv, Idle
<1>3. CASE changed
  <2>1. cursor' \in 0..Len(postorder) /\ cursor' = Len(postorder) /\ changed' = FALSE /\ stage' = "dominators"
    BY <1>1, <1>2, <1>3
  <2>2. \A k \in DOMAIN postorder : ~(k > cursor')
    BY <1>2, <2>1
  <2> QED
    BY <1>1, <1>2, <2>1, <2>2, CursorMoves
<1>4. CASE ~changed
  <2>1. stage' = "frontiers" /\ cursor' = 1 /\ changed' \in BOOLEAN
    BY <1>1, <1>2, <1>4
  <2>2. StageInv' /\ GraphInv'
    BY <1>1, <2>1, KeepsGraph, PassFacts
  <2>3. \A b \in DOMAIN succ : Settled(succ, idom, b)
    <3>1. \A k \in DOMAIN postorder : Settled(succ, idom, postorder[k])
      <4>1. \A k \in DOMAIN postorder : k > cursor
        BY <1>1, <1>2
      <4> QED
        BY <1>2, <1>4, <4>1
    <3> QED
      BY <1>1, <3>1, PostorderFacts
  <2>4. Complete(succ, idom)
    BY <1>1, <1>2, <2>3, PassFacts, SettledIsImmediate
  <2>5. Filled(succ, pred, frontier, 1, 1, NO_BLOCK)
    <3>1. \A b \in DOMAIN succ : frontier[b] = {}
      BY <1>1 DEF CfgInv, GraphInv
    <3> QED
      BY <1>1, <3>1, PassFacts, NothingIsFilled
  <2>6. 1 \in 1..(Cardinality(DOMAIN succ) + 1)
    <3>1. Cardinality(DOMAIN succ) \in Nat
      BY <1>1, PassFacts, GraphDomain
    <3> QED
      BY <3>1
  <2>7. UNCHANGED <<succ, pred, idom, frontier, postorder, edge, other>>
    BY <1>1 DEF blockVars
  <2>8. FrontierInv'
    BY <1>2, <2>1, <2>4, <2>5, <2>6, <2>7 DEF FrontierInv, Runner, FrontiersCorrect
  <2>9. PostorderInv' /\ DominatorInv'
    BY <1>1, <2>1, <2>7 DEF CfgInv, PostorderInv, DominatorInv
  <2> QED
    BY <2>2, <2>8, <2>9 DEF CfgInv
<1> QED
  BY <1>3, <1>4

(* A step of the frontier pass.                                            *)
LEMMA FrontierKept ==
  ASSUME CfgInv, stage = "frontiers", stage' = "frontiers",
         UNCHANGED <<blockVars, stack, postorder, idom, newIdom, changed, children>>,
         frontier' \in [DOMAIN succ -> SUBSET DOMAIN succ],
         cursor' \in 1..(Cardinality(DOMAIN succ) + 1), edge' \in Nat \ {0},
         Runner(succ, pred, idom, cursor', edge', other'),
         Filled(succ, pred, frontier', cursor', edge', other')
  PROVE  CfgInv'
<1>1. UNCHANGED <<succ, pred, postorder, idom, changed>>
  BY DEF blockVars
<1>2. StageInv' /\ GraphInv'
  BY <1>1, KeepsGraph, PassFacts DEF CfgInv, StageInv
<1>3. FrontierInv'
  BY <1>1 DEF CfgInv, FrontierInv, FrontiersCorrect
<1> QED
  BY <1>1, <1>2, <1>3 DEF CfgInv, PostorderInv, DominatorInv

(* The frontier pass, from its invariant.                                  *)
LEMMA JoinFacts ==
  ASSUME CfgInv, stage = "frontiers"
  PROVE  /\ IsGraph(succ) /\ Predecessors(succ, pred) /\ Complete(succ, idom)
         /\ Blocks = DOMAIN succ /\ Cardinality(DOMAIN succ) \in Nat
         /\ frontier \in [DOMAIN succ -> SUBSET DOMAIN succ]
         /\ cursor \in 1..(Cardinality(DOMAIN succ) + 1) /\ cursor \in Nat /\ edge \in Nat \ {0}
         /\ Runner(succ, pred, idom, cursor, edge, other)
         /\ Filled(succ, pred, frontier, cursor, edge, other)
         /\ cursor <= Cardinality(Blocks) => cursor \in DOMAIN succ
<1>1. IsGraph(succ) /\ Predecessors(succ, pred) /\ Blocks = DOMAIN succ /\ frontier \in [DOMAIN succ -> SUBSET DOMAIN succ]
  BY PassFacts
<1>2. Cardinality(DOMAIN succ) \in Nat /\ DOMAIN succ = 1..Cardinality(DOMAIN succ)
  BY <1>1, GraphDomain
<1>3. /\ Complete(succ, idom) /\ cursor \in 1..(Cardinality(DOMAIN succ) + 1) /\ edge \in Nat \ {0}
      /\ Runner(succ, pred, idom, cursor, edge, other)
      /\ Filled(succ, pred, frontier, cursor, edge, other)
  BY DEF CfgInv, FrontierInv
<1> PICK n \in Nat : n = Cardinality(DOMAIN succ)
  BY <1>2
<1>4. cursor \in Nat /\ (cursor <= n => cursor \in 1..n)
  BY <1>3
<1> QED
  BY <1>1, <1>2, <1>3, <1>4

LEMMA PassOverStep ==
  ASSUME CfgInv, PassOver
  PROVE  CfgInv'
<1>1. /\ stage = "frontiers" /\ stage' = "frontiers" /\ cursor <= Cardinality(Blocks) /\ other = NO_BLOCK
      /\ Len(pred[cursor]) < 2 \/ edge > Len(pred[cursor])
      /\ cursor' = cursor + 1 /\ edge' = 1 /\ other' = NO_BLOCK
      /\ UNCHANGED <<blockVars, stack, postorder, idom, newIdom, changed, frontier, children>>
  BY DEF PassOver
<1>2. Filled(succ, pred, frontier, cursor + 1, 1, NO_BLOCK)
  <2>1. cursor \in DOMAIN succ /\ edge \in Nat /\ Filled(succ, pred, frontier, cursor, edge, NO_BLOCK)
    BY <1>1, JoinFacts
  <2> QED
    BY <1>1, <2>1, JoinFacts, FilledPassesOver
<1>3. cursor' \in 1..(Cardinality(DOMAIN succ) + 1)
  <2> PICK n \in Nat : n = Cardinality(DOMAIN succ)
    BY <1>1, JoinFacts
  <2>1. cursor \in Nat /\ cursor <= n
    BY <1>1, JoinFacts
  <2>2. cursor + 1 \in 1..(n + 1)
    BY <2>1
  <2> QED
    BY <1>1, <2>2
<1>4. Runner(succ, pred, idom, cursor', edge', NO_BLOCK)
  BY DEF Runner
<1> QED
  BY <1>1, <1>2, <1>3, <1>4, JoinFacts, FrontierKept

LEMMA StartRunnerStep ==
  ASSUME CfgInv, StartRunner
  PROVE  CfgInv'
<1>1. /\ stage = "frontiers" /\ stage' = "frontiers" /\ cursor <= Cardinality(Blocks) /\ other = NO_BLOCK
      /\ edge <= Len(pred[cursor]) /\ edge' = edge + 1 /\ cursor' = cursor
      /\ other' = IF pred[cursor][edge] = idom[cursor] THEN NO_BLOCK ELSE pred[cursor][edge]
      /\ UNCHANGED <<blockVars, stack, postorder, idom, newIdom, changed, frontier, children>>
  BY DEF StartRunner
<1>2. cursor \in DOMAIN succ /\ edge \in Nat /\ edge # 0 /\ Filled(succ, pred, frontier, cursor, edge, NO_BLOCK)
  BY <1>1, JoinFacts
<1> PICK c \in DOMAIN succ : c = cursor
  BY <1>2
<1>3. edge \in DOMAIN pred[c]
  <2>1. DOMAIN pred[c] = 1..Len(pred[c]) /\ Len(pred[c]) \in Nat
    BY <1>1, JoinFacts, PredecessorEdges
  <2> QED
    BY <1>1, <1>2, <2>1
<1> PICK o : o = other'
  OBVIOUS
<1>4. Runner(succ, pred, idom, c, edge + 1, o) /\ Filled(succ, pred, frontier, c, edge + 1, o)
  BY <1>1, <1>2, <1>3, JoinFacts, RunnerStarts
<1>5. edge' \in Nat \ {0} /\ cursor' \in 1..(Cardinality(DOMAIN succ) + 1)
  BY <1>1, <1>2, JoinFacts
<1> QED
  BY <1>1, <1>4, <1>5, JoinFacts, FrontierKept

LEMMA RunUpStep ==
  ASSUME CfgInv, RunUp
  PROVE  CfgInv'
<1>1. /\ stage = "frontiers" /\ stage' = "frontiers" /\ other # NO_BLOCK
      /\ frontier' = [frontier EXCEPT ![other] = @ \cup {cursor}]
      /\ other' = IF idom[other] = idom[cursor] THEN NO_BLOCK ELSE idom[other]
      /\ cursor' = cursor /\ edge' = edge
      /\ UNCHANGED <<blockVars, stack, postorder, idom, newIdom, changed, children>>
  BY DEF RunUp
<1> PICK up : up = other'
  OBVIOUS
<1>2. /\ Runner(succ, pred, idom, cursor, edge, up)
      /\ Filled(succ, pred, [frontier EXCEPT ![other] = @ \cup {cursor}], cursor, edge, up)
  BY <1>1, JoinFacts, RunnerClimbs
<1>3. frontier' \in [DOMAIN succ -> SUBSET DOMAIN succ]
  <2>1. cursor \in DOMAIN succ
    BY <1>1, JoinFacts DEF Runner
  <2> QED
    BY <1>1, <2>1, JoinFacts
<1> QED
  BY <1>1, <1>2, <1>3, JoinFacts, FrontierKept

LEMMA BuildChildrenStep ==
  ASSUME CfgInv, BuildChildren
  PROVE  CfgInv'
<1>1. /\ stage = "frontiers" /\ stage' = "done" /\ cursor > Cardinality(Blocks)
      /\ UNCHANGED <<blockVars, succ, pred, postorder, idom, frontier, cursor, edge, other, changed>>
  BY DEF BuildChildren, blockVars, walkVars
<1>2. StageInv' /\ GraphInv'
  BY <1>1, KeepsGraph, PassFacts DEF CfgInv, StageInv
<1>3. FrontiersCorrect'
  <2>1. \A a \in Reachable(succ) :
          frontier[a] \ {EntryBlock} =
            {b \in Reachable(succ) \ {EntryBlock} :
               /\ \E q \in Reachable(succ) : q \in EdgesTo(succ, b) /\ Dominates(succ, a, q)
               /\ ~(a # b /\ Dominates(succ, a, b))}
    <3>1. cursor \in Nat /\ cursor > Cardinality(DOMAIN succ)
      BY <1>1, JoinFacts
    <3> QED
      BY <1>1, <3>1, JoinFacts, FilledIsFrontier
  <2> QED
    BY <1>1, <2>1 DEF FrontiersCorrect
<1>4. FrontierInv'
  BY <1>1, <1>3 DEF CfgInv, FrontierInv
<1> QED
  BY <1>1, <1>2, <1>4 DEF CfgInv, PostorderInv, DominatorInv

LEMMA NothingHappens ==
  ASSUME CfgInv, UNCHANGED vars
  PROVE  CfgInv'
<1>1. UNCHANGED <<ir, instToBlock, succ, pred, stage, stack, postorder, idom, cursor, edge, newIdom, other, changed,
                  frontier>>
  BY DEF vars, blockVars, walkVars
<1>2. Blocks' = Blocks
  BY <1>1 DEF Blocks
<1> QED
  BY <1>1, <1>2 DEF CfgInv, StageInv, GraphInv, PostorderInv, DominatorInv, FrontierInv, FrontiersCorrect, Idle

----------------------------------------------------------------------------

(* The builder keeps its invariant: the search finishes dominators last,   *)
(* every strict dominator of a block dominates the dominator found so far  *)
(* and both fingers, and a sweep leaves the blocks it passed settled until *)
(* one changes (PostorderDFS to ComputeDominanceFrontiers).                *)
THEOREM BuilderCorrect == Spec => []CfgInv
<1>1. CfgInv /\ [Next]_vars => CfgInv'
  <2> SUFFICES ASSUME CfgInv, [Next]_vars PROVE CfgInv'
    OBVIOUS
  <2>1. CASE Build
    BY <2>1, BuildStep
  <2>2. CASE Descend
    BY <2>2, DescendStep
  <2>3. CASE FinishBlock
    BY <2>3, FinishBlockStep
  <2>4. CASE FinishPostorder
    BY <2>4, FinishPostorderStep
  <2>5. CASE SkipEntry
    BY <2>5, SkipEntryStep
  <2>6. CASE TakePredecessor
    BY <2>6, TakePredecessorStep
  <2>7. CASE Climb
    BY <2>7, ClimbStep
  <2>8. CASE FingersMeet
    BY <2>8, FingersMeetStep
  <2>9. CASE SetIdom
    BY <2>9, SetIdomStep
  <2>10. CASE EndSweep
    BY <2>10, EndSweepStep
  <2>11. CASE PassOver
    BY <2>11, PassOverStep
  <2>12. CASE StartRunner
    BY <2>12, StartRunnerStep
  <2>13. CASE RunUp
    BY <2>13, RunUpStep
  <2>14. CASE BuildChildren
    BY <2>14, BuildChildrenStep
  <2>15. CASE UNCHANGED vars
    BY <2>15, NothingHappens
  <2>16. CASE Done
    BY <2>15, <2>16 DEF Done
  <2> QED
    BY <2>1, <2>2, <2>3, <2>4, <2>5, <2>6, <2>7, <2>8, <2>9, <2>10, <2>11, <2>12, <2>13, <2>14, <2>15, <2>16 DEF Next
<1> QED
  BY <1>1, CfgInvInit, PTL DEF Spec

(* For every program the dominators found are those of paths, irreducible  *)
(* loops and unreachable code included (ComputeDominators, lines 391-438). *)
THEOREM DominatorsAreImmediate == Spec => []DominatorsCorrect
<1>1. CfgInv => DominatorsCorrect
  <2> SUFFICES ASSUME CfgInv, stage \in {"frontiers", "done"} PROVE Immediate(succ, idom) /\ Blocks = DOMAIN succ
    BY DEF DominatorsCorrect, Immediate
  <2>1. Complete(succ, idom) /\ stage # "build"
    BY DEF CfgInv, FrontierInv
  <2> QED
    BY <2>1, PassFacts DEF Complete
<1> QED
  BY <1>1, BuilderCorrect, PTL

(* Intersect never steps off the tree (lines 378-389).                     *)
THEOREM FingersStay == Spec => []FingersStayInTree
<1>1. CfgInv => FingersStayInTree
  <2> SUFFICES ASSUME CfgInv, stage = "dominators", other # NO_BLOCK
               PROVE  newIdom # NO_BLOCK /\ Known(idom, newIdom) /\ Known(idom, other)
    BY DEF FingersStayInTree, Known
  <2>1. ~Idle
    BY DEF CfgInv, DominatorInv
  <2> QED
    BY <2>1, RoundFacts DEF Walk, Finger
<1> QED
  BY <1>1, BuilderCorrect, PTL

(* The frontiers are where dominance ends (lines 440-533).                 *)
THEOREM FrontiersAreWhereDominanceEnds == Spec => []FrontiersCorrect
<1>1. CfgInv => FrontiersCorrect
  BY DEF CfgInv, FrontierInv
<1> QED
  BY <1>1, BuilderCorrect, PTL

----------------------------------------------------------------------------
(* The blocks mean the program.                                            *)

Meaning(p, toBlock, g, P) ==
  /\ \A i \in DOMAIN p : IsTerminator(p[i].op) => i = LastOf(p, toBlock, toBlock[i])
  /\ \A i \in DOMAIN p : \A t \in Flows(p, i) :
       \/ toBlock[t] = toBlock[i] /\ t = i + 1 /\ ~IsTerminator(p[i].op)
       \/ i = LastOf(p, toBlock, toBlock[i]) /\ t = FirstOf(p, toBlock, toBlock[t])
  /\ \A b \in DOMAIN g : {FirstOf(p, toBlock, g[b][k]) : k \in {j \in DOMAIN g[b] : g[b][j] # NO_BLOCK}}
                         = Flows(p, LastOf(p, toBlock, b))
  /\ \A b \in DOMAIN g : {P[b][k] : k \in DOMAIN P[b]} = EdgesTo(g, b)

MeaningInv == stage # "build" => Blocks = DOMAIN succ /\ Meaning(ir, instToBlock, succ, pred)

LEMMA TerminatorsLead ==
  ASSUME NEW p \in Programs, NEW i \in DOMAIN p, IsTerminator(p[i].op)
  PROVE  i + 1 \in Leaders(p) /\ Flows(p, i) \subseteq Leaders(p)
<1> DEFINE After(j) == {p[j].targets[k] : k \in DOMAIN p[j].targets} \cup {j + 1}
<1>1. After(i) \subseteq Leaders(p)
  <2> HIDE DEF After
  <2>1. After(i) \in {After(j) : j \in {m \in DOMAIN p : IsTerminator(p[m].op)}}
    OBVIOUS
  <2>2. UNION {After(j) : j \in {m \in DOMAIN p : IsTerminator(p[m].op)}} \subseteq Leaders(p)
    BY DEF Leaders, After
  <2> QED
    BY <2>1, <2>2
<1>2. Flows(p, i) \subseteq After(i)
  BY DEF Flows
<1> QED
  BY <1>1, <1>2

LEMMA BuildMeansTheProgram ==
  ASSUME StageInv, Build
  PROVE  MeaningInv'
<1> PICK p \in Programs : p = ir
  BY DEF StageInv
<1> PICK count : count = BlockOf(p, Len(p))
  OBVIOUS
<1> DEFINE last(b) == CHOOSE i \in DOMAIN p : BlockOf(p, i) = b
                                              /\ (i = Len(p) \/ BlockOf(p, i + 1) # b)
<1> PICK toBlock : toBlock = instToBlock'
  OBVIOUS
<1> PICK g : g = succ'
  OBVIOUS
<1> PICK P : P = pred'
  OBVIOUS
<1>1. \A b \in 1..count : \E i \in DOMAIN p : BlockOf(p, i) = b /\ (i = Len(p) \/ BlockOf(p, i + 1) # b)
  BY BlocksAreNumbered
<1>2. toBlock = [i \in DOMAIN p |-> BlockOf(p, i)]
  BY DEF Build
<1>3. g = [b \in 1..count |-> SuccessorsOf(p, toBlock, last(b), count)]
  BY DEF Build
<1>4. DOMAIN p = 1..Len(p) /\ Len(p) \in Nat
  BY ProgramFacts
<1>5. /\ \A t \in DOMAIN p : t \in Leaders(p) => FirstOf(p, toBlock, toBlock[t]) = t
      /\ \A i \in DOMAIN p : i = Len(p) \/ i + 1 \in Leaders(p) => LastOf(p, toBlock, toBlock[i]) = i
  BY <1>2, Boundaries
<1>6. \A i \in DOMAIN p : i # Len(p) =>
        i \in Nat /\ i + 1 \in DOMAIN p /\ BlockOf(p, i + 1) = IF i + 1 \in Leaders(p) THEN BlockOf(p, i) + 1 ELSE BlockOf(p, i)
  BY <1>4, NextBlock
<1>7. GraphInv' /\ stage' # "build" /\ ir' = p
  BY BuildMakesGraph DEF Build
<1>8. \A i \in DOMAIN p : IsTerminator(p[i].op) => i = LastOf(p, toBlock, toBlock[i])
  BY <1>5, TerminatorsLead
<1>9. ASSUME NEW i \in DOMAIN p, NEW t \in Flows(p, i)
      PROVE  \/ toBlock[t] = toBlock[i] /\ t = i + 1 /\ ~IsTerminator(p[i].op)
             \/ i = LastOf(p, toBlock, toBlock[i]) /\ t = FirstOf(p, toBlock, toBlock[t])
  <2>1. CASE IsTerminator(p[i].op)
    <3>1. t \in Leaders(p) /\ t \in DOMAIN p
      BY <2>1, TerminatorsLead DEF Flows
    <3> QED
      BY <1>5, <1>8, <2>1, <3>1
  <2>2. CASE ~IsTerminator(p[i].op)
    <3>1. t = i + 1 /\ t \in DOMAIN p /\ i # Len(p)
      BY <1>4, <2>2 DEF Flows
    <3>2. CASE i + 1 \in Leaders(p)
      BY <1>5, <3>1, <3>2
    <3>3. CASE i + 1 \notin Leaders(p)
      BY <1>2, <1>6, <2>2, <3>1, <3>3
    <3> QED
      BY <3>2, <3>3
  <2> QED
    BY <2>1, <2>2
<1>10. ASSUME NEW b \in DOMAIN g
       PROVE  {FirstOf(p, toBlock, g[b][k]) : k \in {j \in DOMAIN g[b] : g[b][j] # NO_BLOCK}}
              = Flows(p, LastOf(p, toBlock, b))
  <2> PICK l \in DOMAIN p : l = last(b) /\ BlockOf(p, l) = b /\ (l = Len(p) \/ BlockOf(p, l + 1) # b)
    BY <1>1, <1>3
  <2> HIDE DEF last
  <2>1. l = Len(p) \/ l + 1 \in Leaders(p)
    BY <1>6
  <2>2. LastOf(p, toBlock, b) = l
    BY <1>2, <1>5, <2>1
  <2> PICK s : s = g[b]
    OBVIOUS
  <2> PICK F : F = Flows(p, l)
    OBVIOUS
  <2>3. s = SuccessorsOf(p, toBlock, l, count)
    BY <1>3
  <2>4. ToSet(s) \ {NO_BLOCK} = {toBlock[t] : t \in F}
    <3>1. ToSet(SuccessorsOf(p, toBlock, l, BlockOf(p, Len(p)))) \ {NO_BLOCK} = {toBlock[t] : t \in Flows(p, l)}
      BY <1>2, <2>1, SuccessorsMean
    <3> QED
      BY <2>3, <3>1
  <2>5. \A t \in F : FirstOf(p, toBlock, toBlock[t]) = t
    <3>1. F \subseteq Leaders(p) /\ F \subseteq DOMAIN p
      <4>1. CASE IsTerminator(p[l].op)
        BY <4>1, TerminatorsLead DEF Flows
      <4>2. CASE ~IsTerminator(p[l].op)
        <5>1. \A t \in F : t = l + 1 /\ t \in DOMAIN p
          BY <4>2 DEF Flows
        <5>2. \A t \in F : l # Len(p)
          BY <1>4, <5>1
        <5> QED
          BY <2>1, <5>1, <5>2
      <4> QED
        BY <4>1, <4>2
    <3> QED
      BY <1>5, <3>1
  <2>6. {FirstOf(p, toBlock, s[k]) : k \in {j \in DOMAIN s : s[j] # NO_BLOCK}}
        = {FirstOf(p, toBlock, x) : x \in ToSet(s) \ {NO_BLOCK}}
    BY DEF ToSet
  <2>7. {FirstOf(p, toBlock, x) : x \in ToSet(s) \ {NO_BLOCK}} = F
    BY <2>4, <2>5
  <2>8. {FirstOf(p, toBlock, g[b][k]) : k \in {j \in DOMAIN g[b] : g[b][j] # NO_BLOCK}} = F
    BY ONLY s = g[b], <2>6, <2>7
  <2> QED
    BY ONLY <2>2, <2>8, F = Flows(p, l)
<1>11. \A b \in DOMAIN g : {P[b][k] : k \in DOMAIN P[b]} = EdgesTo(g, b)
  BY <1>7 DEF GraphInv, Predecessors, ToSet
<1>12. Meaning(p, toBlock, g, P)
  BY <1>8, <1>9, <1>10, <1>11 DEF Meaning
<1>13. Blocks' = DOMAIN g
  BY <1>7 DEF GraphInv
<1> QED
  BY <1>7, <1>12, <1>13 DEF MeaningInv

(* The blocks mean what the linear program means, for every program: dead  *)
(* code after a return and targets outside the program included            *)
(* (FindLeaders to ComputePredecessors, lines 97-337).                     *)
THEOREM BlocksKeepTheMeaning == Spec => []BlocksMeanTheProgram
<1>1. Init => MeaningInv
  BY DEF Init, MeaningInv
<1>2. StageInv /\ MeaningInv /\ [Next]_vars => MeaningInv'
  <2> SUFFICES ASSUME StageInv, MeaningInv, [Next]_vars PROVE MeaningInv'
    OBVIOUS
  <2>1. CASE Build
    BY <2>1, BuildMeansTheProgram
  <2>2. ASSUME UNCHANGED blockVars, stage # "build" \/ stage' = stage PROVE MeaningInv'
    <3>1. ir' = ir /\ instToBlock' = instToBlock /\ succ' = succ /\ pred' = pred
      BY <2>2 DEF blockVars
    <3>2. Blocks' = Blocks
      BY <3>1 DEF Blocks
    <3> QED
      BY <2>2, <3>1, <3>2 DEF MeaningInv
  <2>3. CASE Descend \/ FinishBlock \/ FinishPostorder
    BY <2>2, <2>3 DEF Descend, FinishBlock, FinishPostorder
  <2>4. CASE SkipEntry \/ TakePredecessor \/ Climb \/ FingersMeet \/ SetIdom \/ EndSweep
    BY <2>2, <2>4 DEF SkipEntry, TakePredecessor, Climb, FingersMeet, SetIdom, EndSweep
  <2>5. CASE PassOver \/ StartRunner \/ RunUp \/ BuildChildren
    BY <2>2, <2>5 DEF PassOver, StartRunner, RunUp, BuildChildren
  <2>6. CASE UNCHANGED vars
    BY <2>2, <2>6 DEF vars
  <2>7. CASE Done
    BY <2>6, <2>7 DEF Done
  <2> QED
    BY <2>1, <2>3, <2>4, <2>5, <2>6, <2>7 DEF Next
<1>3. MeaningInv => BlocksMeanTheProgram
  <2> SUFFICES ASSUME MeaningInv, stage = "done" PROVE BlocksMeanTheProgram
    BY DEF BlocksMeanTheProgram
  <2>1. Blocks = DOMAIN succ /\ Meaning(ir, instToBlock, succ, pred)
    BY DEF MeaningInv
  <2>2. \A b : LastInst(b) = LastOf(ir, instToBlock, b) /\ FirstInst(b) = FirstOf(ir, instToBlock, b)
    BY DEF LastInst, FirstInst, LastOf, FirstOf
  <2>3. \A i : FlowsTo(i) = Flows(ir, i)
    BY DEF FlowsTo, Flows
  <2> QED
    BY <2>1, <2>2, <2>3 DEF BlocksMeanTheProgram, Meaning
<1>4. CfgInv => StageInv
  BY DEF CfgInv
<1> QED
  BY <1>1, <1>2, <1>3, <1>4, BuilderCorrect, PTL DEF Spec
=============================================================================
