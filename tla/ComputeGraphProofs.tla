------------------------- MODULE ComputeGraphProofs -------------------------
(***************************************************************************)
(* What holds of ComputeGraph for every set of blocks, every configuration *)
(* and every number of nodes: the type invariant, that a node is never     *)
(* ordered before a node it depends on, and that CompileComputeGraph       *)
(* implements ComputeSchedule: a node is handed out only after the nodes   *)
(* it depends on, a block is accepted only if it is valid and rejected     *)
(* only if it is not.                                                      *)
(***************************************************************************)
EXTENDS ComputeGraph, FiniteSetTheorems, WellFoundedInduction, TLAPS

(* Edges whose source has not been dequeued, or has been and whose turn in *)
(* the inner loop has not come.                                            *)
Pending == {e \in Edges : e[1][1] \notin Elems(topoOrder) \/ e \in remaining}
PendingInto(v) == {e \in Pending : e[2][1] = v}

(* The worklist: topoOrder is the part of ready already dequeued, no node  *)
(* enters it twice, and a node enters it after all its sources left it.    *)
WorklistInv ==
  /\ Len(topoOrder) <= Len(ready)
  /\ \A k \in 1..Len(topoOrder) : topoOrder[k] = ready[k]
  /\ \A j, k \in 1..Len(ready) : ready[j] = ready[k] => j = k
  /\ \A k \in 1..Len(ready) : \A e \in Edges :
       e[2][1] = ready[k] => \E j \in 1..(k - 1) : j <= Len(topoOrder) /\ topoOrder[j] = e[1][1]

(* The counters: inDegree is the number of pending edges, and the nodes in *)
(* ready are those that have none.                                         *)
CountInv ==
  stage = "sort" =>
    /\ \A v \in DOMAIN graph : inDegree[v] = Cardinality(PendingInto(v))
    /\ \A v \in DOMAIN graph : (\E k \in 1..Len(ready) : ready[k] = v) <=> PendingInto(v) = {}
    /\ \A e \in remaining : \E k \in 1..Len(topoOrder) : topoOrder[k] = e[1][1]

EarlyInv == stage \in {"nodes", "outputs"} => ready = <<>> /\ topoOrder = <<>> /\ remaining = {}

SortInv == TypeOK /\ EarlyInv /\ WorklistInv /\ CountInv

----------------------------------------------------------------------------
(* Facts about the edges of a well-formed block.                           *)

LEMMA GraphFacts ==
  ASSUME graph \in Graphs
  PROVE  /\ DOMAIN graph = 1..Len(graph) /\ Len(graph) \in Nat
         /\ \A v \in DOMAIN graph : /\ graph[v] \in Node
                                    /\ DOMAIN graph[v].inputs = 1..Len(graph[v].inputs)
                                    /\ DOMAIN graph[v].outputs = 1..Len(graph[v].outputs)
                                    /\ Len(graph[v].inputs) \in Nat
                                    /\ Len(graph[v].outputs) \in Nat
<1>1. graph \in Seq(Node)
  BY GraphsAssumption
<1>2. \A v \in DOMAIN graph : graph[v] \in Node
  BY <1>1
<1>3. \A v \in DOMAIN graph :
        /\ graph[v].inputs \in Seq([name : Resources, access : {"ReadOnly", "WriteOnly", "ReadWrite"}])
        /\ graph[v].outputs \in Seq(Resources)
  BY <1>2 DEF Node
<1>4. \A v \in DOMAIN graph :
        /\ DOMAIN graph[v].inputs = 1..Len(graph[v].inputs) /\ Len(graph[v].inputs) \in Nat
        /\ DOMAIN graph[v].outputs = 1..Len(graph[v].outputs) /\ Len(graph[v].outputs) \in Nat
  BY <1>3
<1> QED
  BY <1>1, <1>2, <1>4

LEMMA EdgeFacts ==
  \A e \in Edges : /\ e[1][1] \in DOMAIN graph /\ e[2][1] \in DOMAIN graph
                   /\ e[1][1] # e[2][1]
BY DEF Edges, OutSlots, InSlots

LEMMA AppendFacts ==
  ASSUME NEW S, NEW s \in Seq(S), NEW x \in S
  PROVE  /\ Append(s, x) \in Seq(S) /\ Len(Append(s, x)) = Len(s) + 1
         /\ Append(s, x)[Len(s) + 1] = x
         /\ \A k \in 1..Len(s) : Append(s, x)[k] = s[k]
OBVIOUS

LEMMA ElemsFacts ==
  ASSUME NEW S, NEW s \in Seq(S)
  PROVE  \A x : x \in Elems(s) <=> \E k \in 1..Len(s) : s[k] = x
BY DEF Elems

LEMMA ImageFinite ==
  ASSUME NEW S, IsFiniteSet(S), NEW f, DOMAIN f = S
  PROVE  IsFiniteSet({f[x] : x \in S})
<1> DEFINE g == [x \in S |-> f[x]]
<1>1. g \in Surjection(S, {f[x] : x \in S})
  BY DEF Surjection
<1> QED
  BY <1>1, FS_Surjection

LEMMA SlotsFinite ==
  ASSUME graph \in Graphs
  PROVE  IsFiniteSet(OutSlots) /\ IsFiniteSet(InSlots)
<1> DEFINE OutOf(v) == {<<v, o>> : o \in DOMAIN graph[v].outputs}
           InOf(v) == {<<v, i>> : i \in DOMAIN graph[v].inputs}
<1>1. IsFiniteSet(DOMAIN graph)
  BY GraphFacts, FS_Interval
<1>2. ASSUME NEW v \in DOMAIN graph
      PROVE  IsFiniteSet(OutOf(v)) /\ IsFiniteSet(InOf(v))
  <2>1. IsFiniteSet(DOMAIN graph[v].outputs) /\ IsFiniteSet(DOMAIN graph[v].inputs)
    <3>1. \A n \in Nat : IsFiniteSet(1..n)
      BY FS_Interval
    <3> QED
      BY <3>1, GraphFacts
  <2>2. IsFiniteSet({v} \X DOMAIN graph[v].outputs) /\ IsFiniteSet({v} \X DOMAIN graph[v].inputs)
    BY <2>1, FS_Product, FS_Singleton
  <2>3. OutOf(v) \subseteq {v} \X DOMAIN graph[v].outputs /\ InOf(v) \subseteq {v} \X DOMAIN graph[v].inputs
    OBVIOUS
  <2> QED
    BY <2>2, <2>3, FS_Subset
<1> DEFINE outs == [v \in DOMAIN graph |-> OutOf(v)]
           ins == [v \in DOMAIN graph |-> InOf(v)]
<1> HIDE DEF OutOf, InOf
<1>3. IsFiniteSet({OutOf(v) : v \in DOMAIN graph}) /\ IsFiniteSet({InOf(v) : v \in DOMAIN graph})
  <2>1. /\ {OutOf(v) : v \in DOMAIN graph} = {outs[v] : v \in DOMAIN graph}
        /\ {InOf(v) : v \in DOMAIN graph} = {ins[v] : v \in DOMAIN graph}
    OBVIOUS
  <2>2. IsFiniteSet({outs[v] : v \in DOMAIN graph}) /\ IsFiniteSet({ins[v] : v \in DOMAIN graph})
    <3>1. DOMAIN outs = DOMAIN graph /\ DOMAIN ins = DOMAIN graph
      OBVIOUS
    <3> HIDE DEF outs, ins
    <3> QED
      BY <1>1, <3>1, ImageFinite
  <2> QED
    BY <2>1, <2>2
<1>4. IsFiniteSet(UNION {OutOf(v) : v \in DOMAIN graph}) /\ IsFiniteSet(UNION {InOf(v) : v \in DOMAIN graph})
  BY <1>2, <1>3, FS_UNION
<1> QED
  BY <1>4 DEF OutOf, InOf, OutSlots, InSlots

LEMMA EdgesFinite ==
  ASSUME graph \in Graphs
  PROVE  /\ IsFiniteSet(Edges)
         /\ \A S \in SUBSET Edges : IsFiniteSet(S) /\ Cardinality(S) \in Nat
<1>1. IsFiniteSet(OutSlots \X InSlots)
  BY SlotsFinite, FS_Product
<1>2. IsFiniteSet(Edges)
  BY <1>1, FS_Subset DEF Edges
<1> QED
  BY <1>2, FS_Subset, FS_CardinalityType

LEMMA EdgesConstant == UNCHANGED graph => UNCHANGED <<Edges, Roots>> /\ \A v : EdgesFrom(v)' = EdgesFrom(v) /\ EdgesInto(v)' = EdgesInto(v)
BY DEF Edges, OutSlots, InSlots, Roots, EdgesFrom, EdgesInto

----------------------------------------------------------------------------
(* The invariant holds initially and every step keeps it.                  *)

LEMMA SortInvInit == Init => SortInv
<1> SUFFICES ASSUME Init PROVE SortInv
  OBVIOUS
<1>1. TypeOK
  BY DEF Init, TypeOK
<1>2. EarlyInv /\ CountInv
  BY DEF Init, EarlyInv, CountInv
<1>3. WorklistInv
  BY DEF Init, WorklistInv
<1> QED
  BY <1>1, <1>2, <1>3 DEF SortInv

(* Steps outside the sorting loop leave the worklist alone.                *)
LEMMA QuietStep ==
  ASSUME SortInv, UNCHANGED <<graph, sortVars>>, TypeOK',
         stage' # stage => stage' # "sort" /\ stage' # "nodes" /\ (stage' = "outputs" => stage = "nodes")
  PROVE  SortInv'
<1>1. UNCHANGED Edges
  BY EdgesConstant
<1>2. UNCHANGED <<graph, inDegree, ready, topoOrder, remaining>>
  BY DEF sortVars
<1>3. WorklistInv'
  BY <1>1, <1>2 DEF SortInv, WorklistInv
<1>4. EarlyInv'
  BY <1>2 DEF SortInv, EarlyInv
<1>5. CountInv'
  <2>1. \A v : PendingInto(v)' = PendingInto(v)
    BY <1>1, <1>2 DEF PendingInto, Pending, Elems
  <2>2. stage' = "sort" => stage = "sort"
    OBVIOUS
  <2> QED
    BY <1>2, <2>1, <2>2 DEF SortInv, CountInv
<1> QED
  BY <1>3, <1>4, <1>5 DEF SortInv

LEMMA DrawEdgesStep == SortInv /\ DrawEdges => SortInv'
<1> SUFFICES ASSUME SortInv, DrawEdges PROVE SortInv'
  OBVIOUS
<1>1. UNCHANGED <<graph, topoOrder, remaining, scanned, slot>> /\ topoOrder = <<>> /\ remaining = {} /\ ready = <<>>
  BY DEF DrawEdges, SortInv, EarlyInv, scanVars
<1>2. graph \in Graphs
  BY DEF SortInv, TypeOK
<1>3. CASE stage' = "failed" /\ UNCHANGED <<inDegree, ready>>
  <2>1. TypeOK'
    BY <1>1, <1>3, EdgesConstant DEF SortInv, TypeOK
  <2> QED
    BY <1>1, <1>3, <2>1, QuietStep DEF sortVars
<1>4. CASE stage' = "sort" /\ inDegree' = [v \in DOMAIN graph |-> Cardinality(EdgesInto(v))]
  <2>1. PICK s \in [1..Cardinality(Roots) -> Roots] :
          Ascending(s) /\ Elems(s) = Roots /\ ready' = s
    BY <1>4 DEF DrawEdges, Fail
  <2>2. \A v : EdgesInto(v) \in SUBSET Edges
    BY DEF EdgesInto
  <2>3. DOMAIN graph = 1..Len(graph) /\ Len(graph) \in Nat /\ Cardinality(Roots) \in Nat
    <3>1. IsFiniteSet(1..Len(graph))
      BY <1>2, GraphFacts, FS_Interval
    <3>2. Roots \subseteq 1..Len(graph)
      BY <1>2, GraphFacts DEF Roots
    <3> QED
      BY <1>2, <3>1, <3>2, GraphFacts, FS_Subset, FS_CardinalityType
  <2>4. ready' \in Seq(DOMAIN graph) /\ Len(ready') = Cardinality(Roots)
    <3>1. Roots \subseteq DOMAIN graph
      BY DEF Roots
    <3>2. ready' \in [1..Cardinality(Roots) -> DOMAIN graph]
      BY <2>1, <3>1
    <3> QED
      BY <2>3, <3>2
  <2>5. TypeOK'
    BY <1>1, <1>2, <1>4, <2>2, <2>4, EdgesFinite DEF SortInv, TypeOK
  <2>6. \A v : PendingInto(v)' = EdgesInto(v)
    BY <1>1, EdgesConstant DEF PendingInto, Pending, EdgesInto, Elems
  <2>7. CountInv'
    BY <1>1, <1>4, <2>1, <2>4, <2>6 DEF CountInv, Roots, Elems
  <2>8. WorklistInv'
    <3>1. Len(topoOrder') = 0
      BY <1>1
    <3>2. \A j, k \in 1..Len(ready') : ready'[j] = ready'[k] => j = k
      <4>1. \A k \in 1..Len(ready') : ready'[k] \in Nat
        BY <2>3, <2>4
      <4>2. \A j, k \in 1..Len(ready') : j < k => ready'[j] < ready'[k]
        BY <2>1, <2>4 DEF Ascending
      <4> QED
        BY <2>4, <4>1, <4>2
    <3>3. \A k \in 1..Len(ready') : \A e \in Edges : e[2][1] # ready'[k]
      BY <2>1, <2>4 DEF Roots, EdgesInto
    <3> QED
      BY <1>1, <2>3, <2>4, <3>1, <3>2, <3>3, EdgesConstant DEF WorklistInv
  <2> QED
    BY <1>4, <2>5, <2>7, <2>8 DEF SortInv, EarlyInv
<1> QED
  BY <1>3, <1>4 DEF DrawEdges, Fail

LEMMA DequeueStep == SortInv /\ Dequeue => SortInv'
<1> SUFFICES ASSUME SortInv, Dequeue PROVE SortInv'
  OBVIOUS
<1> DEFINE current == ready[Len(topoOrder) + 1]
<1>1. /\ UNCHANGED <<graph, stage, error, inDegree, ready, scanned, slot>>
      /\ stage = "sort" /\ remaining = {} /\ Len(topoOrder) < Len(ready)
      /\ topoOrder' = Append(topoOrder, current) /\ remaining' = EdgesFrom(current)
  BY DEF Dequeue, scanVars
<1>2. /\ ready \in Seq(DOMAIN graph) /\ topoOrder \in Seq(DOMAIN graph)
      /\ Len(topoOrder) \in Nat /\ Len(ready) \in Nat
  BY DEF SortInv, TypeOK
<1>3. current \in DOMAIN graph
  BY <1>1, <1>2
<1>4. /\ Len(topoOrder') = Len(topoOrder) + 1
      /\ topoOrder'[Len(topoOrder) + 1] = current
      /\ \A k \in 1..Len(topoOrder) : topoOrder'[k] = topoOrder[k]
  BY <1>1, <1>2, <1>3
<1>5. TypeOK'
  <2>1. topoOrder' \in Seq(DOMAIN graph)
    BY <1>1, <1>2, <1>3
  <2>2. remaining' \subseteq Edges
    BY <1>1 DEF EdgesFrom
  <2> QED
    BY <1>1, <2>1, <2>2, EdgesConstant DEF SortInv, TypeOK
<1>6. WorklistInv'
  <2>1. \A k \in 1..Len(topoOrder') : topoOrder'[k] = ready[k]
    BY <1>2, <1>4 DEF SortInv, WorklistInv
  <2>2. Len(topoOrder') <= Len(ready)
    BY <1>1, <1>2, <1>4
  <2>3. \A k \in 1..Len(ready) : \A e \in Edges :
          e[2][1] = ready[k] => \E j \in 1..(k - 1) : j <= Len(topoOrder') /\ topoOrder'[j] = e[1][1]
    BY <1>2, <1>4 DEF SortInv, WorklistInv
  <2> QED
    BY <1>1, <2>1, <2>2, <2>3, EdgesConstant DEF SortInv, WorklistInv
<1>7. \A v : PendingInto(v)' = PendingInto(v)
  <2>1. current \notin Elems(topoOrder)
    <3>1. \A k \in 1..Len(topoOrder) : topoOrder[k] = ready[k] /\ k \in 1..Len(ready) /\ k # Len(topoOrder) + 1
      BY <1>1, <1>2 DEF SortInv, WorklistInv
    <3>2. \A k \in 1..Len(topoOrder) : topoOrder[k] # current
      BY <1>1, <1>2, <3>1 DEF SortInv, WorklistInv
    <3> QED
      BY <1>2, <3>2, ElemsFacts
  <2>2. Elems(topoOrder') = Elems(topoOrder) \cup {current}
    BY <1>1, <1>2, <1>3, <1>4 DEF Elems
  <2>3. \A e \in Edges : e \in remaining' <=> e[1][1] = current
    BY <1>1 DEF EdgesFrom
  <2>4. Pending' = Pending
    BY <1>1, <2>1, <2>2, <2>3, EdgesConstant DEF Pending
  <2> QED
    BY <2>4 DEF PendingInto
<1>8. CountInv'
  <2>1. \A e \in remaining' : \E k \in 1..Len(topoOrder') : topoOrder'[k] = e[1][1]
    BY <1>1, <1>2, <1>4 DEF EdgesFrom
  <2> QED
    BY <1>1, <1>7, <2>1 DEF SortInv, CountInv
<1> QED
  BY <1>1, <1>5, <1>6, <1>8 DEF SortInv, EarlyInv

LEMMA FollowEdgeStep == SortInv /\ FollowEdge => SortInv'
<1> SUFFICES ASSUME SortInv, FollowEdge PROVE SortInv'
  OBVIOUS
<1>1. PICK e \in remaining :
        /\ IF inDegree[e[2][1]] > 0
              THEN /\ inDegree' = [inDegree EXCEPT ![e[2][1]] = @ - 1]
                   /\ ready' = IF inDegree[e[2][1]] = 1
                                 THEN Append(ready, e[2][1]) ELSE ready
              ELSE UNCHANGED <<inDegree, ready>>
        /\ remaining' = remaining \ {e}
  BY DEF FollowEdge
<1> DEFINE dependent == e[2][1]
<1>2. UNCHANGED <<graph, stage, error, topoOrder, scanned, slot>> /\ stage = "sort"
  BY DEF FollowEdge, scanVars
<1>3. /\ ready \in Seq(DOMAIN graph) /\ topoOrder \in Seq(DOMAIN graph)
      /\ Len(topoOrder) \in Nat /\ Len(ready) \in Nat
      /\ inDegree \in [DOMAIN graph -> Nat]
      /\ graph \in Graphs /\ remaining \subseteq Edges
  BY DEF SortInv, TypeOK
<1>4. e \in Edges /\ dependent \in DOMAIN graph
  BY <1>3, EdgeFacts
<1>5. \A v \in DOMAIN graph : /\ inDegree[v] = Cardinality(PendingInto(v))
                              /\ IsFiniteSet(PendingInto(v))
                              /\ PendingInto(v) = {} <=> inDegree[v] = 0
  <2>1. \A v : PendingInto(v) \in SUBSET Edges
    BY DEF PendingInto, Pending
  <2> QED
    BY <1>2, <1>3, <2>1, EdgesFinite, FS_EmptySet DEF SortInv, CountInv
<1>6. e \in PendingInto(dependent)
  BY <1>4 DEF PendingInto, Pending
<1>7. inDegree[dependent] > 0 /\ inDegree[dependent] \in Nat
  BY <1>3, <1>4, <1>5, <1>6
<1>8. /\ inDegree' = [inDegree EXCEPT ![dependent] = @ - 1]
      /\ ready' = IF inDegree[dependent] = 1 THEN Append(ready, dependent) ELSE ready
  BY <1>1, <1>7
<1>9. e[1][1] \in Elems(topoOrder)
  BY <1>2, <1>3 DEF SortInv, CountInv, Elems
<1>10. Pending' = Pending \ {e}
  BY <1>1, <1>2, <1>9, EdgesConstant DEF Pending, Elems
<1>11. \A v : PendingInto(v)' = IF v = dependent THEN PendingInto(v) \ {e} ELSE PendingInto(v)
  BY <1>10 DEF PendingInto
<1>12. \A v \in DOMAIN graph : inDegree'[v] = Cardinality(PendingInto(v)')
  <2>1. Cardinality(PendingInto(dependent) \ {e}) = Cardinality(PendingInto(dependent)) - 1
    BY <1>4, <1>5, <1>6, FS_RemoveElement
  <2> QED
    BY <1>3, <1>4, <1>5, <1>8, <1>11, <2>1
<1>13. \A v \in DOMAIN graph : PendingInto(v)' = {} <=> inDegree'[v] = 0
  <2>1. \A v : IsFiniteSet(PendingInto(v)')
    <3>1. \A v : PendingInto(v)' \in SUBSET Edges
      BY <1>11 DEF PendingInto, Pending
    <3> QED
      BY <1>3, <3>1, EdgesFinite
  <2> QED
    BY <1>12, <2>1, FS_EmptySet
<1>14. TypeOK'
  <2>1. inDegree' \in [DOMAIN graph -> Nat]
    BY <1>3, <1>4, <1>7, <1>8
  <2>2. ready' \in Seq(DOMAIN graph)
    BY <1>3, <1>4, <1>8, AppendFacts
  <2> QED
    BY <1>1, <1>2, <1>3, <2>1, <2>2, EdgesConstant DEF SortInv, TypeOK
<1>15. CASE inDegree[dependent] = 1
  <2>1. /\ Len(ready') = Len(ready) + 1 /\ ready'[Len(ready) + 1] = dependent
        /\ \A k \in 1..Len(ready) : ready'[k] = ready[k]
    BY <1>3, <1>4, <1>8, <1>15
  <2>2. PendingInto(dependent)' = {}
    BY <1>3, <1>4, <1>8, <1>13, <1>15
  <2>3. \A k \in 1..Len(ready) : ready[k] # dependent
    BY <1>2, <1>4, <1>6 DEF SortInv, CountInv
  <2>4. \A f \in Edges : f[2][1] = dependent =>
          \E j \in 1..Len(ready) : j <= Len(topoOrder) /\ topoOrder[j] = f[1][1]
    <3>1. \A f \in Edges : f[2][1] = dependent => f[1][1] \in Elems(topoOrder)
      BY <1>2, <2>2, EdgesConstant DEF PendingInto, Pending
    <3> QED
      <4>1. \A x : x \in Elems(topoOrder) <=> \E k \in 1..Len(topoOrder) : topoOrder[k] = x
        BY <1>3, ElemsFacts
      <4>2. \A k \in 1..Len(topoOrder) : k \in 1..Len(ready) /\ k <= Len(topoOrder)
        BY <1>3 DEF SortInv, WorklistInv
      <4> QED
        BY <3>1, <4>1, <4>2
  <2>5. WorklistInv'
    <3>1. Len(topoOrder') <= Len(ready') /\ \A k \in 1..Len(topoOrder') : topoOrder'[k] = ready'[k]
      BY <1>2, <1>3, <2>1 DEF SortInv, WorklistInv
    <3>2. \A j, k \in 1..Len(ready') : ready'[j] = ready'[k] => j = k
      <4>1. \A j, k \in 1..Len(ready) : ready[j] = ready[k] => j = k
        BY <1>2 DEF SortInv, WorklistInv
      <4>2. \A k \in 1..Len(ready') : k \in 1..Len(ready) \/ k = Len(ready) + 1
        BY <1>3, <2>1
      <4> QED
        BY <2>1, <2>3, <4>1, <4>2
    <3>3. \A k \in 1..Len(ready') : \A f \in Edges :
            f[2][1] = ready'[k] => \E j \in 1..(k - 1) : j <= Len(topoOrder) /\ topoOrder[j] = f[1][1]
      <4>1. \A k \in 1..Len(ready') : k \in 1..Len(ready) \/ k = Len(ready) + 1
        BY <1>3, <2>1
      <4>2. ASSUME NEW k \in 1..Len(ready)
            PROVE  \A f \in Edges :
              f[2][1] = ready'[k] => \E j \in 1..(k - 1) : j <= Len(topoOrder) /\ topoOrder[j] = f[1][1]
        BY <2>1 DEF SortInv, WorklistInv
      <4>3. ASSUME NEW k, k = Len(ready) + 1
            PROVE  \A f \in Edges :
              f[2][1] = ready'[k] => \E j \in 1..(k - 1) : j <= Len(topoOrder) /\ topoOrder[j] = f[1][1]
        <5>1. ready'[k] = dependent /\ k - 1 = Len(ready)
          BY <1>3, <2>1, <4>3
        <5> QED
          BY <2>4, <5>1
      <4> QED
        BY <4>1, <4>2, <4>3
    <3> QED
      BY <1>2, <3>1, <3>2, <3>3, EdgesConstant DEF WorklistInv
  <2>6. ASSUME NEW v \in DOMAIN graph
        PROVE  (\E k \in 1..Len(ready') : ready'[k] = v) <=> PendingInto(v)' = {}
    <3>1. CASE v = dependent
      BY <1>3, <2>1, <2>2, <3>1
    <3>2. CASE v # dependent
      <4>1. (\E k \in 1..Len(ready) : ready[k] = v) <=> PendingInto(v) = {}
        BY <1>2 DEF SortInv, CountInv
      <4>2. (\E k \in 1..Len(ready') : ready'[k] = v) <=> (\E k \in 1..Len(ready) : ready[k] = v)
        <5>1. \A k \in 1..Len(ready') : k \in 1..Len(ready) \/ k = Len(ready) + 1
          BY <1>3, <2>1
        <5>2. \A k \in 1..Len(ready) : k \in 1..Len(ready')
          BY <1>3, <2>1
        <5> QED
          BY <2>1, <3>2, <5>1, <5>2
      <4> QED
        BY <1>11, <3>2, <4>1, <4>2
    <3> QED
      BY <3>1, <3>2
  <2>7. CountInv'
    BY <1>1, <1>2, <1>12, <2>6 DEF SortInv, CountInv
  <2> QED
    BY <1>2, <1>14, <2>5, <2>7 DEF SortInv, EarlyInv
<1>16. CASE inDegree[dependent] # 1
  <2>1. ready' = ready
    BY <1>8, <1>16
  <2>2. WorklistInv'
    BY <1>2, <2>1, EdgesConstant DEF SortInv, WorklistInv
  <2>3. PendingInto(dependent)' # {}
    BY <1>3, <1>4, <1>7, <1>8, <1>13, <1>16
  <2>4. \A v \in DOMAIN graph : (\E k \in 1..Len(ready) : ready[k] = v) <=> PendingInto(v)' = {}
    BY <1>2, <1>6, <1>11, <2>3 DEF SortInv, CountInv
  <2>5. CountInv'
    BY <1>1, <1>2, <1>12, <2>1, <2>4 DEF SortInv, CountInv
  <2> QED
    BY <1>2, <1>14, <2>2, <2>5 DEF SortInv, EarlyInv
<1> QED
  BY <1>15, <1>16

LEMMA SortInvNext == SortInv /\ [Next]_vars => SortInv'
<1> SUFFICES ASSUME SortInv, [Next]_vars PROVE SortInv'
  OBVIOUS
<1>1. CASE ValidateNodes
  BY <1>1, QuietStep, EdgesConstant DEF ValidateNodes, Fail, sortVars, scanVars, SortInv, TypeOK
<1>2. CASE DrawEdges
  BY <1>2, DrawEdgesStep
<1>3. CASE Dequeue
  BY <1>3, DequeueStep
<1>4. CASE FollowEdge
  BY <1>4, FollowEdgeStep
<1>5. CASE FinishSort
  BY <1>5, QuietStep, EdgesConstant DEF FinishSort, Fail, sortVars, SortInv, TypeOK
<1>6. CASE ScanInput
  <2>1. UNCHANGED <<graph, sortVars, scanned>> /\ (stage' = stage \/ stage' = "failed")
    BY <1>6 DEF ScanInput, Fail
  <2>2. slot' = slot \/ slot' = slot + 1
    BY <1>6 DEF ScanInput
  <2>3. TypeOK'
    BY <2>1, <2>2, EdgesConstant DEF SortInv, TypeOK, sortVars
  <2> QED
    BY <2>1, <2>3, QuietStep
<1>7. CASE ScanOutputs
  <2>1. UNCHANGED <<graph, sortVars>> /\ (stage' = stage \/ stage' = "failed")
    BY <1>7 DEF ScanOutputs, Fail
  <2>2. (slot' = slot /\ scanned' = scanned) \/ (slot' = 0 /\ scanned' = scanned + 1)
    BY <1>7 DEF ScanOutputs
  <2>3. TypeOK'
    BY <2>1, <2>2, EdgesConstant DEF SortInv, TypeOK, sortVars
  <2> QED
    BY <2>1, <2>3, QuietStep
<1>8. CASE Succeed
  BY <1>8, QuietStep, EdgesConstant DEF Succeed, sortVars, scanVars, SortInv, TypeOK
<1>9. CASE UNCHANGED vars
  BY <1>9, QuietStep, EdgesConstant DEF vars, sortVars, scanVars, SortInv, TypeOK
<1> QED
  BY <1>1, <1>2, <1>3, <1>4, <1>5, <1>6, <1>7, <1>8, <1>9 DEF Next, Halted

----------------------------------------------------------------------------
(* An edge joins two nodes exactly when the second depends on the first.   *)
LEMMA EdgesAreDependencies ==
  \A u, v \in DOMAIN graph :
    Promise!DependsOn(graph, v, u) <=> \E e \in Edges : e[1][1] = u /\ e[2][1] = v
<1> SUFFICES ASSUME NEW u \in DOMAIN graph, NEW v \in DOMAIN graph
             PROVE  Promise!DependsOn(graph, v, u) <=> \E e \in Edges : e[1][1] = u /\ e[2][1] = v
  OBVIOUS
<1>1. ASSUME Promise!DependsOn(graph, v, u)
      PROVE  \E e \in Edges : e[1][1] = u /\ e[2][1] = v
  <2>1. PICK o \in DOMAIN graph[u].outputs, i \in DOMAIN graph[v].inputs :
          u # v /\ graph[u].outputs[o] = graph[v].inputs[i].name
    BY <1>1 DEF Promise!DependsOn, Promise!Outputs, Promise!Reads
  <2>2. <<<<u, o>>, <<v, i>>>> \in Edges
    BY <2>1 DEF Edges, OutSlots, InSlots
  <2> QED
    BY <2>2
<1>2. ASSUME NEW e \in Edges, e[1][1] = u, e[2][1] = v
      PROVE  Promise!DependsOn(graph, v, u)
  BY <1>2 DEF Edges, OutSlots, InSlots, Promise!DependsOn, Promise!Outputs, Promise!Reads
<1> QED
  BY <1>1, <1>2

(* The state keeps its shape through every stage of the compilation.       *)
THEOREM TypeCorrect == Spec => []TypeOK
<1>1. SortInv => TypeOK
  BY DEF SortInv
<1> QED
  BY <1>1, SortInvInit, SortInvNext, PTL DEF Spec

(* Whatever the block, no node is ordered before another node that writes  *)
(* something it takes as an input.                                         *)
THEOREM OrderCorrect == Spec => []TopologicalOrder
<1>1. SortInv => TopologicalOrder
  <2> SUFFICES ASSUME SortInv,
                      NEW k \in DOMAIN topoOrder, NEW u \in DOMAIN graph,
                      Promise!DependsOn(graph, topoOrder[k], u)
               PROVE  \E j \in 1..(k - 1) : topoOrder[j] = u
    BY DEF TopologicalOrder
  <2>1. topoOrder \in Seq(DOMAIN graph) /\ ready \in Seq(DOMAIN graph)
    BY DEF SortInv, TypeOK
  <2>2. k \in 1..Len(topoOrder) /\ topoOrder[k] \in DOMAIN graph /\ k \in 1..Len(ready)
    BY <2>1 DEF SortInv, WorklistInv
  <2>3. PICK e \in Edges : e[1][1] = u /\ e[2][1] = topoOrder[k]
    BY <2>2, EdgesAreDependencies
  <2>4. e[2][1] = ready[k]
    BY <2>2, <2>3 DEF SortInv, WorklistInv
  <2> QED
    BY <2>2, <2>3, <2>4 DEF SortInv, WorklistInv
<1> QED
  BY <1>1, SortInvInit, SortInvNext, PTL DEF Spec

----------------------------------------------------------------------------
(* CompileComputeGraph implements ComputeSchedule.                         *)

Uniforms == {r \in DOMAIN Kind : Kind[r] = "Uniform"}

WrittenSoFar(r) == \E k \in 1..scanned : r \in Promise!Outputs(graph, topoOrder[k])

InputsPass(v, n) == \A i \in 1..n : Promise!InputAllowed(graph, v, i)

OutputsPass(v) == \A r \in Promise!Outputs(graph, v) : Promise!OutputAccess(graph, v, r) # "ReadOnly"

(* What the stages already left behind have established of the block.      *)
CheckedInv ==
  /\ stage \in {"outputs", "sort", "scan", "done"} => \A v \in DOMAIN graph : ~NodeRejected(v)
  /\ stage \in {"sort", "scan", "done"} =>
       \A v \in DOMAIN graph : \A r \in Promise!Outputs(graph, v) : Writable(r)

(* The scan: everything is ordered, available holds the uniforms and what  *)
(* the scanned nodes write, and what has been scanned was allowed.         *)
ScanInv ==
  /\ stage \in {"nodes", "outputs", "sort"} => scanned = 0 /\ slot = 0
  /\ stage = "scan" =>
    /\ Len(topoOrder) = Len(graph) /\ remaining = {}
    /\ scanned <= Len(topoOrder)
    /\ \A r : r \in available <=> (r \in Uniforms \/ WrittenSoFar(r))
    /\ \A k \in 1..scanned : /\ InputsPass(topoOrder[k], Len(graph[topoOrder[k]].inputs))
                             /\ OutputsPass(topoOrder[k])
    /\ slot # 0 => scanned < Len(topoOrder) /\ slot <= Len(graph[Scanning].inputs)
    /\ scanned < Len(topoOrder) => InputsPass(Scanning, slot)

CompileInv == SortInv /\ CheckedInv /\ ScanInv

----------------------------------------------------------------------------
(* Consequences of the worklist invariant.                                 *)

LEMMA OrderFacts ==
  ASSUME SortInv
  PROVE  /\ topoOrder \in Seq(DOMAIN graph) /\ ready \in Seq(DOMAIN graph)
         /\ Len(topoOrder) \in Nat /\ Len(ready) \in Nat
         /\ DOMAIN topoOrder = 1..Len(topoOrder)
         /\ \A j, k \in 1..Len(topoOrder) : topoOrder[j] = topoOrder[k] => j = k
         /\ \A k \in 1..Len(topoOrder) : \A u \in DOMAIN graph :
              Promise!DependsOn(graph, topoOrder[k], u) => \E j \in 1..(k - 1) : topoOrder[j] = u
         /\ \A k \in 1..Len(topoOrder) : topoOrder[k] \in DOMAIN graph
<1>1. /\ topoOrder \in Seq(DOMAIN graph) /\ ready \in Seq(DOMAIN graph)
      /\ Len(topoOrder) \in Nat /\ Len(ready) \in Nat
      /\ DOMAIN topoOrder = 1..Len(topoOrder)
      /\ \A k \in 1..Len(topoOrder) : topoOrder[k] \in DOMAIN graph
  BY DEF SortInv, TypeOK
<1>2. \A k \in 1..Len(topoOrder) : k \in 1..Len(ready) /\ topoOrder[k] = ready[k]
  BY <1>1 DEF SortInv, WorklistInv
<1>3. \A j, k \in 1..Len(topoOrder) : topoOrder[j] = topoOrder[k] => j = k
  BY <1>2 DEF SortInv, WorklistInv
<1>4. ASSUME NEW k \in 1..Len(topoOrder), NEW u \in DOMAIN graph,
             Promise!DependsOn(graph, topoOrder[k], u)
      PROVE  \E j \in 1..(k - 1) : topoOrder[j] = u
  <2>1. PICK e \in Edges : e[1][1] = u /\ e[2][1] = topoOrder[k]
    BY <1>1, <1>4, EdgesAreDependencies
  <2> QED
    BY <1>2, <2>1 DEF SortInv, WorklistInv
<1> QED
  BY <1>1, <1>3, <1>4

(* As many nodes ordered as there are, none twice: all of them.            *)
LEMMA AllOrdered ==
  ASSUME SortInv, Len(topoOrder) = Len(graph)
  PROVE  \A v \in DOMAIN graph : \E k \in 1..Len(topoOrder) : topoOrder[k] = v
<1>1. DOMAIN graph = 1..Len(graph) /\ Len(graph) \in Nat
  BY GraphFacts DEF SortInv, TypeOK
<1>2. topoOrder \in Injection(DOMAIN graph, DOMAIN graph)
  BY <1>1, OrderFacts DEF Injection, IsInjective
<1>3. IsFiniteSet(DOMAIN graph)
  BY <1>1, FS_Interval
<1>4. topoOrder \in Surjection(DOMAIN graph, DOMAIN graph)
  BY <1>2, <1>3, FS_Injection
<1> QED
  BY <1>1, <1>4 DEF Surjection

(* A complete topological order shows that no nodes wait for each other.   *)
LEMMA OrderedIsAcyclic ==
  ASSUME SortInv, Len(topoOrder) = Len(graph)
  PROVE  Promise!Acyclic(graph)
<1> SUFFICES ASSUME NEW S \in SUBSET DOMAIN graph, S # {}
             PROVE  \E v \in S : \A u \in S : ~Promise!DependsOn(graph, v, u)
  BY DEF Promise!Acyclic, Promise!Nodes
<1> DEFINE T == {k \in 1..Len(topoOrder) : topoOrder[k] \in S}
<1>1. T # {} /\ T \subseteq Nat
  BY AllOrdered
<1>2. \E k \in T : \A j \in T : ~ (<<j, k>> \in OpToRel(<, Nat))
  BY <1>1, NatLessThanWellFounded, WFMin
<1>3. PICK k \in T : \A j \in T : ~(j < k)
  BY <1>1, <1>2 DEF OpToRel
<1>4. ASSUME NEW u \in S, Promise!DependsOn(graph, topoOrder[k], u) PROVE FALSE
  <2>1. PICK j \in 1..(k - 1) : topoOrder[j] = u
    BY <1>4, OrderFacts
  <2>2. k \in 1..Len(topoOrder) /\ Len(topoOrder) \in Nat
    BY OrderFacts
  <2>3. j \in 1..Len(topoOrder) /\ j < k
    BY <2>1, <2>2
  <2> QED
    BY <1>3, <1>4, <2>1, <2>3
<1> QED
  BY <1>4

(* The worklist ran dry early: the nodes left over all wait for another    *)
(* node that was left over.                                                *)
LEMMA StuckIsCyclic ==
  ASSUME SortInv, stage = "sort", remaining = {}, Len(topoOrder) = Len(ready),
         Len(topoOrder) # Len(graph)
  PROVE  ~Promise!Acyclic(graph)
<1> DEFINE S == DOMAIN graph \ Elems(topoOrder)
<1>1. DOMAIN graph = 1..Len(graph) /\ Len(graph) \in Nat
  BY GraphFacts DEF SortInv, TypeOK
<1>2. \A x : x \in Elems(topoOrder) <=> \E k \in 1..Len(topoOrder) : topoOrder[k] = x
  BY OrderFacts, ElemsFacts
<1>3. S # {}
  <2> SUFFICES ASSUME S = {} PROVE FALSE
    OBVIOUS
  <2>1. topoOrder \in Injection(1..Len(topoOrder), 1..Len(graph))
    <3>1. topoOrder \in [1..Len(topoOrder) -> 1..Len(graph)]
      <4>1. topoOrder \in Seq(1..Len(graph))
        BY <1>1, OrderFacts
      <4> QED
        BY <4>1
    <3> QED
      BY <3>1, OrderFacts DEF Injection, IsInjective
  <2>2. topoOrder \in Surjection(1..Len(topoOrder), 1..Len(graph))
    BY <1>1, <1>2, <2>1 DEF Surjection, Injection
  <2>3. /\ IsFiniteSet(1..Len(topoOrder)) /\ Cardinality(1..Len(topoOrder)) = Len(topoOrder)
        /\ IsFiniteSet(1..Len(graph)) /\ Cardinality(1..Len(graph)) = Len(graph)
    <3>1. \A n \in Nat : IsFiniteSet(1..n) /\ Cardinality(1..n) = n
      BY FS_Interval
    <3> QED
      BY <1>1, <3>1, OrderFacts
  <2>4. Cardinality(1..Len(topoOrder)) = Cardinality(1..Len(graph))
    BY <2>1, <2>2, <2>3, FS_Injection
  <2> QED
    BY <2>3, <2>4
<1>4. ASSUME NEW v \in S PROVE \E u \in S : Promise!DependsOn(graph, v, u)
  <2>1. ~ \E k \in 1..Len(ready) : ready[k] = v
    BY <1>2 DEF SortInv, WorklistInv
  <2>2. PICK e \in PendingInto(v) : TRUE
    BY <2>1 DEF SortInv, CountInv
  <2>3. e \in Edges /\ e[2][1] = v /\ e[1][1] \notin Elems(topoOrder)
    BY <2>2 DEF PendingInto, Pending
  <2> QED
    BY <2>3, EdgeFacts, EdgesAreDependencies
<1> QED
  BY <1>3, <1>4 DEF Promise!Acyclic, Promise!Nodes

----------------------------------------------------------------------------
(* The scan invariant is kept.                                             *)

LEMMA CompileInvInit == Init => CompileInv
BY SortInvInit DEF Init, CompileInv, CheckedInv, ScanInv

(* The reader at hand and the nodes it may read from.                      *)
LEMMA ScanningFacts ==
  ASSUME CompileInv, stage = "scan", scanned < Len(topoOrder)
  PROVE  /\ scanned \in Nat /\ slot \in Nat /\ scanned + 1 \in 1..Len(topoOrder)
         /\ Scanning \in DOMAIN graph
         /\ DOMAIN graph[Scanning].inputs = 1..Len(graph[Scanning].inputs)
         /\ Len(graph[Scanning].inputs) \in Nat
         /\ \A r : WrittenSoFar(r) => \E u \in DOMAIN graph \ {Scanning} : r \in Promise!Outputs(graph, u)
         /\ \A r \in Promise!Reads(graph, Scanning) :
              (\E u \in DOMAIN graph \ {Scanning} : r \in Promise!Outputs(graph, u)) => WrittenSoFar(r)
<1>1. SortInv /\ scanned \in Nat /\ slot \in Nat
  BY DEF CompileInv, SortInv, TypeOK
<1>2. scanned + 1 \in 1..Len(topoOrder)
  BY <1>1, OrderFacts
<1>3. Scanning \in DOMAIN graph
  BY <1>1, <1>2, OrderFacts DEF Scanning
<1>4. /\ DOMAIN graph[Scanning].inputs = 1..Len(graph[Scanning].inputs)
      /\ Len(graph[Scanning].inputs) \in Nat
  BY <1>1, <1>3, GraphFacts DEF SortInv, TypeOK
<1>5. ASSUME NEW r, WrittenSoFar(r)
      PROVE  \E u \in DOMAIN graph \ {Scanning} : r \in Promise!Outputs(graph, u)
  <2>1. PICK k \in 1..scanned : r \in Promise!Outputs(graph, topoOrder[k])
    BY <1>5 DEF WrittenSoFar
  <2>2. k \in 1..Len(topoOrder) /\ k # scanned + 1
    BY <1>1, <1>2, OrderFacts
  <2>3. topoOrder[k] \in DOMAIN graph /\ topoOrder[k] # Scanning
    BY <1>1, <1>2, <2>2, OrderFacts DEF Scanning
  <2> QED
    BY <2>1, <2>3
<1>6. ASSUME NEW r \in Promise!Reads(graph, Scanning),
             NEW u \in DOMAIN graph \ {Scanning}, r \in Promise!Outputs(graph, u)
      PROVE  WrittenSoFar(r)
  <2>1. Promise!DependsOn(graph, topoOrder[scanned + 1], u)
    BY <1>6 DEF Promise!DependsOn, Scanning
  <2>2. PICK j \in 1..((scanned + 1) - 1) : topoOrder[j] = u
    BY <1>1, <1>2, <2>1, OrderFacts
  <2> QED
    BY <1>1, <1>6, <2>2 DEF WrittenSoFar
<1> QED
  BY <1>1, <1>2, <1>3, <1>4, <1>5, <1>6

(* What the test of lines 261-262 finds: r holds something exactly when it *)
(* is supplied.                                                            *)
LEMMA AvailableIsSupplied ==
  ASSUME CompileInv, stage = "scan", scanned < Len(topoOrder),
         NEW i \in 1..Len(graph[Scanning].inputs),
         graph[Scanning].inputs[i].name \in DOMAIN Kind
  PROVE  graph[Scanning].inputs[i].name \in available
           <=> Promise!Supplied(graph, Scanning, graph[Scanning].inputs[i].name)
<1> DEFINE r == graph[Scanning].inputs[i].name
<1>1. r \in Promise!Reads(graph, Scanning)
  BY ScanningFacts DEF Promise!Reads
<1>2. r \in available <=> (r \in Uniforms \/ WrittenSoFar(r))
  BY DEF CompileInv, ScanInv
<1>3. WrittenSoFar(r) <=> \E u \in DOMAIN graph \ {Scanning} : r \in Promise!Outputs(graph, u)
  BY <1>1, ScanningFacts
<1> QED
  BY <1>2, <1>3 DEF Promise!Supplied, Promise!Nodes, Uniforms

LEMMA CheckedInvNext == CompileInv /\ [Next]_vars => CheckedInv'
<1> SUFFICES ASSUME CompileInv, [Next]_vars PROVE CheckedInv'
  OBVIOUS
<1>1. UNCHANGED graph
  BY DEF Next, ValidateNodes, DrawEdges, Dequeue, FollowEdge, FinishSort, ScanInput,
         ScanOutputs, Succeed, Halted, vars
<1>2. \A v : /\ NodeRejected(v)' <=> NodeRejected(v)
             /\ Promise!Outputs(graph, v)' = Promise!Outputs(graph, v)
  BY <1>1 DEF NodeRejected, Promise!Outputs
<1>3. CASE stage' = stage \/ stage' = "failed"
  BY <1>1, <1>2, <1>3 DEF CompileInv, CheckedInv, Writable
<1>4. CASE ValidateNodes
  BY <1>1, <1>2, <1>4 DEF ValidateNodes, CheckedInv, Fail
<1>5. CASE DrawEdges
  <2>1. CASE stage' = "failed"
    BY <2>1 DEF CheckedInv
  <2>2. CASE stage' = "sort" /\ \A v \in DOMAIN graph : \A r \in Elems(graph[v].outputs) : Writable(r)
    <3>1. \A v \in DOMAIN graph : \A r \in Promise!Outputs(graph, v) : Writable(r)
      BY <2>2 DEF Elems, Promise!Outputs
    <3>2. \A v \in DOMAIN graph : ~NodeRejected(v)
      BY <1>5 DEF DrawEdges, CompileInv, CheckedInv
    <3> QED
      BY <1>1, <1>2, <3>1, <3>2 DEF CheckedInv, Writable
  <2> QED
    BY <1>5, <2>1, <2>2 DEF DrawEdges, Fail
<1>6. CASE FinishSort
  BY <1>1, <1>2, <1>6 DEF FinishSort, CheckedInv, CompileInv, Fail, Writable
<1>7. CASE Succeed
  BY <1>1, <1>2, <1>7 DEF Succeed, CheckedInv, CompileInv, Writable
<1> QED
  BY <1>3, <1>4, <1>5, <1>6, <1>7
     DEF Next, Dequeue, FollowEdge, ScanInput, ScanOutputs, Halted, vars, Fail

LEMMA ScanInputStep == CompileInv /\ ScanInput => ScanInv'
<1> SUFFICES ASSUME CompileInv, ScanInput, stage' = "scan" PROVE ScanInv'
  BY DEF ScanInv, ScanInput, Fail
<1> DEFINE v == Scanning
           i == slot + 1
           r == graph[v].inputs[i].name
<1>1. /\ stage = "scan" /\ scanned < Len(topoOrder) /\ slot < Len(graph[v].inputs)
      /\ UNCHANGED <<graph, topoOrder, remaining, scanned, available>>
  BY DEF ScanInput, sortVars
<1>2. /\ slot' = i /\ r \in DOMAIN Kind
      /\ graph[v].inputs[i].access = "WriteOnly" \/ r \in available
  BY DEF ScanInput, Fail
<1>3. i \in 1..Len(graph[v].inputs) /\ slot \in Nat /\ Len(graph[v].inputs) \in Nat
  BY <1>1, ScanningFacts
<1>4. Promise!InputAllowed(graph, v, i)
  <2>1. r \in available => Promise!Supplied(graph, v, r)
    BY <1>1, <1>2, <1>3, AvailableIsSupplied
  <2> QED
    BY <1>2, <2>1 DEF Promise!InputAllowed
<1>5. InputsPass(v, i)
  <2>1. InputsPass(v, slot)
    BY <1>1 DEF CompileInv, ScanInv
  <2>2. \A n \in 1..i : n \in 1..slot \/ n = i
    BY <1>3
  <2> QED
    BY <1>4, <2>1, <2>2 DEF InputsPass
<1>6. /\ Scanning' = Scanning
      /\ \A x : WrittenSoFar(x)' <=> WrittenSoFar(x)
      /\ \A u, n : InputsPass(u, n)' <=> InputsPass(u, n)
      /\ \A u : OutputsPass(u)' <=> OutputsPass(u)
  BY <1>1 DEF Scanning, WrittenSoFar, InputsPass, OutputsPass
<1>7. /\ Len(topoOrder') = Len(graph') /\ remaining' = {} /\ scanned' <= Len(topoOrder')
      /\ \A x : x \in available' <=> (x \in Uniforms \/ WrittenSoFar(x)')
  BY <1>1, <1>6 DEF CompileInv, ScanInv
<1>8. (\A k \in 1..scanned : /\ InputsPass(topoOrder[k], Len(graph[topoOrder[k]].inputs))
                             /\ OutputsPass(topoOrder[k]))'
  BY <1>1 DEF CompileInv, ScanInv, InputsPass, OutputsPass
<1>9. slot' # 0 => scanned' < Len(topoOrder') /\ slot' <= Len(graph'[Scanning'].inputs)
  BY <1>1, <1>2, <1>3, <1>6
<1>10. InputsPass(Scanning, slot)'
  BY <1>1, <1>2, <1>5 DEF InputsPass, Scanning
<1>11. stage' = "scan"
  OBVIOUS
<1> HIDE DEF v, i, r
<1> QED
  BY <1>7, <1>8, <1>9, <1>10, <1>11 DEF ScanInv

LEMMA ScanOutputsStep == CompileInv /\ ScanOutputs => ScanInv'
<1> SUFFICES ASSUME CompileInv, ScanOutputs, stage' = "scan" PROVE ScanInv'
  BY DEF ScanInv, ScanOutputs, Fail
<1> DEFINE v == Scanning
<1>1. /\ stage = "scan" /\ scanned < Len(topoOrder) /\ slot = Len(graph[v].inputs)
      /\ UNCHANGED <<graph, topoOrder, remaining>>
  BY DEF ScanOutputs, sortVars
<1>2. /\ available' = available \cup Elems(graph[v].outputs)
      /\ scanned' = scanned + 1 /\ slot' = 0
      /\ \A r \in Elems(graph[v].outputs) : Promise!OutputAccess(graph, v, r) # "ReadOnly"
  BY DEF ScanOutputs, Fail
<1>3. scanned \in Nat /\ scanned + 1 \in 1..Len(topoOrder) /\ Len(topoOrder) \in Nat
  BY <1>1, ScanningFacts, OrderFacts DEF CompileInv
<1>4. /\ \A u, n : InputsPass(u, n)' <=> InputsPass(u, n)
      /\ \A u : OutputsPass(u)' <=> OutputsPass(u)
  BY <1>1 DEF InputsPass, OutputsPass
<1>5. \A k \in 1..scanned' : k \in 1..scanned \/ (k = scanned + 1 /\ topoOrder[k] = v)
  BY <1>2, <1>3 DEF Scanning
<1>6. OutputsPass(v) /\ InputsPass(v, Len(graph[v].inputs))
  BY <1>1, <1>2 DEF CompileInv, ScanInv, OutputsPass, Elems, Promise!Outputs
<1>7. (\A k \in 1..scanned : /\ InputsPass(topoOrder[k], Len(graph[topoOrder[k]].inputs))
                             /\ OutputsPass(topoOrder[k]))'
  <2>1. \A k \in 1..scanned' : InputsPass(topoOrder[k], Len(graph[topoOrder[k]].inputs)) /\ OutputsPass(topoOrder[k])
    BY <1>1, <1>5, <1>6 DEF CompileInv, ScanInv
  <2> QED
    BY <1>1, <2>1 DEF InputsPass, OutputsPass
<1>8. \A x : WrittenSoFar(x)' <=> WrittenSoFar(x) \/ x \in Promise!Outputs(graph, v)
  <2>1. \A k \in 1..scanned : k \in 1..scanned'
    BY <1>2, <1>3
  <2>2. scanned + 1 \in 1..scanned' /\ topoOrder[scanned + 1] = v
    BY <1>2, <1>3 DEF Scanning
  <2> QED
    BY <1>1, <1>5, <2>1, <2>2 DEF WrittenSoFar
<1>9. \A x : x \in available' <=> (x \in Uniforms \/ WrittenSoFar(x)')
  BY <1>1, <1>2, <1>8 DEF CompileInv, ScanInv, Elems, Promise!Outputs
<1>10. InputsPass(Scanning, slot)'
  BY <1>2 DEF InputsPass
<1>11. Len(topoOrder') = Len(graph') /\ remaining' = {} /\ scanned' <= Len(topoOrder')
  BY <1>1, <1>2, <1>3 DEF CompileInv, ScanInv
<1>12. stage' = "scan"
  OBVIOUS
<1> QED
  BY <1>2, <1>7, <1>9, <1>10, <1>11, <1>12 DEF ScanInv

LEMMA CompileInvNext == CompileInv /\ [Next]_vars => CompileInv'
<1> SUFFICES ASSUME CompileInv, [Next]_vars PROVE ScanInv'
  BY SortInvNext, CheckedInvNext DEF CompileInv
<1>1. CASE ScanInput
  BY <1>1, ScanInputStep
<1>2. CASE ScanOutputs
  BY <1>2, ScanOutputsStep
<1>3. CASE FinishSort
  <2> SUFFICES ASSUME stage' = "scan" PROVE ScanInv'
    BY <1>3 DEF FinishSort, Fail, ScanInv
  <2>1. /\ Len(topoOrder) = Len(graph) /\ available' = Uniforms /\ remaining = {}
        /\ UNCHANGED <<graph, topoOrder, remaining, scanned, slot>>
    BY <1>3 DEF FinishSort, Fail, sortVars, Uniforms
  <2>2. scanned = 0 /\ slot = 0
    BY <1>3 DEF FinishSort, CompileInv, ScanInv
  <2>3. InputsPass(Scanning, slot)' /\ \A x : ~WrittenSoFar(x)'
    BY <2>1, <2>2 DEF InputsPass, WrittenSoFar
  <2>4. Len(topoOrder) \in Nat
    BY OrderFacts DEF CompileInv
  <2> QED
    BY <2>1, <2>2, <2>3, <2>4 DEF ScanInv
<1>4. CASE UNCHANGED vars
  BY <1>4 DEF vars, sortVars, scanVars, CompileInv, ScanInv, Scanning, WrittenSoFar, InputsPass, OutputsPass
<1>5. CASE ValidateNodes \/ DrawEdges \/ Dequeue \/ FollowEdge \/ Succeed
  BY <1>5 DEF ValidateNodes, DrawEdges, Dequeue, FollowEdge, Succeed, Fail, scanVars, CompileInv, ScanInv
<1> QED
  BY <1>1, <1>2, <1>3, <1>4, <1>5 DEF Next, Halted

----------------------------------------------------------------------------
(* Each step is a step of the promise or changes nothing of it.            *)

LEMMA RejectedBlocksAreInvalid ==
  ASSUME CompileInv, Next, stage' = "failed", stage # "failed"
  PROVE  ~Promise!Valid(graph)
<1>1. CASE ValidateNodes
  <2>1. PICK v \in DOMAIN graph : NodeRejected(v)
    BY <1>1 DEF ValidateNodes
  <2>2. DOMAIN graph = 1..Len(graph) /\ Len(graph) \in Nat
    BY GraphFacts DEF CompileInv, SortInv, TypeOK
  <2>3. ~Promise!NodeWellFormed(graph, v)
    BY <2>1, <2>2 DEF NodeRejected, Promise!NodeWellFormed, Promise!Nodes
  <2> QED
    BY <2>3 DEF Promise!Valid, Promise!Nodes
<1>2. CASE DrawEdges
  <2>1. PICK v \in DOMAIN graph : \E x \in Elems(graph[v].outputs) : ~Writable(x)
    BY <1>2 DEF DrawEdges
  <2> PICK r \in Elems(graph[v].outputs) : ~Writable(r)
    BY <2>1
  <2>2. r \in Promise!Outputs(graph, v) /\ ~Promise!OutputAllowed(r)
    BY <2>1 DEF Elems, Promise!Outputs, Promise!OutputAllowed, Writable
  <2> QED
    BY <2>2 DEF Promise!Valid, Promise!Nodes
<1>3. CASE FinishSort
  BY <1>3, StuckIsCyclic DEF FinishSort, CompileInv, Promise!Valid
<1>4. CASE ScanInput
  <2> DEFINE v == Scanning
             i == slot + 1
             r == graph[v].inputs[i].name
  <2>1. stage = "scan" /\ scanned < Len(topoOrder) /\ slot < Len(graph[v].inputs)
    BY <1>4 DEF ScanInput
  <2>2. v \in DOMAIN graph /\ i \in 1..Len(graph[v].inputs) /\ i \in DOMAIN graph[v].inputs
    BY <2>1, ScanningFacts
  <2>3. r \notin DOMAIN Kind \/ (graph[v].inputs[i].access # "WriteOnly" /\ r \notin available)
    BY <1>4 DEF ScanInput
  <2>4. r \in DOMAIN Kind => (r \in available <=> Promise!Supplied(graph, v, r))
    BY <2>1, <2>2, AvailableIsSupplied
  <2>5. ~Promise!InputAllowed(graph, v, i)
    BY <2>3, <2>4 DEF Promise!InputAllowed
  <2> QED
    BY <2>2, <2>5 DEF Promise!Valid, Promise!Nodes
<1>5. CASE ScanOutputs
  <2>1. stage = "scan" /\ scanned < Len(topoOrder)
    BY <1>5 DEF ScanOutputs
  <2>2. PICK r \in Elems(graph[Scanning].outputs) :
          Promise!OutputAccess(graph, Scanning, r) = "ReadOnly"
    BY <1>5 DEF ScanOutputs
  <2> QED
    BY <2>1, <2>2, ScanningFacts DEF Promise!Valid, Promise!Nodes, Promise!Outputs, Elems
<1> QED
  BY <1>1, <1>2, <1>3, <1>4, <1>5 DEF Next, Dequeue, FollowEdge, Succeed, Halted, vars

LEMMA AcceptedBlocksAreValid ==
  ASSUME CompileInv, Succeed
  PROVE  Promise!Valid(graph) /\ Promise!Emitted = DOMAIN graph
<1>1. stage = "scan" /\ scanned = Len(topoOrder) /\ Len(topoOrder) = Len(graph) /\ SortInv
  BY DEF Succeed, CompileInv, ScanInv
<1>2. \A v \in DOMAIN graph : \E k \in 1..scanned : topoOrder[k] = v
  BY <1>1, AllOrdered
<1>3. \A v \in DOMAIN graph : Promise!NodeWellFormed(graph, v)
  <2>1. DOMAIN graph = 1..Len(graph) /\ Len(graph) \in Nat
    BY GraphFacts DEF CompileInv, SortInv, TypeOK
  <2>2. \A v \in DOMAIN graph : ~NodeRejected(v)
    BY <1>1 DEF CompileInv, CheckedInv
  <2> QED
    BY <2>1, <2>2 DEF NodeRejected, Promise!NodeWellFormed, Promise!Nodes
<1>4. \A v \in DOMAIN graph : \A r \in Promise!Outputs(graph, v) : Promise!OutputAllowed(r)
  BY <1>1, KindAssumption DEF CompileInv, CheckedInv, Writable, Promise!OutputAllowed
<1>5. Promise!Acyclic(graph)
  BY <1>1, OrderedIsAcyclic
<1>6. \A v \in DOMAIN graph : InputsPass(v, Len(graph[v].inputs)) /\ OutputsPass(v)
  BY <1>1, <1>2 DEF CompileInv, ScanInv
<1>7. \A v \in DOMAIN graph : \A i \in DOMAIN graph[v].inputs : Promise!InputAllowed(graph, v, i)
  BY <1>1, <1>6, GraphFacts DEF InputsPass, SortInv, TypeOK
<1>8. Promise!Emitted = DOMAIN graph
  <2>1. /\ DOMAIN topoOrder = 1..Len(topoOrder)
        /\ \A k \in 1..Len(topoOrder) : topoOrder[k] \in DOMAIN graph
    BY <1>1, OrderFacts
  <2>2. \A x : x \in Promise!Emitted <=> \E k \in 1..Len(topoOrder) : topoOrder[k] = x
    BY <2>1 DEF Promise!Emitted
  <2> QED
    BY <1>1, <1>2, <2>1, <2>2
<1> QED
  BY <1>3, <1>4, <1>5, <1>6, <1>7, <1>8 DEF Promise!Valid, Promise!Nodes, OutputsPass

LEMMA StepKeepsPromise ==
  CompileInv /\ [Next]_vars => [Promise!ScheduleNext]_Promise!schedule
<1> SUFFICES ASSUME CompileInv, [Next]_vars, ~UNCHANGED Promise!schedule
             PROVE  Promise!ScheduleNext
  OBVIOUS
<1> USE DEF Promise!schedule
<1>1. CASE Dequeue
  <2> DEFINE current == ready[Len(topoOrder) + 1]
  <2>1. /\ UNCHANGED <<graph, stage>> /\ stage = "sort" /\ Len(topoOrder) < Len(ready)
        /\ topoOrder' = Append(topoOrder, current)
    BY <1>1 DEF Dequeue
  <2>2. Len(topoOrder) + 1 \in 1..Len(ready) /\ current \in DOMAIN graph
    <3>1. ready \in Seq(DOMAIN graph) /\ Len(topoOrder) \in Nat /\ Len(ready) \in Nat
      BY OrderFacts DEF CompileInv
    <3> QED
      BY <2>1, <3>1
  <2>3. current \notin Promise!Emitted
    <3>1. \A k \in 1..Len(topoOrder) : topoOrder[k] = ready[k] /\ k \in 1..Len(ready) /\ k # Len(topoOrder) + 1
      BY <2>1, OrderFacts DEF CompileInv, SortInv, WorklistInv
    <3>2. \A k \in 1..Len(topoOrder) : topoOrder[k] # current
      BY <2>2, <3>1 DEF CompileInv, SortInv, WorklistInv
    <3> QED
      BY <3>2, OrderFacts DEF CompileInv, Promise!Emitted
  <2>4. \A u \in DOMAIN graph : Promise!DependsOn(graph, current, u) => u \in Promise!Emitted
    <3> SUFFICES ASSUME NEW u \in DOMAIN graph, Promise!DependsOn(graph, current, u)
                 PROVE  u \in Promise!Emitted
      OBVIOUS
    <3>1. PICK e \in Edges : e[1][1] = u /\ e[2][1] = current
      BY <2>2, EdgesAreDependencies
    <3>2. PICK j \in 1..((Len(topoOrder) + 1) - 1) : topoOrder[j] = u
      BY <2>2, <3>1 DEF CompileInv, SortInv, WorklistInv
    <3> QED
      BY <3>2, OrderFacts DEF CompileInv, Promise!Emitted
  <2>5. Promise!Emit(current)
    BY <2>1, <2>3, <2>4 DEF Promise!Emit, Promise!Nodes
  <2> QED
    BY <2>2, <2>5 DEF Promise!ScheduleNext, Promise!Nodes
<1>2. CASE Succeed
  <2>1. UNCHANGED <<graph, topoOrder>> /\ stage = "scan" /\ stage' = "done"
    BY <1>2 DEF Succeed, sortVars
  <2> QED
    BY <1>2, <2>1, AcceptedBlocksAreValid DEF Promise!ScheduleNext, Promise!Accept, Promise!Nodes
<1>3. CASE (ValidateNodes \/ DrawEdges \/ FinishSort \/ ScanInput \/ ScanOutputs) /\ stage' = "failed"
  <2>1. UNCHANGED <<graph, topoOrder>> /\ stage \notin {"failed", "done"}
    BY <1>3 DEF ValidateNodes, DrawEdges, FinishSort, ScanInput, ScanOutputs, sortVars
  <2>2. ~Promise!Valid(graph)
    BY <1>3, <2>1, RejectedBlocksAreInvalid DEF Next
  <2> QED
    BY <1>3, <2>1, <2>2 DEF Promise!ScheduleNext, Promise!Reject
<1>4. ~(ValidateNodes \/ DrawEdges \/ FinishSort \/ ScanInput \/ ScanOutputs) \/ stage' = "failed"
  BY DEF ValidateNodes, DrawEdges, FinishSort, ScanInput, ScanOutputs, sortVars, Fail
<1>5. ~FollowEdge /\ ~UNCHANGED vars
  BY DEF FollowEdge, vars, sortVars
<1> QED
  BY <1>1, <1>2, <1>3, <1>4, <1>5 DEF Next, Halted

(* Compiling a block implements the declarative promise: it is accepted    *)
(* only when valid, rejected only when not, and handed out in an order     *)
(* that respects every dependency (lines 87-327).                          *)
THEOREM Implements == Spec => KeepsPromise
<1>1. Init => Promise!ScheduleInit
  BY DEF Init, Promise!ScheduleInit
<1> QED
  BY <1>1, CompileInvInit, CompileInvNext, StepKeepsPromise, PTL
     DEF Spec, KeepsPromise, Promise!ScheduleSpec

----------------------------------------------------------------------------
(* The barriers CompileComputeGraph derives, for every set of blocks and   *)
(* every configuration: none points back or past another writer, and every *)
(* reader of a resource has one against its last writer.                   *)

BarrierTypes == {"BufferWriteToVertex", "BufferWriteToRead", "ImageWriteToSample", "ImageWriteToStorage"}
BarrierSet == [before : DOMAIN graph, after : DOMAIN graph, resource : DOMAIN Kind, type : BarrierTypes]

Writes(k, r) == r \in Promise!Outputs(graph, topoOrder[k])

(* Of the first n nodes in order, the j-th is the last to write r.         *)
LastWrite(r, j, n) == j \in 1..n /\ Writes(j, r) /\ \A m \in (j + 1)..n : ~Writes(m, r)

(* lastWriter says who wrote a resource last, and how.                     *)
WriterInv ==
  /\ \A k \in 1..scanned : Promise!Outputs(graph, topoOrder[k]) \subseteq DOMAIN lastWriter
  /\ \A r \in DOMAIN lastWriter :
       \E j \in 1..scanned :
         /\ LastWrite(r, j, scanned)
         /\ lastWriter[r] = [node |-> topoOrder[j], access |-> Promise!OutputAccess(graph, topoOrder[j], r)]
         /\ lastWriter[r].access # "ReadOnly"

(* The i-th input of the k-th node in order has been looked at.            *)
Visited(k, i) == k <= scanned \/ (k = scanned + 1 /\ i <= slot)

HasBarrier(j, k, r) ==
  \E b \in Elems(barriers) : b.before = topoOrder[j] /\ b.after = topoOrder[k] /\ b.resource = r

(* Every input that was looked at has its barrier, and every barrier is    *)
(* one between a node and the last writer before it.                       *)
BarrierInv ==
  /\ barriers \in Seq(BarrierSet)
  /\ \A k \in 1..Len(topoOrder) : \A i \in 1..Len(graph[topoOrder[k]].inputs) :
       Visited(k, i) =>
         LET r == graph[topoOrder[k]].inputs[i].name
         IN \A j \in 1..(k - 1) : LastWrite(r, j, k - 1) => HasBarrier(j, k, r)
  /\ \A b \in Elems(barriers) :
       \E k \in 1..Len(topoOrder) : \E j \in 1..(k - 1) :
         /\ b.before = topoOrder[j] /\ b.after = topoOrder[k]
         /\ LastWrite(b.resource, j, k - 1)

EndInv ==
  /\ scanned <= Len(topoOrder)
  /\ stage = "done" => scanned = Len(topoOrder) /\ Len(topoOrder) = Len(graph)

ScheduleInv == CompileInv /\ EndInv /\ WriterInv /\ BarrierInv

----------------------------------------------------------------------------
(* What the parts of the invariant rest on stays as it is.                 *)

LEMMA FrameFacts ==
  ASSUME UNCHANGED <<graph, topoOrder>>
  PROVE  /\ \A k, r : Writes(k, r)' <=> Writes(k, r)
         /\ \A r, j, n : LastWrite(r, j, n)' <=> LastWrite(r, j, n)
         /\ \A k, r : Promise!OutputAccess(graph, topoOrder[k], r)' = Promise!OutputAccess(graph, topoOrder[k], r)
         /\ BarrierSet' = BarrierSet
BY DEF Writes, LastWrite, Promise!Outputs, Promise!OutputAccess, Promise!Reads, Promise!FirstInput, BarrierSet

LEMMA QuietScan ==
  ASSUME WriterInv, BarrierInv, UNCHANGED <<graph, topoOrder, scanned, slot, lastWriter, barriers>>
  PROVE  WriterInv' /\ BarrierInv'
<1>1. /\ \A k, i : Visited(k, i)' <=> Visited(k, i)
      /\ \A j, k, r : HasBarrier(j, k, r)' <=> HasBarrier(j, k, r)
      /\ Elems(barriers)' = Elems(barriers)
  BY DEF Visited, HasBarrier, Elems
<1>2. WriterInv'
  BY <1>1, FrameFacts DEF WriterInv, Promise!Outputs
<1>3. BarrierInv'
  BY <1>1, FrameFacts DEF BarrierInv
<1> QED
  BY <1>2, <1>3

(* Only one node is the last to write a resource.                          *)
LEMMA LastWriteUnique ==
  ASSUME NEW r, NEW n \in Nat, NEW j \in Nat, NEW k \in Nat, LastWrite(r, j, n), LastWrite(r, k, n)
  PROVE  j = k
<1>1. CASE j < k
  BY <1>1 DEF LastWrite
<1>2. CASE k < j
  BY <1>2 DEF LastWrite
<1> QED
  BY <1>1, <1>2

(* The resources of the last writers can have a barrier.                   *)
LEMMA DerivedFacts ==
  ASSUME NEW kind \in {"Buffer", "Image"}, NEW src, src # "ReadOnly", NEW dst, NEW render \in BOOLEAN
  PROVE  DeriveBarrier(kind, src, dst, render) \in BarrierTypes
BY DEF DeriveBarrier, BarrierTypes

LEMMA ScheduleInvInit == Init => ScheduleInv
<1> SUFFICES ASSUME Init PROVE ScheduleInv
  OBVIOUS
<1>1. CompileInv
  BY CompileInvInit
<1>2. scanned = 0 /\ slot = 0 /\ barriers = <<>> /\ DOMAIN lastWriter = {} /\ topoOrder = <<>> /\ Len(topoOrder) = 0
  BY DEF Init
<1>3. EndInv /\ WriterInv
  BY <1>2 DEF EndInv, WriterInv, Init
<1>4. BarrierInv
  BY <1>2 DEF BarrierInv, Elems
<1> QED
  BY <1>1, <1>3, <1>4 DEF ScheduleInv

----------------------------------------------------------------------------
(* Looking at an input draws its barrier.                                  *)

LEMMA WriterQuiet ==
  ASSUME WriterInv, UNCHANGED <<graph, topoOrder, scanned, lastWriter>>
  PROVE  WriterInv'
BY FrameFacts DEF WriterInv, Promise!Outputs

(* A barrier drawn while an input is looked at stands between the reader   *)
(* and the last writer before it.                                          *)
LEMMA BarrierFacts ==
  ASSUME ScheduleInv, stage = "scan", scanned < Len(topoOrder),
         NEW r \in DOMAIN lastWriter, NEW access
  PROVE  /\ BarrierFor(r, lastWriter[r], Scanning, access) \in BarrierSet
         /\ BarrierFor(r, lastWriter[r], Scanning, access).type # "None"
         /\ BarrierFor(r, lastWriter[r], Scanning, access).after = topoOrder[scanned + 1]
         /\ BarrierFor(r, lastWriter[r], Scanning, access).resource = r
         /\ \E j \in 1..scanned :
              /\ LastWrite(r, j, scanned)
              /\ BarrierFor(r, lastWriter[r], Scanning, access).before = topoOrder[j]
<1> DEFINE b == BarrierFor(r, lastWriter[r], Scanning, access)
           render == PassType[graph[Scanning].pass] # "compute"
<1>1. PICK j \in 1..scanned : /\ LastWrite(r, j, scanned)
                              /\ lastWriter[r].node = topoOrder[j]
                              /\ lastWriter[r].access # "ReadOnly"
  BY DEF ScheduleInv, WriterInv
<1>2. scanned \in Nat /\ scanned + 1 \in 1..Len(topoOrder) /\ Scanning \in DOMAIN graph
  BY ScanningFacts DEF ScheduleInv
<1>3. SortInv /\ j \in 1..Len(topoOrder)
  BY <1>2, OrderFacts DEF ScheduleInv, CompileInv
<1>4. topoOrder[j] \in DOMAIN graph
  BY <1>3, OrderFacts
<1>5. r \in DOMAIN Kind /\ Kind[r] \in {"Buffer", "Image"}
  <2>1. Writable(r)
    BY <1>1, <1>4 DEF ScheduleInv, CompileInv, CheckedInv, LastWrite, Writes
  <2> QED
    BY <2>1, KindAssumption DEF Writable
<1>6. DeriveBarrier(Kind[r], lastWriter[r].access, access, render) \in BarrierTypes
  BY <1>1, <1>5, DerivedFacts
<1>7. b = [before |-> topoOrder[j], after |-> Scanning, resource |-> r,
           type |-> DeriveBarrier(Kind[r], lastWriter[r].access, access, render)]
  BY <1>1 DEF BarrierFor
<1>8. b \in BarrierSet /\ b.type # "None" /\ b.after = topoOrder[scanned + 1] /\ b.resource = r /\ b.before = topoOrder[j]
  <2>1. "None" \notin BarrierTypes
    BY DEF BarrierTypes
  <2>2. b.after = Scanning /\ b.resource = r /\ b.before = topoOrder[j] /\ b.type \in BarrierTypes
    BY <1>6, <1>7
  <2>3. b \in BarrierSet
    BY <1>2, <1>4, <1>5, <1>6, <1>7 DEF BarrierSet
  <2> QED
    BY <2>1, <2>2, <2>3 DEF Scanning
<1> QED
  BY <1>1, <1>8

LEMMA ScanInputBarriers == ScheduleInv /\ ScanInput => WriterInv' /\ BarrierInv'
<1> SUFFICES ASSUME ScheduleInv, ScanInput PROVE WriterInv' /\ BarrierInv'
  OBVIOUS
<1> DEFINE r == graph[Scanning].inputs[slot + 1].name
           access == graph[Scanning].inputs[slot + 1].access
           b == BarrierFor(r, lastWriter[r], Scanning, access)
<1>1. /\ stage = "scan" /\ scanned < Len(topoOrder) /\ slot < Len(graph[Scanning].inputs)
      /\ UNCHANGED <<graph, topoOrder, scanned, lastWriter>>
  BY DEF ScanInput, sortVars
<1>2. CASE UNCHANGED <<slot, barriers>>
  BY <1>1, <1>2, QuietScan DEF ScheduleInv
<1>3. CASE slot' = slot + 1 /\ barriers' = IF r \in DOMAIN lastWriter
                                            THEN IF b.type = "None" THEN barriers ELSE Append(barriers, b)
                                            ELSE barriers
  <2>1. WriterInv'
    BY <1>1, WriterQuiet DEF ScheduleInv
  <2>2. /\ scanned \in Nat /\ slot \in Nat /\ scanned + 1 \in 1..Len(topoOrder)
        /\ barriers \in Seq(BarrierSet) /\ Len(topoOrder) \in Nat
    BY <1>1, ScanningFacts, OrderFacts DEF ScheduleInv, CompileInv, BarrierInv
  <2> DEFINE Drawn(x) == /\ x.after = topoOrder[scanned + 1]
                         /\ \E j \in 1..scanned : x.before = topoOrder[j] /\ LastWrite(x.resource, j, scanned)
         Has(j, k, x) == \E y \in Elems(barriers') :
                           y.before = topoOrder[j] /\ y.after = topoOrder[k] /\ y.resource = x
  <2>3. /\ barriers' \in Seq(BarrierSet)
        /\ \A x \in Elems(barriers) : x \in Elems(barriers')
        /\ \A x \in Elems(barriers') : x \in Elems(barriers) \/ Drawn(x)
        /\ \A j \in 1..scanned : LastWrite(r, j, scanned) => Has(j, scanned + 1, r)
    <3>1. CASE r \in DOMAIN lastWriter
      <4>1. PICK j \in 1..scanned : LastWrite(r, j, scanned) /\ b.before = topoOrder[j]
        BY <1>1, <3>1, BarrierFacts
      <4>2. b \in BarrierSet /\ b.type # "None" /\ b.after = topoOrder[scanned + 1] /\ b.resource = r
        BY <1>1, <3>1, BarrierFacts
      <4>3. barriers' = Append(barriers, b)
        BY <1>3, <3>1, <4>2
      <4> HIDE DEF b, r
      <4>4. /\ barriers' \in Seq(BarrierSet) /\ Len(barriers') = Len(barriers) + 1
            /\ barriers'[Len(barriers) + 1] = b /\ Len(barriers) \in Nat
            /\ \A k \in 1..Len(barriers) : barriers'[k] = barriers[k]
        BY <2>2, <4>2, <4>3, AppendFacts
      <4>5. \A x : x \in Elems(barriers') <=> x \in Elems(barriers) \/ x = b
        BY <2>2, <4>4, ElemsFacts
      <4>6. Drawn(b)
        BY <4>1, <4>2
      <4>7. \A i \in 1..scanned : LastWrite(r, i, scanned) => i = j
        BY <2>2, <4>1, LastWriteUnique
      <4>8. Has(j, scanned + 1, r)
        BY <4>1, <4>2, <4>5
      <4> HIDE DEF Drawn, Has
      <4> QED
        BY <4>4, <4>5, <4>6, <4>7, <4>8
    <3>2. CASE r \notin DOMAIN lastWriter
      <4>1. barriers' = barriers
        BY <1>3, <3>2
      <4>2. \A j \in 1..scanned : ~LastWrite(r, j, scanned)
        BY <3>2 DEF ScheduleInv, WriterInv, LastWrite, Writes
      <4> HIDE DEF Drawn, Has
      <4> QED
        BY <2>2, <4>1, <4>2
    <3> QED
      BY <3>1, <3>2
  <2> HIDE DEF b
  <2>4. /\ \A j, k, x : HasBarrier(j, k, x) => Has(j, k, x)
        /\ \A j, k, x : HasBarrier(j, k, x)' <=> Has(j, k, x)
    BY <1>1, <2>3 DEF HasBarrier, Elems
  <2> HIDE DEF Has
  <2>5. (barriers \in Seq(BarrierSet))'
    BY <1>1, <2>3, FrameFacts
  <2>6. ASSUME NEW k \in 1..Len(topoOrder), NEW i \in 1..Len(graph[topoOrder[k]].inputs), Visited(k, i)',
               NEW j \in 1..(k - 1), LastWrite(graph[topoOrder[k]].inputs[i].name, j, k - 1)
        PROVE  Has(j, k, graph[topoOrder[k]].inputs[i].name)
    <3>1. CASE Visited(k, i)
      BY <2>4, <2>6, <3>1 DEF ScheduleInv, BarrierInv
    <3>2. CASE k = scanned + 1 /\ i = slot + 1
      <4>1. graph[topoOrder[k]].inputs[i].name = r
        BY <3>2 DEF Scanning
      <4>2. k - 1 = scanned
        BY <2>2, <3>2
      <4> QED
        BY <2>3, <2>6, <3>2, <4>1, <4>2
    <3>3. i \in Nat
      <4>1. topoOrder[k] \in DOMAIN graph
        BY OrderFacts DEF ScheduleInv, CompileInv
      <4>2. Len(graph[topoOrder[k]].inputs) \in Nat
        BY <4>1, GraphFacts DEF ScheduleInv, CompileInv, SortInv, TypeOK
      <4> QED
        BY <4>2
    <3> QED
      BY <1>1, <1>3, <2>2, <2>6, <3>1, <3>2, <3>3 DEF Visited
  <2>7. ASSUME NEW x \in Elems(barriers')
        PROVE  \E k \in 1..Len(topoOrder) : \E j \in 1..(k - 1) :
                 /\ x.before = topoOrder[j] /\ x.after = topoOrder[k]
                 /\ LastWrite(x.resource, j, k - 1)
    <3>1. CASE x \in Elems(barriers)
      BY <3>1 DEF ScheduleInv, BarrierInv
    <3>2. CASE Drawn(x)
      <4>1. (scanned + 1) - 1 = scanned
        BY <2>2
      <4> QED
        BY <2>2, <3>2, <4>1
    <3> QED
      BY <2>3, <3>1, <3>2
  <2> HIDE DEF Drawn, r
  <2>8. BarrierInv'
    BY <1>1, <2>4, <2>5, <2>6, <2>7, FrameFacts DEF BarrierInv
  <2> QED
    BY <2>1, <2>8
<1> QED
  BY <1>2, <1>3 DEF ScanInput

----------------------------------------------------------------------------
(* The outputs of a node make it the last writer of each of them.          *)
LEMMA ScanOutputsWriters == ScheduleInv /\ ScanOutputs => WriterInv' /\ BarrierInv' /\ scanned' <= Len(topoOrder)
<1> SUFFICES ASSUME ScheduleInv, ScanOutputs PROVE WriterInv' /\ BarrierInv' /\ scanned' <= Len(topoOrder)
  OBVIOUS
<1> DEFINE written == Promise!Outputs(graph, Scanning)
<1>1. /\ stage = "scan" /\ scanned < Len(topoOrder) /\ slot = Len(graph[Scanning].inputs)
      /\ UNCHANGED <<graph, topoOrder, barriers>> /\ Elems(graph[Scanning].outputs) = written
  BY DEF ScanOutputs, sortVars, Elems, Promise!Outputs
<1>2. /\ scanned \in Nat /\ slot \in Nat /\ scanned + 1 \in 1..Len(topoOrder)
      /\ Len(topoOrder) \in Nat /\ Scanning = topoOrder[scanned + 1]
  BY <1>1, ScanningFacts, OrderFacts DEF ScheduleInv, CompileInv, Scanning
<1>3. CASE UNCHANGED <<scanned, slot, lastWriter>>
  BY <1>1, <1>2, <1>3, QuietScan DEF ScheduleInv
<1>4. CASE /\ scanned' = scanned + 1 /\ slot' = 0
           /\ \A r \in written : Promise!OutputAccess(graph, Scanning, r) # "ReadOnly"
           /\ lastWriter' = [r \in DOMAIN lastWriter \cup written |->
                               IF r \in written
                                 THEN [node |-> Scanning, access |-> Promise!OutputAccess(graph, Scanning, r)]
                                 ELSE lastWriter[r]]
  <2>1. \A k \in 1..(scanned + 1) : k \in 1..scanned \/ k = scanned + 1
    BY <1>2
  <2>2. \A r : r \in written <=> Writes(scanned + 1, r)
    BY <1>2 DEF Writes
  <2>3. DOMAIN lastWriter' = DOMAIN lastWriter \cup written
    BY <1>4
  <2>4. (\A k \in 1..scanned : Promise!Outputs(graph, topoOrder[k]) \subseteq DOMAIN lastWriter)'
    <3>1. \A k \in 1..scanned : Promise!Outputs(graph, topoOrder[k]) \subseteq DOMAIN lastWriter
      BY DEF ScheduleInv, WriterInv
    <3>2. \A k \in 1..(scanned + 1) : Promise!Outputs(graph, topoOrder[k]) \subseteq DOMAIN lastWriter'
      BY <1>2, <2>1, <2>3, <3>1
    <3> QED
      BY <1>1, <1>4, <3>2 DEF Promise!Outputs
  <2>5. ASSUME NEW r \in DOMAIN lastWriter'
        PROVE  \E j \in 1..(scanned + 1) :
                 /\ LastWrite(r, j, scanned + 1)
                 /\ lastWriter'[r] = [node |-> topoOrder[j], access |-> Promise!OutputAccess(graph, topoOrder[j], r)]
                 /\ lastWriter'[r].access # "ReadOnly"
    <3>1. CASE r \in written
      <4>1. LastWrite(r, scanned + 1, scanned + 1)
        BY <1>2, <2>2, <3>1 DEF LastWrite
      <4>2. lastWriter'[r] = [node |-> Scanning, access |-> Promise!OutputAccess(graph, Scanning, r)]
        BY <1>4, <3>1
      <4>3. lastWriter'[r].access # "ReadOnly"
        BY <1>4, <3>1, <4>2
      <4> QED
        BY <1>2, <4>1, <4>2, <4>3
    <3>2. CASE r \notin written
      <4>1. r \in DOMAIN lastWriter /\ lastWriter'[r] = lastWriter[r]
        BY <1>4, <3>2
      <4>2. PICK j \in 1..scanned :
              /\ LastWrite(r, j, scanned)
              /\ lastWriter[r] = [node |-> topoOrder[j], access |-> Promise!OutputAccess(graph, topoOrder[j], r)]
              /\ lastWriter[r].access # "ReadOnly"
        BY <4>1 DEF ScheduleInv, WriterInv
      <4>3. LastWrite(r, j, scanned + 1)
        <5>1. j \in 1..(scanned + 1) /\ Writes(j, r)
          BY <1>2, <4>2 DEF LastWrite
        <5>2. \A m \in (j + 1)..(scanned + 1) : m \in (j + 1)..scanned \/ m = scanned + 1
          BY <1>2
        <5> QED
          BY <2>2, <3>2, <4>2, <5>1, <5>2 DEF LastWrite
      <4>4. j \in 1..(scanned + 1)
        BY <1>2
      <4> QED
        BY <4>1, <4>2, <4>3, <4>4
    <3> QED
      BY <3>1, <3>2
  <2> HIDE DEF written
  <2>6. WriterInv'
    <3>1. (\A r \in DOMAIN lastWriter :
             \E j \in 1..scanned :
               /\ LastWrite(r, j, scanned)
               /\ lastWriter[r] = [node |-> topoOrder[j], access |-> Promise!OutputAccess(graph, topoOrder[j], r)]
               /\ lastWriter[r].access # "ReadOnly")'
      <4>1. \A r, j : LastWrite(r, j, scanned)' <=> LastWrite(r, j, scanned + 1)
        BY <1>1, <1>4 DEF LastWrite, Writes, Promise!Outputs
      <4>2. \A r, j : Promise!OutputAccess(graph, topoOrder[j], r)' = Promise!OutputAccess(graph, topoOrder[j], r)
        BY <1>1, FrameFacts
      <4> QED
        BY <1>1, <1>4, <2>5, <4>1, <4>2
    <3> QED
      BY <2>4, <3>1 DEF WriterInv
  <2>7. ASSUME NEW k \in 1..Len(topoOrder), NEW i \in 1..Len(graph[topoOrder[k]].inputs), Visited(k, i)'
        PROVE  Visited(k, i)
    <3>1. i \in Nat /\ i >= 1 /\ i <= Len(graph[topoOrder[k]].inputs)
      <4>1. topoOrder[k] \in DOMAIN graph
        BY OrderFacts DEF ScheduleInv, CompileInv
      <4>2. Len(graph[topoOrder[k]].inputs) \in Nat
        BY <4>1, GraphFacts DEF ScheduleInv, CompileInv, SortInv, TypeOK
      <4> QED
        BY <4>2
    <3>2. k <= scanned + 1
      BY <1>2, <1>4, <2>7, <3>1 DEF Visited
    <3>3. CASE k = scanned + 1
      BY <1>1, <1>2, <3>1, <3>3 DEF Visited
    <3> QED
      BY <1>2, <3>2, <3>3 DEF Visited
  <2>8. BarrierInv'
    <3>1. \A j, k, r : HasBarrier(j, k, r)' <=> HasBarrier(j, k, r)
      BY <1>1 DEF HasBarrier, Elems
    <3>2. Elems(barriers)' = Elems(barriers)
      BY <1>1 DEF Elems
    <3> QED
      BY <1>1, <2>7, <3>1, <3>2, FrameFacts DEF ScheduleInv, BarrierInv
  <2> QED
    BY <1>2, <1>4, <2>6, <2>8
<1> QED
  BY <1>1, <1>3, <1>4 DEF ScanOutputs

(* Nothing has been scanned while nodes are still being ordered.           *)
LEMMA DequeueBarriers == ScheduleInv /\ Dequeue => WriterInv' /\ BarrierInv' /\ Len(topoOrder') = Len(topoOrder) + 1
<1> SUFFICES ASSUME ScheduleInv, Dequeue PROVE WriterInv' /\ BarrierInv' /\ Len(topoOrder') = Len(topoOrder) + 1
  OBVIOUS
<1>1. /\ stage = "sort" /\ scanned = 0 /\ slot = 0 /\ UNCHANGED <<graph, scanned, slot, lastWriter, barriers>>
      /\ Len(topoOrder) < Len(ready) /\ topoOrder' = Append(topoOrder, ready[Len(topoOrder) + 1])
  BY DEF Dequeue, scanVars, ScheduleInv, CompileInv, ScanInv
<1>2. SortInv /\ Len(topoOrder) \in Nat
  BY OrderFacts DEF ScheduleInv, CompileInv
<1>3. /\ topoOrder' \in Seq(DOMAIN graph) /\ Len(topoOrder') = Len(topoOrder) + 1
      /\ \A k \in 1..Len(topoOrder) : topoOrder'[k] = topoOrder[k]
  <2>1. topoOrder \in Seq(DOMAIN graph) /\ ready[Len(topoOrder) + 1] \in DOMAIN graph
    BY <1>1, <1>2, OrderFacts
  <2> QED
    BY <1>1, <2>1, AppendFacts
<1>4. DOMAIN lastWriter = {}
  <2> SUFFICES ASSUME NEW r \in DOMAIN lastWriter PROVE FALSE
    OBVIOUS
  <2>1. PICK j \in 1..scanned : TRUE
    BY DEF ScheduleInv, WriterInv
  <2> QED
    BY <1>1, <2>1
<1>5. WriterInv'
  BY <1>1, <1>4 DEF WriterInv
<1>6. \A k \in 1..Len(topoOrder') : \A i \in 1..Len(graph'[topoOrder'[k]].inputs) : ~Visited(k, i)'
  <2> SUFFICES ASSUME NEW k \in 1..Len(topoOrder'), NEW i \in 1..Len(graph'[topoOrder'[k]].inputs)
               PROVE  ~Visited(k, i)'
    OBVIOUS
  <2>1. topoOrder'[k] \in DOMAIN graph
    BY <1>3
  <2>2. Len(graph'[topoOrder'[k]].inputs) \in Nat
    BY <1>1, <1>2, <2>1, GraphFacts DEF SortInv, TypeOK
  <2> QED
    BY <1>1, <1>2, <1>3, <2>2 DEF Visited
<1>7. ASSUME NEW b \in Elems(barriers')
      PROVE  (\E k \in 1..Len(topoOrder) : \E j \in 1..(k - 1) :
                /\ b.before = topoOrder[j] /\ b.after = topoOrder[k]
                /\ LastWrite(b.resource, j, k - 1))'
  <2>1. b \in Elems(barriers)
    BY <1>1
  <2>2. PICK k \in 1..Len(topoOrder) : \E j \in 1..(k - 1) :
               /\ b.before = topoOrder[j] /\ b.after = topoOrder[k]
               /\ LastWrite(b.resource, j, k - 1)
    BY <2>1 DEF ScheduleInv, BarrierInv
  <2>3. PICK j \in 1..(k - 1) :
               /\ b.before = topoOrder[j] /\ b.after = topoOrder[k]
               /\ LastWrite(b.resource, j, k - 1)
    BY <2>2
  <2>4. \A m \in 1..(k - 1) : topoOrder'[m] = topoOrder[m] /\ (Writes(m, b.resource)' <=> Writes(m, b.resource))
    BY <1>1, <1>2, <1>3 DEF Writes, Promise!Outputs
  <2>5. LastWrite(b.resource, j, k - 1)'
    BY <1>2, <2>3, <2>4 DEF LastWrite
  <2>6. b.before = topoOrder'[j] /\ b.after = topoOrder'[k] /\ k \in 1..Len(topoOrder')
    BY <1>2, <1>3, <2>3, <2>4
  <2> QED
    BY <2>3, <2>5, <2>6
<1>8. barriers' \in Seq(BarrierSet')
  BY <1>1 DEF ScheduleInv, BarrierInv, BarrierSet
<1>9. BarrierInv'
  BY <1>6, <1>7, <1>8 DEF BarrierInv, Elems
<1> QED
  BY <1>3, <1>5, <1>9

LEMMA EndInvNext == ScheduleInv /\ [Next]_vars => EndInv'
<1> SUFFICES ASSUME ScheduleInv, [Next]_vars PROVE EndInv'
  OBVIOUS
<1>1. Len(topoOrder) \in Nat /\ scanned \in Nat
  BY OrderFacts DEF ScheduleInv, CompileInv, SortInv, TypeOK
<1>2. CASE Dequeue
  BY <1>1, <1>2, DequeueBarriers DEF Dequeue, scanVars, ScheduleInv, EndInv
<1>3. CASE ScanOutputs
  BY <1>3, ScanOutputsWriters DEF ScanOutputs, sortVars, Fail, ScheduleInv, EndInv
<1>4. CASE Succeed
  BY <1>4 DEF Succeed, sortVars, scanVars, ScheduleInv, EndInv, CompileInv, ScanInv
<1>5. CASE ValidateNodes \/ DrawEdges \/ FollowEdge \/ FinishSort \/ ScanInput \/ UNCHANGED vars
  BY <1>5 DEF ValidateNodes, DrawEdges, FollowEdge, FinishSort, ScanInput, vars, sortVars, scanVars,
              Fail, ScheduleInv, EndInv
<1> QED
  BY <1>2, <1>3, <1>4, <1>5 DEF Next, Halted

LEMMA ScheduleInvNext == ScheduleInv /\ [Next]_vars => ScheduleInv'
<1> SUFFICES ASSUME ScheduleInv, [Next]_vars PROVE WriterInv' /\ BarrierInv'
  BY CompileInvNext, EndInvNext DEF ScheduleInv
<1>1. CASE Dequeue
  BY <1>1, DequeueBarriers
<1>2. CASE ScanInput
  BY <1>2, ScanInputBarriers
<1>3. CASE ScanOutputs
  BY <1>3, ScanOutputsWriters
<1>4. CASE ValidateNodes \/ DrawEdges \/ FollowEdge \/ FinishSort \/ Succeed \/ UNCHANGED vars
  <2>1. UNCHANGED <<graph, topoOrder, scanned, slot, lastWriter, barriers>>
    BY <1>4 DEF ValidateNodes, DrawEdges, FollowEdge, FinishSort, Succeed, vars, sortVars, scanVars
  <2> QED
    BY <2>1, QuietScan DEF ScheduleInv
<1> QED
  BY <1>1, <1>2, <1>3, <1>4 DEF Next, Halted

(* The invariant the scan of lines 247-327 keeps.                          *)
THEOREM ScheduleInvariant == Spec => []ScheduleInv
BY ScheduleInvInit, ScheduleInvNext, PTL DEF Spec

----------------------------------------------------------------------------
(* Whatever the block, a barrier stands between a node and a later one in  *)
(* the order, and no other writer of its resource runs in between          *)
(* (lines 269-283).                                                        *)
THEOREM NoBarrierSkipsAWriter == Spec => []BarriersAreTight
<1>1. ScheduleInv => BarriersAreTight
  <2> SUFFICES ASSUME ScheduleInv, NEW b \in Elems(barriers)
               PROVE  \E j, k \in DOMAIN topoOrder :
                        /\ j < k /\ topoOrder[j] = b.before /\ topoOrder[k] = b.after
                        /\ b.resource \in Promise!Outputs(graph, b.before)
                        /\ \A m \in (j + 1)..(k - 1) : b.resource \notin Promise!Outputs(graph, topoOrder[m])
    BY DEF BarriersAreTight
  <2>1. PICK k \in 1..Len(topoOrder) : \E j \in 1..(k - 1) :
               /\ b.before = topoOrder[j] /\ b.after = topoOrder[k]
               /\ LastWrite(b.resource, j, k - 1)
    BY DEF ScheduleInv, BarrierInv
  <2>2. PICK j \in 1..(k - 1) : /\ b.before = topoOrder[j] /\ b.after = topoOrder[k]
                               /\ LastWrite(b.resource, j, k - 1)
    BY <2>1
  <2>3. DOMAIN topoOrder = 1..Len(topoOrder) /\ Len(topoOrder) \in Nat
    BY OrderFacts DEF ScheduleInv, CompileInv
  <2>4. j \in DOMAIN topoOrder /\ k \in DOMAIN topoOrder /\ j < k
    BY <2>3
  <2> QED
    BY <2>2, <2>4 DEF LastWrite, Writes
<1> QED
  BY <1>1, ScheduleInvariant, PTL

(* Whatever the block, once it is accepted every node that takes r as an   *)
(* input has a barrier against the node that writes r last of all: a       *)
(* reader is ordered after every writer, so that one is the last before it *)
(* (lines 214-231 and 269-320).                                            *)
THEOREM EveryReaderIsGuarded == Spec => []ReadersSeeFinalWrite
<1>1. ScheduleInv => ReadersSeeFinalWrite
  <2> SUFFICES ASSUME ScheduleInv, stage = "done",
                      NEW v \in DOMAIN graph, NEW r \in Promise!Reads(graph, v) \cap DOMAIN lastWriter,
                      lastWriter[r].node # v
               PROVE  \E b \in Elems(barriers) :
                        /\ b.before = lastWriter[r].node /\ b.after = v /\ b.resource = r
                        /\ b.type # "None"
    BY DEF ReadersSeeFinalWrite
  <2>1. scanned = Len(topoOrder) /\ Len(topoOrder) = Len(graph) /\ SortInv /\ Len(topoOrder) \in Nat
    BY OrderFacts DEF ScheduleInv, EndInv, CompileInv
  <2>2. PICK k \in 1..Len(topoOrder) : topoOrder[k] = v
    BY <2>1, AllOrdered
  <2>3. PICK j \in 1..scanned : LastWrite(r, j, scanned) /\ lastWriter[r].node = topoOrder[j]
    BY DEF ScheduleInv, WriterInv
  <2>4. j < k
    <3>1. topoOrder[j] \in DOMAIN graph /\ j \in 1..Len(topoOrder)
      BY <2>1, OrderFacts
    <3>2. Promise!DependsOn(graph, topoOrder[k], topoOrder[j])
      BY <2>2, <2>3 DEF Promise!DependsOn, LastWrite, Writes
    <3>3. PICK i \in 1..(k - 1) : topoOrder[i] = topoOrder[j]
      BY <2>1, <3>1, <3>2, OrderFacts
    <3>4. i \in 1..Len(topoOrder)
      BY <2>1
    <3>5. i = j
      BY <2>1, <3>1, <3>3, <3>4, OrderFacts
    <3> QED
      BY <3>5
  <2>5. LastWrite(r, j, k - 1) /\ j \in 1..(k - 1)
    BY <2>1, <2>3, <2>4 DEF LastWrite
  <2>6. PICK i \in DOMAIN graph[v].inputs : graph[v].inputs[i].name = r
    BY DEF Promise!Reads
  <2>7. i \in 1..Len(graph[topoOrder[k]].inputs)
    BY <2>1, <2>2, GraphFacts DEF SortInv, TypeOK
  <2>8. HasBarrier(j, k, r)
    <3>1. Visited(k, i)
      BY <2>1 DEF Visited
    <3> QED
      BY <2>2, <2>5, <2>6, <2>7, <3>1 DEF ScheduleInv, BarrierInv
  <2>9. PICK b \in Elems(barriers) : b.before = topoOrder[j] /\ b.after = topoOrder[k] /\ b.resource = r
    BY <2>8 DEF HasBarrier
  <2>10. b.type # "None"
    <3>1. barriers \in Seq(BarrierSet)
      BY DEF ScheduleInv, BarrierInv
    <3>2. b \in BarrierSet
      BY <3>1 DEF Elems
    <3> QED
      BY <3>2 DEF BarrierSet, BarrierTypes
  <2> QED
    BY <2>2, <2>3, <2>9, <2>10
<1> QED
  BY <1>1, ScheduleInvariant, PTL
=============================================================================
