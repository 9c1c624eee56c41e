---------------------------- MODULE ComputeGraph ----------------------------
(***************************************************************************)
(* CompileComputeGraph (bwsl_compute_graph.cpp): the nodes of a pipeline's *)
(* compute_graph block are validated, dependency edges are drawn from the  *)
(* nodes that output a resource to the nodes that take it as an input,     *)
(* Kahn's algorithm orders them, and one scan in that order checks that    *)
(* nothing is read before it is written and derives the barriers.          *)
(*                                                                         *)
(* A node is its index in the block: pass names are unique once the first  *)
(* step has succeeded, so nodeIndexByHash is a bijection.  An edge is a    *)
(* pair <<<<u, o>>, <<v, i>>>>: output slot o of node u feeds input slot i *)
(* of node v; a resource listed twice gives two edges, as in the code.     *)
(***************************************************************************)
EXTENDS Naturals, Sequences, FiniteSets

CONSTANTS
  Passes,          \* pass names a block may use, declared or not
  Resources,       \* resource names a block may use, configured or not
  Graphs,          \* the blocks a run starts from
  PipelinePasses,  \* names of the passes the pipeline declares
  PassType,        \* function: pass of the render config -> "compute" or "render"
  Kind             \* function: resource of the render config -> its kind

(* What ParseComputeGraphNode builds: slots may repeat a resource.         *)
Node == [pass : Passes,
         inputs : Seq([name : Resources, access : {"ReadOnly", "WriteOnly", "ReadWrite"}]),
         outputs : Seq(Resources)]

ASSUME GraphsAssumption == Graphs \subseteq Seq(Node)
ASSUME KindAssumption == \A r \in DOMAIN Kind : Kind[r] \in {"Uniform", "Buffer", "Image", "Sampler"}

VARIABLES
  graph,       \* the parsed block
  stage,       \* which loop of CompileComputeGraph runs
  error,       \* why it stopped, "none" until it does
  inDegree,    \* node -> edges that still lead to it
  ready,       \* nodes whose edges have all been followed, in that order
  topoOrder,   \* the nodes dequeued so far: a prefix of ready
  remaining,   \* edges of the dequeued node not yet followed
  scanned,     \* nodes of topoOrder the scan has finished
  slot,        \* input slots of the node being scanned already looked at
  available,   \* resources that hold something
  lastWriter,  \* resource -> [node, access], for those some scanned node wrote
  barriers     \* the derived barriers

sortVars == <<inDegree, ready, topoOrder, remaining>>
scanVars == <<scanned, slot, available, lastWriter, barriers>>
vars == <<graph, stage, error, sortVars, scanVars>>

(* The reader of the block, its access modes and the promise it is held to. *)
Promise == INSTANCE ComputeSchedule
             WITH order <- topoOrder,
                  verdict <- IF stage = "failed" THEN "rejected"
                             ELSE IF stage = "done" THEN "accepted" ELSE "open"

Elems(s) == {s[k] : k \in DOMAIN s}

Fail(why) == stage' = "failed" /\ error' = why

----------------------------------------------------------------------------
(* Lines 87-109: every node names a declared pass of the config, once.     *)

NodeRejected(v) ==
  \/ graph[v].pass \notin PipelinePasses
  \/ graph[v].pass \notin DOMAIN PassType
  \/ \E u \in DOMAIN graph : u < v /\ graph[u].pass = graph[v].pass

ValidateNodes ==
  /\ stage = "nodes"
  /\ IF \E v \in DOMAIN graph : NodeRejected(v)
       THEN Fail("bad node")
       ELSE stage' = "outputs" /\ UNCHANGED error
  /\ UNCHANGED <<graph, sortVars, scanVars>>

(* Lines 138-212: outputs are checked while the producers are collected,   *)
(* then the edges are drawn and the nodes without any become ready.        *)

Writable(r) == r \in DOMAIN Kind /\ Kind[r] \notin {"Uniform", "Sampler"}

OutSlots == UNION {{<<u, o>> : o \in DOMAIN graph[u].outputs} : u \in DOMAIN graph}
InSlots == UNION {{<<v, i>> : i \in DOMAIN graph[v].inputs} : v \in DOMAIN graph}

Edges == {e \in OutSlots \X InSlots :
            /\ e[1][1] # e[2][1]
            /\ graph[e[1][1]].outputs[e[1][2]] = graph[e[2][1]].inputs[e[2][2]].name}

EdgesInto(v) == {e \in Edges : e[2][1] = v}
(* Mutant of EdgesFrom: edges back to the node are followed though they    *)
(* were not counted.                                                       *)
EdgesFromWithSelf(u) == {e \in OutSlots \X InSlots :
                           /\ e[1][1] = u
                           /\ graph[u].outputs[e[1][2]] = graph[e[2][1]].inputs[e[2][2]].name}

EdgesFrom(u) == {e \in Edges : e[1][1] = u}

Roots == {v \in DOMAIN graph : EdgesInto(v) = {}}

Ascending(s) == \A j, k \in DOMAIN s : j < k => s[j] < s[k]

DrawEdges ==
  /\ stage = "outputs"
  /\ IF \E v \in DOMAIN graph : \E r \in Elems(graph[v].outputs) : ~Writable(r)
       THEN Fail("bad output") /\ UNCHANGED <<inDegree, ready>>
       ELSE /\ stage' = "sort"
            /\ inDegree' = [v \in DOMAIN graph |-> Cardinality(EdgesInto(v))]
            /\ \E s \in [1..Cardinality(Roots) -> Roots] :
                 Ascending(s) /\ Elems(s) = Roots /\ ready' = s
            /\ UNCHANGED error
  /\ UNCHANGED <<graph, topoOrder, remaining, scanVars>>

----------------------------------------------------------------------------
(* Lines 214-236: the worklist.  The inner loop over the edges of the node *)
(* just dequeued follows one edge per step, in the order they were drawn:  *)
(* by dependent, then by its input slot, then by the producer's slot.      *)

Dequeue ==
  /\ stage = "sort"
  /\ remaining = {}
  /\ Len(topoOrder) < Len(ready)
  /\ LET current == ready[Len(topoOrder) + 1] IN
       /\ topoOrder' = Append(topoOrder, current)
       /\ remaining' = EdgesFrom(current)
  /\ UNCHANGED <<graph, stage, error, inDegree, ready, scanVars>>

DrawnBefore(e, f) ==
  \/ e[2][1] < f[2][1]
  \/ e[2][1] = f[2][1] /\ e[2][2] < f[2][2]
  \/ e[2] = f[2] /\ e[1][2] < f[1][2]

(* Mutant of FollowEdge: a node is ready as soon as one edge to it was     *)
(* followed.                                                               *)
ReadyAtFirstEdge ==
  /\ stage = "sort"
  /\ \E e \in remaining :
       /\ \A f \in remaining \ {e} : DrawnBefore(e, f)
       /\ IF inDegree[e[2][1]] > 0
            THEN inDegree' = [inDegree EXCEPT ![e[2][1]] = 0] /\ ready' = Append(ready, e[2][1])
            ELSE UNCHANGED <<inDegree, ready>>
       /\ remaining' = remaining \ {e}
  /\ UNCHANGED <<graph, stage, error, topoOrder, scanVars>>

FollowEdge ==
  /\ stage = "sort"
  /\ \E e \in remaining :
       /\ \A f \in remaining \ {e} : DrawnBefore(e, f)
       /\ LET dependent == e[2][1] IN
            IF inDegree[dependent] > 0
              THEN /\ inDegree' = [inDegree EXCEPT ![dependent] = @ - 1]
                   /\ ready' = IF inDegree[dependent] = 1
                                 THEN Append(ready, dependent) ELSE ready
              ELSE UNCHANGED <<inDegree, ready>>
       /\ remaining' = remaining \ {e}
  /\ UNCHANGED <<graph, stage, error, topoOrder, scanVars>>

(* Mutant of FinishSort: nodes that were never ready are forgotten.        *)
ForgetsCycles ==
  /\ stage = "sort" /\ remaining = {} /\ Len(topoOrder) = Len(ready)
  /\ stage' = "scan"
  /\ available' = {r \in DOMAIN Kind : Kind[r] = "Uniform"}
  /\ UNCHANGED <<graph, error, sortVars, scanned, slot, lastWriter, barriers>>

FinishSort ==
  /\ stage = "sort"
  /\ remaining = {}
  /\ Len(topoOrder) = Len(ready)
  /\ IF Len(topoOrder) # Len(graph)
       THEN Fail("circular") /\ UNCHANGED available
       ELSE /\ stage' = "scan"
            /\ available' = {r \in DOMAIN Kind : Kind[r] = "Uniform"}
            /\ UNCHANGED error
  /\ UNCHANGED <<graph, sortVars, scanned, slot, lastWriter, barriers>>

----------------------------------------------------------------------------
(* Lines 247-327: the scan in topological order.                           *)

(* Mutant of DeriveBarrier: only a writer that reads too needs a           *)
(* barrier.                                                                *)
BarrierAfterReadWriteOnly(kind, srcAccess, dstAccess, dstIsRender) ==
  IF srcAccess # "ReadWrite" THEN "None"
  ELSE IF kind = "Buffer" THEN (IF dstIsRender THEN "BufferWriteToVertex" ELSE "BufferWriteToRead")
  ELSE IF dstAccess = "ReadOnly" THEN "ImageWriteToSample" ELSE "ImageWriteToStorage"

DeriveBarrier(kind, srcAccess, dstAccess, dstIsRender) ==
  IF srcAccess = "ReadOnly" THEN "None"
  ELSE IF kind = "Buffer"
         THEN IF dstIsRender THEN "BufferWriteToVertex" ELSE "BufferWriteToRead"
  ELSE IF kind = "Image"
         THEN IF dstAccess = "ReadOnly" THEN "ImageWriteToSample" ELSE "ImageWriteToStorage"
  ELSE "None"

Scanning == topoOrder[scanned + 1]

BarrierFor(r, w, v, access) ==
  [before |-> w.node, after |-> v, resource |-> r,
   type |-> DeriveBarrier(Kind[r], w.access, access, PassType[graph[v].pass] # "compute")]

ScanInput ==
  /\ stage = "scan"
  /\ scanned < Len(topoOrder)
  /\ slot < Len(graph[Scanning].inputs)
  /\ LET v == Scanning
         in == graph[v].inputs[slot + 1]
         r == in.name
     IN IF r \notin DOMAIN Kind
          THEN Fail("unknown input") /\ UNCHANGED <<slot, barriers>>
        ELSE IF in.access # "WriteOnly" /\ r \notin available
          THEN Fail("read before written") /\ UNCHANGED <<slot, barriers>>
        ELSE /\ slot' = slot + 1
             /\ barriers' =
                  IF r \in DOMAIN lastWriter
                    THEN LET b == BarrierFor(r, lastWriter[r], v, in.access)
                         IN IF b.type = "None" THEN barriers ELSE Append(barriers, b)
                    ELSE barriers
             /\ UNCHANGED <<stage, error>>
  /\ UNCHANGED <<graph, sortVars, scanned, available, lastWriter>>

(* Mutant of ScanOutputs: the first writer of a resource stays its last    *)
(* writer.                                                                 *)
KeepsFirstWriter ==
  /\ stage = "scan" /\ scanned < Len(topoOrder) /\ slot = Len(graph[Scanning].inputs)
  /\ LET v == Scanning
         written == Elems(graph[v].outputs)
         access(r) == Promise!OutputAccess(graph, v, r)
     IN IF \E r \in written : access(r) = "ReadOnly"
          THEN Fail("readonly output") /\ UNCHANGED <<scanned, slot, available, lastWriter>>
          ELSE /\ available' = available \cup written
               /\ lastWriter' = [r \in DOMAIN lastWriter \cup written |->
                                   IF r \in DOMAIN lastWriter THEN lastWriter[r]
                                   ELSE [node |-> v, access |-> access(r)]]
               /\ scanned' = scanned + 1 /\ slot' = 0
               /\ UNCHANGED <<stage, error>>
  /\ UNCHANGED <<graph, sortVars, barriers>>

(* The outputs of the node become available and it becomes their last      *)
(* writer, with the access its first input of that name asks for.          *)
ScanOutputs ==
  /\ stage = "scan"
  /\ scanned < Len(topoOrder)
  /\ slot = Len(graph[Scanning].inputs)
  /\ LET v == Scanning
         written == Elems(graph[v].outputs)
         access(r) == Promise!OutputAccess(graph, v, r)
     IN IF \E r \in written : access(r) = "ReadOnly"
          THEN Fail("readonly output") /\ UNCHANGED <<scanned, slot, available, lastWriter>>
          ELSE /\ available' = available \cup written
               /\ lastWriter' = [r \in DOMAIN lastWriter \cup written |->
                                   IF r \in written THEN [node |-> v, access |-> access(r)]
                                                    ELSE lastWriter[r]]
               /\ scanned' = scanned + 1
               /\ slot' = 0
               /\ UNCHANGED <<stage, error>>
  /\ UNCHANGED <<graph, sortVars, barriers>>

Succeed ==
  /\ stage = "scan"
  /\ scanned = Len(topoOrder)
  /\ stage' = "done"
  /\ UNCHANGED <<graph, error, sortVars, scanVars>>

Halted == stage \in {"done", "failed"} /\ UNCHANGED vars

----------------------------------------------------------------------------
Init ==
  /\ graph \in Graphs
  /\ stage = "nodes"
  /\ error = "none"
  /\ inDegree = [v \in DOMAIN graph |-> 0]
  /\ ready = <<>> /\ topoOrder = <<>> /\ remaining = {}
  /\ scanned = 0 /\ slot = 0 /\ available = {} /\ barriers = <<>>
  /\ lastWriter = [r \in {} |-> 0]

Next == \/ ValidateNodes \/ DrawEdges
        \/ Dequeue \/ FollowEdge \/ FinishSort
        \/ ScanInput \/ ScanOutputs \/ Succeed
        \/ Halted

(* The compiler is one loop after another: a step that can be taken is.    *)
Fairness == WF_vars(Next)

Spec == Init /\ [][Next]_vars
FairSpec == Spec /\ Fairness

----------------------------------------------------------------------------
(* The shape of the state in every stage of the compilation.               *)
TypeOK ==
  /\ graph \in Graphs
  /\ stage \in {"nodes", "outputs", "sort", "scan", "done", "failed"}
  /\ inDegree \in [DOMAIN graph -> Nat]
  /\ ready \in Seq(DOMAIN graph)
  /\ topoOrder \in Seq(DOMAIN graph)
  /\ remaining \subseteq Edges
  /\ scanned \in Nat /\ slot \in Nat

(* A node is ordered only after every other node that writes something it  *)
(* takes as an input (the order lines 214-231 build), duplicated resources *)
(* and nodes that read what they write included.                           *)
TopologicalOrder ==
  \A k \in DOMAIN topoOrder : \A u \in DOMAIN graph :
    Promise!DependsOn(graph, topoOrder[k], u) => \E j \in 1..(k - 1) : topoOrder[j] = u

(* In an accepted block every node that takes r as an input, but for the   *)
(* node that wrote r last of all, has a barrier against that last write:   *)
(* no reader is left with a barrier against an earlier writer only, or     *)
(* with none (lines 269-284 and 320).                                      *)
ReadersSeeFinalWrite ==
  stage = "done" =>
    \A v \in DOMAIN graph : \A r \in Promise!Reads(graph, v) \cap DOMAIN lastWriter :
      lastWriter[r].node # v =>
        \E b \in Elems(barriers) :
          /\ b.before = lastWriter[r].node /\ b.after = v /\ b.resource = r
          /\ b.type # "None"

(* A barrier never points back in the execution order, is drawn against a  *)
(* node that does write its resource, and no third writer runs between the *)
(* two (lines 269-283).                                                    *)
BarriersAreTight ==
  \A b \in Elems(barriers) :
    \E j, k \in DOMAIN topoOrder :
      /\ j < k /\ topoOrder[j] = b.before /\ topoOrder[k] = b.after
      /\ b.resource \in Promise!Outputs(graph, b.before)
      /\ \A m \in (j + 1)..(k - 1) : b.resource \notin Promise!Outputs(graph, topoOrder[m])

(* The compilation implements the declarative promise of ComputeSchedule:  *)
(* it accepts exactly the valid blocks.                                    *)
KeepsPromise == Promise!ScheduleSpec

=============================================================================
