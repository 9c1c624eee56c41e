-------------------------- MODULE ComputeSchedule --------------------------
(***************************************************************************)
(* What compiling a compute_graph block promises, with no algorithm in it. *)
(* The nodes of a pipeline are handed out one at a time, a node only after *)
(* every other node that writes something it takes as an input; the block  *)
(* is accepted exactly when it is well formed in the declarative sense of  *)
(* Valid, and then every node has been handed out.                         *)
(***************************************************************************)
EXTENDS Naturals, Sequences

CONSTANTS
  PipelinePasses,  \* names of the passes the pipeline declares
  PassType,        \* function: pass of the render config -> "compute" or "render"
  Kind             \* function: resource of the render config -> its kind

VARIABLES
  graph,    \* the block: a sequence of [pass, inputs, outputs]
  order,    \* the node indices handed out so far
  verdict   \* "open", "accepted" or "rejected"

schedule == <<graph, order, verdict>>

Kinds == {"Uniform", "Buffer", "Image", "Sampler"}
Access == {"ReadOnly", "WriteOnly", "ReadWrite"}

Nodes(g) == DOMAIN g

Outputs(g, v) == {g[v].outputs[o] : o \in DOMAIN g[v].outputs}
Reads(g, v) == {g[v].inputs[i].name : i \in DOMAIN g[v].inputs}

(* v takes an input that another node u writes. *)
DependsOn(g, v, u) == u # v /\ Outputs(g, u) \cap Reads(g, v) # {}

(* No group of nodes waits for itself: every non-empty group has a member  *)
(* that depends on nothing in the group.                                   *)
Acyclic(g) ==
  \A S \in SUBSET Nodes(g) :
    S # {} => \E v \in S : \A u \in S : ~DependsOn(g, v, u)

NodeWellFormed(g, v) ==
  /\ g[v].pass \in PipelinePasses /\ g[v].pass \in DOMAIN PassType
  /\ \A u \in Nodes(g) : g[u].pass = g[v].pass => u = v

OutputAllowed(r) == r \in DOMAIN Kind /\ Kind[r] \in {"Buffer", "Image"}

(* Somebody else produces r before v reads it, or it is there from the     *)
(* start because it is a uniform buffer.                                   *)
Supplied(g, v, r) ==
  \/ r \in DOMAIN Kind /\ Kind[r] = "Uniform"
  \/ \E u \in Nodes(g) \ {v} : r \in Outputs(g, u)

InputAllowed(g, v, i) ==
  LET in == g[v].inputs[i] IN
    /\ in.name \in DOMAIN Kind
    /\ in.access # "WriteOnly" => Supplied(g, v, in.name)

(* The first input that names r says how r is accessed; a resource that is *)
(* only written is not among the inputs.                                   *)
FirstInput(g, v, r) ==
  CHOOSE i \in DOMAIN g[v].inputs :
    /\ g[v].inputs[i].name = r
    /\ \A j \in DOMAIN g[v].inputs : g[v].inputs[j].name = r => i <= j

OutputAccess(g, v, r) ==
  IF r \in Reads(g, v) THEN g[v].inputs[FirstInput(g, v, r)].access
                       ELSE "WriteOnly"

Valid(g) ==
  /\ \A v \in Nodes(g) : NodeWellFormed(g, v)
  /\ \A v \in Nodes(g) : \A r \in Outputs(g, v) : OutputAllowed(r)
  /\ Acyclic(g)
  /\ \A v \in Nodes(g) : \A i \in DOMAIN g[v].inputs : InputAllowed(g, v, i)
  /\ \A v \in Nodes(g) : \A r \in Outputs(g, v) : OutputAccess(g, v, r) # "ReadOnly"

Emitted == {order[k] : k \in DOMAIN order}

Emit(v) ==
  /\ verdict = "open"
  /\ v \notin Emitted
  /\ \A u \in Nodes(graph) : DependsOn(graph, v, u) => u \in Emitted
  /\ order' = Append(order, v)
  /\ UNCHANGED <<graph, verdict>>

Accept ==
  /\ verdict = "open"
  /\ Valid(graph)
  /\ Emitted = Nodes(graph)
  /\ verdict' = "accepted"
  /\ UNCHANGED <<graph, order>>

Reject ==
  /\ verdict = "open"
  /\ ~Valid(graph)
  /\ verdict' = "rejected"
  /\ UNCHANGED <<graph, order>>

ScheduleInit == order = <<>> /\ verdict = "open"

ScheduleNext == (\E v \in Nodes(graph) : Emit(v)) \/ Accept \/ Reject

ScheduleSpec == ScheduleInit /\ [][ScheduleNext]_schedule
=============================================================================
