-------------------------------- MODULE Cfg --------------------------------
(***************************************************************************)
(* CFGBuilder (bwsl_cfg.cpp): a lowered function, a sequence of linear IR  *)
(* instructions, is cut into basic blocks; the blocks get successors and   *)
(* predecessors, immediate dominators by the Cooper-Harvey-Kennedy         *)
(* iteration, dominance frontiers and dominator-tree children.             *)
(*                                                                         *)
(* Instructions and blocks are numbered from 1, and 0 is NO_BLOCK.  The    *)
(* two walks the code does with pointers that must meet (Intersect and the *)
(* frontier runner) and the depth-first search are steps, so that a walk   *)
(* that leaves the tree or never ends shows up.                            *)
(***************************************************************************)
EXTENDS Dominance

CONSTANTS
  Programs   \* sequences of [op, targets, cont]: targets are instruction numbers,
             \* cont the continue target continueInfo holds for it, or 0

Ops == {"op", "ret", "discard", "jump", "branch", "switch"}

(* A jump keeps one target, a branch its true and its false one; only a     *)
(* switch has any number, its cases and the default.                        *)
Instruction ==
  {i \in [op : Ops, targets : Seq(Nat), cont : Nat] :
     /\ i.op \in {"op", "ret", "discard"} => i.targets = <<>>
     /\ i.op = "jump" => Len(i.targets) = 1
     /\ i.op = "branch" => Len(i.targets) = 2}

ASSUME ProgramsAssumption == Programs \subseteq Seq(Instruction) \ {<<>>}

VARIABLES
  ir,            \* the program
  stage,         \* which pass runs
  instToBlock,   \* instruction -> block
  succ,          \* block -> sequence of successors, NO_BLOCK for a target outside
  pred,          \* block -> sequence of predecessors, one entry per edge
  stack,         \* blocks the depth-first search is inside of
  postorder,     \* blocks in the order they were finished
  idom,          \* block -> immediate dominator, or NO_BLOCK
  cursor,        \* position in postorder, or the join block of the frontier pass
  edge,          \* next predecessor of that block to look at
  newIdom, other,\* the two fingers of Intersect; other is NO_BLOCK when idle,
                 \* and the runner in the frontier pass
  changed,       \* did this sweep change an immediate dominator
  frontier,      \* block -> dominance frontier
  children       \* block -> children in the dominator tree

blockVars == <<ir, instToBlock, succ, pred>>
walkVars == <<cursor, edge, newIdom, other, changed>>
vars == <<blockVars, stage, stack, postorder, idom, walkVars, frontier, children>>

----------------------------------------------------------------------------
(* Passes 1-5 of Build.                                                    *)

IsTerminator(op) == op # "op"

InRange(p, t) == t \in DOMAIN p

(* Mutant of Leaders: what follows a return or a discard starts no         *)
(* block.                                                                  *)
LeadersAfterJumpsOnly(p) ==
  {1}
  \cup UNION {{p[i].targets[k] : k \in DOMAIN p[i].targets} : i \in DOMAIN p}
  \cup {i + 1 : i \in {j \in DOMAIN p : p[j].op \in {"jump", "branch", "switch"}}}
  \cup {p[i].cont : i \in DOMAIN p}

(* An instruction after a terminator starts a block even when nothing jumps *)
(* there; continue targets start one too.                                   *)
Leaders(p) ==
  {1}
  \cup UNION {{p[i].targets[k] : k \in DOMAIN p[i].targets} \cup {i + 1} :
                i \in {j \in DOMAIN p : IsTerminator(p[j].op)}}
  \cup {p[i].cont : i \in DOMAIN p}

BlockOf(p, i) == Cardinality({l \in Leaders(p) \cap DOMAIN p : l <= i})

LastInst(b) ==
  CHOOSE i \in DOMAIN ir : instToBlock[i] = b /\ \A j \in DOMAIN ir : instToBlock[j] = b => j <= i
FirstInst(b) ==
  CHOOSE i \in DOMAIN ir : instToBlock[i] = b /\ \A j \in DOMAIN ir : instToBlock[j] = b => i <= j

Blocks == {instToBlock[i] : i \in DOMAIN ir}

(* A branch keeps its false target in the second slot: a true target that  *)
(* is outside the program leaves NO_BLOCK in the first.                    *)
SuccessorsOf(p, toBlock, last, count) ==
  LET op == p[last].op
      t == p[last].targets
      block(i) == IF InRange(p, i) THEN toBlock[i] ELSE NO_BLOCK
  IN CASE op \in {"ret", "discard"} -> <<>>
       [] op \in {"jump", "switch"} -> Keep([k \in DOMAIN t |-> block(t[k])], 1..count)
       [] op = "branch" -> IF InRange(p, t[2]) THEN <<block(t[1]), block(t[2])>>
                           ELSE IF InRange(p, t[1]) THEN <<block(t[1])>> ELSE <<>>
       [] OTHER -> IF toBlock[last] < count THEN <<toBlock[last] + 1>> ELSE <<>>

Build ==
  /\ stage = "build"
  /\ instToBlock' = [i \in DOMAIN ir |-> BlockOf(ir, i)]
  /\ LET count == BlockOf(ir, Len(ir))
         last(b) == CHOOSE i \in DOMAIN ir : BlockOf(ir, i) = b
                                             /\ (i = Len(ir) \/ BlockOf(ir, i + 1) # b)
     IN /\ succ' = [b \in 1..count |-> SuccessorsOf(ir, instToBlock', last(b), count)]
        /\ pred' = [b \in 1..count |-> PredecessorsOf(succ', b)]
        /\ idom' = [b \in 1..count |-> NO_BLOCK]
        /\ frontier' = [b \in 1..count |-> {}]
        /\ children' = [b \in 1..count |-> {}]
  /\ stage' = "postorder"
  /\ stack' = <<EntryBlock>>
  /\ UNCHANGED <<ir, postorder, walkVars>>

----------------------------------------------------------------------------
(* ComputePostorder: PostorderDFS from the entry, the rest appended.       *)

Visited == {stack[k] : k \in DOMAIN stack} \cup {postorder[k] : k \in DOMAIN postorder}

Unvisited(b) == {k \in DOMAIN succ[b] : succ[b][k] # NO_BLOCK /\ succ[b][k] \notin Visited}

Descend ==
  /\ stage = "postorder" /\ stack # <<>>
  /\ \E k \in Unvisited(Last(stack)) :
       /\ \A j \in Unvisited(Last(stack)) : k <= j
       /\ stack' = Append(stack, succ[Last(stack)][k])
  /\ UNCHANGED <<blockVars, stage, postorder, idom, walkVars, frontier, children>>

FinishBlock ==
  /\ stage = "postorder" /\ stack # <<>>
  /\ Unvisited(Last(stack)) = {}
  /\ postorder' = Append(postorder, Last(stack))
  /\ stack' = Front(stack)
  /\ UNCHANGED <<blockVars, stage, idom, walkVars, frontier, children>>

(* Blocks the search did not reach follow in block order, then the         *)
(* dominators are initialised.                                             *)
FinishPostorder ==
  /\ stage = "postorder" /\ stack = <<>>
  /\ postorder' = postorder \o Keep([b \in DOMAIN succ |-> b], Blocks \ Visited)
  /\ idom' = [idom EXCEPT ![EntryBlock] = EntryBlock]
  /\ stage' = "dominators"
  /\ cursor' = Len(postorder') /\ edge' = 1 /\ newIdom' = NO_BLOCK /\ other' = NO_BLOCK
  /\ changed' = FALSE
  /\ UNCHANGED <<blockVars, stack, frontier, children>>

PostorderIndex(b) == CHOOSE k \in DOMAIN postorder : postorder[k] = b

----------------------------------------------------------------------------
(* ComputeDominators: sweeps in reverse postorder until nothing changes.   *)

SkipEntry ==
  /\ stage = "dominators" /\ cursor > 0
  /\ postorder[cursor] = EntryBlock
  /\ cursor' = cursor - 1
  /\ UNCHANGED <<blockVars, stage, stack, postorder, idom, edge, newIdom, other, changed, frontier, children>>

(* Mutant of TakePredecessor: predecessors without a dominator take        *)
(* part.                                                                   *)
TakeAnyPredecessor ==
  /\ stage = "dominators" /\ cursor > 0 /\ other = NO_BLOCK
  /\ postorder[cursor] # EntryBlock
  /\ edge <= Len(pred[postorder[cursor]])
  /\ LET p == pred[postorder[cursor]][edge] IN
       IF newIdom = NO_BLOCK THEN edge' = edge + 1 /\ newIdom' = p /\ UNCHANGED other
       ELSE other' = p /\ UNCHANGED <<edge, newIdom>>
  /\ UNCHANGED <<blockVars, stage, stack, postorder, idom, cursor, changed, frontier, children>>

(* A predecessor without a dominator yet is passed over; the first of the  *)
(* others is the candidate, every further one is intersected with it.      *)
TakePredecessor ==
  /\ stage = "dominators" /\ cursor > 0 /\ other = NO_BLOCK
  /\ postorder[cursor] # EntryBlock
  /\ edge <= Len(pred[postorder[cursor]])
  /\ LET p == pred[postorder[cursor]][edge] IN
       IF idom[p] = NO_BLOCK THEN edge' = edge + 1 /\ UNCHANGED <<newIdom, other>>
       ELSE IF newIdom = NO_BLOCK THEN edge' = edge + 1 /\ newIdom' = p /\ UNCHANGED other
       ELSE other' = p /\ UNCHANGED <<edge, newIdom>>
  /\ UNCHANGED <<blockVars, stage, stack, postorder, idom, cursor, changed, frontier, children>>

(* One step of Intersect: the finger with the smaller postorder number     *)
(* moves to its immediate dominator.                                       *)
Climb ==
  /\ stage = "dominators" /\ other # NO_BLOCK
  /\ newIdom # other
  /\ IF PostorderIndex(newIdom) < PostorderIndex(other)
       THEN newIdom' = idom[newIdom] /\ UNCHANGED other
       ELSE other' = idom[other] /\ UNCHANGED newIdom
  /\ UNCHANGED <<blockVars, stage, stack, postorder, idom, cursor, edge, changed, frontier, children>>

FingersMeet ==
  /\ stage = "dominators" /\ other # NO_BLOCK
  /\ newIdom = other
  /\ other' = NO_BLOCK
  /\ edge' = edge + 1
  /\ UNCHANGED <<blockVars, stage, stack, postorder, idom, cursor, newIdom, changed, frontier, children>>

SetIdom ==
  /\ stage = "dominators" /\ cursor > 0 /\ other = NO_BLOCK
  /\ postorder[cursor] # EntryBlock
  /\ edge > Len(pred[postorder[cursor]])
  /\ changed' = (changed \/ newIdom # idom[postorder[cursor]])
  /\ idom' = [idom EXCEPT ![postorder[cursor]] = newIdom]
  /\ cursor' = cursor - 1 /\ edge' = 1 /\ newIdom' = NO_BLOCK
  /\ UNCHANGED <<blockVars, stage, stack, postorder, other, frontier, children>>

(* Mutant of EndSweep: one sweep is enough.                                *)
SweepOnce ==
  /\ stage = "dominators" /\ cursor = 0
  /\ cursor' = 1 /\ stage' = "frontiers"
  /\ UNCHANGED <<blockVars, stack, postorder, idom, edge, newIdom, other, changed, frontier, children>>

(* Mutant of EndSweep: the flag of one sweep is never cleared.             *)
KeepsChanged ==
  /\ stage = "dominators" /\ cursor = 0
  /\ IF changed THEN cursor' = Len(postorder) /\ UNCHANGED stage
                ELSE cursor' = 1 /\ stage' = "frontiers"
  /\ UNCHANGED <<blockVars, stack, postorder, idom, edge, newIdom, other, changed, frontier, children>>

EndSweep ==
  /\ stage = "dominators" /\ cursor = 0
  /\ IF changed THEN cursor' = Len(postorder) /\ changed' = FALSE /\ UNCHANGED stage
                ELSE cursor' = 1 /\ stage' = "frontiers" /\ UNCHANGED changed
  /\ UNCHANGED <<blockVars, stack, postorder, idom, edge, newIdom, other, frontier, children>>

----------------------------------------------------------------------------
(* ComputeDominanceFrontiers: from every predecessor of a join point a     *)
(* runner climbs to the join's immediate dominator.  The counting pass,    *)
(* the fill pass and the removal of duplicates come to a set.              *)

PassOver ==
  /\ stage = "frontiers" /\ cursor <= Cardinality(Blocks) /\ other = NO_BLOCK
  /\ Len(pred[cursor]) < 2 \/ edge > Len(pred[cursor])
  /\ cursor' = cursor + 1 /\ edge' = 1
  /\ UNCHANGED <<blockVars, stage, stack, postorder, idom, newIdom, other, changed, frontier, children>>

StartRunner ==
  /\ stage = "frontiers" /\ cursor <= Cardinality(Blocks) /\ other = NO_BLOCK
  /\ Len(pred[cursor]) >= 2 /\ edge <= Len(pred[cursor])
  /\ other' = IF pred[cursor][edge] = idom[cursor] THEN NO_BLOCK ELSE pred[cursor][edge]
  /\ edge' = edge + 1
  /\ UNCHANGED <<blockVars, stage, stack, postorder, idom, cursor, newIdom, changed, frontier, children>>

(* Mutant of RunUp: the runner does not climb.                             *)
StayDown ==
  /\ stage = "frontiers" /\ other # NO_BLOCK
  /\ frontier' = [frontier EXCEPT ![other] = @ \cup {cursor}]
  /\ other' = NO_BLOCK
  /\ UNCHANGED <<blockVars, stage, stack, postorder, idom, cursor, edge, newIdom, changed, children>>

RunUp ==
  /\ stage = "frontiers" /\ other # NO_BLOCK
  /\ frontier' = [frontier EXCEPT ![other] = @ \cup {cursor}]
  /\ other' = IF idom[other] = idom[cursor] THEN NO_BLOCK ELSE idom[other]
  /\ UNCHANGED <<blockVars, stage, stack, postorder, idom, cursor, edge, newIdom, changed, children>>

(* ComputeDominatorTreeChildren: every block hangs below its immediate     *)
(* dominator, the entry and the unreachable blocks below nothing.          *)
BuildChildren ==
  /\ stage = "frontiers" /\ cursor > Cardinality(Blocks)
  /\ children' = [b \in Blocks |-> {c \in Blocks : idom[c] = b /\ c # b}]
  /\ stage' = "done"
  /\ UNCHANGED <<blockVars, stack, postorder, idom, walkVars, frontier>>

Done == stage = "done" /\ UNCHANGED vars

Init ==
  /\ ir \in Programs
  /\ stage = "build"
  /\ instToBlock = <<>> /\ succ = <<>> /\ pred = <<>>
  /\ stack = <<>> /\ postorder = <<>> /\ idom = <<>>
  /\ cursor = 0 /\ edge = 0 /\ newIdom = NO_BLOCK /\ other = NO_BLOCK /\ changed = FALSE
  /\ frontier = <<>> /\ children = <<>>

Next ==
  \/ Build
  \/ Descend \/ FinishBlock \/ FinishPostorder
  \/ SkipEntry \/ TakePredecessor \/ Climb \/ FingersMeet \/ SetIdom \/ EndSweep
  \/ PassOver \/ StartRunner \/ RunUp \/ BuildChildren
  \/ Done

(* The passes run one after another without waiting for anything.          *)
Spec == Init /\ [][Next]_vars
FairSpec == Spec /\ WF_vars(Next)

----------------------------------------------------------------------------
(* Reference notion: the execution order of instructions.                  *)

(* Where control may go after instruction i, in the linear IR itself.      *)
FlowsTo(i) ==
  {t \in DOMAIN ir : IF IsTerminator(ir[i].op)
                       THEN \E k \in DOMAIN ir[i].targets : ir[i].targets[k] = t
                       ELSE t = i + 1}

(* The blocks mean what the linear program means: control leaves a block   *)
(* only from its last instruction, arrives only at a first one, and the    *)
(* block graph has exactly the edges the instructions have, dead code      *)
(* after a return or discard included (FindLeaders to ComputePredecessors).*)
BlocksMeanTheProgram ==
  stage = "done" =>
    /\ \A i \in DOMAIN ir : IsTerminator(ir[i].op) => i = LastInst(instToBlock[i])
    /\ \A i \in DOMAIN ir : \A t \in FlowsTo(i) :
         \/ instToBlock[t] = instToBlock[i] /\ t = i + 1 /\ ~IsTerminator(ir[i].op)
         \/ i = LastInst(instToBlock[i]) /\ t = FirstInst(instToBlock[t])
    /\ \A b \in Blocks : {FirstInst(succ[b][k]) : k \in {j \in DOMAIN succ[b] : succ[b][j] # NO_BLOCK}}
                         = FlowsTo(LastInst(b))
    /\ \A b \in Blocks : {pred[b][k] : k \in DOMAIN pred[b]} = EdgesTo(succ, b)

(* Intersect's fingers stay inside the dominator tree: neither ever steps  *)
(* off a block whose dominator has not been computed, which the code would *)
(* use as an array index (lines 378-389).                                  *)
FingersStayInTree ==
  stage = "dominators" /\ other # NO_BLOCK =>
    /\ newIdom # NO_BLOCK
    /\ idom[newIdom] # NO_BLOCK /\ idom[other] # NO_BLOCK

(* After the iteration every reachable block has its immediate dominator   *)
(* in the sense of paths, irreducible loops included, and an unreachable   *)
(* one has none (lines 391-438).                                           *)
DominatorsCorrect ==
  stage \in {"frontiers", "done"} =>
    \A b \in Blocks :
      IF b \notin Reachable(succ) THEN idom[b] = NO_BLOCK
      ELSE IF b = EntryBlock THEN idom[b] = b
      ELSE /\ idom[b] # b /\ Dominates(succ, idom[b], b)
           /\ \A a \in Reachable(succ) \ {b} : Dominates(succ, a, b) => Dominates(succ, a, idom[b])

(* The frontier of a reachable block a is where its dominance ends: the    *)
(* blocks with a predecessor a dominates that a does not strictly dominate.*)
(* The entry is left out: it is its own immediate dominator and the edge   *)
(* into the function is no predecessor, so lines 449-463 put it only into  *)
(* the frontiers of other blocks, and only when two edges lead back to it. *)
FrontiersCorrect ==
  stage = "done" =>
    \A a \in Reachable(succ) :
      frontier[a] \ {EntryBlock} =
        {b \in Reachable(succ) \ {EntryBlock} :
           /\ \E q \in Reachable(succ) : q \in EdgesTo(succ, b) /\ Dominates(succ, a, q)
           /\ ~(a # b /\ Dominates(succ, a, b))}

(* Every pass ends: the depth-first search, the sweeps, Intersect and the  *)
(* frontier runners, irreducible and unreachable code included.            *)
Terminates == <>(stage = "done")
=============================================================================
