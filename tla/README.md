# Verification of the BWSL compiler

BWSL is a shading language whose compiler (`src/src/`, C++) parses a pipeline, lowers
each shader stage to a linear IR, converts it to SSA, optimises it and writes SPIR-V, WGSL
or GLSL ES.  Around the compiler there is a service that caches compiled variants for a
renderer and recompiles them when files change, a second cache of Metal libraries in front
of it, and a command-line tool with a watch mode.

This directory holds TLA+ models of the parts whose correctness is about order, state and
interleaving rather than about text, the TLC runs that check them, and TLAPS proofs of what
matters most.  The paths below are relative to `src/src/` of the repository unless they
start otherwise; line numbers are of the modelled commit.

## 1. The system

### 1.1 From source to output

| Component | State it keeps | Operations | Model |
|---|---|---|---|
| Lexer (`phases/lexing`) | position in the text | one pass | not modelled |
| Parser (`phases/parser`) | token position, panic mode, open scopes, flags, arrays of the syntax tree and references into them | a recursive descent of some 120 functions, with recovery from errors | `Parser` and the modules below it |
| Module sources (`bwsl_parser_soa_functions.inl`) | cache per build, keyed by name and search path, negative answers included | `LoadModuleSourceFromDisk`, `ResolveModulePath` | `Watch` |
| Module cache and integration (`core/bwsl_module_cache.*`, `core/bwsl_module_integration.h`) | sources, exports, dependency table | add, invalidate, serialise, recursive import | not modelled (see 6) |
| Compile-time evaluation (`phases/evaluation`) | interpreter with step and depth limits | evaluate | not modelled (see 6) |
| Compute graph (`phases/ir_generation/bwsl_compute_graph.cpp`) | nodes, edges, in-degrees, worklist, last writers | validate, sort, derive barriers | `ComputeGraph`, `ComputeSchedule` |
| Lowering (`phases/ir_lowering`) | IR so far, pending jumps per loop, return flag of an inlined call | one function per statement kind | `ControlLowering`, `RangeLoop`, `ExpressionLowering` |
| Control-flow graph (`phases/control_flow`) | blocks, edges, immediate dominators, frontiers, tree | `CFGBuilder::Build` | `Cfg`, `Dominance` |
| SSA (`phases/ssa`) | variables, phis, one version stack each, visited blocks | identify, place phis, rename, clean up, drop dead phis | `Ssa` |
| Optimisation (`phases/optimization`) | lattice, value table | constant propagation with value ranges, store forwarding, rewrites, CSE; struct splitting | `Optimise` and the modules below it (without struct splitting) |
| Backends (`phases/backends`) | output words or text; per block what was written, per register its name, id or variable, the loops that are open | SPIR-V: plan phi variables, give out ids, emit blocks; WGSL and GLES: analyse control, plan expressions, write structured text | `SpirvModule`, `WgslText`, `GlesText`, `Emission` (the body of a function), `SpirvOperations`, `WgslOperations` (its instructions; see 5) |

The passes run one after the other, in one thread: each takes the arrays of the one before.
What is hard in them is not concurrency but the order in which worklists, walks and patches
visit things, state that is saved and restored around nesting, limits of fixed-size tables,
and the numeric edge of the ranges of integer types.

### 1.2 Around the compiler

| Component | State it keeps | Operations | Model |
|---|---|---|---|
| Service core (`core/bwsl_compiler_service_core.h`) | per pipeline the parsed file and its variants; the list of recent uses | `GetOrCompileVariant`, `PrecompileCommonVariants`, `HandleFileChange`, `Shutdown` | `CompilerCore` |
| Metal service (`core/bwsl_compiler_service.h`) | Metal libraries, each with a pointer to a variant of the core | the same, and the callback of the core | `MetalService` |
| Watch mode (`bwslc.cpp`, `RunWatchMode`) | per unit a signature, its module dependencies, whether an import failed; signatures of modules; a listing of the module directories | ticks, builds | `Watch` |

These meet a world that goes on meanwhile: files are edited, deleted and created at every
moment, the file watcher reports changes late and in any order, the validator comes and
goes, calls arrive in any order.  The Metal service calls the core and is called back by it;
it holds pointers into the core's map.  The watch loop reads files through the compiler and
finds out only afterwards which ones.

### 1.3 What makes each part correct, and what is hard about it

* *Compute graph*: a node runs after every node whose output it reads; barriers stand
  exactly between a last write and a read; a block is rejected exactly if it is wrong.
  Hazards: duplicate edges in the counters, the last writer that is remembered across nodes,
  a reason for a rejection that is not the reason.
* *Control lowering*: the IR does what the statements do.  Hazards: jumps patched from the
  wrong context; what follows a `return` in an inlined call; a loop that only a flag leaves;
  two constructs that end at the same instruction.
* *Expression lowering*: the instructions compute what the language says of the expression,
  on every target, and what breaks a rule of the language is refused.  Hazards: operands
  evaluated although the source would not, side effects between two uses of one node, folding
  in the compiler's integers, conversions that one target does by itself and another does not,
  picks of a shuffle packed in one way and read in another.
* *Range loops*: the loop visits what the range has.  Hazard: the wrap-around at the limits
  of the type, and the decision that no guard against it is needed.
* *Control-flow graph*: blocks mean the program; dominators are dominators.  Hazards: loops
  with two entries, unreachable code, walks through a tree that is still being computed.
* *SSA*: no value changes.  Hazards: a phi is a definition and needs phis; stacks of limited
  size that drop pushes; registers that run out; phis that keep each other alive; unreachable
  predecessors.
* *Service core*: nobody gets code of an old source, or of another mask; a reload brings
  back what was in use, whatever fails.  Hazards: a failure among several recompilations, a
  tree that does not parse, keys that collide, calls between an edit and its report.
* *Metal service*: the second cache follows the first, and its pointers live.  Hazards: the
  first cache drops a variant on a path without a callback.
* *Watch mode*: no change is missed but in ways one can name; the loop comes to rest.
  Hazards: files that change while they are compiled, dependencies known only afterwards, a
  module that appears in front of another, an import that failed.
* *Optimiser*: a stage does what it did before, and what the analysis says of a register is
  true of every execution.  Hazards: facts of one edge used behind a join, sums that wrap,
  values that go down the lattice and must stay there, a register assigned again behind a
  fact about it, a loop run at compile time whose last turn is not the last.
* *Parser*: every function leaves the scopes and flags as it found them, whatever the text;
  what it accepts it has read; it ends.  Hazards: returns in the middle of a function, loops
  in which nothing is consumed, guards that step over a token without a report, references
  into arrays that move when they grow.
* *Backends*: what a target computes is what the IR computes, and its rules accept the
  output.  Hazards: phis are parallel copies and the text has only assignments; one variable
  serves a web of phis and must hold the member a read asks for; an expression written where
  it is used is evaluated later than where it stood; structured text has to reproduce edges
  that leave, continue and meet; ids are given out before what defines them.
* *Module cache*, *compile-time evaluation*: see the plan; their hazards are listed in
  `PROJECT.json` with the others, at their lines.

## 2. Modules

| Module | What it is |
|---|---|
| `ComputeSchedule` | what compiling a `compute_graph` block promises, without an algorithm |
| `ComputeGraph` | `CompileComputeGraph`, one action per step of its passes |
| `ComputeGraphProofs` | proofs: types, order; the refinement of `ComputeSchedule`; the barriers |
| `Dominance` | predecessors, reachability and dominance in the sense of paths (the reference of the next two) |
| `DominanceProofs` | facts about paths and dominance in any graph, and induction over the natural numbers |
| `Cfg` | `CFGBuilder`, the depth-first search and the two pointer walks step by step |
| `CfgProofs` | proofs: blocks, dominators, `Intersect`, frontiers |
| `Ssa` | `SSAConstructor`, then the program before and after side by side |
| `SsaProofs` | proofs: shapes, the sweep of the phis, the walk over the dominator tree and the stacks |
| `SsaMeaning` | proofs: what renaming makes of instructions and phis, one definition per register, definitions above reads, and that both programs read the same values |
| `IrValues` | values of the IR, what its operations compute in `Width` bits, and intervals of them |
| `ConstantPropagation` | the lattice, its two worklists, branch constraints, widening; then the rewrites: loads that see one store, identities, strength reduction, dead code, folded branches and loops |
| `Optimise` | `PropagateConstants` and the elimination of common subexpressions as the compiler calls them, then the stage before and after side by side |
| `StructuredText` | the structured statements two of the backends write, and what a device computes from them |
| `WgslText` | the WGSL backend on a function: its analysis of control, its phis, its text |
| `GlesText` | the GLES backend on a function |
| `SpirvModule` | the SPIR-V backend on a function, the rules of SPIR-V it relies on, and what a device computes |
| `Emission` | the three backends behind the optimiser |
| `StatementRoutines`, `DeclarationRoutines` | what a routine of the parser is made of, and its functions as routines: expressions, statements, loops and types; declarations, pipelines and modules |
| `Parser` | the state of the parser, the meaning of the instructions, and the state machine over the documents |
| `ControlLowering` | the lowering of control flow as a function, then the program and its IR side by side |
| `ShaderValues` | values of expressions and what an operation computes of them |
| `SourceMeaning` | what the language's documents say an expression or a store means, and which they forbid (the reference of the next three) |
| `ExpressionLowering` | the instructions an expression, a store or a declaration becomes |
| `SpirvOperations`, `WgslOperations` | what the two backends write for an instruction, and what the target makes of it |
| `Expressions` | a program lowered, written for a target and executed, beside its meaning |
| `RangeTypes`, `RangeIteration` | ranges and their integers; what a range loop promises |
| `RangeLoop`, `RangeLoopProofs` | the loop `LowerForRange` emits; its proofs |
| `CompilerCore` | the service core |
| `MetalService` | extends `CompilerCore` with the cache in front of it |
| `ServiceProofs` | proofs of both caches |
| `Watch` | the watch loop, the module source cache and those who edit files |
| `WatchProofs` | proofs: no change is missed but in the three ways that are named |
| `MC...` | values of the constants for TLC |

How state and actions correspond to the code:

* `ComputeGraph`: `topoOrder`, `ready`, `inDegree`, `available` and `lastWriter` are the
  variables of the function; a step of the model validates the nodes, draws the edges,
  dequeues a node, follows one edge, checks for a cycle, scans one input, or scans the
  outputs of a node.  A failed check ends the compilation with the reason the code gives.
  Indices are from 1; names are values.
* `Cfg`: passes 1 to 5 of `Build` are one step (they are loops without memory); the search,
  the dominator sweeps with each move of the fingers of `Intersect`, and the frontier runner
  are steps of their own, so that a walk off the tree or round in circles shows.
* `Ssa`: a step per worklist item, instruction, successor, tree edge and phi marked.  `held`
  is history: the current registers in front of every instruction the walk has passed, which
  the code has on its stacks at that moment only.  No guard reads it.
  Registers count from 0 as in the code.  The last stage runs both programs along one path:
  a definition that executes makes a fresh value in both, so registers agree exactly when
  they hold the result of the same execution.
* `ControlLowering`: the fields of `IRLowering` that control flow uses (`code`, the stack of
  pending jumps, depths, the return flag and its counters) are a record that each `Lower...`
  operator takes and returns, as the C++ functions change the object.  The state machine then
  runs source and IR, each to the next thing an observer sees.  Statements without control
  flow are marks.
* `ExpressionLowering`: again a record that each operator takes and returns; it holds the code,
  the type of each register, the operand the last expression left, the operands remembered
  by node, and the vectors known to be constant.  `SpirvOperations` and `WgslOperations` are
  functions of one instruction, its declared types and the values of its operands: the target
  instruction, checked against the target's rules, gives a value, `IllTyped` where the target
  rejects it, or `Refused` where the backend does.  Those rules are external.  `SourceMeaning`
  is written from `docs/spec/03-types-and-declarations.md`, `04-expressions.md` and
  `09-intrinsics-and-builtins.md`, not from the code, as it is what the code is held against.
* `Optimise`: an action per pass that changes the stage (store forwarding, the fixpoint of
  the lattice, folding, each rewrite, CSE); the worklists run inside an action as recursive
  operators, in the order of the code.  Registers keep their numbers.  In the last stage both
  versions execute on one input, and `ResultsAgree` compares outputs, stores and results.
* `WgslText`, `GlesText`, `SpirvModule`: each backend is a function of the stage, with the
  shape of its C++: an operator per emission routine, which takes what was written so far and
  returns it with more, a failure of the backend included.  The result is not characters but
  a tree of statements (blocks, assignments, `loop` with `continuing`, `if`, `switch`) or a
  map from blocks to SPIR-V instructions.  What a device makes of these is not in the
  repository: `RunText`, `RunSpirv` and the rules a validator applies are external, modelled
  on what the backends rely on (a phi of SPIR-V takes the edge it is entered by; a name
  declared in a block ends with it; `break` leaves the innermost loop or switch).
* `Parser`: each function of the parser is a routine: a sequence of instructions (expect a
  token kind, call a routine, jump when the token is not of a set, open or close a scope,
  push into an array, report) assembled from blocks.  Where the C++ decides
  from values the model does not have (is this name a type, does this expression fold), the
  instruction is a `Choose` and both outcomes are explored.  `Parser` interprets the
  routines with a call stack; a frame keeps what the function saved on entry, so that leaving
  it can be compared with entering it.
* `RangeLoop`: one state per test and per turn of the emitted loop; `Guarded`, `InRange` and
  `Valid` are the compile-time decisions that shape the emitted code.
* `CompilerCore`, `MetalService`: the service runs in one thread and is not reentered, so a
  call is a step; `disk` and `changed` are the world, `EditFile` and `ToggleValidator` its
  steps.  A compilation is its outcome: which passes a content declares and which stages fail
  are constants.
* `Watch`: a tick is the five numbered steps of the code; a build is a step per signature,
  per source read, per import and for the bookkeeping at its end.  A file is its existence, a
  version and what it imports.  `output` remembers what a unit was compiled from; `late`, the
  modules edited between their first reading and their first signature, and `news` of an
  entry, the files that had come or gone unseen when it was read, say in which of the named
  ways a change may escape.  All three are history, for the properties only.

Mutants (operators next to the definition they change, with a comment saying what they
forget) are used by nothing in the specifications; each shows that a property can fail.

## 3. Runs

`N` is the number of distinct states.

| Run | Question | N | Properties |
|---|---|---|---|
| `compute_graph` | does the compilation of a block keep its promise? | 13,541 | `TypeOK`, `TopologicalOrder`, `ReadersSeeFinalWrite`, `BarriersAreTight`, `KeepsPromise` (refinement) |
| `cfg` | are blocks, dominators, frontiers and tree what the paths say? | about 260,000 | `BlocksMeanTheProgram`, `FingersStayInTree`, `DominatorsCorrect`, `FrontiersCorrect`, `Terminates` |
| `ssa` | does the conversion preserve every value read? | 145,221 | `ReadsAgree`, `SingleDefinition`, `DefinitionsDominateReads`, `StacksFollowTheTree`, `ExactlyDeadPhisGo` |
| `optimise` | does an optimised stage do what it did, is what the analysis knows true, and do the three targets compute the same? | 128,398 | `TypeOK`, `ResultsAgree`, `AnalysisHolds`, `TargetsAgree` |
| `undefined_id` | (violated) is every id the SPIR-V uses defined? | – | `EveryIdIsDefined` |
| `lowering` | does the IR do what the statements do? | 149,118 | `RunsAgree`, `MergesAreDistinct`, `KeepsPace` |
| `lowering_switch_break` | (violated) is a break in a switch of a called function a no-op? | – | `SwitchBreakIsNoOp` |
| `range_loop` | does the loop visit what its range has? | 200,080 | `TypeOK`, `IteratesAsPromised` (refinement), `Ends` |
| `service` | is what the two caches hand out right and fresh, and does the second follow the first? | about 92,000 | `MetalTypeOK`, `NoStaleVariant`, `RightVariant`, `LibrariesFollowTheCore`, `ReloadBringsBackRecent`, `ReloadsLeaveNoDeadPointer`, `EventuallyFresh` |
| `watch` | which changes does the loop miss? does it come to rest? | 249,442 | `NoMissedChange`, `SettlesOnTheFiles` |
| `parser` | does the parser restore its context, read what it accepts, and end? | 224,207 | `ContextRestored`, `AcceptedIsRead`, `Ends` |
| `expressions` | does the code of an expression compute what the language says, on SPIR-V and WGSL, and is exactly the rest refused? | 47,910 | `EmitsValidCode`, `MeansTheSource`, `AcceptedAsDocumented` |

### 3.1 Bounds and why they are enough

* `compute_graph`: all blocks of three nodes over ten shapes of node and of two nodes over
  nine faulty ones.  Chains, fan-in, fan-out, self-reads, slots named twice, cycles of two and
  three nodes and every error occur.  The proofs have no bound.
* `cfg`: all programs of five instructions with every jump target, which is more than
  structured control flow produces, and seven longer ones: nested loops, shared switch cases,
  dead code, a continue target in mid-block, and a loop with two entries whose dominators need
  two sweeps that change something (no program of five instructions needs the second).
* `ssa`: every choice of one instruction per block over four block graphs, and picked
  functions (swaps, nested loops, unreachable latches, address-taken registers, shared
  cases, a stage that ends in a discard in one arm).  `RegisterLimit` is 20 instead of 65,534
  so that it is met; `MaxSteps` 13 lets loops turn more than once.
* `lowering`: a leaving statement inside every construct inside every loop, in a stage, a
  called function and one called from a loop; three deeper programs.  The limits of the code,
  16 loops and 32 breaks, are the model's constants and are not met.
* `range_loop`: integers of three bits (`Half = 4`), every start, end, step, type and form
  of range.  The proofs are for integers of any width.
* `service`: two pipelines, one with the other's name as prefix, one pass, two masks, three
  contents, two recent uses, one edit, which comes before, between and after the report and
  the calls.
* `optimise`: integers of four bits (`Width = 4`), in which every wrap-around is met;
  straight, branching and looping stages written one per hazard, on every input of one or two
  registers.  `WidenAfter` 3 and `MaxPasses` 4 are the ranges' widening and
  their giving up (32 passes in the code), `MaxRounds` 16 the rounds of loop folding,
  `LoopBudget` 40 the instructions a folded loop may run, so that some loops exceed it;
  `LocalStoresTracked` 2 so that a table of stores is full; `MaxSteps` 40 cuts executions.
  `TargetsAgree` looks at the stages of more than one block and without memory, each as it
  was and as the optimiser left it, on every input: phis of a loop that change places and phis
  read after it, webs whose members overlap, selections within loops and within selections,
  a `break` and a `skip` from their depth and from a switch, an `until`.  The backends see phis with and without
  variables.  Left out of its stages are those in which the optimiser decides the condition
  of an `until`, or of a selection nested in a loop's decided one (see 3.3).
* `expressions`: integers of four bits, floats in quarters, vectors of up to three components
  and matrices of two and three columns, arrays of two and three; every operator on every pair
  of kinds and widths that tells rules apart, every constructor and intrinsic on values, and
  the stores, each a program of its own on three inputs, with and without speculation
  (`Budget` 4 instead of 16 nodes, so that arms on both sides of it occur), for both targets.
  A function without a short definition (`sin`, `pow`, an inverse) gives a number that depends
  on it and on all its arguments: it tells wrong operands and orders, not precision.  Left out
  are the expressions of 3.4 on which the code is known to differ.
* `undefined_id`: one stage, in which a constant decides a selection within another.
* `parser`: documents that use every construct, accepted as they are, and each of them with
  one token deleted, one replaced by a closing brace, or cut off at any place, and a shared
  array with values, which is refused, edited in the same way: 2074 documents.  All names share one space, and a document has at most one module.
* `watch`: a named unit and two found in a directory, which are modules as well: `a` may
  import `B`, found in the unit `b`, and `b` imports `Sub`, which may be in a `-modules`
  directory, in the directory `modules` below it, which the loop does not list, or in the unit
  `sub`, which it lists for failed imports only.  Two edits (a file written, created or
  deleted) at any moment, the reading and the signing of a first-seen module included; each of
  the three ways in which a change escapes occurs.  That a module goes, comes, is read and goes
  again takes three edits; `NoMissedChange` was also checked with three (2.6 million states).
  The proof has no bound.

### 3.2 Fairness

The compiler's passes are loops of one thread: weak fairness of `Next`.  In `lowering`, each
side has weak fairness of its own steps, as a device that executes a shader goes on.
`service` asks that the watcher reports every change in the end, and nothing of callers.
`parser` asks that the parser keeps running (weak fairness of `Beats`, true of every step).
`watch` asks that the loop goes on (weak fairness of builds and ticks together) and that the
list of inputs can be read again and again (strong fairness of `ListJobs`: a manifest that
stays unreadable keeps the old list for ever).  Deadlock checking is off where the system may
stop for good: services after the last edit, ended loops, a stopped watch, a document that is read.

### 3.3 What the violated runs show

* `lowering_switch_break`: a call is inlined with the loops of its caller still pending, so a
  `break` in the callee's switch leaves the caller's loop.
* `undefined_id`: `SimplifyTrivialPhis` replaces the trivial phis in the order of their
  numbers.  One that stands for a later one takes that one's id, which is replaced in its turn:
  the readers of the first phi use an id that nothing defines.  The compiler emits such a
  module, and `spirv-val` would reject it.

A third violation is described by the definition `StatementsReachTheTree` of `Parser`, which
no run of the list checks: with `Documents <- Crowded` TLC finds it violated.  A switch inside
a case of a switch makes `switches` grow while the outer call holds a reference into it
(`switchData`, `bwsl_parser_soa_variants_eval.inl:1711`, `bodyBlock` at 1743 and 1769;
`ParseEvalBlock` at 1252 and the clauses of `foreach` at 1478 do the same).  Growth "abandons
the old block inside the arena" (`docs/conventions/coding-conventions.md:148`), so what is
pushed afterwards is not in the tree.

#### 3.3.1 What the watch loop misses

Edits come at every moment, in the run `watch` and in the proof.  Of the source of a unit none
is missed, and the comment that promises it speaks of sources only: "Source signatures are
recorded before each compile so a file modified again mid-build is detected on the next tick
(an extra rebuild, never a missed one)" (`bwslc.cpp:4668-4670`).  Of modules some are, and no
line promises otherwise.  `Escapes` names the three ways, and `NoMissedChange` says that there
is no fourth:

* a module is edited after a build read it for the first time and before that build, when it
  is over, takes its first signature (lines 4717-4727): the edit is part of the signature;
* a file comes, or goes, and is again as it was when the loop looks next, while a build read
  the module in between; a unit that is named on the command line is among the jobs whether it
  is there or not, so that it comes unseen as far as imports go;
* a file comes up *ahead* of the one a module was found in, in a directory that is not listed,
  or in a unit's directory: then only jobs whose import failed are built again (lines
  4903-4912).

`SettlesOnTheFiles` leaves out the same modules, and says of all the rest that in the end
they are compiled as they are.

#### 3.3.2 Divergences without a run

Larger divergences that have no run.  A precompilation that fails erases a variant of the
core to which a Metal entry points, without a callback (`bwsl_compiler_service_core.h:605`),
so that the entry's "Reference to underlying platform-agnostic variant"
(`bwsl_compiler_service.h:42`) leads nowhere; `ReloadsLeaveNoDeadPointer` shows that no other step, and no
reload in particular, does that, whether the validator is there or not.  And with default optimisations the WGSL backend rejects a valid stage, with "WGSL
phi is missing an incoming CFG edge", when the condition of an `until` turns out constant:
`int k = 3; loop { x = x + 1; if (x > 7) { break; } } until (k > 5);`.  The operands of the
dead edge are dropped (`DropFoldedBranchEdges`, `bwsl_constant_propagation.cpp:2790-2794`)
while the branch stays, since "Loop exits and `until` conditions keep their branch: WGSL's
continuing block needs it" (lines 2954-2958).  Without optimisations it compiles.

Smaller divergences met while modelling, which have no run: of two edges from one switch to
one block only the first gets its phi operand (`bwsl_ssa.cpp:1045` breaks at the first
match), so that a reachable block is left with a hole, which a comment reserves for
unreachable ones; the clean-up fills it and the values agree.  Two pipelines of one document
share the global scope, since `ParsePipeline` opens none.  A scalar constant that a module
declares twice is ignored silently while an array is an error.  The guard of the loop over a
type pattern drops a token it does not report.  Further, the comment of `Intersect`
(`bwsl_cfg.cpp:381`) has the order of postorder numbers upside down, the code is right;
a variant's first use does not enter the list of recent ones
(`bwsl_compiler_service_core.h:253-256`), so a reload does not bring it back although the
comment of line 339 says it recompiles what was recently used; precompiling a cached variant
again appends to its attribute bindings (line 814); a variant key is cut at 127 characters and
does not hold the mode (line 396); a reload clears the Metal entries of every pipeline whose
name begins with that of the one that changed (`bwsl_compiler_service.h:226`), needlessly.

### 3.4 Expressions on which the code differs

Met while the reference of `expressions` was compared with the compiler, and left out of its
programs; lines are of `phases/ir_lowering/`.

* A variable is its own register, read when the instruction executes and not where the operand
  stands: `int x = i + i++` computes (i+1)+i, and `int2(i, i++)` gives (i+1, i).  In a compound
  assignment the place is lowered twice: `a[i] += float(i++)` reads element i and writes
  element i+1, where `docs/spec/04-expressions.md:114` says the target is evaluated once
  (`bwsl_ir_lowering_lvalues.inl:1056-1066`).
* The product of a matrix and a shorter vector cuts its result with a mask of bytes
  (`bwsl_ir_lowering_expr.inl:1320`), which the SPIR-V backend reads as nibbles: the result is
  (x, x, y).  WGSL refuses it.
* SPIR-V that a validator rejects: swizzles of two and three components of a `bool` vector
  (four picks), `float3(bool3)` and `bool3(bool2, bool)` (a bool vector counts as a scalar),
  `bool3(int3)` (a bitcast), `int2 + uint` (not widened), `int2 * float`, `uint / 1`
  (a signed constant), and elements of a `float` array assigned an integer.
* Rules of the language the lowering does not check: `!i3`, `bool(i)`, `float(f2)`, `int(b2)`,
  `++` of a vector; WGSL then refuses them.  An element of a `bool` vector keeps the vector's
  type.  `float3 o; o[0] = 1` is refused although `o.x = 1` is not.
* `abs` of a `uint` is `SAbs` in SPIR-V, wrong from 2^31 on; WGSL refuses it.  Mixed `int` and
  `uint` operands differ between the targets.
* GLES, whose operations are not modelled, writes comparisons of vectors with `<`, and
  `float4(f2, f2)` as the first vector alone.

## 4. Proofs

`tlapm` checks eight proof modules.  Nothing is assumed beyond the named assumptions on the
constants, which TLC evaluates, and the hypotheses that stand in a theorem and are named here.

| Proved for every value of the constants | Theorem | Property of the run |
|---|---|---|
| a node is ordered only behind what it reads | `OrderCorrect` | `TopologicalOrder` |
| the compilation implements its promise | `Implements` | `KeepsPromise` |
| barriers are tight, and readers see the final write | `NoBarrierSkipsAWriter`, `EveryReaderIsGuarded` | `BarriersAreTight`, `ReadersSeeFinalWrite` |
| blocks mean the program | `BlocksKeepTheMeaning` | `BlocksMeanTheProgram` |
| dominators are dominators | `DominatorsAreImmediate` | `DominatorsCorrect` |
| `Intersect` stays in the tree | `FingersStay` | `FingersStayInTree` |
| frontiers are where dominance ends | `FrontiersAreWhereDominanceEnds` | `FrontiersCorrect` |
| stacks of renaming follow the tree | `StacksAlwaysFollowTheTree` | `StacksFollowTheTree` |
| the dead phis go, and no others | `DeadPhisGoAndNoOthers` | `ExactlyDeadPhisGo` |
| the conversion's result is in SSA form * | `ResultIsSsa` | `SingleDefinition` |
| definitions dominate reads * | `DefinitionsAlwaysDominate` | `DefinitionsDominateReads` |
| the converted function reads what the original reads * | `ReadsAlwaysAgree` | `ReadsAgree` |
| an emitted range loop is the range | `LoopKeepsPromise` | `IteratesAsPromised` |
| no variant is stale | `VariantsAreFresh` | `NoStaleVariant` |
| callers get what they ask for * | `CallersGetTheirVariant` | `RightVariant` |
| Metal libraries follow the core | `LibrariesAreFresh` | `LibrariesFollowTheCore` |
| a reload brings back what was in use * | `RecentVariantsReturn` | `ReloadBringsBackRecent` |
| reloads leave no dead pointer, and only a failing precompilation does * | `PointersStayAlive` | `ReloadsLeaveNoDeadPointer` |
| no change is missed but in the three ways of `Escapes` | `NoChangeIsMissed` | `NoMissedChange` |

and the type invariants `TypeCorrect`, `IteratorInType`, `ServicesTypeCorrect`, `ShapeHolds`; and,
without a hypothesis, `RegistersAreDefinedOnce`: in what SSA construction hands on, no register
outside memory has two definitions.  A star marks those with a hypothesis:

* Services: `LongPasses = {}`.  `MakeVariantKey` cuts a key at 127 characters, so that a long
  enough name drops the mask from it and two uses share an entry; the three properties are
  false then.  What is proved without it is proved for such names too.
* SSA: `DefinitelyAssigned(fn)`, every register is written before it is read, on every path to
  the read and outside unreachable code.  A local may be declared without a value
  (`docs/spec/bwsl.bnf:565`) and a read of it then has no meaning ("Do not turn undefined IR
  values into an assumed BWSL zero-initialization guarantee",
  `docs/wgsl-backend-design.md:857`); the construction
  then leaves the register's own name in the read, or an undefined one, and there is no
  definition to speak of.  The functions of the run satisfy it.
* SSA takes its functions from `SsaAssumption`, which says of them what lowering emits: at most
  `RegisterLimit` registers, one operand for a copy, none for a constant.
* `Cfg` takes its programs from `ProgramsAssumption`, which says of the operands what the IR
  has: one target for a jump, two for a branch, any number for a switch, none elsewhere; the
  targets themselves may lie outside the program.

### 4.1 Arguments

None of the properties is inductive.  What is added to each, and why:

* **Order** (`SortInv`).  That a node may be dequeued rests on its counter being zero.
  `WorklistInv`: the order is a prefix of the worklist, no node is in it twice, and every edge
  into a node of it has been followed.  `CountInv`: the in-degree of a node is the number of
  edges into it that are pending, those not followed and those still to be followed from the
  current node.
* **Refinement** (`CompileInv`).  To accept only valid blocks and reject only others it adds
  what the stages behind have established (`CheckedInv`) and what the scan knows (`ScanInv`).
  That an unfinished order means a cycle is a lemma: the nodes left over each wait for another.
* **Barriers** (`ScheduleInv`).  `WriterInv`: `lastWriter` names, for every resource an
  ordered node has written, the last of them.  `BarrierInv`: every input looked at has a
  barrier from the last writer in front of its node, and there are no other barriers.  That
  the last writer *in front of a reader* is the last of all needs the order once more: a
  writer behind the reader would be a producer the reader waits for.
* **Range loops**.  The lemmas say when an addition wraps, that `Valid` notices it exactly
  then, and that `RangeStepMayWrap` never denies a wrap that a value inside the range can
  meet; the invariant adds to the types that the body runs only for a value that passed.
* **Dominators** (`CfgInv`, in the order of the passes).  `Search`: on the stack of the
  depth-first search every strict dominator of a block is below it, so it finishes later;
  hence `Ordered`, dominators come first in the sweeps.  `Tree`: only reachable blocks have a
  dominator so far, a block that has one keeps a predecessor that has one, and every strict
  dominator of a block dominates the one it has so far: the tree may be too low, never
  too high.  `Walk`: what strictly dominates the current block dominates both fingers, and
  the finger lies above every predecessor seen; from that the fingers meet at the entry at the
  latest.  `Settled`: while nothing has changed, the blocks behind the cursor have a dominator
  above all of their predecessors, so a sweep that ends without a change leaves all settled,
  and `SettledIsImmediate` shows that a settled tree is the dominator tree: going up from a
  block, a dominator that is skipped would be skipped on every path.  No order of the blocks is
  needed for that, which is why irreducible loops are covered.
* **Frontiers**.  `Runner`: the runner is between the predecessor it started from and the
  dominator of the join.  `Filled`: a frontier holds exactly what has been reported, by the
  edges behind the cursor and by the part of the walk that is over.
* **Blocks** (`MeaningInv`).  A leader opens a block and what stands in front of one closes
  it, because the number of leaders up to an instruction grows by one exactly there.
* **Stacks of renaming** (`Shape`, `WalkInv`, `StackInv`).  The frames are a path of the
  dominator tree, each block is entered once, and what a frame has pushed is what its phis and
  the instructions behind its `pc` define.  So the height of a stack counts distinct
  definitions and phis of one variable (at most one per block, from `Shape`) and the
  initial value; that is the capacity, and no push is dropped.
* **Dead phis** (`LiveInv`).  A phi is dead when it is in a set of phis that no instruction and
  no phi outside reads.  No dead phi is marked, since what keeps a phi alive is outside every
  such set; and when the sweep starts the unmarked phis are such a set themselves, so each of
  them is dead.
* **SSA form** (`MeaningParts`).  `FreshInv`: unless the limit is exceeded, a register of the
  conversion's own has at most one definition, and one not handed out has none.  `TopsInv`,
  `CodeInv`, `LinkInv`, `OperandInv` say what the history of a block is worth: what stands on the
  stacks is what the block holds at its end; each rewritten instruction reads what is held in
  front of it and changes what is held behind it by what it writes; a block begins with the
  results of its phis and otherwise with what its parent in the tree held at the end; the
  operand of a phi is what the predecessor held at the end, or undefined.  `UnseenInv`: blocks
  renaming never enters define nothing any more.  When renaming is over, induction
  over the dominator tree, and within a block over the instructions, shows that what is held
  anywhere is defined *above* that place (`HeldWell`); that a phi's operand is defined above
  the end of its predecessor is the same claim there.  What a function reads of registers that are no variables has its one definition in
  the same block, or in one nothing avoids, by `DefinitelyAssigned`.  The sweep takes away
  only phis that nothing kept reads, so all of it holds of the program that runs (`MeaningInv`).
* **The same values** (`RunParts`).  `PlacedInv`: a variable has a phi wherever a definition of
  it, or a phi of it, stops dominating, but for what is still in the worklist.  `FilledInv`: a
  block the walk has entered has given its phi operands to its successors, or a frame of the
  walk is still to do it.  From these, when the construction is over (`Settled`): no
  instruction overwrites a register that is held in front of it, what is read is defined, what
  is assigned is held, and an edge carries what its block holds at the end to what the next
  one holds, in a phi or in the same register, since without a phi the two have the same
  dominating definition.  `RunInv` is the simulation: along one path, of each assigned
  variable the register held has the variable's value.
* **Services** (`ServiceInv`).  `SetInv`, `CoreInv`: each cached variant comes from the
  cached tree and its key is that of its use; `LibraryInv`: a library's pipeline has a cached
  tree, it is the one the library comes from, and the core is open.  `RecentVariantsReturn`
  is an induction over the list of recent uses: compiling one keeps those before it.
* **Watch** (`WatchInv`).  Every file that went into a compiled unit is *traced* (`Traced`): it
  is `late` or was news, or its recorded signature is not newer than what was read, so that a
  later state differs from it.  Ahead of it (`StillFirst`) every file the loop watches, those
  of the module directories and, of a failed import, the units, was news or is not among those
  it has listed (`Unseen`), so that one that is there now makes the listing differ.  What a
  unit was read from is among its dependencies, and these are signed when the build is over
  (`SigsInv`), during it in the build's cache.  What that cache holds is traced as well
  (`CacheInv`), since later units of the build are compiled from it.

### 4.2 How

A property of a graph, a tree or a sequence is a lemma about operators of their arguments
(`Search(g, st, po)`, `Tree(g, d)`), without variables; an action then has a short lemma of
its own that applies it.  Recursion over data is a recursive function inside a `LET`, and
induction over it is over the set of numbers for which the claim holds (`NatSetInduction`,
from the library's facts on well-founded relations), because the library's own induction
theorems take an operator as a parameter.  `DominanceProofs` has what the others need of
paths: dominance is an order, and a path that reaches a block enters it by a predecessor that
what dominates the block dominates too.

Stays with TLC: every liveness property (`Terminates`, `Ends`, `KeepsPace`,
`EventuallyFresh`, `SettlesOnTheFiles`), as liveness under fairness and `ENABLED` are outside
what the prover does here; everything in modules that declare or reach a `RECURSIVE` operator
or `Bitwise` (`ControlLowering`, `Expressions`, `Optimise`, `Emission` with the backends, `Parser`),
for which it loses its arithmetic.

## 5. What is left out

* *In modelled parts.*  `ComputeGraph`: the JSON of the graph.  `Ssa`: the sizes of arrays
  that are estimated (lines 369-423), instructions behind a discard in unreachable blocks
  beyond their effect on stacks.  `ControlLowering`: conditions that branch themselves (lines
  281-289 of `LowerForCStyle`), loops with constant bounds that are unrolled, pointer events,
  and what is evaluated without effect behind a raised return flag; the break of a switch
  outside loops is the no-op that the code makes of it.  `CompilerCore`: the contents of a
  variant, including its layout.  `ExpressionLowering`: structs, pointers, resources, stage
  inputs, textures, atomics and waves; overloads and arguments of user functions; 64-bit and
  double types; calls in conditions of loops.  GLES operations.  Optimiser: floating point, matrices, textures and
  intrinsics are values without arithmetic or are absent; struct splitting and the insertion
  and removal in the instruction array.  Backends: memory (locals in variables, buffers,
  arrays, structs), resources, interfaces and entry points, textures, the tables that spell
  types and operations, the encoding of words, variants and specialisation constants; a
  stage is the body of one function; its instructions are apart, in `SpirvOperations` and
  `WgslOperations`.  Parser: what `specialization.inl` does to generic
  functions, evaluation of variants and of `eval` blocks, modules read from files.  `Watch`: submodule headers with their snapshots (lines
  4857-4885), duplicate inputs, embedded modules, reports.
* *Whole components.*  Lexer, diagnostics, command line, reflection, embedded
  modules, registries and cross compilation are passes over data: their correctness is
  about text and tables.  `PROJECT.json` lists each with its reason.

## 6. Plan

Done, in this order, the most important behaviour first: the compute graph and its promise,
the graph passes, SSA, control lowering and ranges, the two caches, the watch loop, the
proofs of the compute graph and of range loops, the optimiser, the parser, the function bodies
of the three backends, expressions from the source to SPIR-V and WGSL, the proofs of barriers, of
both caches, of the watch loop, of the block graph, of SSA form and of the values that
SSA construction keeps.

To come:

1. `ModuleCache`: dependencies, invalidation and the string table; the recursive imports of
   `bwsl_module_integration.h` on top.
2. `Watch`: submodule snapshots.
3. `Arena`, limits of compile-time evaluation, variant enumeration.
