---------------------------- MODULE CompilerCore ----------------------------
(***************************************************************************)
(* BWSLCompilerServiceCore (bwsl_compiler_service_core.h): the cache of    *)
(* compiled shader variants of every pipeline.  A variant is compiled on   *)
(* demand from the pipeline's file, whose parsed form is cached too; a     *)
(* change of the file drops both and recompiles what was used recently.    *)
(*                                                                         *)
(* Files are edited and deleted by others at any time; the watcher reports *)
(* each change later, in any order.  spirv-val, which every stage is        *)
(* checked with, comes and goes.  The service runs in one thread, so a     *)
(* call is one step.                                                       *)
(***************************************************************************)
EXTENDS Naturals, Sequences, FiniteSets, SequencesExt

CONSTANTS
  Pipelines,    \* pipelines of the render config whose file the scan found
  Passes,       \* pass names
  PassesOf,     \* function: pipeline -> passes the render config has for it
  Masks,        \* attribute masks callers ask for
  CommonMasks,  \* the masks PrecompileCommonVariants compiles
  Modes,        \* compilation configurations
  DefaultMode,  \* the one a default CompilationConfig is
  Contents,     \* what a file may hold
  Parses,       \* those that parse
  Declares,     \* function: content -> passes its pipeline declares
  Failing,      \* function: content -> <<pass, mask>> with a stage that does not compile
  LongPasses,   \* passes whose key overflows MakeVariantKey's buffer
  RecentLimit,  \* 64 in the code
  MaxEdits      \* bound: edits of files

NoContent == "deleted"

ASSUME CoreAssumption ==
  /\ IsFiniteSet(Passes) /\ PassesOf \in [Pipelines -> SUBSET Passes]
  /\ IsFiniteSet(Masks) /\ CommonMasks \subseteq Masks /\ DefaultMode \in Modes
  /\ Parses \subseteq Contents /\ NoContent \notin Contents
  /\ Declares \in [Contents -> SUBSET Passes]
  /\ Failing \in [Contents -> SUBSET (Passes \X Masks)]
  /\ LongPasses \subseteq Passes /\ RecentLimit \in Nat \ {0} /\ MaxEdits \in Nat

VARIABLES
  disk,      \* pipeline -> content of its file, or NoContent
  edits,     \* edits so far
  changed,   \* pipelines whose change the watcher has yet to report
  validates, \* whether spirv-val can be run
  sets,      \* pipeline -> PipelineShaderSet: [astCached, ast, variants]
  recent     \* recentVariants, the oldest first

coreVars == <<disk, edits, changed, validates, sets, recent>>

Uses == [pipeline : Pipelines, pass : Passes, mask : Masks]

NoVariants == [k \in {} |-> 0]
EmptySet == [astCached |-> FALSE, ast |-> NoContent, variants |-> NoVariants]

(* Mutant of MakeVariantKey: the mask is no part of the key.               *)
KeyWithoutMask(pipeline, pass, mask) == <<pipeline, pass>>

(* A name that fills the buffer leaves no room for the mask.               *)
MakeVariantKey(pipeline, pass, mask) ==
  IF pass \in LongPasses THEN <<pipeline, pass>> ELSE <<pipeline, pass, mask>>

With(f, k, v) == [x \in DOMAIN f \cup {k} |-> IF x = k THEN v ELSE f[x]]
Without(f, k) == [x \in DOMAIN f \ {k} |-> f[x]]

(* The file is read and parsed unless that was done; a file that does not  *)
(* parse leaves the set to try again.                                      *)
EnsureASTCached(set, content) ==
  IF set.astCached \/ content \notin Parses THEN set
  ELSE [set EXCEPT !.astCached = TRUE, !.ast = content]

(* A pass the source does not declare is not compiled; a stage that fails  *)
(* erases the variant.  What a variant holds, its layout among it, is left *)
(* out.                                                                    *)
CompileVariant(set, content, pipeline, pass, mask, mode) ==
  LET ready == EnsureASTCached(set, content)
      key == MakeVariantKey(pipeline, pass, mask)
  IN IF ~ready.astCached \/ pass \notin Declares[ready.ast] THEN ready
     ELSE IF ~validates \/ <<pass, mask>> \in Failing[ready.ast]
            THEN [ready EXCEPT !.variants = Without(@, key)]
     ELSE [ready EXCEPT !.variants =
             With(@, key, [pass |-> pass, mask |-> mask, mode |-> mode, from |-> ready.ast])]

Compiles(set, content, pass, mask) ==
  LET ready == EnsureASTCached(set, content)
  IN /\ ready.astCached /\ pass \in Declares[ready.ast]
     /\ validates /\ <<pass, mask>> \notin Failing[ready.ast]

(* The uses but this one, in their order (std::remove_if).                 *)
OtherUses(use) ==
  LET kept[k \in 0..Len(recent)] ==
        IF k = 0 THEN <<>>
        ELSE IF recent[k] = use THEN kept[k - 1]
        ELSE Append(kept[k - 1], recent[k])
  IN kept[Len(recent)]

TrackVariantUsage(use) ==
  LET used == Append(OtherUses(use), use)
  IN IF Len(used) > RecentLimit THEN Tail(used) ELSE used

(* What the call leaves in the service and returns, no variant for a null  *)
(* pointer.                                                                *)
GetOrCompileVariant(p, pass, mask, mode) ==
  LET key == MakeVariantKey(p, pass, mask)
      hit == key \in DOMAIN sets[p].variants
      after == IF hit THEN sets[p] ELSE CompileVariant(sets[p], disk[p], p, pass, mask, mode)
  IN [sets |-> [sets EXCEPT ![p] = after],
      recent |-> IF hit THEN TrackVariantUsage([pipeline |-> p, pass |-> pass, mask |-> mask]) ELSE recent,
      got |-> IF hit \/ Compiles(sets[p], disk[p], pass, mask) THEN {after.variants[key]} ELSE {}]

(* The uses that are of the pipeline are compiled, one after the other,    *)
(* whether they are cached already or not.                                 *)
CompileAll(p, set, uses, mode) ==
  LET after[k \in 0..Len(uses)] ==
        IF k = 0 THEN set
        ELSE IF uses[k].pipeline # p THEN after[k - 1]
        ELSE CompileVariant(after[k - 1], disk[p], p, uses[k].pass, uses[k].mask, mode)
  IN after[Len(uses)]

(* Every pass of every pipeline, for the common masks.                     *)
CommonUses(p) == [pipeline : {p}, pass : PassesOf[p], mask : CommonMasks]

PrecompileCommonVariants(mode) ==
  /\ sets' = [p \in DOMAIN sets |-> CompileAll(p, sets[p], SetToSeq(CommonUses(p)), mode)]
  /\ UNCHANGED <<disk, edits, changed, validates, recent>>

(* Mutant of Recompiled: the variants of the old source stay.              *)
KeepsVariants(p) ==
  CompileAll(p, [sets[p] EXCEPT !.astCached = FALSE, !.ast = NoContent], recent, DefaultMode)

(* Mutant of Recompiled: the parsed file stays.                            *)
KeepsTree(p) == CompileAll(p, [sets[p] EXCEPT !.variants = NoVariants], recent, DefaultMode)

(* Mutant of Recompiled: the first use that fails ends the                 *)
(* recompilation.                                                          *)
StopsAtFailure(p) ==
  LET fails(u) == u.pipeline = p /\ ~Compiles(EmptySet, disk[p], u.pass, u.mask)
      tried == {k \in DOMAIN recent : \A j \in 1..k : ~fails(recent[j])}
  IN CompileAll(p, EmptySet, [k \in tried |-> recent[k]], DefaultMode)

(* HandleFileChange: everything of the pipeline is dropped, then what was  *)
(* used recently is compiled again, with a default configuration.          *)
Recompiled(p) == CompileAll(p, EmptySet, recent, DefaultMode)

HandleFileChange(p) ==
  /\ p \in changed
  /\ changed' = changed \ {p}
  /\ sets' = IF p \in DOMAIN sets THEN [sets EXCEPT ![p] = Recompiled(p)] ELSE sets
  /\ UNCHANGED <<disk, edits, validates, recent>>

Shutdown ==
  /\ sets' = [p \in {} |-> EmptySet]
  /\ UNCHANGED <<disk, edits, changed, validates, recent>>

(* Somebody saves or deletes the file.                                     *)
EditFile(p, content) ==
  /\ edits < MaxEdits
  /\ content # disk[p]
  /\ disk' = [disk EXCEPT ![p] = content]
  /\ edits' = edits + 1
  /\ changed' = changed \cup {p}
  /\ UNCHANGED <<validates, sets, recent>>

ToggleValidator ==
  /\ validates' = ~validates
  /\ UNCHANGED <<disk, edits, changed, sets, recent>>

Init ==
  /\ disk \in [Pipelines -> Contents]
  /\ edits = 0 /\ changed = {} /\ validates = TRUE
  /\ sets = [p \in Pipelines |-> EmptySet]
  /\ recent = <<>>

Edit == \E p \in Pipelines, content \in Contents \cup {NoContent} : EditFile(p, content)

----------------------------------------------------------------------------
(* The shape of the service.                                               *)
TypeOK ==
  /\ disk \in [Pipelines -> Contents \cup {NoContent}]
  /\ edits \in 0..MaxEdits /\ changed \subseteq Pipelines /\ validates \in BOOLEAN
  /\ DOMAIN sets \subseteq Pipelines
  /\ \A p \in DOMAIN sets :
       /\ IF sets[p].astCached THEN sets[p].ast \in Parses ELSE sets[p].ast = NoContent
       /\ \A k \in DOMAIN sets[p].variants :
            sets[p].variants[k].mask \in Masks /\ sets[p].variants[k].mode \in Modes
  /\ recent \in Seq(Uses) /\ Len(recent) <= RecentLimit

(* No variant outlives the source it was compiled from: what is cached was *)
(* compiled from the syntax tree cached with it, and once the watcher has  *)
(* caught up, from the file as it is (lines 331-337, 466-470).             *)
NoStaleVariant ==
  \A p \in DOMAIN sets : \A k \in DOMAIN sets[p].variants :
    /\ sets[p].astCached /\ sets[p].variants[k].from = sets[p].ast
    /\ p \notin changed => sets[p].variants[k].from = disk[p]

(* A caller gets the variant it asks for: the pass and the mask it names,  *)
(* with code its pipeline declares and that compiles, whatever the order   *)
(* of edits, reloads and failures before (lines 243-270).                  *)
RightVariant ==
  \A p \in DOMAIN sets, pass \in Passes, mask \in Masks, mode \in Modes :
    \A v \in GetOrCompileVariant(p, pass, mask, mode).got :
      /\ v.pass = pass /\ v.mask = mask
      /\ v.pass \in Declares[v.from] /\ <<v.pass, v.mask>> \notin Failing[v.from]

(* After a reload every recently used variant that the new source can      *)
(* still make is back, an earlier failure of another one notwithstanding   *)
(* (RecompileRecentVariants).                                              *)
ReloadBringsBackRecent ==
  [][ \A p \in Pipelines :
        HandleFileChange(p) /\ p \in DOMAIN sets =>
          \A k \in DOMAIN recent :
            recent[k].pipeline = p /\ Compiles(EmptySet, disk[p], recent[k].pass, recent[k].mask)
              => \E v \in DOMAIN sets'[p].variants :
                   sets'[p].variants[v].pass = recent[k].pass /\ sets'[p].variants[v].mask = recent[k].mask
    ]_coreVars

(* When the edits stop, the cache ends up with nothing but the last source *)
(* and stays so, whatever calls go on.                                     *)
EventuallyFresh ==
  <>[](\A p \in DOMAIN sets : \A k \in DOMAIN sets[p].variants : sets[p].variants[k].from = disk[p])
=============================================================================
