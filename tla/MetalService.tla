---------------------------- MODULE MetalService ----------------------------
(***************************************************************************)
(* BWSLCompilerService (bwsl_compiler_service.h), the render system's way  *)
(* into the service core: a second cache, of Metal libraries, in front of  *)
(* the core's.  A Metal entry keeps a pointer to the core's variant, and   *)
(* leaves when the core says its pipeline was recompiled.                  *)
(*                                                                         *)
(* Everybody goes through the wrapper: the core's operations happen only   *)
(* inside its own.                                                         *)
(***************************************************************************)
EXTENDS CompilerCore

CONSTANT PrefixOf   \* function: pipeline -> pipelines whose name begins with its name

ASSUME PrefixAssumption ==
  /\ PrefixOf \in [Pipelines -> SUBSET Pipelines]
  /\ \A p \in Pipelines : p \in PrefixOf[p]

VARIABLES
  metal,    \* metalVariants_: key -> [pipeline, pass, mask, from, live]
  open      \* metalMiddleware_ is there
(* "from" is the source the library was built from, "live" that the        *)
(* pointer still leads to the core's variant.                              *)

vars == <<coreVars, metal, open>>

(* What the step of the core leaves of the pointers: they lead nowhere     *)
(* once their variant was erased.                                          *)
KeepPointers(erased) ==
  [k \in DOMAIN metal |-> IF k \in erased THEN [metal[k] EXCEPT !.live = FALSE] ELSE metal[k]]

(* PrecompileCommonVariants compiles again what is there, and a failure    *)
(* erases it.                                                              *)
ErasedByPrecompile ==
  {MakeVariantKey(job[1], job[2][1], job[2][2]) :
     job \in {j \in (DOMAIN sets) \X (Passes \X CommonMasks) :
                /\ j[2][1] \in PassesOf[j[1]] /\ sets[j[1]].astCached
                /\ j[2][1] \in Declares[sets[j[1]].ast]
                /\ ~Compiles(sets[j[1]], disk[j[1]], j[2][1], j[2][2])}}

(* Mutant of MetalMiss: the entry does not get its mask.                   *)
MetalMissUnmasked(p, pass, mask, mode, built) ==
  LET key == MakeVariantKey(p, pass, mask)
      known == p \in DOMAIN sets
      result == GetOrCompileVariant(p, pass, mask, mode)
      got == IF known /\ open /\ built THEN result.got ELSE {}
      entries == {[pipeline |-> p, pass |-> pass, mask |-> 0, from |-> v.from, live |-> TRUE] : v \in got}
  IN
  /\ key \notin DOMAIN metal
  /\ sets' = IF known THEN result.sets ELSE sets
  /\ recent' = IF known THEN result.recent ELSE recent
  /\ metal' = IF entries = {} THEN metal ELSE With(metal, key, CHOOSE e \in entries : TRUE)
  /\ UNCHANGED <<disk, edits, changed, validates, open>>

(* A key that is there is answered at once and changes nothing.  "built"   *)
(* is the middleware's success.                                            *)
MetalMiss(p, pass, mask, mode, built) ==
  LET key == MakeVariantKey(p, pass, mask)
      known == p \in DOMAIN sets
      result == GetOrCompileVariant(p, pass, mask, mode)
      got == IF known /\ open /\ built THEN result.got ELSE {}
      entries == {[pipeline |-> p, pass |-> pass, mask |-> mask, from |-> v.from, live |-> TRUE] : v \in got}
  IN
  /\ key \notin DOMAIN metal
  /\ sets' = IF known THEN result.sets ELSE sets
  /\ recent' = IF known THEN result.recent ELSE recent
  /\ metal' = IF entries = {} THEN metal ELSE With(metal, key, CHOOSE e \in entries : TRUE)
  /\ UNCHANGED <<disk, edits, changed, validates, open>>

MetalPrecompile ==
  /\ PrecompileCommonVariants(DefaultMode)
  /\ metal' = KeepPointers(ErasedByPrecompile)
  /\ UNCHANGED open

(* Mutant of HandlePipelineRecompiled: nothing is cleared.                 *)
ClearsNothing(p, entries) == entries

(* HandlePipelineRecompiled: the keys that begin with the pipeline's name. *)
HandlePipelineRecompiled(p, entries) ==
  [k \in {k \in DOMAIN entries : entries[k].pipeline \notin PrefixOf[p]} |-> entries[k]]

(* Mutant of MetalFileChange: the core calls back only if the file         *)
(* parsed.                                                                 *)
CallsBackOnSuccess(p) ==
  /\ HandleFileChange(p)
  /\ metal' = IF p \notin DOMAIN sets THEN metal
              ELSE LET kept == KeepPointers(DOMAIN sets[p].variants)
                   IN IF disk[p] \in Parses THEN HandlePipelineRecompiled(p, kept) ELSE kept
  /\ UNCHANGED open

(* The core erases the pipeline's variants, makes new ones, and calls      *)
(* back.                                                                   *)
MetalFileChange(p) ==
  /\ HandleFileChange(p)
  /\ metal' = IF p \in DOMAIN sets
                THEN HandlePipelineRecompiled(p, KeepPointers(DOMAIN sets[p].variants))
                ELSE metal
  /\ UNCHANGED open

MetalShutdown ==
  /\ Shutdown
  /\ metal' = [k \in {} |-> 0]
  /\ open' = FALSE

MetalInit == Init /\ metal = [k \in {} |-> 0] /\ open \in BOOLEAN

MetalCall ==
  \/ \E p \in Pipelines, pass \in Passes, mask \in Masks, mode \in Modes, built \in BOOLEAN :
       MetalMiss(p, pass, mask, mode, built)
  \/ MetalPrecompile
  \/ MetalShutdown

World == (Edit \/ ToggleValidator) /\ UNCHANGED <<metal, open>>

MetalNext == MetalCall \/ (\E p \in Pipelines : MetalFileChange(p)) \/ World

MetalSpec == MetalInit /\ [][MetalNext]_vars

(* The watcher reports every change in the end.                            *)
FairMetalSpec == MetalSpec /\ \A p \in Pipelines : WF_vars(MetalFileChange(p))

----------------------------------------------------------------------------
(* The core keeps its shape, and the Metal entries are keyed by what they  *)
(* are.                                                                    *)
MetalTypeOK ==
  /\ TypeOK
  /\ open \in BOOLEAN
  /\ \A k \in DOMAIN metal :
       /\ metal[k].live \in BOOLEAN
       /\ k = MakeVariantKey(metal[k].pipeline, metal[k].pass, metal[k].mask)

(* The second cache never outlives the first: a library was built from the *)
(* syntax tree its pipeline has cached, so from the file as it is once the *)
(* watcher has caught up, and none is left of a core that was shut down    *)
(* (lines 68-75, 172-174, 223-234).                                        *)
LibrariesFollowTheCore ==
  \A k \in DOMAIN metal :
    /\ open /\ metal[k].pipeline \in DOMAIN sets
    /\ sets[metal[k].pipeline].astCached
    /\ metal[k].from = sets[metal[k].pipeline].ast
    /\ metal[k].pipeline \notin changed => metal[k].from = disk[metal[k].pipeline]

(* No reload leaves a pointer to a variant it freed (the entries of the    *)
(* recompiled pipeline go), and nothing else does but a precompilation     *)
(* that fails for want of spirv-val (lines 43, 128, 223-234 and the core's *)
(* 328-347).                                                               *)
ReloadsLeaveNoDeadPointer ==
  [][ \A k \in DOMAIN metal' :
        ~metal'[k].live /\ (k \in DOMAIN metal => metal[k].live) =>
          /\ \A p \in Pipelines : ~MetalFileChange(p)
          /\ MetalPrecompile /\ ~validates ]_vars

=============================================================================
