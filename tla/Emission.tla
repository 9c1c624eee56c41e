----------------------------- MODULE Emission ------------------------------
(***************************************************************************)
(* The backends after the optimiser: what each of them makes of a stage,   *)
(* before and after its optimisation, and what a device then computes.     *)
(***************************************************************************)
EXTENDS WgslText, GlesText, SpirvModule

(* Stages with control flow and without memory.                            *)
IsEmitted(f) ==
  Len(f.code) > 1 /\ f.memory = {} /\ \A r \in DOMAIN f.types : f.types[r].of \notin {"struct", "ptr"}

Agrees(end, expected) ==
  /\ end.status = "done" /\ Len(end.out) = Len(expected)
  /\ \A k \in DOMAIN expected : \A c \in DOMAIN expected[k] : expected[k][c] \in {Poison, end.out[k][c]}

TextTakesTheStage(emitted, inputs, expected) ==
  emitted.fail = "" /\ Agrees(RunWhole(emitted, inputs), expected)
ModuleTakesTheStage(module, inputs, expected) ==
  IdsAreDefined(module) /\ PhisFollowTheGraph(module) /\ Agrees(RunSpirv(module, inputs), expected)

(* Whatever the optimiser makes of a stage, and without it, every target's *)
(* text or module is one its rules accept and computes, for the inputs at  *)
(* hand, what the stage computes wherever that is defined: the WGSL and    *)
(* the GLSL ES text, and the SPIR-V module with and without variables for  *)
(* its phis.                                                               *)
TargetsAgree ==
  (stage = "done" /\ run.which = "after" /\ IsEmitted(fn)) =>
    \A program \in {Program(fn), ir} :
      /\ TextTakesTheStage(EmitWgsl(program), run.inputs, run.expected)
      /\ TextTakesTheStage(EmitGles(program), run.inputs, run.expected)
      /\ \A usePhiVariables \in BOOLEAN :
           ModuleTakesTheStage(EmitSpirv(program, usePhiVariables), run.inputs, run.expected)

(* EmitFunctionBody gives out ids before it emits: "This ensures that when *)
(* we reference a PHI result as an operand, we get the correct ID that     *)
(* will be defined when that PHI is emitted."                              *)
EveryIdIsDefined ==
  (stage = "run" /\ IsEmitted(fn)) => \A usePhiVariables \in BOOLEAN : IdsAreDefined(EmitSpirv(ir, usePhiVariables))
=============================================================================
