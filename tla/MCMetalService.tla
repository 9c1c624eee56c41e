--------------------------- MODULE MCMetalService ---------------------------
(***************************************************************************)
(* Two pipelines, one of whose names begins with the other's, a pass the   *)
(* render config knows, and two masks of which one is precompiled; a       *)
(* source that makes everything, one that fails for a mask, and one that   *)
(* does not parse.                                                         *)
(***************************************************************************)
EXTENDS MetalService

MCPassesOf == [p \in Pipelines |-> {"forward"}]
MCContents == {"good", "partial", "broken"}
FewContents == {"good", "broken"}
MCParses == {"good", "partial"} \cap Contents
MCDeclares == [c \in Contents |-> IF c = "broken" THEN {} ELSE {"forward"}]
MCFailing == [c \in Contents |-> IF c = "partial" THEN {<<"forward", 3>>} ELSE {}]
MCPrefixOf == [p \in Pipelines |-> IF p = "Char" THEN Pipelines ELSE {p}]
=============================================================================
