------------------------------- MODULE MCWatch -------------------------------
(***************************************************************************)
(* A unit that an input names, and two in a scanned directory, which are   *)
(* modules as well: "a" may import B, found in "b", and "b" imports Sub,   *)
(* which may be in a -modules directory, in the directory "modules" under  *)
(* it, or in "sub".                                                        *)
(***************************************************************************)
EXTENDS Watch

MCInputs == <<"a", "b", "sub">>
MCDirectory == [u \in {"a", "b", "sub"} |-> "shaders"]
MCCandidates == [d \in {"shaders"} |-> [n \in {"B", "Sub"} |->
                   IF n = "B" THEN <<"b">> ELSE <<"mods/sub", "mods/modules/sub", "sub">>]]
MCImports == [f \in {"a", "b", "sub", "mods/sub", "mods/modules/sub"} |->
                CASE f = "a" -> {{}, {"B"}}
                  [] f = "b" -> {{"Sub"}}
                  [] OTHER -> {{}}]
=============================================================================
