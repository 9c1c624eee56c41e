----------------------------- MODULE Expressions -----------------------------
(***************************************************************************)
(* From the statements of the source to what a target computes: a program  *)
(* is lowered, with or without the speculation of operands, and each       *)
(* instruction of it is executed as the target's backend writes it.        *)
(***************************************************************************)
EXTENDS ExpressionLowering, SourceMeaning, SpirvOperations, WgslOperations

CONSTANTS Programs, \* sequences of statements
          Inputs,   \* what the variables hold at first, by name, as SourceMeaning has it
          Targets


VARIABLES program, input, target,
          meant,    \* what the language says of the program
          lowered,  \* the code and the types of its registers
          pc, values, status
vars == <<program, input, target, meant, lowered, pc, values, status>>

Init ==
  /\ program \in Programs
  /\ input \in Inputs
  /\ target \in Targets
  /\ meant = Meaning(program, input)
  /\ lowered = Start(FALSE)
  /\ pc = 0
  /\ values = <<>>
  /\ status = "source"

Flat(x) == IF IsArray(x) THEN Value(x.elements[1].type, FlattenSeq([e \in DOMAIN x.elements |-> x.elements[e].v])) ELSE x
HeldAtFirst(types) ==
  [r \in DOMAIN types |-> IF r \in DOMAIN Variables THEN Flat(input[Variables[r].name])
                          ELSE Value(types[r], Same(CountOf(types[r]), Undefined))]
Compile ==
  /\ status = "source"
  /\ \E speculate \in BOOLEAN : lowered' = Lower(program, speculate)
  /\ pc' = 1
  /\ values' = HeldAtFirst(lowered'.types)
  /\ status' = IF lowered'.error THEN "refused" ELSE "running"
  /\ UNCHANGED <<program, input, target, meant>>

----------------------------------------------------------------------------
(* The machine that runs the target's code.                                *)
Context == [types |-> lowered.types, values |-> values, lengths |-> [k \in DOMAIN Variables |-> Variables[k].length]]
Current == lowered.code[pc]
Running == status = "running" /\ pc <= Len(lowered.code)

Branch ==
  /\ Running
  /\ Current.op \in {"BRANCH", "JUMP"}
  /\ LET condition == IF Current.op = "JUMP" THEN 1 ELSE Actual(Context, Current.args[1]).v[1]
     IN /\ pc' = IF condition = 0 THEN Current.to[2] ELSE Current.to[1]
        /\ status' = IF condition = Undefined THEN "undefined" ELSE status
  /\ UNCHANGED <<program, input, target, meant, lowered, values>>

Merge ==
  /\ Running
  /\ Current.op = "NOP" /\ Current.dest = 0
  /\ pc' = pc + 1
  /\ UNCHANGED <<program, input, target, meant, lowered, values, status>>

Translated == CASE target = "SPIR-V" -> TranslateToSpirv(Context, Current)
                [] target = "WGSL" -> TranslateToWgsl(Context, Current)
Compute ==
  /\ Running
  /\ Current.dest > 0
  /\ pc' = pc + 1
  /\ \E value \in {Translated} :
       /\ values' = [values EXCEPT ![Current.dest] = value]
       /\ status' = IF value = IllTyped THEN "invalid" ELSE IF value = Refused THEN "refused" ELSE status
  /\ UNCHANGED <<program, input, target, meant, lowered>>

Finish ==
  /\ status = "running" /\ pc > Len(lowered.code)
  /\ status' = "done"
  /\ UNCHANGED <<program, input, target, meant, lowered, pc, values>>

Next == Compile \/ Branch \/ Merge \/ Compute \/ Finish
Spec == Init /\ [][Next]_vars

----------------------------------------------------------------------------
(* Equal, where neither may be anything.                                   *)
Agree(x, y) ==
  /\ x.type = y.type /\ Len(x.v) = Len(y.v)
  /\ \A c \in DOMAIN x.v : Undefined \in {x.v[c], y.v[c]} \/ x.v[c] = y.v[c]
AgreeAll(ends) == \A k \in DOMAIN Variables : Agree(values[k], Flat(ends.vars[Variables[k].name]))

----------------------------------------------------------------------------
(* A program that is not refused becomes code the target accepts.          *)
EmitsValidCode == status # "invalid"

(* And when it ends, every variable holds what the language says.          *)
MeansTheSource == status = "done" => AgreeAll(meant)

(* A program is refused exactly when it breaks a rule of the language.     *)
AcceptedAsDocumented == status \in {"refused", "done"} => (status = "refused" <=> ~meant.ok)
=============================================================================
