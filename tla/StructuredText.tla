--------------------------- MODULE StructuredText ---------------------------
(***************************************************************************)
(* The statements the WGSL and the GLSL ES backend write, and what they    *)
(* mean when a device runs them.  A statement is [do, name, value, body,   *)
(* other]; an expression is an operand, or an instruction with expressions *)
(* for its operands.  Names are registers and, from EdgeName on, the       *)
(* temporaries of phi k.  A name is there from its declaration to the end  *)
(* of its block.                                                           *)
(***************************************************************************)
EXTENDS Optimise

(* What an instruction reads; an output reads its destination.             *)
OperandsOf(ins) == ins.args \o (IF ins.op = "out" THEN <<ins.dest>> ELSE <<>>)

EdgeName(k) == 200 + k     \* bwsl_edge_k, bwsl_phi k
BreakName(b) == 300 + b    \* bwsl_break_b
ArgumentName(k) == 400 + k \* where the interpreter keeps an operand's value

Leaf(operand) == [ins |-> Nop, args |-> <<>>, operand |-> operand]
Compound(ins, args) == [ins |-> ins, args |-> args, operand |-> C(0)]

Statement == [do |-> "nothing", name |-> 0, value |-> Leaf(C(0)), body |-> <<>>, other |-> <<>>]
Declare(name, value) == [Statement EXCEPT !.do = "declare", !.name = name, !.value = value]
Assign(name, value) == [Statement EXCEPT !.do = "assign", !.name = name, !.value = value]
Output(value) == [Statement EXCEPT !.do = "output", !.value = value]
Braces(body) == [Statement EXCEPT !.do = "block", !.body = body]
IfElse(value, yes, no) == [Statement EXCEPT !.do = "if", !.value = value, !.body = yes, !.other = no]
EndlessLoop(body, continuing) == [Statement EXCEPT !.do = "loop", !.body = body, !.other = continuing]
Leave(how) == [Statement EXCEPT !.do = how]           \* "break", "continue", "return"
BreakIf(value) == [Statement EXCEPT !.do = "break if", !.value = value]

(* An arm of a switch: the selector is one of the values.                  *)
IsOneOf(selector, values) ==
  LET test(v) == Compound([Nop EXCEPT !.op = "eq"], <<selector, Leaf(C(v))>>)
      either(e, v) == Compound([Nop EXCEPT !.op = "or", !.of = "bool"], <<e, test(v)>>)
  IN FoldLeft(either, test(Head(values)), Tail(values))
NotTrue(value) == Compound([Nop EXCEPT !.op = "not", !.of = "bool"], <<value>>)

----------------------------------------------------------------------------
(* A device runs a text; m is [env, out, inputs, status, flow, rounds].    *)

RECURSIVE NamesIn(_)
NamesIn(e) ==
  IF e.ins.op # "nop" THEN UNION {NamesIn(e.args[k]) : k \in DOMAIN e.args}
  ELSE IF IsConstant(e.operand) THEN {} ELSE {e.operand}

Compute(m, ins, in) ==
  LET slots == [n \in {ArgumentName(k) : k \in DOMAIN in} |-> in[n - ArgumentName(0)]]
      names == [k \in DOMAIN in |-> ArgumentName(k)]
  IN RunInstruction([m EXCEPT !.env = slots], [ins EXCEPT !.args = names]).env[ins.dest]

RECURSIVE Evaluate(_, _)
Evaluate(m, e) ==
  IF e.ins.op = "nop" THEN Value(m.env, e.operand)
  ELSE Compute(m, e.ins, [k \in DOMAIN e.args |-> Evaluate(m, e.args[k])])

Scoped(m, after) == [after EXCEPT !.env = [n \in DOMAIN m.env |-> after.env[n]]]

RECURSIVE RunStatement(_, _), RunEndless(_, _)
RunText(m, text) ==
  FoldLeft(LAMBDA w, s : IF w.status = "runs" /\ w.flow = "" THEN RunStatement(w, s) ELSE w, m, text)

RunArm(m, truth, s) ==
  IF truth = Poison THEN [m EXCEPT !.status = "stuck"] ELSE Scoped(m, RunText(m, IF truth = 1 THEN s.body ELSE s.other))

(* The continuing block sees what the body declared.                       *)
RunContinuing(body, s) == RunText([body EXCEPT !.flow = IF @ = "continue" THEN "" ELSE @], s.other)
RunRoundAgain(m, end, s) ==
  IF end.status # "runs" THEN end
  ELSE IF end.flow = "" THEN RunEndless([Scoped(m, end) EXCEPT !.rounds = @ - 1], s)
  ELSE [Scoped(m, end) EXCEPT !.flow = IF @ = "break" THEN "" ELSE @]
RunEndless(m, s) ==
  IF m.rounds = 0 THEN [m EXCEPT !.status = "endless"] ELSE RunRoundAgain(m, RunContinuing(RunText(m, s.body), s), s)

RunNamed(m, s) ==
  CASE s.do = "declare" -> IF s.name \in DOMAIN m.env THEN [m EXCEPT !.status = "declared twice"]
                           ELSE [m EXCEPT !.env = (s.name :> Evaluate(m, s.value)) @@ @]
    [] s.do = "assign" -> IF s.name \notin DOMAIN m.env THEN [m EXCEPT !.status = "unknown name"]
                          ELSE [m EXCEPT !.env[s.name] = Evaluate(m, s.value)]
    [] s.do = "output" -> [m EXCEPT !.out = Append(@, Evaluate(m, s.value))]
    [] s.do = "block" -> Scoped(m, RunText(m, s.body))
    [] s.do = "if" -> RunArm(m, Evaluate(m, s.value)[1], s)
    [] s.do = "loop" -> RunEndless(m, s)
    [] s.do = "break if" -> IF Evaluate(m, s.value)[1] = 1 THEN [m EXCEPT !.flow = "break"] ELSE m
    [] OTHER -> [m EXCEPT !.flow = s.do]
RunStatement(m, s) ==
  IF NamesIn(s.value) \subseteq DOMAIN m.env THEN RunNamed(m, s) ELSE [m EXCEPT !.status = "unknown name"]

(* Zero for the registers the text declares with a default, nothing in     *)
(* particular for the others it declares.                                  *)
Zero(r) == [c \in 1..Count(r) |-> 0]
Starts(zeroed, declared) == [r \in zeroed |-> Zero(r)] @@ [r \in declared |-> [c \in 1..Count(r) |-> Poison]]
Ended(end) == [out |-> end.out, status |-> IF end.flow = "return" THEN "done" ELSE end.status]
RunWhole(emitted, inputs) ==
  Ended(RunText([env |-> Starts(emitted.zeroed, emitted.declared), out |-> <<>>, inputs |-> inputs,
                 status |-> "runs", flow |-> "", rounds |-> MaxSteps], emitted.text))
=============================================================================
