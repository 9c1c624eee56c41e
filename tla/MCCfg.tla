------------------------------- MODULE MCCfg -------------------------------
(***************************************************************************)
(* Programs as the lowering leaves them: a return at the end, every branch *)
(* with the next instruction as one of its targets, all targets inside.    *)
(* All programs of five instructions of that form, which is more than      *)
(* structured control flow makes (loops with two entries, jumps into dead  *)
(* code), and picked longer ones: nested loops with an exit, a switch with *)
(* a repeated target, dead code after a discard, a continue target.        *)
(***************************************************************************)
EXTENDS Cfg

I(op, targets) == [op |-> op, targets |-> targets, cont |-> 0]

Plain == I("op", <<>>)
Ret == I("ret", <<>>)
Discard == I("discard", <<>>)
Jump(t) == I("jump", <<t>>)
Branch(t, f) == I("branch", <<t, f>>)
Switch(ts) == I("switch", ts)

Menu(i, n) ==
  {Plain, Ret} \cup {Jump(t) : t \in 1..n \ {i}} \cup {Branch(i + 1, t) : t \in 1..n \ {i, i + 1}}

Upto(n) == {p \in [1..n -> UNION {Menu(i, n) : i \in 1..n}] :
              p[n] = Ret /\ \A i \in 1..n - 1 : p[i] \in Menu(i, n)}

Picked == {
  \* a loop in a loop, both leaving to the end; the same with an early exit
  <<Plain, Branch(3, 6), Branch(4, 2), Jump(3), Jump(2), Plain, Ret>>,
  <<Branch(2, 9), Plain, Branch(4, 7), Branch(5, 6), Jump(9), Jump(3), Plain, Jump(1), Plain, Ret>>,
  \* the same block for two cases and the default
  <<Switch(<<2, 4, 2, 4>>), Plain, Jump(5), Plain, Ret>>,
  <<Branch(2, 7), Switch(<<3, 5, 3>>), Plain, Jump(6), Plain, Jump(1), Ret>>,
  \* a loop with two entries, whose dominators take two sweeps
  <<Branch(2, 3), Jump(5), Jump(4), Branch(5, 6), Jump(4), Ret>>,
  \* a case that discards, followed by its jump; a continue target in mid-block
  <<Branch(2, 4), Discard, Jump(5), Plain, Ret>>,
  <<[Branch(2, 5) EXCEPT !.cont = 3], Plain, Plain, Jump(1), Ret>> }

AllPrograms == Upto(5) \cup Picked
=============================================================================
