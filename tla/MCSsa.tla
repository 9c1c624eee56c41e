------------------------------- MODULE MCSsa -------------------------------
(***************************************************************************)
(* Functions for the SSA construction: every choice of one instruction per *)
(* block over four block graphs (a diamond, a loop, a loop with a          *)
(* conditional exit, dead code joining live code), and picked functions    *)
(* with swaps, nested loops, a loop latch nothing reaches, address-taken   *)
(* registers and a case label list whose body starts with a loop.          *)
(***************************************************************************)
EXTENDS Ssa

Def(d, s) == [op |-> "def", dest |-> d, srcs |-> s]
Const(d) == [op |-> "const", dest |-> d, srcs |-> <<>>]
Copy(d, s) == [op |-> "copy", dest |-> d, srcs |-> <<s>>]
Branch(s) == [op |-> "branch", dest |-> 0, srcs |-> s]
Out(d) == [op |-> "out", dest |-> d, srcs |-> <<>>]
Nop == [op |-> "nop", dest |-> 0, srcs |-> <<>>]

Diamond == <<<<2, 3>>, <<4>>, <<4>>, <<>>>>
Loop == <<<<2>>, <<3, 4>>, <<2>>, <<>>>>
LoopWithExit == <<<<2>>, <<3, 4>>, <<2, 4>>, <<>>>>
DeadJoin == <<<<2, 4>>, <<4>>, <<2, 4>>, <<>>>>

Menu == {Const(0), Const(1), Copy(1, 0), Copy(0, 1), Def(0, <<0, 1>>), Branch(<<0>>), Out(1)}
Start == {<<Const(0), Const(1)>>, <<Const(1)>>, <<Const(0), Copy(1, 0)>>}

ForAll(graphs, menu) ==
  {[succ |-> g, code |-> <<s, <<i[2]>>, <<i[3]>>, <<i[4]>>>>, regs |-> 2, memory |-> {}] :
     g \in graphs, s \in Start, i \in [2..4 -> menu]}
AnyFunctions(graphs, menu) == {f \in ForAll(graphs, menu) : DefinitelyAssigned(f)}

F(g, c, n) == [succ |-> g, code |-> c, regs |-> n, memory |-> {}]

Picked == {
  \* a swap through a temporary on every iteration
  F(Loop, <<<<Const(0), Const(1)>>, <<Branch(<<0>>)>>,
            <<Copy(2, 0), Copy(0, 1), Copy(1, 2)>>, <<Out(0), Out(1)>>>>, 3),
  \* the same by plain copies of both, inside a conditional
  F(<<<<2>>, <<3, 6>>, <<4, 5>>, <<5>>, <<2>>, <<>>>>,
    <<<<Const(0), Const(1)>>, <<Branch(<<1>>)>>, <<Copy(2, 0)>>, <<Copy(0, 1), Copy(1, 2)>>,
      <<Def(1, <<1, 0>>)>>, <<Out(0), Out(1)>>>>, 3),
  \* nested loops: the inner one redefines what the outer one carries
  F(<<<<2>>, <<3, 6>>, <<4, 5>>, <<3>>, <<2>>, <<>>>>,
    <<<<Const(1), Const(2)>>, <<Branch(<<1>>)>>, <<Branch(<<2>>)>>, <<Def(1, <<1>>), Def(2, <<1>>)>>,
      <<Copy(1, 2)>>, <<Out(1), Out(2)>>>>, 3),
  \* the latch of a loop whose body always leaves is unreachable and reads what it carries
  F(<<<<2>>, <<3, 5>>, <<5>>, <<2>>, <<>>>>,
    <<<<Const(1)>>, <<Branch(<<1>>)>>, <<Def(1, <<1>>)>>, <<Def(1, <<1>>), Branch(<<1>>)>>, <<Out(1)>>>>, 2),
  \* a copy out of an address-taken register that is written again
  [succ |-> Loop, code |-> <<<<Const(0), Const(1)>>, <<Copy(1, 0), Branch(<<1>>)>>,
                             <<Def(0, <<0>>), Branch(<<1>>)>>, <<Out(1)>>>>,
   regs |-> 2, memory |-> {0}],
  \* one variable defined many times in a block, one only in one arm
  F(Diamond, <<<<Const(0)>>, <<Def(0, <<0>>), Def(0, <<0>>), Const(1)>>, <<Nop>>, <<Def(0, <<0>>), Branch(<<0>>)>>>>, 2),
  \* a variable written in two arms of three, read after a second join
  F(<<<<2, 3, 4>>, <<5>>, <<5>>, <<6>>, <<6>>, <<>>>>,
    <<<<Const(1), Branch(<<1>>)>>, <<Def(1, <<1>>)>>, <<Copy(2, 1), Def(1, <<2>>)>>, <<Nop>>,
      <<Branch(<<1>>)>>, <<Out(1)>>>>, 3) }

(* case 1, 2: loop { x = f(x) }  -- the loop header is the case's block.   *)
SharedCases ==
  F(<<<<2, 2, 5>>, <<3, 4>>, <<2>>, <<5>>, <<>>>>,
    <<<<Const(1), Branch(<<1>>)>>, <<Nop>>, <<Def(1, <<1>>)>>, <<Nop>>, <<Out(1)>>>>, 2)

(* return; discard;  after a variable was written twice.                   *)
DeadDiscard ==
  F(<<<<>>, <<>>>>, <<<<Const(0), Const(0), [op |-> "ret", dest |-> 0, srcs |-> <<>>]>>,
                      <<Def(0, <<0>>), [op |-> "discard", dest |-> 0, srcs |-> <<>>]>>>>, 1)

(* A variable in register 0 that is written in both arms of a conditional, *)
(* one of which discards.                                                  *)
DiscardingArm ==
  F(<<<<2, 3>>, <<>>, <<4>>, <<>>>>,
    <<<<Const(0), Branch(<<0>>)>>, <<Def(0, <<0>>), [op |-> "discard", dest |-> 0, srcs |-> <<>>]>>,
      <<Def(0, <<0>>)>>, <<Out(0)>>>>, 1)

(* The same functions with so many registers of their own that the limit   *)
(* is near.                                                                *)
Crowded == {[f EXCEPT !.regs = RegisterLimit - k] :
              f \in {g \in AnyFunctions({Loop}, {Const(1), Copy(1, 0), Def(0, <<0, 1>>)}) \cup Picked : g.memory = {}},
              k \in {1, 3}}

AllFunctions == AnyFunctions({Diamond, Loop, LoopWithExit, DeadJoin}, Menu)
                  \cup Picked \cup {SharedCases, DeadDiscard, DiscardingArm} \cup Crowded
=============================================================================
