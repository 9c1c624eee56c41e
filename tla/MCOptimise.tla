----------------------------- MODULE MCOptimise -----------------------------
(***************************************************************************)
(* Stages for the optimiser: diamonds with every pair of operations from a *)
(* menu on a value whose range the branch narrows, loops that fold and     *)
(* loops that do not, nested loops, switches, vectors, local structs with  *)
(* pointers to them, values that are undefined on some path, constant      *)
(* pools that are full, and straight-line stages that assign a register    *)
(* more than once.                                                         *)
(***************************************************************************)
EXTENDS Emission

I(op, of, dest, args) == [op |-> op, of |-> of, dest |-> dest, args |-> args, lit |-> <<>>]
L(op, of, dest, args, lit) == [op |-> op, of |-> of, dest |-> dest, args |-> args, lit |-> lit]
Input(dest, low, high) == L("input", "int", dest, <<>>, <<low, high>>)
Out(r) == I("out", "int", r, <<>>)
N(n) == C(BitsOf(n))

T(op, arg, cases, to, mark, merge) ==
  [op |-> op, arg |-> arg, cases |-> cases, to |-> to, mark |-> mark, merge |-> merge, next |-> NO_BLOCK]
Jump(b) == T("jump", C(0), <<>>, <<b>>, "", NO_BLOCK)
Ret == T("ret", C(0), <<>>, <<>>, "", NO_BLOCK)
If(arg, yes, no, merge) == T("branch", arg, <<>>, <<yes, no>>, "if", merge)
Until(arg, yes, no) == T("branch", arg, <<>>, <<yes, no>>, "", NO_BLOCK)
Loop(arg, yes, no, next) == [T("branch", arg, <<>>, <<yes, no>>, "loop", no) EXCEPT !.next = next]
Endless(body, merge, next) == Loop(C(1), body, merge, next)
Switch(arg, cases, to, merge) == T("switch", arg, cases, to, "switch", merge)
PhiOf(web, block, result, from, vals) == [block |-> block, result |-> result, from |-> from, vals |-> vals, web |-> web]
Phi(block, result, from, vals) == PhiOf(result, block, result, from, vals)

I4 == [of |-> "int", n |-> 1]
U4 == [of |-> "uint", n |-> 1]
Truth == [of |-> "bool", n |-> 1]
Pair == [of |-> "int", n |-> 2]
Struct == [of |-> "struct", n |-> 1]
Ptr == [of |-> "ptr", n |-> 1]

Constants(code) ==
  UNION {UNION {{<<code[b][i].of, ConstantBits(a)>> : a \in {x \in Elems(code[b][i].args) : IsConstant(x)}} :
                  i \in DOMAIN code[b]} : b \in DOMAIN code}

(* Room for 20 more constants, and two fields in every struct.             *)
F(code, term, phis, types) ==
  [code |-> code, term |-> term, phis |-> phis, undef |-> {}, memory |-> {}, named |-> {},
   pool |-> {c \in Constants(code) : c[1] # "bool"}, room |-> 20 + Cardinality(Constants(code)),
   types |-> [r \in 0..(Len(types) - 1) |-> types[r + 1]],
   start |-> [r \in {q \in 0..(Len(types) - 1) : types[q + 1].of = "struct"} |-> <<<<Poison>>, <<Poison>>>>]]
Full(f) == [f EXCEPT !.room = Cardinality(f.pool)]

----------------------------------------------------------------------------
(* if (x < 0) y = a(x) else y = b(x); out c(y)                             *)
Menu(d, x) ==
  {I("add", "int", d, <<x, N(0)>>), I("sub", "int", d, <<N(0), x>>), I("mul", "int", d, <<x, N(3)>>),
   I("div", "int", d, <<x, N(2)>>), I("mod", "int", d, <<x, N(4)>>), I("abs", "int", d, <<x>>),
   I("min", "int", d, <<x, N(0)>>), I("max", "int", d, <<x, N(0)>>), I("clamp", "int", d, <<x, N(-1), N(2)>>),
   I("and", "int", d, <<x, N(3)>>), I("xor", "int", d, <<x, x>>), I("shr", "int", d, <<x, N(1)>>),
   I("neg", "int", d, <<x>>), I("copy", "int", d, <<N(2)>>), I("sub", "int", d, <<x, N(7)>>)}

DiamondOf(a, b, c) ==
  F(<<<<Input(0, -3, 3), I("lt", "int", 1, <<0, N(0)>>)>>, <<a>>, <<b>>, <<c, Out(4), I("add", "int", 6, <<5, 4>>), Out(6)>>>>,
    <<If(1, 2, 3, 4), Jump(4), Jump(4), Ret>>,
    <<Phi(4, 5, <<2, 3>>, <<2, 3>>)>>, <<I4, Truth, I4, I4, I4, I4, I4>>)
Diamonds == {DiamondOf(a, b, c) : a \in Menu(2, 0), b \in {I("copy", "int", 3, <<N(2)>>), I("neg", "int", 3, <<0>>)}, c \in Menu(4, 5)}
              \cup {DiamondOf(I("copy", "int", 2, <<0>>), b, c) : b \in Menu(3, 0), c \in {I("abs", "int", 4, <<5>>), I("copy", "int", 4, <<5>>)}}

(* Conditions that combine comparisons, negated or not.                    *)
NarrowedOf(op, negated, use) ==
  F(<<<<Input(0, -8, 7), I("gt", "int", 1, <<0, N(0)>>), I("lt", "int", 2, <<0, N(3)>>), I(op, "bool", 3, <<1, 2>>),
        I("not", "bool", 4, <<3>>)>>, <<use, Out(5)>>, <<Out(0)>>, <<>>>>,
    <<If(IF negated THEN 4 ELSE 3, 2, 3, 4), Jump(4), Jump(4), Ret>>, <<>>, <<I4, Truth, Truth, Truth, Truth, I4>>)
Narrowed == {NarrowedOf(op, negated, use) : op \in {"and", "or"}, negated \in BOOLEAN, use \in Menu(5, 0)}

(* An if without an else: the join has the branch before it, too.          *)
OneArmed ==
  {F(<<<<Input(0, -3, 3), I("lt", "int", 1, <<0, N(0)>>)>>, <<I("neg", "int", 2, <<0>>)>>, <<use, Out(4), Out(3)>>>>,
     <<If(1, 2, 3, 3), Jump(3), Ret>>, <<Phi(3, 3, <<1, 2>>, <<0, 2>>)>>, <<I4, Truth, I4, I4, I4>>) :
     use \in Menu(4, 0) \cup Menu(4, 3)}

(* Unsigned numbers and comparisons against what is not a constant.        *)
Unsigned ==
  {F(<<<<L("input", "uint", 0, <<>>, <<0, 15>>), L("input", "uint", 1, <<>>, <<0, 2>>), I(op, "uint", 2, <<0, 1>>)>>,
       <<I("min", "uint", 3, <<0, C(3)>>), Out(3)>>, <<I("div", "uint", 4, <<1, C(2)>>), I("sub", "uint", 5, <<1, C(1)>>), Out(4), Out(5)>>,
       <<I("shr", "uint", 6, <<0, C(4)>>), Out(2)>>>>,
     <<If(2, 2, 3, 4), Jump(4), Jump(4), Ret>>, <<>>, <<U4, U4, Truth, U4, U4, U4, U4>>) : op \in Comparisons}

----------------------------------------------------------------------------
(* for (i = 0, s = start; i < n; i += step) s += k; out s                  *)
LoopOf(n, step, k, body) ==
  F(<<<<Input(0, 0, 2)>>, <<I("lt", "int", 3, <<1, n>>)>>, <<I("add", "int", 4, <<2, k>>)>> \o body,
      <<I("add", "int", 5, <<1, N(step)>>)>>, <<Out(2)>>>>,
    <<Jump(2), Loop(3, 3, 5, 4), Jump(4), Jump(2), Ret>>,
    <<Phi(2, 1, <<1, 4>>, <<N(0), 5>>), Phi(2, 2, <<1, 4>>, <<N(1), 4>>)>>, <<I4, I4, I4, Truth, I4, I4, I4>>)
Loops == {LoopOf(n, step, k, body) : n \in {N(0), N(1), N(3), N(7), 0}, step \in {1, 2}, k \in {N(1), 0, 1},
                                     body \in {<<>>, <<Out(1)>>, <<I("min", "int", 6, <<1, N(6)>>), Out(6)>>}}

(* A loop that leaves in its first iteration, around another, and a loop   *)
(* variable only its own update reads.                                     *)
BreaksAtOnce(condition) ==
  F(<<<<Input(0, 0, 2), I("copy", "int", 1, <<N(3)>>), I("lt", "int", 2, <<1, N(4)>>)>>, <<>>, <<I("add", "int", 4, <<3, N(1)>>)>>,
      <<>>, <<I("add", "int", 5, <<3, 0>>)>>, <<>>, <<Out(6), Out(7)>>>>,
    <<Jump(2), Endless(3, 7, 6), If(condition, 4, 5, 5), Jump(7), Jump(6), Jump(2), Ret>>,
    <<Phi(2, 3, <<1, 6>>, <<0, 5>>), Phi(2, 8, <<1, 6>>, <<N(1), 8>>), Phi(7, 6, <<2, 4>>, <<3, 4>>), Phi(7, 7, <<2, 4>>, <<3, 3>>)>>,
    <<I4, I4, Truth, I4, I4, I4, I4, I4, I4>>)

Nested(inner, outer) ==
  F(<<<<Input(0, 0, 1)>>, <<I("lt", "int", 3, <<1, outer>>)>>, <<>>, <<I("lt", "int", 6, <<4, inner>>)>>,
      <<I("add", "int", 7, <<5, 1>>)>>, <<I("add", "int", 8, <<4, N(1)>>)>>, <<>>,
      <<I("add", "int", 9, <<1, N(1)>>), I("add", "int", 11, <<10, N(1)>>)>>, <<Out(2)>>>>,
    <<Jump(2), Loop(3, 3, 9, 8), Jump(4), Loop(6, 5, 7, 6), Jump(6), Jump(4), Jump(8), Jump(2), Ret>>,
    <<Phi(2, 1, <<1, 8>>, <<N(0), 9>>), PhiOf(2, 2, 2, <<1, 8>>, <<N(0), 5>>), Phi(2, 10, <<1, 8>>, <<0, 11>>),
      Phi(4, 4, <<3, 6>>, <<N(0), 8>>), PhiOf(2, 4, 5, <<3, 6>>, <<2, 7>>)>>,
    <<I4, I4, I4, Truth, I4, I4, Truth, I4, I4, I4, I4, I4>>)
MoreLoops == {BreaksAtOnce(c) : c \in {2, C(1), C(0)}} \cup
             {Nested(inner, outer) : inner \in {N(0), N(2), 0, 1}, outer \in {N(2), 0}}

(* A loop left from its middle, whose exit merges a value undefined before *)
(* the first iteration.                                                    *)
UndefinedFirst(entry) ==
  [F(<<<<Input(0, 0, 2)>>, <<I("lt", "int", 3, <<1, N(3)>>)>>, <<I("eq", "int", 4, <<1, 0>>)>>, <<>>,
       <<I("copy", "int", 5, <<N(2)>>)>>, <<I("add", "int", 6, <<1, N(1)>>)>>, <<Out(2), I("add", "int", 8, <<2, N(0)>>), Out(8)>>>>,
     <<Jump(2), Loop(3, 3, 7, 6), If(4, 4, 5, 5), Jump(7), Jump(6), Jump(2), Ret>>,
     <<Phi(2, 1, <<1, 6>>, <<N(0), 6>>), Phi(2, 7, <<1, 6>>, <<entry, 5>>), Phi(7, 2, <<2, 4>>, <<7, 7>>)>>,
     <<I4, I4, I4, Truth, Truth, I4, I4, I4, I4, I4>>) EXCEPT !.undef = {9}]

(* A loop variable that starts undefined and only counts itself.           *)
CountsFromNothing ==
  [F(<<<<Input(0, 0, 2)>>, <<I("lt", "int", 3, <<1, N(3)>>)>>, <<I("add", "int", 5, <<2, N(1)>>), I("add", "int", 6, <<1, N(1)>>), Out(6)>>,
       <<>>, <<I("abs", "int", 7, <<2>>), Out(7), Out(1)>>>>,
     <<Jump(2), Loop(3, 3, 5, 4), Jump(4), Jump(2), Ret>>,
     <<Phi(2, 1, <<1, 4>>, <<0, 6>>), Phi(2, 2, <<1, 4>>, <<4, 5>>)>>,
     <<I4, I4, I4, Truth, I4, I4, I4, I4>>) EXCEPT !.undef = {4}]

----------------------------------------------------------------------------
(* for (i = 0, best = x; i < 3; i++) { y = best; if (i < y) best = i + k; z }*)
(* where z may read y, and the variable of best then holds another value.  *)
Updates(k, z) ==
  F(<<<<Input(0, 0, 2)>>, <<I("lt", "int", 3, <<1, N(3)>>)>>, <<I("lt", "int", 4, <<1, 2>>)>>, <<I("add", "int", 5, <<1, k>>)>>,
      z, <<I("add", "int", 7, <<1, N(1)>>)>>, <<Out(2)>>>>,
    <<Jump(2), Loop(3, 3, 7, 6), If(4, 4, 5, 5), Jump(5), Jump(6), Jump(2), Ret>>,
    <<Phi(2, 1, <<1, 6>>, <<N(0), 7>>), PhiOf(2, 2, 2, <<1, 6>>, <<0, 6>>), PhiOf(2, 5, 6, <<3, 4>>, <<2, 5>>)>>,
    <<I4, I4, I4, Truth, Truth, I4, I4, I4>>)

(* a and b change places in every iteration.                               *)
Swap ==
  F(<<<<Input(0, 0, 2)>>, <<I("lt", "int", 4, <<1, 0>>)>>, <<I("add", "int", 5, <<2, N(0)>>), Out(5)>>, <<I("add", "int", 6, <<1, N(1)>>)>>,
      <<Out(2), Out(3)>>>>,
    <<Jump(2), Loop(4, 3, 5, 4), Jump(4), Jump(2), Ret>>,
    <<Phi(2, 1, <<1, 4>>, <<N(0), 6>>), Phi(2, 2, <<1, 4>>, <<N(1), 3>>), Phi(2, 3, <<1, 4>>, <<N(2), 2>>)>>,
    <<I4, I4, I4, I4, Truth, I4, I4>>)

(* for (i) { s++; if (i < x) { if (i == 1) leave; s++; } s++; } where leave   *)
(* goes to the continue target, 8, or to the merge, 9.                     *)
Leaves(to) ==
  F(<<<<Input(0, 0, 2)>>, <<I("lt", "int", 3, <<1, N(3)>>)>>, <<I("lt", "int", 4, <<1, 0>>), I("add", "int", 12, <<2, N(1)>>)>>,
      <<I("eq", "int", 5, <<1, N(1)>>)>>, <<>>, <<I("add", "int", 6, <<12, N(1)>>)>>, <<I("add", "int", 8, <<7, N(1)>>)>>,
      <<I("add", "int", 10, <<1, N(1)>>)>>, <<Out(11)>>>>,
    <<Jump(2), Loop(3, 3, 9, 8), If(4, 4, 7, 7), If(5, 5, 6, 6), Jump(to), Jump(7), Jump(8), Jump(2), Ret>>,
    IF to = 8
      THEN <<Phi(2, 1, <<1, 8>>, <<N(0), 10>>), PhiOf(2, 2, 2, <<1, 8>>, <<N(0), 9>>), PhiOf(2, 7, 7, <<3, 6>>, <<12, 6>>),
             PhiOf(2, 8, 9, <<5, 7>>, <<12, 8>>), PhiOf(2, 9, 11, <<2>>, <<2>>)>>
      ELSE <<Phi(2, 1, <<1, 8>>, <<N(0), 10>>), PhiOf(2, 2, 2, <<1, 8>>, <<N(0), 8>>), PhiOf(2, 7, 7, <<3, 6>>, <<12, 6>>),
             PhiOf(2, 9, 11, <<2, 5>>, <<2, 12>>)>>,
    <<I4, I4, I4, Truth, Truth, Truth, I4, I4, I4, I4, I4, I4, I4>>)

(* for (i) { switch (i) { 0: s = s + x; 1: break or skip; default: s = 3 } }   *)
SwitchInLoop(to) ==
  F(<<<<Input(0, 0, 2)>>, <<I("lt", "int", 3, <<1, N(3)>>)>>, <<>>, <<I("add", "int", 4, <<2, 0>>)>>, <<>>, <<>>, <<>>,
      <<I("add", "int", 6, <<1, N(1)>>)>>, <<Out(7)>>>>,
    <<Jump(2), Loop(3, 3, 9, 8), Switch(1, <<0, 1>>, <<4, 5, 6>>, 7), Jump(7), Jump(to), Jump(7), Jump(8), Jump(2), Ret>>,
    <<Phi(2, 1, <<1, 8>>, <<N(0), 6>>), PhiOf(2, 7, 5, <<4, 6>>, <<4, N(3)>>)>> \o
    (IF to = 8 THEN <<PhiOf(2, 2, 2, <<1, 8>>, <<0, 8>>), PhiOf(2, 8, 8, <<5, 7>>, <<2, 5>>), PhiOf(2, 9, 7, <<2>>, <<2>>)>>
               ELSE <<PhiOf(2, 2, 2, <<1, 8>>, <<0, 5>>), PhiOf(2, 9, 7, <<2, 5>>, <<2, 2>>)>>),
    <<I4, I4, I4, Truth, I4, I4, I4, I4, I4>>)

(* loop { a = a + b; b = a; } until (a > 3); and one that also breaks.     *)
UntilLoop(condition) ==
  F(<<<<Input(0, 1, 2)>>, <<>>, <<I("add", "int", 3, <<1, 2>>), I("gt", "int", 4, <<3, N(3)>>)>>, <<>>, <<Out(5), Out(6)>>>>,
    <<Jump(2), Endless(3, 5, 4), Until(condition, 5, 4), Jump(2), Ret>>,
    <<Phi(2, 1, <<1, 4>>, <<0, 3>>), Phi(2, 2, <<1, 4>>, <<N(1), 1>>), Phi(5, 5, <<2, 3>>, <<1, 3>>), Phi(5, 6, <<2, 3>>, <<2, 1>>)>>,
    <<I4, I4, I4, I4, Truth, I4, I4>>)
BreakAndUntil ==
  F(<<<<Input(0, 0, 2)>>, <<>>, <<I("add", "int", 3, <<1, 0>>), I("gt", "int", 4, <<3, N(3)>>)>>, <<>>,
      <<I("add", "int", 5, <<3, N(1)>>), I("gt", "int", 6, <<5, N(2)>>)>>, <<>>, <<Out(7)>>>>,
    <<Jump(2), Endless(3, 7, 6), If(4, 4, 5, 5), Jump(7), Until(6, 7, 6), Jump(2), Ret>>,
    <<Phi(2, 1, <<1, 6>>, <<0, 5>>), Phi(7, 7, <<2, 4, 5>>, <<1, 3, 5>>)>>,
    <<I4, I4, I4, I4, Truth, I4, Truth, I4>>)
Structured == {Updates(k, z) : k \in {N(1), N(0), 2}, z \in {<<>>, <<Out(2)>>, <<Out(6)>>}} \cup {Swap, UntilLoop(4), BreakAndUntil}
                \cup {Leaves(8), Leaves(9), SwitchInLoop(8), SwitchInLoop(9)}

(* Decided selections within one another: for (i) { if (k > 2) { s++; if   *)
(* (k > 5) s *= 2; } } with a constant k.                                  *)
DecidedWithin ==
  F(<<<<Input(0, 0, 2), I("copy", "int", 11, <<N(3)>>)>>, <<I("lt", "int", 3, <<1, 0>>)>>, <<I("gt", "int", 4, <<11, N(2)>>)>>,
      <<I("add", "int", 5, <<2, N(1)>>), I("gt", "int", 6, <<11, N(5)>>)>>, <<I("mul", "int", 7, <<5, N(2)>>)>>, <<>>, <<Out(9)>>,
      <<I("add", "int", 10, <<1, N(1)>>)>>, <<Out(2)>>>>,
    <<Jump(2), Loop(3, 3, 9, 8), If(4, 4, 7, 7), If(6, 5, 6, 6), Jump(6), Jump(7), Jump(8), Jump(2), Ret>>,
    <<Phi(2, 1, <<1, 8>>, <<N(0), 10>>), PhiOf(2, 2, 2, <<1, 8>>, <<0, 9>>), PhiOf(2, 7, 9, <<3, 6>>, <<2, 8>>),
      PhiOf(2, 6, 8, <<4, 5>>, <<5, 7>>)>>,
    <<I4, I4, I4, Truth, Truth, I4, Truth, I4, I4, I4, I4, I4>>)
DecidedStages == {DecidedWithin}

----------------------------------------------------------------------------
(* switch (x) with a selector that is known on one path.                   *)
SwitchOf(selector) ==
  F(<<<<Input(0, 0, 3), I("copy", "int", 1, <<N(1)>>)>>, <<I("add", "int", 2, <<0, N(1)>>)>>, <<I("add", "int", 3, <<0, N(1)>>)>>,
      <<>>, <<I("mul", "int", 5, <<4, N(1)>>), Out(5)>>>>,
    <<Switch(selector, <<0, 1>>, <<2, 3, 4>>, 5), Jump(5), Jump(5), Jump(5), Ret>>,
    <<Phi(5, 4, <<2, 3, 4>>, <<2, 3, N(0)>>)>>, <<I4, I4, I4, I4, I4, I4>>)

----------------------------------------------------------------------------
(* Vectors: built, read back by component, and shuffled.                   *)
VectorUses(k, index) ==
  {<<L("extract", "int", 6, <<5>>, <<k>>), I("at", "int", 7, <<5, index>>), Out(6), Out(7)>>,
   <<I("min", "int", 8, <<5, 5>>), I("select", "int", 10, <<1, 5, 2>>), Out(8), Out(10)>>,
   <<I("putat", "int", 11, <<1, 0, index>>), I("max", "int", 12, <<1, N(0)>>), Out(11), Out(12)>>,
   <<L("extract", "int", 9, <<1>>, <<2>>), L("shuffle", "int", 8, <<5, 1>>, <<1, 4>>), Out(9), Out(8)>>}
VectorOf(k, use) ==
  F(<<<<Input(0, 0, 1), I("construct", "int", 1, <<0, N(2)>>), I("lt", "int", 2, <<0, N(1)>>)>>,
      <<L("insert", "int", 3, <<1, N(3)>>, <<k>>)>>, <<L("shuffle", "int", 4, <<1, 1>>, <<2, 3>>)>>, use>>,
    <<If(2, 2, 3, 4), Jump(4), Jump(4), Ret>>, <<Phi(4, 5, <<2, 3>>, <<3, 4>>)>>,
    <<I4, Pair, Truth, Pair, Pair, Pair, I4, I4, Pair, I4, Pair, Pair, Pair>>)
Vectors == UNION {{VectorOf(k, use) : use \in VectorUses(k, index)} : k \in 1..2, index \in {N(0), N(1), 0}}

----------------------------------------------------------------------------
(* Local structs 1 and 2; pointers to fields, to a struct, and to either.  *)
Field(d, base, k) == L("field", "int", d, <<base>>, <<k>>)
Store2(p, v) == I("lstore", "int", 0, <<p, v>>)
Load(d, p) == I("lload", "int", d, <<p>>)
MemoryCode(middle) ==
  F(<<<<Input(0, 0, 1), Field(3, 1, 1), Field(4, 1, 2), Field(5, 2, 1), I("varptr", "int", 6, <<1>>), I("varptr", "int", 7, <<2>>),
        I("eq", "int", 8, <<0, N(0)>>), I("select", "int", 9, <<6, 7, 8>>), Field(10, 9, 1),
        Store2(3, N(3)), Store2(4, 0), Store2(5, 0)>>, middle, <<Load(12, 4)>>, <<Load(11, 3), Out(11), Load(13, 10), Out(13), Load(14, 5), Out(14)>>>>,
    <<If(8, 2, 3, 4), Jump(4), Jump(4), Ret>>, <<>>,
    <<I4, Struct, Struct, Ptr, Ptr, Ptr, Ptr, Ptr, Truth, Ptr, Ptr, I4, I4, I4, I4>>)
Memory == {MemoryCode(m) : m \in {<<>>, <<Store2(3, N(1))>>, <<Store2(3, N(3))>>, <<Store2(10, N(2))>>, <<Store2(4, N(2)), Load(12, 3), Out(12)>>,
                                 <<I("poke", "int", 0, <<10, N(2)>>)>>, <<I("copy", "struct", 1, <<2>>)>>}}

(* A store in a loop is not there in the first iteration.                  *)
MemoryLoop ==
  F(<<<<Input(0, 0, 2), Field(2, 1, 1), Field(3, 1, 2), Store2(2, N(1)), Store2(3, N(5))>>, <<I("lt", "int", 5, <<4, 0>>)>>,
      <<Load(6, 2), Out(6), I("add", "int", 7, <<4, N(1)>>), Store2(2, 7), Load(8, 3), Out(8), Load(9, 2), Out(9)>>, <<>>, <<Load(10, 2), Out(10)>>>>,
    <<Jump(2), Loop(5, 3, 5, 4), Jump(4), Jump(2), Ret>>, <<Phi(2, 4, <<1, 4>>, <<N(0), 7>>)>>,
    <<I4, Struct, Ptr, Ptr, I4, Truth, I4, I4, I4, I4, I4>>)

----------------------------------------------------------------------------
(* One block: registers assigned more than once.                           *)
Straights ==
  {F(<<<<Input(0, 0, 3), I("copy", "int", 1, <<N(2)>>), I("add", "int", 2, <<0, 1>>), I("copy", "int", 1, <<0>>), step,
         I("add", "int", 3, <<0, 1>>), I("add", "int", 4, <<1, 0>>), I("abs", "int", 5, <<0>>), I("mod", "int", 6, <<0, N(4)>>),
         I("copy", "int", 7, <<N(1)>>), Out(1), Out(2), Out(3), Out(4), Out(5), Out(6)>>>>,
     <<Ret>>, <<>>, [k \in 1..8 |-> I4]) :
     step \in {I("add", "int", 1, <<1, N(0)>>), I("mul", "int", 1, <<1, N(2)>>), I("copy", "int", 0, <<N(3)>>), I("sub", "int", 2, <<1, 1>>)}}
  \cup
  {F(<<<<Input(0, 0, 1), I("construct", "int", 1, <<0, N(3)>>), L("insert", "int", 1, <<1, 0>>, <<2>>),
         L("extract", "int", 2, <<1>>, <<k>>), L("insert", "int", 1, <<1, N(2)>>, <<k>>), L("extract", "int", 3, <<1>>, <<2>>),
         I("construct", "int", 4, <<2>>), Out(1), Out(2), Out(3), I("copy", "int", 2, <<N(1)>>), Out(4),
         Field(6, 5, 1), Store2(6, 2), I("copy", "int", 2, <<0>>), Load(7, 6), Out(7)>>>>,
     <<Ret>>, <<>>, <<I4, Pair, I4, I4, Pair, Struct, Ptr, I4>>) : k \in 1..2}
  \cup {F(<<<<>>>>, <<Ret>>, <<>>, <<I4>>),
        F(<<<<Input(0, 0, 3), Input(1, 0, 3), I("add", "int", 2, <<0, 1>>), I("add", "int", 3, <<1, 0>>), I("copy", "int", 2, <<0>>),
              I("copy", "int", 4, <<2>>), I("add", "int", 5, <<0, 1>>), Out(2), Out(3), Out(4), Out(5)>>>>,
          <<Ret>>, <<>>, [k \in 1..6 |-> I4])}
  \cup {[F(<<<<Input(0, 0, 1), I("copy", "int", 1, <<0>>), I("varptr", "int", 2, <<1>>), I("add", "int", 3, <<1, N(1)>>),
               I("poke", "int", 0, <<2, N(3)>>), I("add", "int", 4, <<1, N(1)>>), Out(3), Out(4), I("copy", "int", 5, <<N(1)>>)>>>>,
           <<Ret>>, <<>>, <<I4, I4, Ptr, I4, I4, I4>>) EXCEPT !.memory = {1}, !.named = {5}]}

(* Available in a block, not in the next one that block does not dominate. *)
Subexpressions ==
  {F(<<<<Input(0, 0, 2), Input(1, 0, 2), first, I("lt", "int", 3, <<0, 1>>)>>, <<I("add", "int", 4, <<1, 0>>), I("mul", "int", 5, <<0, 1>>), Out(4), Out(5)>>,
       <<I("mul", "int", 6, <<1, 0>>), Out(6)>>, <<I("mul", "int", 7, <<0, 1>>), I("add", "int", 8, <<0, 1>>), I("sub", "int", 9, <<1, 0>>), Out(7), Out(8), Out(9)>>>>,
     <<If(3, 2, 3, 4), Jump(4), Jump(4), Ret>>, <<>>, <<I4, I4, I4, Truth, I4, I4, I4, I4, I4, I4>>) :
     first \in {I("add", "int", 2, <<0, 1>>), I("sub", "int", 2, <<0, 1>>)}}

OtherStages == Unsigned \cup Structured \cup Loops \cup MoreLoops \cup {UndefinedFirst(9), UndefinedFirst(N(2)), CountsFromNothing} \cup {SwitchOf(s) : s \in {0, 1, C(0), C(3)}}
                 \cup Vectors \cup Memory \cup {MemoryLoop} \cup Straights \cup Subexpressions
AllStages == Diamonds \cup OneArmed \cup Narrowed \cup OtherStages \cup {Full(f) : f \in OtherStages}
=============================================================================
