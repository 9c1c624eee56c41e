------------------------- MODULE MCControlLowering -------------------------
(***************************************************************************)
(* Small programs: a construct that leaves, inside every other construct,  *)
(* inside every loop, on its own, called, or called from a loop.           *)
(***************************************************************************)
EXTENDS ControlLowering

Statement(kind, id, blocks) == [kind |-> kind, id |-> id, blocks |-> blocks]
M(id) == Statement("mark", id, <<>>)
Leave(kind) == Statement(kind, 0, <<>>)

(* Blocks without constructs.                                              *)
Plain(id) == {<<M(id)>>, <<Leave("break")>>, <<Leave("skip")>>, <<Leave("return")>>}
Ends(id) == Plain(id) \cup {<<Statement("discard", id, <<>>)>>, <<>>}

(* Constructs around such blocks.                                          *)
Simple(id) ==
  UNION { {Statement("if", id, <<a>>), Statement("known", id, <<a>>), Statement("default", id, <<<<M(id + 1)>>, a>>)}
          \cup {Statement(loop, id, <<<<M(id + 1)>> \o a>>) : loop \in Loops}
          \cup {Statement("if", id, <<a, b>>) : b \in {<<M(id + 2)>>, <<Leave("return")>>}}
          \cup {Statement("switch", id, <<a, b>>) : b \in {<<M(id + 2)>>, <<Leave("return")>>}}
          : a \in Ends(id + 1)}

Bodies(id) == UNION {{<<s, M(id + 5)>>, <<s>>} : s \in Simple(id)}

(* Constructs around those.                                                *)
Nested(id) ==
  {Statement(kind, id, <<body>>) : kind \in Loops, body \in Bodies(id + 1)}
  \cup {Statement("if", id, <<body, <<M(id + 9)>>>>) : body \in Bodies(id + 1)}
  \cup {Statement("if", id, <<<<M(id + 9)>>, body>>) : body \in Bodies(id + 1)}
  \cup {Statement("switch", id, <<body, <<M(id + 9)>>>>) : body \in Bodies(id + 1)}

Stages ==
  UNION { {<<s, M(30)>>,
           <<Statement("call", 20, <<<<s, M(30)>>>>), M(31)>>,
           <<Statement("while", 21, <<<<Statement("call", 20, <<<<s, M(30)>>>>), M(31)>>>>), M(32)>>}
          : s \in Nested(1)}

RECURSIVE Strays(_, _, _)
(* A break or a skip that only a caller's loop encloses: which loop it     *)
(* should leave nobody says, and SwitchBreakIsNoOp is about.               *)
Strays(block, inCallersLoop, inLoop) ==
  \E k \in DOMAIN block :
    LET s == block[k] IN
    \/ s.kind \in {"break", "skip"} /\ inCallersLoop /\ ~inLoop
    \/ \E b \in DOMAIN s.blocks :
         Strays(s.blocks[b], inCallersLoop \/ (s.kind = "call" /\ inLoop),
                s.kind # "call" /\ (inLoop \/ s.kind \in Loops))

(* Calls in calls, loops in loops in loops, and more than one return.      *)
DeepReturn == Statement("while", 1, <<<<Statement("range", 2, <<<<Statement("if", 3, <<<<Leave("return")>>>>), M(4)>>>>), M(5)>>>>)
Picked == {
  <<Statement("call", 20, <<<<DeepReturn, M(6), Statement("if", 7, <<<<Leave("return")>>>>), M(8)>>>>), M(9)>>,
  <<Statement("call", 20, <<<<Statement("call", 21, <<<<DeepReturn, M(6)>>>>), DeepReturn, M(8)>>>>), M(9)>>,
  <<Statement("loop", 10, <<<<DeepReturn, Statement("if", 11, <<<<Leave("break")>>, <<Leave("skip")>>>>), M(12)>>>>), M(13)>>}

AllPrograms == {p \in Stages : ~Strays(p, FALSE, FALSE)} \cup Picked

(* A function whose switch breaks, called in a loop.                       *)
SwitchBreaks ==
  {<<Statement(loop, 1, <<<<Statement("call", 2, <<<<Statement("switch", 3, <<<<M(4), Leave("break")>>, <<M(5)>>>>), M(6)>>>>),
                            M(7)>>>>), M(8)>> : loop \in Loops}
=============================================================================
