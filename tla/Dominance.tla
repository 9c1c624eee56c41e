----------------------------- MODULE Dominance -----------------------------
(***************************************************************************)
(* What paths say about a block graph, the yardstick of the block graph    *)
(* builder and the input of the SSA construction.  A graph g maps a block  *)
(* to the sequence of its successors; blocks are numbered from 1, the      *)
(* entry is 1, and 0 stands for no block.                                  *)
(***************************************************************************)
EXTENDS Naturals, Sequences, FiniteSets, SequencesExt

NO_BLOCK == 0
EntryBlock == 1

EdgesTo(g, b) == {q \in DOMAIN g : \E k \in DOMAIN g[q] : g[q][k] = b}

(* The blocks a path from the entry reaches without passing through cut,   *)
(* by the length of the path.                                              *)
ReachedAvoiding(g, cut) ==
  LET within[n \in 0..Cardinality(DOMAIN g)] ==
        IF n = 0 THEN {EntryBlock} \ cut
        ELSE LET S == within[n - 1]
             IN S \cup {b \in DOMAIN g \ cut : \E q \in S : \E k \in DOMAIN g[q] : g[q][k] = b}
  IN within[Cardinality(DOMAIN g)]

Reachable(g) == ReachedAvoiding(g, {})
Dominates(g, a, b) == a = b \/ a = EntryBlock \/ b \notin ReachedAvoiding(g, {a})

(* One entry per edge, in block order and then in successor order.         *)
PredecessorsOf(g, b) ==
  LET upto[q \in 0..Cardinality(DOMAIN g)] ==
        IF q = 0 THEN <<>>
        ELSE upto[q - 1] \o [k \in 1..Cardinality({j \in DOMAIN g[q] : g[q][j] = b}) |-> q]
  IN upto[Cardinality(DOMAIN g)]

(* What is left of s when all but the members of S are dropped.            *)
Keep(s, S) ==
  LET kept[n \in 0..Len(s)] == IF n = 0 THEN <<>>
                               ELSE IF s[n] \in S THEN Append(kept[n - 1], s[n]) ELSE kept[n - 1]
  IN kept[Len(s)]
=============================================================================
