-------------------------- MODULE DominanceProofs --------------------------
(***************************************************************************)
(* What paths from the entry of a block graph reach and dominate, for all  *)
(* graphs, and what the operators on sequences that go with them return.   *)
(***************************************************************************)
EXTENDS Dominance, FiniteSetTheorems, WellFoundedInduction, TLAPS

----------------------------------------------------------------------------
(* Induction, for the proofs about recursive functions.                    *)

LEMMA NatSetInduction ==
  ASSUME NEW S, 0 \in S, \A n \in Nat : n \in S => n + 1 \in S
  PROVE  Nat \subseteq S
<1> DEFINE T == Nat \ S
           R == OpToRel(<, Nat)
<1> SUFFICES ASSUME T # {} PROVE FALSE
  OBVIOUS
<1>1. PICK x \in T : \A y \in T : ~ (<<y, x>> \in R)
  <2>1. IsWellFoundedOn(R, Nat) /\ T \subseteq Nat
    BY NatLessThanWellFounded
  <2> HIDE DEF T, R
  <2> QED
    BY <2>1, WFMin
<1>2. x \in Nat /\ x # 0 /\ x - 1 \in Nat /\ (x - 1) + 1 = x
  OBVIOUS
<1>3. <<x - 1, x>> \in R
  BY <1>2 DEF OpToRel
<1>4. x - 1 \in S
  BY <1>1, <1>2, <1>3
<1> QED
  BY <1>2, <1>4

(* The sequences Keep builds, one element after the other.                 *)
IsKept(f, s, S, m) ==
  /\ f = [n \in 0..m |-> f[n]]
  /\ f[0] = <<>>
  /\ \A n \in 1..m : f[n] = IF s[n] \in S THEN Append(f[n - 1], s[n]) ELSE f[n - 1]

LEMMA KeepSteps ==
  ASSUME NEW s, NEW S, NEW m \in Nat
  PROVE  \E f : IsKept(f, s, S, m)
<1> DEFINE R == {n \in Nat : \E f : IsKept(f, s, S, n)}
<1>1. 0 \in R
  <2> DEFINE f == [n \in 0..0 |-> <<>>]
  <2>1. IsKept(f, s, S, 0)
    BY DEF IsKept
  <2> QED
    BY <2>1
<1>2. ASSUME NEW n \in Nat, n \in R PROVE n + 1 \in R
  <2> PICK f : IsKept(f, s, S, n)
    BY <1>2
  <2> DEFINE last == IF s[n + 1] \in S THEN Append(f[n], s[n + 1]) ELSE f[n]
             g == [k \in 0..(n + 1) |-> IF k = n + 1 THEN last ELSE f[k]]
  <2>1. g = [k \in 0..(n + 1) |-> g[k]] /\ g[0] = <<>>
    BY DEF IsKept
  <2>2. ASSUME NEW k \in 1..(n + 1)
        PROVE  g[k] = IF s[k] \in S THEN Append(g[k - 1], s[k]) ELSE g[k - 1]
    <3>1. CASE k = n + 1
      BY <3>1
    <3>2. CASE k # n + 1
      <4>1. k \in 1..n /\ k - 1 \in 0..n /\ k - 1 # n + 1
        BY <3>2
      <4>2. g[k] = f[k] /\ g[k - 1] = f[k - 1]
        BY <3>2, <4>1
      <4> HIDE DEF g
      <4> QED
        BY <4>1, <4>2 DEF IsKept
    <3> QED
      BY <3>1, <3>2
  <2> HIDE DEF g
  <2>3. IsKept(g, s, S, n + 1)
    BY <2>1, <2>2 DEF IsKept
  <2> QED
    BY <2>3
<1> HIDE DEF R
<1>3. m \in R
  BY <1>1, <1>2, NatSetInduction
<1> QED
  BY <1>3 DEF R

LEMMA KeepIsKept ==
  ASSUME NEW T, NEW s \in Seq(T), NEW S
  PROVE  \E f : IsKept(f, s, S, Len(s)) /\ Keep(s, S) = f[Len(s)]
<1> DEFINE Step(f, n) == IF n = 0 THEN <<>>
                         ELSE IF s[n] \in S THEN Append(f[n - 1], s[n]) ELSE f[n - 1]
           f == CHOOSE f : f = [n \in 0..Len(s) |-> Step(f, n)]
<1>1. \E g : g = [n \in 0..Len(s) |-> Step(g, n)]
  <2>0. Len(s) \in Nat
    OBVIOUS
  <2> PICK g : IsKept(g, s, S, Len(s))
    BY <2>0, KeepSteps
  <2>1. ASSUME NEW n \in 0..Len(s) PROVE g[n] = Step(g, n)
    <3>1. CASE n = 0
      BY <3>1 DEF IsKept
    <3>2. CASE n # 0
      <4>1. n \in 1..Len(s)
        BY <2>0, <3>2
      <4> QED
        BY <3>2, <4>1 DEF IsKept
    <3> QED
      BY <3>1, <3>2
  <2> HIDE DEF Step
  <2>2. g = [n \in 0..Len(s) |-> Step(g, n)]
    BY <2>1 DEF IsKept
  <2> QED
    BY <2>2
<1> HIDE DEF Step
<1>2. f = [n \in 0..Len(s) |-> Step(f, n)]
  BY <1>1
<1> HIDE DEF f
<1>3. IsKept(f, s, S, Len(s))
  <2>0. Len(s) \in Nat /\ \A n \in 0..Len(s) : f[n] = Step(f, n)
    BY <1>2
  <2>1. f[0] = <<>>
    BY <2>0 DEF Step
  <2>2. ASSUME NEW n \in 1..Len(s)
        PROVE  f[n] = IF s[n] \in S THEN Append(f[n - 1], s[n]) ELSE f[n - 1]
    BY <2>0, <2>2 DEF Step
  <2>3. f = [n \in 0..Len(s) |-> f[n]]
    BY <1>2
  <2> QED
    BY <2>1, <2>2, <2>3 DEF IsKept
<1>4. Keep(s, S) = f[Len(s)]
  BY DEF Keep, f, Step
<1> QED
  BY <1>3, <1>4

LEMMA AppendElements ==
  ASSUME NEW T, NEW s \in Seq(T), NEW x \in T
  PROVE  \A y : y \in ToSet(Append(s, x)) <=> y = x \/ y \in ToSet(s)
<1> DEFINE t == Append(s, x)
<1>1. /\ DOMAIN t = 1..(Len(s) + 1) /\ DOMAIN s = 1..Len(s) /\ Len(s) \in Nat
      /\ t[Len(s) + 1] = x /\ \A k \in 1..Len(s) : t[k] = s[k]
  OBVIOUS
<1>2. \A k \in 1..(Len(s) + 1) : k \in 1..Len(s) \/ k = Len(s) + 1
  BY <1>1
<1>3. Len(s) + 1 \in 1..(Len(s) + 1) /\ \A k \in 1..Len(s) : k \in 1..(Len(s) + 1)
  BY <1>1
<1> HIDE DEF t
<1>4. \A y : y \in ToSet(t) <=> y = x \/ y \in ToSet(s)
  BY <1>1, <1>2, <1>3 DEF ToSet
<1> QED
  BY <1>4 DEF t

(* Keep drops what is not in S and nothing else.                           *)
LEMMA KeepFacts ==
  ASSUME NEW T, NEW s \in Seq(T), NEW S
  PROVE  Keep(s, S) \in Seq(T) /\ ToSet(Keep(s, S)) = ToSet(s) \cap S
<1> PICK f : IsKept(f, s, S, Len(s)) /\ Keep(s, S) = f[Len(s)]
  BY KeepIsKept
<1> DEFINE Good(n) == f[n] \in Seq(T) /\ \A x : x \in ToSet(f[n]) <=> x \in S /\ \E k \in 1..n : s[k] = x
           R == {n \in Nat : n <= Len(s) => Good(n)}
<1>1. 0 \in R
  <2>1. f[0] = <<>> /\ f[0] \in Seq(T) /\ ToSet(f[0]) = {}
    BY DEF IsKept, ToSet
  <2>2. \A k \in 1..0 : FALSE
    OBVIOUS
  <2>3. Good(0)
    BY <2>1, <2>2
  <2> QED
    BY <2>3
<1>2. ASSUME NEW n \in Nat, n \in R PROVE n + 1 \in R
  <2> SUFFICES ASSUME n + 1 <= Len(s) PROVE Good(n + 1)
    OBVIOUS
  <2>1. n + 1 \in 1..Len(s) /\ s[n + 1] \in T /\ (n + 1) - 1 = n /\ n <= Len(s)
    OBVIOUS
  <2>2. Good(n)
    BY <1>2, <2>1
  <2>3. f[n + 1] = IF s[n + 1] \in S THEN Append(f[n], s[n + 1]) ELSE f[n]
    BY <2>1 DEF IsKept
  <2>4. \A x : (\E k \in 1..(n + 1) : s[k] = x) <=> s[n + 1] = x \/ \E k \in 1..n : s[k] = x
    <3>1. \A k \in 1..(n + 1) : k \in 1..n \/ k = n + 1
      BY <2>1
    <3>2. n + 1 \in 1..(n + 1) /\ \A k \in 1..n : k \in 1..(n + 1)
      BY <2>1
    <3> QED
      BY <3>1, <3>2
  <2>5. CASE s[n + 1] \in S
    <3>1. f[n + 1] = Append(f[n], s[n + 1]) /\ f[n + 1] \in Seq(T)
      BY <2>1, <2>2, <2>3, <2>5
    <3>2. \A x : x \in ToSet(f[n + 1]) <=> x = s[n + 1] \/ x \in ToSet(f[n])
      BY <2>1, <2>2, <3>1, AppendElements
    <3> QED
      BY <2>2, <2>4, <2>5, <3>1, <3>2
  <2>6. CASE s[n + 1] \notin S
    BY <2>2, <2>3, <2>4, <2>6
  <2> QED
    BY <2>5, <2>6
<1> HIDE DEF R
<1>3. Len(s) \in R
  BY <1>1, <1>2, NatSetInduction
<1>4. Len(s) \in Nat /\ DOMAIN s = 1..Len(s)
  OBVIOUS
<1>5. Good(Len(s))
  BY <1>3, <1>4 DEF R
<1>6. \A x : x \in ToSet(s) <=> \E k \in 1..Len(s) : s[k] = x
  BY <1>4 DEF ToSet
<1> HIDE DEF Good
<1>7. \A x : x \in ToSet(f[Len(s)]) <=> x \in S /\ x \in ToSet(s)
  BY <1>5, <1>6 DEF Good
<1> QED
  BY <1>5, <1>7 DEF Good

LEMMA ConcatElements ==
  ASSUME NEW T, NEW s \in Seq(T), NEW t \in Seq(T)
  PROVE  s \o t \in Seq(T) /\ ToSet(s \o t) = ToSet(s) \cup ToSet(t)
<1> DEFINE r == s \o t
<1>1. /\ Len(s) \in Nat /\ Len(t) \in Nat /\ DOMAIN s = 1..Len(s) /\ DOMAIN t = 1..Len(t)
      /\ r \in Seq(T) /\ DOMAIN r = 1..(Len(s) + Len(t))
      /\ \A k \in 1..(Len(s) + Len(t)) : r[k] = IF k <= Len(s) THEN s[k] ELSE t[k - Len(s)]
  OBVIOUS
<1> HIDE DEF r
<1>2. ASSUME NEW k \in 1..(Len(s) + Len(t)) PROVE r[k] \in ToSet(s) \cup ToSet(t)
  <2>1. CASE k <= Len(s)
    BY <1>1, <2>1 DEF ToSet
  <2>2. CASE ~(k <= Len(s))
    <3>1. k - Len(s) \in 1..Len(t) /\ r[k] = t[k - Len(s)]
      BY <1>1, <2>2
    <3> QED
      BY <1>1, <3>1 DEF ToSet
  <2> QED
    BY <2>1, <2>2
<1>3. ASSUME NEW k \in 1..Len(s) PROVE s[k] \in ToSet(r)
  <2>1. k \in 1..(Len(s) + Len(t)) /\ k <= Len(s)
    BY <1>1
  <2> QED
    BY <1>1, <2>1 DEF ToSet
<1>4. ASSUME NEW k \in 1..Len(t) PROVE t[k] \in ToSet(r)
  <2>1. /\ Len(s) + k \in 1..(Len(s) + Len(t)) /\ ~(Len(s) + k <= Len(s))
        /\ (Len(s) + k) - Len(s) = k
    BY <1>1
  <2> QED
    BY <1>1, <2>1 DEF ToSet
<1>5. ToSet(r) = ToSet(s) \cup ToSet(t)
  BY <1>1, <1>2, <1>3, <1>4 DEF ToSet
<1> QED
  BY <1>1, <1>5 DEF r

----------------------------------------------------------------------------
(* Block graphs.                                                           *)

IsGraph(g) ==
  \E n \in Nat \ {0} : DOMAIN g = 1..n /\ \A b \in 1..n : g[b] \in Seq((1..n) \cup {NO_BLOCK})

Edge(g, q, b) == \E k \in DOMAIN g[q] : g[q][k] = b

LEMMA GraphDomain ==
  ASSUME NEW g, IsGraph(g)
  PROVE  /\ EntryBlock \in DOMAIN g /\ NO_BLOCK \notin DOMAIN g /\ DOMAIN g \subseteq Nat
         /\ IsFiniteSet(DOMAIN g) /\ Cardinality(DOMAIN g) \in Nat
         /\ DOMAIN g = 1..Cardinality(DOMAIN g)
         /\ \A b \in DOMAIN g : g[b] \in Seq(DOMAIN g \cup {NO_BLOCK})
<1>1. PICK n \in Nat \ {0} : DOMAIN g = 1..n /\ \A b \in 1..n : g[b] \in Seq((1..n) \cup {NO_BLOCK})
  BY DEF IsGraph
<1>2. IsFiniteSet(1..n) /\ Cardinality(1..n) = n
  <2>1. 1 \in Int /\ n \in Int /\ n - 1 + 1 = n /\ ~(1 > n)
    OBVIOUS
  <2> QED
    BY <2>1, FS_Interval
<1> QED
  BY <1>1, <1>2 DEF EntryBlock, NO_BLOCK

(* One more edge from the blocks in S.                                     *)
Spread(g, cut, S) == S \cup {b \in DOMAIN g \ cut : \E q \in S : \E k \in DOMAIN g[q] : g[q][k] = b}

IsReach(f, g, cut, m) ==
  /\ f = [n \in 0..m |-> f[n]]
  /\ f[0] = {EntryBlock} \ cut
  /\ \A n \in 1..m : f[n] = Spread(g, cut, f[n - 1])

LEMMA ReachSteps ==
  ASSUME NEW g, NEW cut, NEW m \in Nat
  PROVE  \E f : IsReach(f, g, cut, m)
<1> DEFINE R == {n \in Nat : \E f : IsReach(f, g, cut, n)}
<1>1. 0 \in R
  <2> DEFINE f == [n \in 0..0 |-> {EntryBlock} \ cut]
  <2>1. IsReach(f, g, cut, 0)
    BY DEF IsReach
  <2> QED
    BY <2>1
<1>2. ASSUME NEW n \in Nat, n \in R PROVE n + 1 \in R
  <2> PICK f : IsReach(f, g, cut, n)
    BY <1>2
  <2> DEFINE h == [k \in 0..(n + 1) |-> IF k = n + 1 THEN Spread(g, cut, f[n]) ELSE f[k]]
  <2>1. h = [k \in 0..(n + 1) |-> h[k]] /\ h[0] = {EntryBlock} \ cut
    BY DEF IsReach
  <2>2. ASSUME NEW k \in 1..(n + 1) PROVE h[k] = Spread(g, cut, h[k - 1])
    <3>1. CASE k = n + 1
      BY <3>1
    <3>2. CASE k # n + 1
      <4>1. k \in 1..n /\ k - 1 \in 0..n /\ k - 1 # n + 1
        BY <3>2
      <4>2. h[k] = f[k] /\ h[k - 1] = f[k - 1]
        BY <3>2, <4>1
      <4> HIDE DEF h
      <4> QED
        BY <4>1, <4>2 DEF IsReach
    <3> QED
      BY <3>1, <3>2
  <2> HIDE DEF h
  <2>3. IsReach(h, g, cut, n + 1)
    BY <2>1, <2>2 DEF IsReach
  <2> QED
    BY <2>3
<1> HIDE DEF R
<1>3. m \in R
  BY <1>1, <1>2, NatSetInduction
<1> QED
  BY <1>3 DEF R

LEMMA ReachIsReach ==
  ASSUME NEW g, IsGraph(g), NEW cut
  PROVE  \E f : /\ IsReach(f, g, cut, Cardinality(DOMAIN g))
                /\ ReachedAvoiding(g, cut) = f[Cardinality(DOMAIN g)]
<1> PICK N : N = Cardinality(DOMAIN g)
  OBVIOUS
<1>0. N \in Nat
  BY GraphDomain
<1> DEFINE Step(f, n) == IF n = 0 THEN {EntryBlock} \ cut
                         ELSE LET S == f[n - 1]
                              IN S \cup {b \in DOMAIN g \ cut : \E q \in S : \E k \in DOMAIN g[q] : g[q][k] = b}
           f == CHOOSE f : f = [n \in 0..N |-> Step(f, n)]
<1>1. \E h : h = [n \in 0..N |-> Step(h, n)]
  <2> PICK h : IsReach(h, g, cut, N)
    BY <1>0, ReachSteps
  <2>1. ASSUME NEW n \in 0..N PROVE h[n] = Step(h, n)
    <3>1. CASE n = 0
      BY <3>1 DEF IsReach
    <3>2. CASE n # 0
      <4>1. n \in 1..N
        BY <1>0, <3>2
      <4> QED
        BY <3>2, <4>1 DEF IsReach, Spread
    <3> QED
      BY <3>1, <3>2
  <2> HIDE DEF Step
  <2>2. h = [n \in 0..N |-> Step(h, n)]
    BY <2>1 DEF IsReach
  <2> QED
    BY <2>2
<1> HIDE DEF Step
<1>2. f = [n \in 0..N |-> Step(f, n)]
  BY <1>1
<1> HIDE DEF f
<1>3. IsReach(f, g, cut, N)
  <2>1. \A n \in 0..N : f[n] = Step(f, n)
    BY <1>2
  <2>2. f[0] = {EntryBlock} \ cut
    <3>1. 0 \in 0..N
      BY <1>0
    <3>2. f[0] = Step(f, 0)
      BY <2>1, <3>1
    <3> QED
      BY <3>2 DEF Step
  <2>3. ASSUME NEW n \in 1..N PROVE f[n] = Spread(g, cut, f[n - 1])
    <3>1. n \in 0..N /\ n # 0
      BY <1>0
    <3>2. f[n] = Step(f, n)
      BY <2>1, <3>1
    <3> QED
      BY <3>1, <3>2 DEF Step, Spread
  <2>4. f = [n \in 0..N |-> f[n]]
    BY <1>2
  <2> QED
    BY <2>2, <2>3, <2>4 DEF IsReach
<1>4. ReachedAvoiding(g, cut) = f[N]
  BY DEF ReachedAvoiding, f, Step
<1> QED
  BY <1>3, <1>4

LEMMA SpreadFacts ==
  ASSUME NEW g, NEW cut, NEW S
  PROVE  S \subseteq Spread(g, cut, S) /\ (S \subseteq DOMAIN g \ cut => Spread(g, cut, S) \subseteq DOMAIN g \ cut)
BY DEF Spread

(* As many rounds as there are blocks are enough.                          *)
LEMMA ReachSettles ==
  ASSUME NEW g, IsGraph(g), NEW cut, NEW f, IsReach(f, g, cut, Cardinality(DOMAIN g))
  PROVE  LET N == Cardinality(DOMAIN g)
         IN f[N] \subseteq DOMAIN g \ cut /\ Spread(g, cut, f[N]) = f[N]
<1> PICK N : N = Cardinality(DOMAIN g)
  OBVIOUS
<1>0. N \in Nat /\ IsFiniteSet(DOMAIN g) /\ EntryBlock \in DOMAIN g /\ IsReach(f, g, cut, N)
  BY GraphDomain
<1> DEFINE Good(n) == /\ f[n] \subseteq DOMAIN g \ cut
                      /\ Spread(g, cut, f[n]) = f[n] \/ Cardinality(f[n]) >= n
           R == {n \in Nat : n <= N => Good(n)}
<1>1. 0 \in R
  <2>1. f[0] = {EntryBlock} \ cut
    BY <1>0 DEF IsReach
  <2>2. f[0] \subseteq DOMAIN g \ cut
    BY <1>0, <2>1
  <2>3. Cardinality(f[0]) \in Nat
    BY <1>0, <2>2, FS_Subset, FS_CardinalityType
  <2>4. Good(0)
    BY <2>2, <2>3
  <2> QED
    BY <2>4
<1>2. ASSUME NEW n \in Nat, n \in R PROVE n + 1 \in R
  <2> SUFFICES ASSUME n + 1 <= N PROVE Good(n + 1)
    OBVIOUS
  <2>1. n + 1 \in 1..N /\ (n + 1) - 1 = n /\ n <= N
    BY <1>0
  <2>2. Good(n)
    BY <1>2, <2>1
  <2>3. f[n + 1] = Spread(g, cut, f[n])
    BY <1>0, <2>1 DEF IsReach
  <2>4. f[n + 1] \subseteq DOMAIN g \ cut /\ f[n] \subseteq f[n + 1]
    BY <2>2, <2>3, SpreadFacts
  <2>5. CASE Spread(g, cut, f[n]) = f[n]
    BY <2>3, <2>4, <2>5
  <2>6. CASE Spread(g, cut, f[n]) # f[n]
    <3>1. Cardinality(f[n]) >= n
      BY <2>2, <2>6
    <3>2. IsFiniteSet(f[n + 1]) /\ IsFiniteSet(f[n])
      BY <1>0, <2>2, <2>4, FS_Subset
    <3>3. f[n] # f[n + 1]
      BY <2>3, <2>6
    <3>4. Cardinality(f[n]) < Cardinality(f[n + 1])
      <4>1. Cardinality(f[n]) <= Cardinality(f[n + 1])
        BY <2>4, <3>2, FS_Subset
      <4>2. Cardinality(f[n]) # Cardinality(f[n + 1])
        BY <2>4, <3>2, <3>3, FS_Subset
      <4>3. Cardinality(f[n]) \in Nat /\ Cardinality(f[n + 1]) \in Nat
        BY <3>2, FS_CardinalityType
      <4> QED
        BY <4>1, <4>2, <4>3
    <3>5. Cardinality(f[n]) \in Nat /\ Cardinality(f[n + 1]) \in Nat
      BY <3>2, FS_CardinalityType
    <3>6. Cardinality(f[n + 1]) >= n + 1
      BY <3>1, <3>4, <3>5
    <3> QED
      BY <2>4, <3>6
  <2> QED
    BY <2>5, <2>6
<1> HIDE DEF R
<1>3. N \in R
  BY <1>0, <1>1, <1>2, NatSetInduction
<1>4. Good(N)
  BY <1>0, <1>3 DEF R
<1>5. Spread(g, cut, f[N]) = f[N]
  <2>1. CASE Cardinality(f[N]) >= N
    <3>1. f[N] \subseteq DOMAIN g /\ IsFiniteSet(f[N])
      BY <1>0, <1>4, FS_Subset
    <3>2. Cardinality(f[N]) <= N /\ Cardinality(f[N]) \in Nat
      BY <1>0, <3>1, FS_Subset, FS_CardinalityType
    <3>3. f[N] = DOMAIN g
      BY <1>0, <2>1, <3>1, <3>2, FS_Subset
    <3> QED
      BY <1>4, <3>3, SpreadFacts
  <2> QED
    BY <1>4, <2>1
<1> QED
  BY <1>4, <1>5

(* The reached blocks are the least set that holds the entry and is closed *)
(* under the edges, but for what is cut.                                   *)
LEMMA ReachedFacts ==
  ASSUME NEW g, IsGraph(g), NEW cut, NEW R, R = ReachedAvoiding(g, cut)
  PROVE  /\ R \subseteq DOMAIN g \ cut
         /\ EntryBlock \notin cut => EntryBlock \in R
         /\ \A q \in R : \A b \in DOMAIN g \ cut : Edge(g, q, b) => b \in R
         /\ \A T : /\ EntryBlock \in T
                   /\ \A q \in T \cap R : \A b \in DOMAIN g \ cut : Edge(g, q, b) => b \in T
                   => R \subseteq T
<1> PICK N : N = Cardinality(DOMAIN g)
  OBVIOUS
<1>0. N \in Nat /\ EntryBlock \in DOMAIN g
  BY GraphDomain
<1> PICK f : IsReach(f, g, cut, N) /\ R = f[N]
  BY ReachIsReach
<1>1. R \subseteq DOMAIN g \ cut /\ Spread(g, cut, R) = R
  BY ReachSettles
<1>2. \A q \in R : \A b \in DOMAIN g \ cut : Edge(g, q, b) => b \in R
  BY <1>1 DEF Spread, Edge
<1> DEFINE S == {n \in Nat : n <= N => f[N - n] \subseteq R}
<1>3. \A n \in 0..N : f[n] \subseteq R
  <2>1. 0 \in S
    BY <1>0
  <2>2. ASSUME NEW n \in Nat, n \in S PROVE n + 1 \in S
    <3> SUFFICES ASSUME n + 1 <= N PROVE f[N - (n + 1)] \subseteq R
      OBVIOUS
    <3>1. n <= N /\ N - n \in 1..N /\ (N - n) - 1 = N - (n + 1)
      BY <1>0
    <3>2. f[N - n] = Spread(g, cut, f[N - (n + 1)])
      BY <3>1 DEF IsReach
    <3> QED
      BY <2>2, <3>1, <3>2, SpreadFacts
  <2> HIDE DEF S
  <2>3. Nat \subseteq S
    BY <2>1, <2>2, NatSetInduction
  <2>4. ASSUME NEW n \in 0..N PROVE f[n] \subseteq R
    <3>1. N - n \in Nat /\ N - n <= N /\ N - (N - n) = n
      BY <1>0
    <3> QED
      BY <2>3, <3>1 DEF S
  <2> QED
    BY <2>4
<1>4. EntryBlock \notin cut => EntryBlock \in R
  <2>1. f[0] = {EntryBlock} \ cut /\ 0 \in 0..N
    BY <1>0 DEF IsReach
  <2> QED
    BY <1>3, <2>1
<1>5. ASSUME NEW T, EntryBlock \in T,
             \A q \in T \cap R : \A b \in DOMAIN g \ cut : Edge(g, q, b) => b \in T
      PROVE  R \subseteq T
  <2> DEFINE U == {n \in Nat : n <= N => f[n] \subseteq T}
  <2>1. 0 \in U
    BY <1>5 DEF IsReach
  <2>2. ASSUME NEW n \in Nat, n \in U PROVE n + 1 \in U
    <3> SUFFICES ASSUME n + 1 <= N PROVE f[n + 1] \subseteq T
      OBVIOUS
    <3>1. n + 1 \in 1..N /\ (n + 1) - 1 = n /\ n \in 0..N /\ n <= N
      BY <1>0
    <3>2. f[n + 1] = Spread(g, cut, f[n])
      BY <3>1 DEF IsReach
    <3>3. f[n] \subseteq T \cap R
      BY <1>3, <2>2, <3>1
    <3> HIDE DEF U
    <3> QED
      BY <1>5, <3>2, <3>3 DEF Spread, Edge
  <2> HIDE DEF U
  <2>3. N \in U
    BY <1>0, <2>1, <2>2, NatSetInduction
  <2> QED
    BY <1>0, <2>3 DEF U
<1> QED
  BY <1>1, <1>2, <1>4, <1>5

----------------------------------------------------------------------------
(* Dominance.                                                              *)

LEMMA ReachableFacts ==
  ASSUME NEW g, IsGraph(g)
  PROVE  /\ Reachable(g) \subseteq DOMAIN g /\ EntryBlock \in Reachable(g)
         /\ \A q \in Reachable(g), b \in DOMAIN g : Edge(g, q, b) => b \in Reachable(g)
         /\ \A T : EntryBlock \in T /\ (\A q \in T \cap Reachable(g), b \in DOMAIN g : Edge(g, q, b) => b \in T)
                   => Reachable(g) \subseteq T
<1> PICK R : R = ReachedAvoiding(g, {})
  OBVIOUS
<1>1. /\ R \subseteq DOMAIN g \ {} /\ (EntryBlock \notin {} => EntryBlock \in R)
      /\ \A q \in R : \A b \in DOMAIN g \ {} : Edge(g, q, b) => b \in R
      /\ \A T : /\ EntryBlock \in T
                /\ \A q \in T \cap R : \A b \in DOMAIN g \ {} : Edge(g, q, b) => b \in T
                => R \subseteq T
  BY ReachedFacts
<1> QED
  BY <1>1 DEF Reachable

LEMMA AvoidingIsReachable ==
  ASSUME NEW g, IsGraph(g), NEW cut
  PROVE  ReachedAvoiding(g, cut) \subseteq Reachable(g)
<1> PICK R : R = ReachedAvoiding(g, cut)
  OBVIOUS
<1>1. /\ R \subseteq DOMAIN g
      /\ EntryBlock \in Reachable(g)
      /\ \A q \in Reachable(g) : \A b \in DOMAIN g \ cut : Edge(g, q, b) => b \in Reachable(g)
  BY ReachedFacts, ReachableFacts
<1>2. \A T : /\ EntryBlock \in T
             /\ \A q \in T \cap R : \A b \in DOMAIN g \ cut : Edge(g, q, b) => b \in T
             => R \subseteq T
  BY ReachedFacts
<1> QED
  BY <1>1, <1>2

(* What strictly dominates a block dominates its predecessors.             *)
LEMMA DominatesPredecessors ==
  ASSUME NEW g, IsGraph(g), NEW a, NEW b \in DOMAIN g, NEW q,
         a # b, Dominates(g, a, b), Edge(g, q, b)
  PROVE  Dominates(g, a, q)
<1>1. CASE a = EntryBlock
  BY <1>1 DEF Dominates
<1>2. CASE a # EntryBlock
  <2>1. b \notin ReachedAvoiding(g, {a})
    BY <1>2 DEF Dominates
  <2>2. \A p \in ReachedAvoiding(g, {a}) : \A c \in DOMAIN g \ {a} : Edge(g, p, c) => c \in ReachedAvoiding(g, {a})
    BY ReachedFacts
  <2> QED
    BY <2>1, <2>2 DEF Dominates
<1> QED
  BY <1>1, <1>2

LEMMA EntryIsUndominated ==
  ASSUME NEW g, IsGraph(g), NEW a, Dominates(g, a, EntryBlock)
  PROVE  a = EntryBlock
<1>1. a # EntryBlock => EntryBlock \in ReachedAvoiding(g, {a})
  BY ReachedFacts
<1> QED
  BY <1>1 DEF Dominates

----------------------------------------------------------------------------
(* PredecessorsOf, one block after the other.                              *)

EdgeCopies(g, b, q) == [k \in 1..Cardinality({j \in DOMAIN g[q] : g[q][j] = b}) |-> q]

IsListed(f, g, b, m) ==
  /\ f = [n \in 0..m |-> f[n]]
  /\ f[0] = <<>>
  /\ \A n \in 1..m : f[n] = f[n - 1] \o EdgeCopies(g, b, n)

LEMMA ListSteps ==
  ASSUME NEW g, NEW b, NEW m \in Nat
  PROVE  \E f : IsListed(f, g, b, m)
<1> DEFINE R == {n \in Nat : \E f : IsListed(f, g, b, n)}
<1>1. 0 \in R
  <2> DEFINE f == [n \in 0..0 |-> <<>>]
  <2>1. IsListed(f, g, b, 0)
    BY DEF IsListed
  <2> QED
    BY <2>1
<1>2. ASSUME NEW n \in Nat, n \in R PROVE n + 1 \in R
  <2> PICK f : IsListed(f, g, b, n)
    BY <1>2
  <2> DEFINE h == [k \in 0..(n + 1) |-> IF k = n + 1 THEN f[n] \o EdgeCopies(g, b, n + 1) ELSE f[k]]
  <2>1. h = [k \in 0..(n + 1) |-> h[k]] /\ h[0] = <<>>
    BY DEF IsListed
  <2>2. ASSUME NEW k \in 1..(n + 1) PROVE h[k] = h[k - 1] \o EdgeCopies(g, b, k)
    <3>1. CASE k = n + 1
      BY <3>1
    <3>2. CASE k # n + 1
      <4>1. k \in 1..n /\ k - 1 \in 0..n /\ k - 1 # n + 1
        BY <3>2
      <4>2. h[k] = f[k] /\ h[k - 1] = f[k - 1]
        BY <3>2, <4>1
      <4> HIDE DEF h
      <4> QED
        BY <4>1, <4>2 DEF IsListed
    <3> QED
      BY <3>1, <3>2
  <2> HIDE DEF h
  <2>3. IsListed(h, g, b, n + 1)
    BY <2>1, <2>2 DEF IsListed
  <2> QED
    BY <2>3
<1> HIDE DEF R
<1>3. m \in R
  BY <1>1, <1>2, NatSetInduction
<1> QED
  BY <1>3 DEF R

LEMMA PredecessorsAreListed ==
  ASSUME NEW g, IsGraph(g), NEW b
  PROVE  \E f : /\ IsListed(f, g, b, Cardinality(DOMAIN g))
                /\ PredecessorsOf(g, b) = f[Cardinality(DOMAIN g)]
<1> PICK N : N = Cardinality(DOMAIN g)
  OBVIOUS
<1>0. N \in Nat
  BY GraphDomain
<1> DEFINE Step(f, q) == IF q = 0 THEN <<>>
                         ELSE f[q - 1] \o [k \in 1..Cardinality({j \in DOMAIN g[q] : g[q][j] = b}) |-> q]
           f == CHOOSE f : f = [q \in 0..N |-> Step(f, q)]
<1>1. \E h : h = [q \in 0..N |-> Step(h, q)]
  <2> PICK h : IsListed(h, g, b, N)
    BY <1>0, ListSteps
  <2>1. ASSUME NEW n \in 0..N PROVE h[n] = Step(h, n)
    <3>1. CASE n = 0
      BY <3>1 DEF IsListed
    <3>2. CASE n # 0
      <4>1. n \in 1..N
        BY <1>0, <3>2
      <4>2. h[n] = h[n - 1] \o EdgeCopies(g, b, n)
        BY <4>1 DEF IsListed
      <4> QED
        BY <3>2, <4>2 DEF EdgeCopies
    <3> QED
      BY <3>1, <3>2
  <2> HIDE DEF Step
  <2>2. h = [n \in 0..N |-> Step(h, n)]
    BY <2>1 DEF IsListed
  <2> QED
    BY <2>2
<1> HIDE DEF Step
<1>2. f = [q \in 0..N |-> Step(f, q)]
  BY <1>1
<1> HIDE DEF f
<1>3. IsListed(f, g, b, N)
  <2>1. \A n \in 0..N : f[n] = Step(f, n)
    BY <1>2
  <2>2. f[0] = <<>>
    <3>1. 0 \in 0..N
      BY <1>0
    <3>2. f[0] = Step(f, 0)
      BY <2>1, <3>1
    <3> QED
      BY <3>2 DEF Step
  <2>3. ASSUME NEW n \in 1..N PROVE f[n] = f[n - 1] \o EdgeCopies(g, b, n)
    <3>1. n \in 0..N /\ n # 0
      BY <1>0
    <3>2. f[n] = Step(f, n)
      BY <2>1, <3>1
    <3> QED
      BY <3>1, <3>2 DEF Step, EdgeCopies
  <2>4. f = [n \in 0..N |-> f[n]]
    BY <1>2
  <2> QED
    BY <2>2, <2>3, <2>4 DEF IsListed
<1>4. PredecessorsOf(g, b) = f[N]
  BY DEF PredecessorsOf, f, Step
<1> QED
  BY <1>3, <1>4

LEMMA CopiesFacts ==
  ASSUME NEW g, IsGraph(g), NEW b, NEW q \in DOMAIN g
  PROVE  /\ EdgeCopies(g, b, q) \in Seq(DOMAIN g)
         /\ ToSet(EdgeCopies(g, b, q)) = {p \in {q} : Edge(g, p, b)}
<1> PICK J : J = {j \in DOMAIN g[q] : g[q][j] = b}
  OBVIOUS
<1> PICK n : n = Cardinality(J)
  OBVIOUS
<1>1. IsFiniteSet(J)
  <2>1. g[q] \in Seq(DOMAIN g \cup {NO_BLOCK})
    BY GraphDomain
  <2>2. DOMAIN g[q] = 1..Len(g[q]) /\ Len(g[q]) \in Nat
    BY <2>1
  <2>3. IsFiniteSet(1..Len(g[q]))
    BY <2>2, FS_Interval
  <2> QED
    BY <2>2, <2>3, FS_Subset
<1>2. n \in Nat /\ (n = 0 <=> J = {})
  BY <1>1, FS_CardinalityType, FS_EmptySet
<1>3. J # {} <=> Edge(g, q, b)
  BY DEF Edge
<1>4. EdgeCopies(g, b, q) = [k \in 1..n |-> q]
  BY DEF EdgeCopies
<1> PICK s : s = [k \in 1..n |-> q]
  OBVIOUS
<1>5. s \in Seq(DOMAIN g) /\ DOMAIN s = 1..n /\ \A k \in 1..n : s[k] = q
  BY <1>2
<1>6. ToSet(s) = {p \in {q} : n # 0}
  <2>1. n # 0 => 1 \in 1..n
    BY <1>2
  <2>2. n = 0 => \A k \in 1..n : FALSE
    OBVIOUS
  <2> QED
    BY <1>5, <2>1, <2>2 DEF ToSet
<1> QED
  BY <1>2, <1>3, <1>4, <1>5, <1>6

(* The predecessors of a block are the blocks with an edge to it.          *)
LEMMA PredecessorFacts ==
  ASSUME NEW g, IsGraph(g), NEW b
  PROVE  PredecessorsOf(g, b) \in Seq(DOMAIN g) /\ ToSet(PredecessorsOf(g, b)) = EdgesTo(g, b)
<1> PICK N : N = Cardinality(DOMAIN g)
  OBVIOUS
<1>0. N \in Nat /\ DOMAIN g = 1..N
  BY GraphDomain
<1> PICK f : IsListed(f, g, b, N) /\ PredecessorsOf(g, b) = f[N]
  BY PredecessorsAreListed
<1> DEFINE Good(n) == f[n] \in Seq(DOMAIN g) /\ ToSet(f[n]) = {q \in 1..n : Edge(g, q, b)}
           R == {n \in Nat : n <= N => Good(n)}
<1>1. 0 \in R
  <2>0. f[0] = <<>>
    BY DEF IsListed
  <2>1. <<>> \in Seq(DOMAIN g) /\ ToSet(<<>>) = {}
    BY DEF ToSet
  <2>2. \A k \in 1..0 : FALSE
    OBVIOUS
  <2>3. Good(0)
    BY <2>0, <2>1, <2>2
  <2> QED
    BY <2>3
<1>2. ASSUME NEW n \in Nat, n \in R PROVE n + 1 \in R
  <2> SUFFICES ASSUME n + 1 <= N PROVE Good(n + 1)
    OBVIOUS
  <2>1. n + 1 \in 1..N /\ (n + 1) - 1 = n /\ n <= N /\ 1..(n + 1) = (1..n) \cup {n + 1}
    BY <1>0
  <2>2. Good(n)
    BY <1>2, <2>1
  <2> PICK c : c = EdgeCopies(g, b, n + 1)
    OBVIOUS
  <2>3. f[n + 1] = f[n] \o c
    BY <2>1 DEF IsListed
  <2> PICK q : q = n + 1 /\ q \in DOMAIN g
    BY <1>0, <2>1
  <2>4. c \in Seq(DOMAIN g) /\ ToSet(c) = {p \in {q} : Edge(g, p, b)}
    BY CopiesFacts
  <2>5. f[n + 1] \in Seq(DOMAIN g) /\ ToSet(f[n + 1]) = ToSet(f[n]) \cup ToSet(c)
    BY <2>2, <2>3, <2>4, ConcatElements
  <2> QED
    BY <2>1, <2>2, <2>4, <2>5
<1> HIDE DEF R
<1>3. N \in R
  BY <1>0, <1>1, <1>2, NatSetInduction
<1>4. Good(N)
  BY <1>0, <1>3 DEF R
<1> QED
  BY <1>0, <1>4 DEF EdgesTo, Edge

(* Cutting more reaches less.                                              *)
LEMMA AvoidingMoreReachesLess ==
  ASSUME NEW g, IsGraph(g), NEW cut, NEW more, cut \subseteq more
  PROVE  ReachedAvoiding(g, more) \subseteq ReachedAvoiding(g, cut)
<1> PICK R : R = ReachedAvoiding(g, more)
  OBVIOUS
<1> PICK T : T = ReachedAvoiding(g, cut)
  OBVIOUS
<1>1. /\ EntryBlock \notin cut => EntryBlock \in T
      /\ \A q \in T : \A b \in DOMAIN g \ cut : Edge(g, q, b) => b \in T
  BY ReachedFacts
<1>2. R \subseteq DOMAIN g \ more /\ \A q \in R : \A b \in DOMAIN g \ more : Edge(g, q, b) => b \in R
  BY ReachedFacts
<1>3. \A U : /\ EntryBlock \in U
             /\ \A q \in U \cap R : \A b \in DOMAIN g \ more : Edge(g, q, b) => b \in U
             => R \subseteq U
  BY ReachedFacts
<1>4. CASE EntryBlock \notin more
  <2>1. EntryBlock \in T
    BY <1>1, <1>4
  <2>2. \A q \in T \cap R : \A b \in DOMAIN g \ more : Edge(g, q, b) => b \in T
    BY <1>1
  <2> QED
    BY <1>3, <2>1, <2>2
<1>5. CASE EntryBlock \in more
  <2> PICK V : V = {EntryBlock}
    OBVIOUS
  <2>1. V \cap R = {}
    BY <1>2, <1>5
  <2>2. R \subseteq V
    BY <1>3, <2>1
  <2> QED
    BY <2>1, <2>2
<1> QED
  BY <1>4, <1>5

LEMMA DominanceIsTransitive ==
  ASSUME NEW g, IsGraph(g), NEW a, NEW b, NEW c, Dominates(g, a, b), Dominates(g, b, c)
  PROVE  Dominates(g, a, c)
<1> SUFFICES ASSUME a # b, b # c, a # c, a # EntryBlock PROVE Dominates(g, a, c)
  BY DEF Dominates
<1>1. b # EntryBlock
  BY EntryIsUndominated
<1> PICK R : R = ReachedAvoiding(g, {a})
  OBVIOUS
<1> PICK T : T = ReachedAvoiding(g, {b})
  OBVIOUS
<1>2. b \notin R /\ c \notin T
  BY <1>1 DEF Dominates
<1>3. /\ EntryBlock \in T
      /\ \A q \in T : \A x \in DOMAIN g \ {b} : Edge(g, q, x) => x \in T
  BY <1>1, ReachedFacts
<1>4. /\ \A q \in R : \A x \in DOMAIN g \ {a} : Edge(g, q, x) => x \in R
      /\ \A U : /\ EntryBlock \in U
                /\ \A q \in U \cap R : \A x \in DOMAIN g \ {a} : Edge(g, q, x) => x \in U
                => R \subseteq U
  BY ReachedFacts
<1>5. \A q \in T \cap R : \A x \in DOMAIN g \ {a} : Edge(g, q, x) => x \in T
  BY <1>2, <1>3, <1>4
<1>6. R \subseteq T
  BY <1>3, <1>4, <1>5
<1> QED
  BY <1>2, <1>6 DEF Dominates

LEMMA DominanceIsAntisymmetric ==
  ASSUME NEW g, IsGraph(g), NEW a, NEW b, a \in Reachable(g), Dominates(g, a, b), Dominates(g, b, a)
  PROVE  a = b
<1> SUFFICES ASSUME a # b PROVE FALSE
  OBVIOUS
<1>1. a # EntryBlock /\ b # EntryBlock
  BY EntryIsUndominated
<1> PICK R : R = ReachedAvoiding(g, {a, b})
  OBVIOUS
<1>2. a \notin ReachedAvoiding(g, {b}) /\ b \notin ReachedAvoiding(g, {a})
  BY <1>1 DEF Dominates
<1>3. R \subseteq ReachedAvoiding(g, {a}) /\ R \subseteq ReachedAvoiding(g, {b})
  BY AvoidingMoreReachesLess
<1>4. \A q \in ReachedAvoiding(g, {a}) : \A x \in DOMAIN g \ {a} : Edge(g, q, x) => x \in ReachedAvoiding(g, {a})
  BY ReachedFacts
<1>5. \A q \in ReachedAvoiding(g, {b}) : \A x \in DOMAIN g \ {b} : Edge(g, q, x) => x \in ReachedAvoiding(g, {b})
  BY ReachedFacts
<1>6. /\ EntryBlock \in R /\ R \subseteq DOMAIN g \ {a, b}
      /\ \A q \in R : \A x \in DOMAIN g \ {a, b} : Edge(g, q, x) => x \in R
  BY <1>1, ReachedFacts
<1>7. \A q \in R, x \in DOMAIN g : Edge(g, q, x) => x \in R
  BY <1>2, <1>3, <1>4, <1>5, <1>6
<1>8. Reachable(g) \subseteq R
  BY <1>6, <1>7, ReachableFacts
<1> QED
  BY <1>6, <1>8

(* A reachable block other than the entry is entered by a path that has    *)
(* not met it before.                                                      *)
LEMMA FirstArrival ==
  ASSUME NEW g, IsGraph(g), NEW b, b \in Reachable(g), b # EntryBlock
  PROVE  \E q \in ReachedAvoiding(g, {b}) : Edge(g, q, b)
<1> SUFFICES ASSUME \A q \in ReachedAvoiding(g, {b}) : ~Edge(g, q, b) PROVE FALSE
  OBVIOUS
<1> PICK R : R = ReachedAvoiding(g, {b})
  OBVIOUS
<1>1. /\ EntryBlock \in R /\ R \subseteq DOMAIN g \ {b}
      /\ \A q \in R : \A x \in DOMAIN g \ {b} : Edge(g, q, x) => x \in R
  BY ReachedFacts
<1>2. \A q \in R, x \in DOMAIN g : Edge(g, q, x) => x \in R
  BY <1>1
<1>3. Reachable(g) \subseteq R
  BY <1>1, <1>2, ReachableFacts
<1> QED
  BY <1>1, <1>3

(* A block whose only predecessor is q is strictly dominated by q.         *)
LEMMA OnlyPredecessorDominates ==
  ASSUME NEW g, IsGraph(g), NEW b, b \in Reachable(g), b # EntryBlock, NEW q,
         \A p \in DOMAIN g : Edge(g, p, b) => p = q
  PROVE  q # b /\ Dominates(g, q, b)
<1>1. PICK p \in ReachedAvoiding(g, {b}) : Edge(g, p, b)
  BY FirstArrival
<1>2. p \in DOMAIN g \ {b}
  BY ReachedFacts
<1>3. p = q /\ q # b
  BY <1>1, <1>2
<1> PICK R : R = ReachedAvoiding(g, {q})
  OBVIOUS
<1>4. CASE q # EntryBlock
  <2> PICK T : T = R \ {b}
    OBVIOUS
  <2>1. /\ EntryBlock \in R /\ R \subseteq DOMAIN g \ {q}
        /\ \A c \in R : \A x \in DOMAIN g \ {q} : Edge(g, c, x) => x \in R
        /\ \A U : /\ EntryBlock \in U
                  /\ \A c \in U \cap R : \A x \in DOMAIN g \ {q} : Edge(g, c, x) => x \in U
                  => R \subseteq U
    BY <1>4, ReachedFacts
  <2>2. EntryBlock \in T
    BY <2>1
  <2>3. \A c \in T \cap R : \A x \in DOMAIN g \ {q} : Edge(g, c, x) => x \in T
    BY <2>1
  <2>4. R \subseteq T
    BY <2>1, <2>2, <2>3
  <2> QED
    BY <1>3, <2>4 DEF Dominates
<1> QED
  BY <1>3, <1>4 DEF Dominates
=============================================================================
