---------------------------- MODULE ServiceProofs ----------------------------
(***************************************************************************)
(* What holds of the compiler services for all pipelines, passes, masks,   *)
(* file contents and interleavings of edits, reports and calls: the type   *)
(* invariant, that neither cache outlives the source it was made from, and *)
(* what a reload leaves behind.                                            *)
(***************************************************************************)
EXTENDS MetalService, FiniteSetTheorems, WellFoundedInduction, TLAPS

IsAFunction(f) == f = [x \in DOMAIN f |-> f[x]]

(* A variant is kept under the key of the pass and the mask it was         *)
(* compiled for, from the syntax tree that is cached with it.              *)
VariantInv(p, set, k) ==
  LET v == set.variants[k]
  IN /\ v \in [pass : Passes, mask : Masks, mode : Modes, from : Parses]
     /\ k = MakeVariantKey(p, v.pass, v.mask)
     /\ set.astCached /\ v.from = set.ast
     /\ v.pass \in Declares[v.from] /\ <<v.pass, v.mask>> \notin Failing[v.from]

SetInv(p, set) ==
  /\ set = [astCached |-> set.astCached, ast |-> set.ast, variants |-> set.variants]
  /\ set.astCached \in BOOLEAN
  /\ IF set.astCached THEN set.ast \in Parses ELSE set.ast = NoContent
  /\ IsAFunction(set.variants)
  /\ \A k \in DOMAIN set.variants : VariantInv(p, set, k)

(* Once the watcher has caught up, the cached syntax tree is the file's.   *)
CoreInv ==
  /\ TypeOK
  /\ IsAFunction(sets)
  /\ \A p \in DOMAIN sets : SetInv(p, sets[p]) /\ (p \notin changed /\ sets[p].astCached => sets[p].ast = disk[p])

(* A library goes with a syntax tree the core has cached, and where keys   *)
(* tell uses apart, it is for a use that compiles: compiling it once more  *)
(* can only fail without spirv-val.                                        *)
LibraryInv(k) ==
  LET e == metal[k]
  IN /\ e \in [pipeline : Pipelines, pass : Passes, mask : Masks, from : Parses, live : BOOLEAN]
     /\ k = MakeVariantKey(e.pipeline, e.pass, e.mask)
     /\ open /\ e.pipeline \in DOMAIN sets
     /\ sets[e.pipeline].astCached /\ e.from = sets[e.pipeline].ast
     /\ LongPasses = {} => e.pass \in Declares[e.from] /\ <<e.pass, e.mask>> \notin Failing[e.from]

ServiceInv ==
  /\ CoreInv
  /\ open \in BOOLEAN
  /\ IsAFunction(metal)
  /\ \A k \in DOMAIN metal : LibraryInv(k)
----------------------------------------------------------------------------
(* Induction, for the proofs about sequences.                              *)

LEMMA NatSetInduction ==
  ASSUME NEW S, 0 \in S, \A n \in Nat : n \in S => n + 1 \in S
  PROVE  Nat \subseteq S
<1> DEFINE T == Nat \ S
           R == OpToRel(<, Nat)
<1>1. SUFFICES ASSUME T # {} PROVE FALSE
  OBVIOUS
<1>2. PICK x \in T : \A y \in T : ~ (<<y, x>> \in R)
  <2>1. IsWellFoundedOn(R, Nat)
    BY NatLessThanWellFounded
  <2>2. T \subseteq Nat
    OBVIOUS
  <2> HIDE DEF T, R
  <2> QED
    BY <1>1, <2>1, <2>2, WFMin
<1>3. x \in Nat /\ x # 0 /\ x - 1 \in Nat
  OBVIOUS
<1>4. x - 1 \in S
  <2>1. <<x - 1, x>> \in R
    BY <1>3 DEF OpToRel
  <2> QED
    BY <1>2, <1>3, <2>1
<1>5. (x - 1) + 1 \in S /\ (x - 1) + 1 = x
  BY <1>3, <1>4
<1> QED
  BY <1>5

----------------------------------------------------------------------------
(* One compilation.                                                        *)

(* The key says which pipeline and pass a variant is of, and which mask    *)
(* unless a name fills the buffer.                                         *)
LEMMA KeyFacts ==
  ASSUME NEW p, NEW q, NEW pass, NEW other, NEW mask, NEW another,
         MakeVariantKey(p, pass, mask) = MakeVariantKey(q, other, another)
  PROVE  p = q /\ pass = other /\ (LongPasses = {} => mask = another)
BY DEF MakeVariantKey

(* The tree: what is cached stays, what is not is the file's.              *)
LEMMA EnsureFacts ==
  ASSUME NEW p, NEW set, SetInv(p, set), NEW content
  PROVE  LET ready == EnsureASTCached(set, content)
         IN /\ SetInv(p, ready)
            /\ ready.variants = set.variants
            /\ set.astCached => ready = set
            /\ ~set.astCached => ready.variants = NoVariants
            /\ ~set.astCached /\ ready.astCached => ready.ast = content
BY DEF EnsureASTCached, SetInv, VariantInv, NoVariants, IsAFunction
(* The variant of a pass and a mask is there.                              *)
Holds(set, p, pass, mask) ==
  LET key == MakeVariantKey(p, pass, mask)
  IN key \in DOMAIN set.variants /\ set.variants[key].pass = pass /\ set.variants[key].mask = mask

(* The variants under other keys are kept.                                 *)
KeepsOthers(set, new, key) ==
  \A k \in DOMAIN set.variants :
    k # key => k \in DOMAIN new.variants /\ new.variants[k] = set.variants[k]

(* A compilation leaves a set in order, keeps a tree that is cached, and   *)
(* has its variant under its key if it succeeds; the other variants stay.  *)
LEMMA CompileVariantFacts ==
  ASSUME NEW p, NEW set, SetInv(p, set), NEW content,
         NEW pass \in Passes, NEW mask \in Masks, NEW mode \in Modes
  PROVE  LET new == CompileVariant(set, content, p, pass, mask, mode)
         IN /\ SetInv(p, new)
            /\ new.astCached = EnsureASTCached(set, content).astCached
            /\ new.ast = EnsureASTCached(set, content).ast
            /\ KeepsOthers(set, new, MakeVariantKey(p, pass, mask))
            /\ Compiles(set, content, pass, mask) => Holds(new, p, pass, mask)
<1> DEFINE ready == EnsureASTCached(set, content)
           new == CompileVariant(set, content, p, pass, mask, mode)
           key == MakeVariantKey(p, pass, mask)
           variant == [pass |-> pass, mask |-> mask, mode |-> mode, from |-> ready.ast]
<1>1. /\ SetInv(p, ready) /\ ready.variants = set.variants
  BY EnsureFacts
<1> HIDE DEF ready
<1>2. CASE ~ready.astCached \/ pass \notin Declares[ready.ast]
  <2>1. new = ready
    BY <1>2 DEF CompileVariant, ready
  <2> QED
    BY <1>1, <1>2, <2>1 DEF Compiles, KeepsOthers, ready
<1>3. CASE /\ ~(~ready.astCached \/ pass \notin Declares[ready.ast])
           /\ ~validates \/ <<pass, mask>> \in Failing[ready.ast]
  <2>1. new = [ready EXCEPT !.variants = Without(@, key)]
    BY <1>3 DEF CompileVariant, ready
  <2> HIDE DEF key, new
  <2>2. /\ new.astCached = ready.astCached /\ new.ast = ready.ast
        /\ new.variants = Without(set.variants, key)
        /\ new = [astCached |-> new.astCached, ast |-> new.ast, variants |-> new.variants]
    BY <1>1, <2>1 DEF SetInv
  <2>3. SetInv(p, new)
    BY <1>1, <2>2 DEF SetInv, VariantInv, Without, IsAFunction
  <2> QED
    BY <1>3, <2>2, <2>3 DEF Compiles, KeepsOthers, ready, new, key, Without
<1>4. CASE /\ ~(~ready.astCached \/ pass \notin Declares[ready.ast])
           /\ ~(~validates \/ <<pass, mask>> \in Failing[ready.ast])
  <2>1. new = [ready EXCEPT !.variants = With(@, key, variant)]
    BY <1>4 DEF CompileVariant, ready
  <2> HIDE DEF key, new
  <2>2. /\ new.astCached = ready.astCached /\ new.ast = ready.ast
        /\ new.variants = With(set.variants, key, variant)
        /\ new = [astCached |-> new.astCached, ast |-> new.ast, variants |-> new.variants]
    BY <1>1, <2>1 DEF SetInv
  <2>3. /\ DOMAIN new.variants = DOMAIN set.variants \cup {key}
        /\ new.variants[key] = variant
        /\ \A k \in DOMAIN set.variants : k # key => new.variants[k] = set.variants[k]
        /\ IsAFunction(new.variants)
    BY <2>2 DEF With, IsAFunction
  <2>4. ASSUME NEW k \in DOMAIN new.variants PROVE VariantInv(p, new, k)
    <3>1. CASE k = key
      BY <1>1, <1>4, <2>2, <2>3, <3>1 DEF VariantInv, SetInv, key
    <3>2. CASE k # key
      BY <1>1, <2>2, <2>3, <3>2 DEF VariantInv, SetInv
    <3> QED
      BY <3>1, <3>2
  <2>5. SetInv(p, new)
    BY <1>1, <1>4, <2>2, <2>3, <2>4 DEF SetInv
  <2> QED
    BY <2>2, <2>3, <2>5 DEF Holds, KeepsOthers, new, key, ready
<1> QED
  BY <1>2, <1>3, <1>4

----------------------------------------------------------------------------
(* Many compilations.                                                      *)

(* The set after each of the uses.                                         *)
CompileRun(after, p, set, uses, mode) ==
  /\ after[0] = set
  /\ \A k \in 1..Len(uses) :
       after[k] = IF uses[k].pipeline # p THEN after[k - 1]
                  ELSE CompileVariant(after[k - 1], disk[p], p, uses[k].pass, uses[k].mask, mode)

(* The recursive function in CompileAll exists, so it has its equations.   *)
LEMMA CompileAllSteps ==
  ASSUME NEW p, NEW set, NEW uses, Len(uses) \in Nat, NEW mode
  PROVE  \E after : CompileRun(after, p, set, uses, mode) /\ CompileAll(p, set, uses, mode) = after[Len(uses)]
<1> DEFINE Step(before, k) == IF uses[k].pipeline # p THEN before
                              ELSE CompileVariant(before, disk[p], p, uses[k].pass, uses[k].mask, mode)
           IsRun(f, n) == f = [k \in 0..n |-> IF k = 0 THEN set ELSE Step(f[k - 1], k)]
           S == {n \in Nat : \E f : IsRun(f, n)}
<1> HIDE DEF Step
<1>1. 0 \in S
  <2>1. IsRun([k \in 0..0 |-> set], 0)
    OBVIOUS
  <2> QED
    BY <2>1
<1>2. ASSUME NEW n \in Nat, n \in S PROVE n + 1 \in S
  <2>1. PICK f : IsRun(f, n)
    BY <1>2
  <2> DEFINE g == [k \in 0..(n + 1) |-> IF k = n + 1 THEN Step(f[n], k) ELSE f[k]]
  <2>2. \A k \in 0..n : f[k] = IF k = 0 THEN set ELSE Step(f[k - 1], k)
    BY <2>1
  <2>3. \A k \in 0..(n + 1) : g[k] = IF k = 0 THEN set ELSE Step(g[k - 1], k)
    <3>1. ASSUME NEW k \in 0..n, k # 0 PROVE g[k] = Step(g[k - 1], k)
      <4>1. k - 1 \in 0..(n + 1) /\ k - 1 # n + 1 /\ k \in 0..(n + 1) /\ k # n + 1
        BY <3>1
      <4> QED
        BY <2>2, <3>1, <4>1
    <3>2. g[n + 1] = Step(g[n], n + 1)
      OBVIOUS
    <3>3. g[0] = set
      BY <2>2
    <3> QED
      BY <3>1, <3>2, <3>3
  <2>4. IsRun(g, n + 1)
    BY <2>3
  <2>5. n + 1 \in Nat
    OBVIOUS
  <2> HIDE DEF g, IsRun
  <2> QED
    BY <2>4, <2>5
<1>3. PICK f : IsRun(f, Len(uses))
  <2> HIDE DEF S
  <2>1. Len(uses) \in S
    BY <1>1, <1>2, NatSetInduction
  <2> QED
    BY <2>1 DEF S
<1> DEFINE after == CHOOSE h : IsRun(h, Len(uses))
<1>4. IsRun(after, Len(uses))
  BY <1>3
<1>5. CompileAll(p, set, uses, mode) = after[Len(uses)]
  BY DEF CompileAll, Step
<1> HIDE DEF after
<1>6. \A k \in 0..Len(uses) : after[k] = IF k = 0 THEN set ELSE Step(after[k - 1], k)
  BY <1>4
<1> QED
  BY <1>5, <1>6 DEF CompileRun, Step

(* The tree a compilation works with, which it leaves cached if it is one. *)
SameTree(set, new, content) ==
  LET ready == EnsureASTCached(set, content)
      again == EnsureASTCached(new, content)
  IN again.astCached = ready.astCached /\ again.ast = ready.ast

(* Compiling in a row keeps the set in order and works with one tree; what *)
(* compiles is there in the end, whatever fails before or after it.        *)
LEMMA CompileAllFacts ==
  ASSUME NEW p, NEW set, SetInv(p, set), NEW uses \in Seq(Uses), NEW mode \in Modes
  PROVE  LET new == CompileAll(p, set, uses, mode)
         IN /\ SetInv(p, new)
            /\ SameTree(set, new, disk[p])
            /\ set.astCached => new.astCached /\ new.ast = set.ast
            /\ ~set.astCached /\ new.astCached => new.ast = disk[p]
            /\ LongPasses = {} =>
                 \A k \in DOMAIN uses :
                   uses[k].pipeline = p /\ Compiles(set, disk[p], uses[k].pass, uses[k].mask) =>
                     \E v \in DOMAIN new.variants :
                       new.variants[v].pass = uses[k].pass /\ new.variants[v].mask = uses[k].mask
<1>1. /\ Len(uses) \in Nat /\ DOMAIN uses = 1..Len(uses)
      /\ \A k \in 1..Len(uses) : uses[k].pass \in Passes /\ uses[k].mask \in Masks
  <2>1. Len(uses) \in Nat /\ DOMAIN uses = 1..Len(uses) /\ \A k \in 1..Len(uses) : uses[k] \in Uses
    OBVIOUS
  <2> QED
    BY <2>1 DEF Uses
<1>2. PICK after : CompileRun(after, p, set, uses, mode) /\ CompileAll(p, set, uses, mode) = after[Len(uses)]
  BY <1>1, CompileAllSteps
<1> USE DEF CompileRun
<1> DEFINE Fine(new) ==
             /\ SetInv(p, new)
             /\ SameTree(set, new, disk[p])
             /\ set.astCached => new.astCached /\ new.ast = set.ast
             /\ ~set.astCached /\ new.astCached => new.ast = disk[p]
           S == {n \in Nat : n <= Len(uses) => Fine(after[n])}
<1>3. Fine(set)
  BY DEF SameTree
<1>4. ASSUME NEW before, Fine(before), NEW pass \in Passes, NEW mask \in Masks
      PROVE  Fine(CompileVariant(before, disk[p], p, pass, mask, mode))
  <2> DEFINE new == CompileVariant(before, disk[p], p, pass, mask, mode)
  <2>1. /\ SetInv(p, new)
        /\ new.astCached = EnsureASTCached(before, disk[p]).astCached
        /\ new.ast = EnsureASTCached(before, disk[p]).ast
    BY <1>4, CompileVariantFacts
  <2> HIDE DEF new
  <2>2. /\ before.astCached \in BOOLEAN /\ new.astCached \in BOOLEAN
        /\ EnsureASTCached(before, disk[p]).astCached <=> before.astCached \/ disk[p] \in Parses
        /\ EnsureASTCached(before, disk[p]).ast =
             IF ~before.astCached /\ disk[p] \in Parses THEN disk[p] ELSE before.ast
    BY <1>4, <2>1 DEF EnsureASTCached, SetInv
  <2>3. EnsureASTCached(new, disk[p]) = new
    BY <2>1, <2>2 DEF EnsureASTCached
  <2>4. SameTree(set, new, disk[p])
    BY <1>4, <2>1, <2>3 DEF SameTree
  <2>5. Fine(new)
    BY <1>4, <2>1, <2>2, <2>4
  <2> QED
    BY <2>5 DEF new
<1> HIDE DEF Fine
<1>5. 0 \in S
  BY <1>2, <1>3
<1>6. ASSUME NEW n \in Nat, n \in S PROVE n + 1 \in S
  <2> SUFFICES ASSUME n + 1 <= Len(uses) PROVE Fine(after[n + 1])
    OBVIOUS
  <2>1. n + 1 \in 1..Len(uses) /\ (n + 1) - 1 = n /\ Fine(after[n])
    BY <1>1, <1>6
  <2> QED
    BY <1>1, <1>2, <1>4, <2>1
<1>7. \A n \in 0..Len(uses) : Fine(after[n])
  <2>1. Nat \subseteq S
    BY <1>5, <1>6, NatSetInduction
  <2> QED
    BY <1>1, <2>1
<1>8. ASSUME LongPasses = {}, NEW k \in DOMAIN uses, uses[k].pipeline = p,
             Compiles(set, disk[p], uses[k].pass, uses[k].mask)
      PROVE  LET new == after[Len(uses)]
             IN \E v \in DOMAIN new.variants :
                  new.variants[v].pass = uses[k].pass /\ new.variants[v].mask = uses[k].mask
  <2> DEFINE Here(new) == Holds(new, p, uses[k].pass, uses[k].mask)
             T == {n \in Nat : k <= n /\ n <= Len(uses) => Here(after[n])}
  <2>1. ASSUME NEW n \in Nat, n + 1 <= Len(uses), n + 1 = k PROVE Here(after[n + 1])
    <3>1. n \in 0..Len(uses) /\ n + 1 \in 1..Len(uses) /\ (n + 1) - 1 = n
      BY <1>1, <2>1
    <3>2. after[n + 1] = CompileVariant(after[n], disk[p], p, uses[k].pass, uses[k].mask, mode)
      BY <1>2, <1>8, <2>1, <3>1
    <3>3. Fine(after[n])
      BY <1>7, <3>1
    <3>4. Compiles(after[n], disk[p], uses[k].pass, uses[k].mask)
      BY <1>8, <3>3 DEF Fine, Compiles, SameTree
    <3>5. uses[k].pass \in Passes /\ uses[k].mask \in Masks /\ SetInv(p, after[n])
      BY <1>1, <1>8, <3>3 DEF Fine
    <3> QED
      <4>1. Holds(CompileVariant(after[n], disk[p], p, uses[k].pass, uses[k].mask, mode), p, uses[k].pass, uses[k].mask)
        BY <3>4, <3>5, CompileVariantFacts
      <4> QED
        BY <3>2, <4>1
  <2>2. ASSUME NEW n \in Nat, n + 1 <= Len(uses), k <= n, Here(after[n]) PROVE Here(after[n + 1])
    <3>1. n \in 0..Len(uses) /\ n + 1 \in 1..Len(uses) /\ (n + 1) - 1 = n
      BY <1>1, <2>2
    <3>2. CASE uses[n + 1].pipeline # p
      BY <1>2, <2>2, <3>1, <3>2
    <3>3. CASE uses[n + 1].pipeline = p
      <4> DEFINE pass == uses[n + 1].pass
                 mask == uses[n + 1].mask
      <4>1. after[n + 1] = CompileVariant(after[n], disk[p], p, pass, mask, mode)
        BY <1>2, <3>1, <3>3
      <4>2. pass \in Passes /\ mask \in Masks /\ Fine(after[n])
        BY <1>1, <1>7, <3>1
      <4>3. SetInv(p, after[n])
        BY <4>2 DEF Fine
      <4> HIDE DEF pass, mask
      <4>4. CASE MakeVariantKey(p, uses[k].pass, uses[k].mask) # MakeVariantKey(p, pass, mask)
        <5> DEFINE key == MakeVariantKey(p, uses[k].pass, uses[k].mask)
        <5>1. key \in DOMAIN after[n].variants
          BY <2>2 DEF Holds
        <5>2. key \in DOMAIN after[n + 1].variants /\ after[n + 1].variants[key] = after[n].variants[key]
          <6> HIDE DEF key
          <6>1. key # MakeVariantKey(p, pass, mask)
            BY <4>4 DEF key
          <6>2. KeepsOthers(after[n], after[n + 1], MakeVariantKey(p, pass, mask))
            <7>1. KeepsOthers(after[n], CompileVariant(after[n], disk[p], p, pass, mask, mode), MakeVariantKey(p, pass, mask))
              BY <4>2, <4>3, CompileVariantFacts
            <7> QED
              BY <4>1, <7>1
          <6> QED
            BY <5>1, <6>1, <6>2 DEF KeepsOthers
        <5> QED
          BY <2>2, <5>2 DEF Holds
      <4>5. CASE MakeVariantKey(p, uses[k].pass, uses[k].mask) = MakeVariantKey(p, pass, mask)
        <5>1. pass = uses[k].pass /\ mask = uses[k].mask
          BY <1>8, <4>5, KeyFacts
        <5>2. Compiles(after[n], disk[p], pass, mask)
          BY <1>8, <4>2, <5>1 DEF Fine, Compiles, SameTree
        <5>3. Holds(CompileVariant(after[n], disk[p], p, pass, mask, mode), p, pass, mask)
          BY <4>2, <4>3, <5>2, CompileVariantFacts
        <5> QED
          BY <4>1, <5>1, <5>3
      <4> QED
        BY <4>4, <4>5
    <3> QED
      BY <3>2, <3>3
  <2> HIDE DEF Here
  <2>3. 0 \in T
    BY <1>1
  <2>4. ASSUME NEW n \in Nat, n \in T PROVE n + 1 \in T
    <3> SUFFICES ASSUME k <= n + 1, n + 1 <= Len(uses) PROVE Here(after[n + 1])
      OBVIOUS
    <3>1. CASE n + 1 = k
      BY <2>1, <3>1
    <3>2. CASE n + 1 # k
      <4>1. k <= n /\ n <= Len(uses)
        BY <1>1, <3>2
      <4> QED
        BY <2>2, <2>4, <4>1
    <3> QED
      BY <3>1, <3>2
  <2>5. Here(after[Len(uses)])
    <3>1. Nat \subseteq T
      BY <2>3, <2>4, NatSetInduction
    <3> QED
      BY <1>1, <3>1
  <2> QED
    BY <2>5 DEF Here, Holds
<1>9. Fine(after[Len(uses)])
  BY <1>1, <1>7
<1> QED
  BY <1>2, <1>8, <1>9 DEF Fine

----------------------------------------------------------------------------
(* The uses the service remembers, and those it compiles ahead.            *)

LEMMA OtherUsesFacts ==
  ASSUME recent \in Seq(Uses), NEW use
  PROVE  OtherUses(use) \in Seq(Uses) /\ Len(OtherUses(use)) <= Len(recent)
<1> DEFINE Step(before, k) == IF recent[k] = use THEN before ELSE Append(before, recent[k])
           IsRun(f, n) == f = [k \in 0..n |-> IF k = 0 THEN <<>> ELSE Step(f[k - 1], k)]
           S == {n \in Nat : \E f : IsRun(f, n)}
<1> HIDE DEF Step
<1>1. Len(recent) \in Nat /\ \A k \in 1..Len(recent) : recent[k] \in Uses
  OBVIOUS
<1>2. 0 \in S
  <2>1. IsRun([k \in 0..0 |-> <<>>], 0)
    OBVIOUS
  <2> HIDE DEF IsRun
  <2> QED
    BY <2>1
<1>3. ASSUME NEW n \in Nat, n \in S PROVE n + 1 \in S
  <2>1. PICK f : IsRun(f, n)
    BY <1>3
  <2> DEFINE g == [k \in 0..(n + 1) |-> IF k = n + 1 THEN Step(f[n], k) ELSE f[k]]
  <2>2. \A k \in 0..n : f[k] = IF k = 0 THEN <<>> ELSE Step(f[k - 1], k)
    BY <2>1
  <2>3. \A k \in 0..(n + 1) : g[k] = IF k = 0 THEN <<>> ELSE Step(g[k - 1], k)
    <3>1. ASSUME NEW k \in 0..n, k # 0 PROVE g[k] = Step(g[k - 1], k)
      <4>1. k - 1 \in 0..(n + 1) /\ k - 1 # n + 1 /\ k \in 0..(n + 1) /\ k # n + 1
        BY <3>1
      <4> QED
        BY <2>2, <3>1, <4>1
    <3>2. g[n + 1] = Step(g[n], n + 1)
      OBVIOUS
    <3>3. g[0] = <<>>
      BY <2>2
    <3>4. n + 1 # 0 /\ (n + 1) - 1 = n /\ \A k \in 0..(n + 1) : k \in 0..n \/ k = n + 1
      OBVIOUS
    <3> HIDE DEF g
    <3> QED
      BY <3>1, <3>2, <3>3, <3>4
  <2>4. IsRun(g, n + 1) /\ n + 1 \in Nat
    BY <2>3
  <2> HIDE DEF g, IsRun
  <2> QED
    BY <2>4
<1>4. \E f : IsRun(f, Len(recent))
  <2> HIDE DEF S
  <2>1. Len(recent) \in S
    BY <1>1, <1>2, <1>3, NatSetInduction
  <2> QED
    BY <2>1 DEF S
<1> DEFINE kept == CHOOSE f : IsRun(f, Len(recent))
<1>5. IsRun(kept, Len(recent))
  BY <1>4
<1>6. OtherUses(use) = kept[Len(recent)]
  BY DEF OtherUses, Step
<1> HIDE DEF kept
<1>7. kept[0] = <<>> /\ \A k \in 1..Len(recent) : kept[k] = Step(kept[k - 1], k)
  BY <1>1, <1>5
<1> DEFINE T == {n \in Nat : n <= Len(recent) => kept[n] \in Seq(Uses) /\ Len(kept[n]) <= n}
<1>8. 0 \in T
  <2> DEFINE none == <<>>
  <2>1. none \in Seq(Uses) /\ Len(none) = 0
    OBVIOUS
  <2>2. kept[0] = none
    BY <1>7
  <2> HIDE DEF none
  <2>3. kept[0] \in Seq(Uses) /\ Len(kept[0]) <= 0
    BY <2>1, <2>2
  <2> QED
    BY <2>3
<1>9. ASSUME NEW n \in Nat, n \in T PROVE n + 1 \in T
  <2> SUFFICES ASSUME n + 1 <= Len(recent)
               PROVE  kept[n + 1] \in Seq(Uses) /\ Len(kept[n + 1]) <= n + 1
    OBVIOUS
  <2>1. /\ n + 1 \in 1..Len(recent) /\ (n + 1) - 1 = n
        /\ kept[n] \in Seq(Uses) /\ Len(kept[n]) \in Nat /\ Len(kept[n]) <= n
    BY <1>1, <1>9
  <2>2. kept[n + 1] = Step(kept[n], n + 1) /\ recent[n + 1] \in Uses
    BY <1>1, <1>7, <2>1
  <2> QED
    BY <2>1, <2>2 DEF Step
<1>10. kept[Len(recent)] \in Seq(Uses) /\ Len(kept[Len(recent)]) <= Len(recent)
  <2>1. Nat \subseteq T
    BY <1>8, <1>9, NatSetInduction
  <2> QED
    BY <1>1, <2>1
<1> QED
  BY <1>6, <1>10

LEMMA TrackVariantUsageFacts ==
  ASSUME recent \in Seq(Uses), Len(recent) <= RecentLimit, NEW use \in Uses
  PROVE  TrackVariantUsage(use) \in Seq(Uses) /\ Len(TrackVariantUsage(use)) <= RecentLimit
<1> DEFINE used == Append(OtherUses(use), use)
<1>1. OtherUses(use) \in Seq(Uses) /\ Len(OtherUses(use)) <= Len(recent)
  BY OtherUsesFacts
<1>2. used \in Seq(Uses) /\ Len(used) = Len(OtherUses(use)) + 1
  BY <1>1
<1>3. Len(used) <= RecentLimit + 1 /\ Len(used) \in Nat /\ RecentLimit \in Nat \ {0}
  BY <1>1, <1>2, CoreAssumption
<1> HIDE DEF used
<1>4. CASE Len(used) > RecentLimit
  <2>1. used # <<>> /\ Tail(used) \in Seq(Uses) /\ Len(Tail(used)) = Len(used) - 1
    BY <1>2, <1>3, <1>4
  <2> QED
    BY <1>3, <1>4, <2>1 DEF TrackVariantUsage, used
<1>5. CASE ~(Len(used) > RecentLimit)
  BY <1>2, <1>3, <1>5 DEF TrackVariantUsage, used
<1> QED
  BY <1>4, <1>5

LEMMA CommonUsesFacts ==
  ASSUME NEW p \in Pipelines
  PROVE  SetToSeq(CommonUses(p)) \in Seq(Uses)
<1> DEFINE pairs == PassesOf[p] \X CommonMasks
           use == [x \in pairs |-> [pipeline |-> p, pass |-> x[1], mask |-> x[2]]]
           S == CommonUses(p)
<1>1. PassesOf[p] \subseteq Passes /\ CommonMasks \subseteq Masks
  BY CoreAssumption
<1>2. IsFiniteSet(pairs)
  BY <1>1, CoreAssumption, FS_Subset, FS_Product
<1>3. use \in Surjection(pairs, S)
  <2>1. use \in [pairs -> S]
    BY DEF CommonUses
  <2>2. ASSUME NEW u \in S PROVE \E x \in pairs : use[x] = u
    <3>1. u = [pipeline |-> p, pass |-> u.pass, mask |-> u.mask] /\ u.pass \in PassesOf[p] /\ u.mask \in CommonMasks
      BY DEF CommonUses
    <3>2. <<u.pass, u.mask>> \in pairs
      BY <3>1
    <3> QED
      BY <3>1, <3>2
  <2> QED
    BY <2>1, <2>2 DEF Surjection
<1> HIDE DEF pairs, use
<1>4. IsFiniteSet(S)
  BY <1>2, <1>3, FS_Surjection
<1> HIDE DEF S
<1>5. Cardinality(S) \in Nat /\ ExistsBijection(1..Cardinality(S), S)
  BY <1>4, FS_CardinalityType
<1>6. \E f \in [1..Cardinality(S) -> S] : IsInjective(f)
  BY <1>5 DEF ExistsBijection, Bijection, Injection
<1>7. SetToSeq(S) \in [1..Cardinality(S) -> S]
  BY <1>6 DEF SetToSeq
<1>8. S \subseteq Uses
  BY <1>1 DEF S, CommonUses, Uses
<1>9. SetToSeq(S) \in Seq(Uses)
  BY <1>5, <1>7, <1>8
<1> QED
  BY <1>9 DEF S

----------------------------------------------------------------------------
(* What a call does to the core.                                           *)

LEMMA CallFacts ==
  ASSUME CoreInv, NEW p \in DOMAIN sets, NEW pass \in Passes, NEW mask \in Masks, NEW mode \in Modes
  PROVE  LET result == GetOrCompileVariant(p, pass, mask, mode)
             after == result.sets[p]
             key == MakeVariantKey(p, pass, mask)
         IN /\ result.sets = [sets EXCEPT ![p] = after]
            /\ SetInv(p, after)
            /\ sets[p].astCached => after.astCached /\ after.ast = sets[p].ast
            /\ ~sets[p].astCached /\ after.astCached => after.ast = disk[p]
            /\ result.recent \in Seq(Uses) /\ Len(result.recent) <= RecentLimit
            /\ \A v \in result.got : v = after.variants[key] /\ VariantInv(p, after, key)
<1> DEFINE result == GetOrCompileVariant(p, pass, mask, mode)
           key == MakeVariantKey(p, pass, mask)
           hit == key \in DOMAIN sets[p].variants
           after == IF hit THEN sets[p] ELSE CompileVariant(sets[p], disk[p], p, pass, mask, mode)
<1>1. SetInv(p, sets[p]) /\ recent \in Seq(Uses) /\ Len(recent) <= RecentLimit
  BY DEF CoreInv, TypeOK
<1>2. /\ result.sets = [sets EXCEPT ![p] = after]
      /\ result.recent = IF hit THEN TrackVariantUsage([pipeline |-> p, pass |-> pass, mask |-> mask]) ELSE recent
      /\ result.got = IF hit \/ Compiles(sets[p], disk[p], pass, mask) THEN {after.variants[key]} ELSE {}
  BY DEF GetOrCompileVariant
<1>3. result.recent \in Seq(Uses) /\ Len(result.recent) <= RecentLimit
  <2>1. [pipeline |-> p, pass |-> pass, mask |-> mask] \in Uses
    BY DEF Uses, CoreInv, TypeOK
  <2> HIDE DEF result, hit
  <2> QED
    BY <1>1, <1>2, <2>1, TrackVariantUsageFacts
<1>4. /\ SetInv(p, after)
      /\ sets[p].astCached => after.astCached /\ after.ast = sets[p].ast
      /\ ~sets[p].astCached /\ after.astCached => after.ast = disk[p]
      /\ Compiles(sets[p], disk[p], pass, mask) /\ ~hit => key \in DOMAIN after.variants
  <2>1. CASE hit
    BY <1>1, <2>1
  <2>2. CASE ~hit
    <3> DEFINE new == CompileVariant(sets[p], disk[p], p, pass, mask, mode)
    <3>1. /\ SetInv(p, new)
          /\ new.astCached = EnsureASTCached(sets[p], disk[p]).astCached
          /\ new.ast = EnsureASTCached(sets[p], disk[p]).ast
          /\ Compiles(sets[p], disk[p], pass, mask) => Holds(new, p, pass, mask)
      BY <1>1, CompileVariantFacts
    <3>2. after = new
      BY <2>2
    <3> HIDE DEF new, after
    <3>3. /\ sets[p].astCached => EnsureASTCached(sets[p], disk[p]) = sets[p]
          /\ ~sets[p].astCached /\ EnsureASTCached(sets[p], disk[p]).astCached =>
               EnsureASTCached(sets[p], disk[p]).ast = disk[p]
      BY <1>1, EnsureFacts
    <3> QED
      BY <3>1, <3>2, <3>3 DEF Holds
  <2> QED
    BY <2>1, <2>2
<1>5. hit => after = sets[p]
  OBVIOUS
<1>6. result.sets[p] = after
  BY <1>2 DEF CoreInv, IsAFunction
<1> HIDE DEF result, after, hit, key
<1>7. \A v \in result.got : v = after.variants[key] /\ VariantInv(p, after, key)
  <2> SUFFICES ASSUME NEW v \in result.got PROVE v = after.variants[key] /\ VariantInv(p, after, key)
    OBVIOUS
  <2>1. (hit \/ Compiles(sets[p], disk[p], pass, mask)) /\ v = after.variants[key]
    BY <1>2
  <2>2. key \in DOMAIN after.variants
    BY <1>4, <1>5, <2>1 DEF hit
  <2> QED
    BY <1>4, <2>1, <2>2 DEF SetInv
<1> QED
  BY <1>2, <1>3, <1>4, <1>6, <1>7 DEF result, key

----------------------------------------------------------------------------
(* The invariant is inductive.                                             *)

LEMMA ServiceInvInit == MetalInit => ServiceInv
<1> SUFFICES ASSUME MetalInit PROVE ServiceInv
  OBVIOUS
<1>1. \A p \in Pipelines : SetInv(p, EmptySet)
  BY DEF SetInv, EmptySet, NoVariants, IsAFunction
<1>2. /\ DOMAIN sets = Pipelines /\ \A p \in Pipelines : sets[p] = EmptySet
      /\ IsAFunction(sets)
  BY DEF MetalInit, Init, IsAFunction
<1>3. TypeOK
  <2>1. recent \in Seq(Uses) /\ Len(recent) <= RecentLimit
    <3>1. recent = <<>> /\ Len(<<>>) = 0
      BY DEF MetalInit, Init
    <3> QED
      BY <3>1, CoreAssumption
  <2>2. edits \in 0..MaxEdits
    BY CoreAssumption DEF MetalInit, Init
  <2> QED
    BY <1>2, <2>1, <2>2 DEF TypeOK, MetalInit, Init, EmptySet, NoVariants
<1>4. CoreInv
  <2>1. ~EmptySet.astCached
    BY DEF EmptySet
  <2> QED
    BY <1>1, <1>2, <1>3, <2>1 DEF CoreInv
<1> QED
  BY <1>4 DEF ServiceInv, MetalInit, IsAFunction

(* A step that keeps every set in order, and no tree that is not the       *)
(* file's, keeps the invariant of the core.                                *)
LEMMA CoreStep ==
  ASSUME CoreInv,
         UNCHANGED <<disk, edits, changed, validates>>,
         recent' \in Seq(Uses) /\ Len(recent') <= RecentLimit,
         DOMAIN sets' \subseteq DOMAIN sets, IsAFunction(sets'),
         \A p \in DOMAIN sets' :
           SetInv(p, sets'[p]) /\ (p \notin changed /\ sets'[p].astCached => sets'[p].ast = disk[p])
  PROVE  CoreInv'
<1>1. TypeOK'
  BY DEF CoreInv, TypeOK, SetInv, VariantInv
<1>2. \A p \in DOMAIN sets' : SetInv(p, sets[p])'
  BY DEF SetInv, VariantInv
<1> QED
  BY <1>1, <1>2 DEF CoreInv, IsAFunction

(* A library stays in order as long as its tree stays cached.              *)
LEMMA LibraryStep ==
  ASSUME ServiceInv, open' = open, NEW k \in DOMAIN metal,
         metal[k].pipeline \in DOMAIN sets',
         sets'[metal[k].pipeline].astCached,
         sets'[metal[k].pipeline].ast = sets[metal[k].pipeline].ast,
         NEW live \in BOOLEAN, metal'[k] = [metal[k] EXCEPT !.live = live]
  PROVE  LibraryInv(k)'
BY DEF ServiceInv, LibraryInv

LEMMA StutterStep == ServiceInv /\ UNCHANGED vars => ServiceInv'
BY DEF vars, coreVars, ServiceInv, CoreInv, TypeOK, LibraryInv, IsAFunction

LEMMA MetalMissStep ==
  ASSUME ServiceInv, NEW p \in Pipelines, NEW pass \in Passes, NEW mask \in Masks, NEW mode \in Modes,
         NEW built \in BOOLEAN, MetalMiss(p, pass, mask, mode, built)
  PROVE  ServiceInv'
<1> DEFINE result == GetOrCompileVariant(p, pass, mask, mode)
           key == MakeVariantKey(p, pass, mask)
           got == IF p \in DOMAIN sets /\ open /\ built THEN result.got ELSE {}
           entries == {[pipeline |-> p, pass |-> pass, mask |-> mask, from |-> v.from, live |-> TRUE] : v \in got}
<1>1. /\ UNCHANGED <<disk, edits, changed, validates, open>>
      /\ key \notin DOMAIN metal
      /\ sets' = IF p \in DOMAIN sets THEN result.sets ELSE sets
      /\ recent' = IF p \in DOMAIN sets THEN result.recent ELSE recent
      /\ metal' = IF entries = {} THEN metal ELSE With(metal, key, CHOOSE e \in entries : TRUE)
  BY DEF MetalMiss
<1>2. CoreInv /\ IsAFunction(sets) /\ \A q \in DOMAIN sets : SetInv(q, sets[q])
  BY DEF ServiceInv, CoreInv
<1>3. CASE p \notin DOMAIN sets
  <2>1. UNCHANGED vars
    BY <1>1, <1>3 DEF vars, coreVars
  <2> QED
    BY <2>1, StutterStep
<1>4. CASE p \in DOMAIN sets
  <2> DEFINE after == result.sets[p]
  <2>1. /\ result.sets = [sets EXCEPT ![p] = after]
        /\ SetInv(p, after)
        /\ sets[p].astCached => after.astCached /\ after.ast = sets[p].ast
        /\ ~sets[p].astCached /\ after.astCached => after.ast = disk[p]
        /\ result.recent \in Seq(Uses) /\ Len(result.recent) <= RecentLimit
        /\ \A v \in result.got : v = after.variants[key] /\ VariantInv(p, after, key)
    BY <1>2, <1>4, CallFacts
  <2> HIDE DEF result, after, key
  <2>2. sets' = [sets EXCEPT ![p] = after] /\ recent' = result.recent
    BY <1>1, <1>4, <2>1
  <2>3. /\ DOMAIN sets' = DOMAIN sets /\ sets'[p] = after
        /\ \A q \in DOMAIN sets : q # p => sets'[q] = sets[q]
        /\ IsAFunction(sets')
    BY <1>4, <2>2 DEF IsAFunction
  <2>4. CoreInv'
    <3>1. ASSUME NEW q \in DOMAIN sets'
          PROVE  SetInv(q, sets'[q]) /\ (q \notin changed /\ sets'[q].astCached => sets'[q].ast = disk[q])
      BY <1>2, <2>1, <2>3 DEF CoreInv
    <3> QED
      BY <1>1, <1>2, <2>1, <2>2, <2>3, <3>1, CoreStep
  <2>5. ASSUME NEW k \in DOMAIN metal, metal'[k] = metal[k] PROVE LibraryInv(k)'
    <3> DEFINE q == metal[k].pipeline
    <3>1. /\ metal[k] = [metal[k] EXCEPT !.live = metal[k].live] /\ metal[k].live \in BOOLEAN
          /\ q \in DOMAIN sets /\ sets[q].astCached
      BY DEF ServiceInv, LibraryInv
    <3>2. q \in DOMAIN sets' /\ sets'[q].astCached /\ sets'[q].ast = sets[q].ast
      BY <2>1, <2>3, <3>1
    <3> QED
      BY <1>1, <2>5, <3>1, <3>2, LibraryStep
  <2>6. CASE entries = {}
    <3>1. metal' = metal
      BY <1>1, <2>6
    <3> QED
      BY <1>1, <2>4, <2>5, <3>1 DEF ServiceInv
  <2>7. CASE entries # {}
    <3>1. PICK v \in result.got :
            /\ p \in DOMAIN sets /\ open /\ built
            /\ (CHOOSE e \in entries : TRUE) =
                 [pipeline |-> p, pass |-> pass, mask |-> mask, from |-> v.from, live |-> TRUE]
      <4>1. (CHOOSE e \in entries : TRUE) \in entries
        BY <2>7
      <4> QED
        BY <4>1
    <3> DEFINE e == [pipeline |-> p, pass |-> pass, mask |-> mask, from |-> v.from, live |-> TRUE]
    <3>2. metal' = With(metal, key, e)
      BY <1>1, <2>7, <3>1
    <3> HIDE DEF e
    <3>3. /\ DOMAIN metal' = DOMAIN metal \cup {key} /\ metal'[key] = e
          /\ \A k \in DOMAIN metal : metal'[k] = metal[k]
          /\ IsAFunction(metal')
      BY <1>1, <3>2 DEF With, IsAFunction
    <3>4. LibraryInv(key)'
      <4>1. v = after.variants[key] /\ VariantInv(p, after, key)
        BY <2>1
      <4>2. /\ v.from \in Parses /\ key = MakeVariantKey(p, v.pass, v.mask)
            /\ after.astCached /\ v.from = after.ast
            /\ v.pass \in Declares[v.from] /\ <<v.pass, v.mask>> \notin Failing[v.from]
        BY <4>1 DEF VariantInv
      <4>3. pass = v.pass /\ (LongPasses = {} => mask = v.mask)
        BY <4>2, KeyFacts DEF key
      <4>4. /\ e \in [pipeline : Pipelines, pass : Passes, mask : Masks, from : Parses, live : BOOLEAN]
            /\ e.pipeline = p /\ e.pass = pass /\ e.mask = mask /\ e.from = v.from
        BY <4>2 DEF e
      <4>5. open' /\ p \in DOMAIN sets' /\ sets'[p].astCached /\ sets'[p].ast = v.from
        BY <1>1, <1>4, <2>3, <3>1, <4>2
      <4>6. key = MakeVariantKey(p, pass, mask)
        BY DEF key
      <4>7. LongPasses = {} => pass \in Declares[v.from] /\ <<pass, mask>> \notin Failing[v.from]
        BY <4>2, <4>3
      <4> HIDE DEF e
      <4> QED
        BY <3>3, <4>4, <4>5, <4>6, <4>7 DEF LibraryInv
    <3> QED
      BY <1>1, <2>4, <2>5, <3>3, <3>4 DEF ServiceInv, IsAFunction
  <2> QED
    BY <2>6, <2>7
<1> QED
  BY <1>3, <1>4

LEMMA MetalPrecompileStep ==
  ASSUME ServiceInv, MetalPrecompile
  PROVE  ServiceInv'
<1> DEFINE uses(p) == SetToSeq(CommonUses(p))
           new(p) == CompileAll(p, sets[p], uses(p), DefaultMode)
<1>1. /\ UNCHANGED <<disk, edits, changed, validates, recent, open>>
      /\ sets' = [p \in DOMAIN sets |-> new(p)]
      /\ metal' = KeepPointers(ErasedByPrecompile)
  BY DEF MetalPrecompile, PrecompileCommonVariants
<1>2. CoreInv /\ DOMAIN sets \subseteq Pipelines /\ \A p \in DOMAIN sets : SetInv(p, sets[p])
  BY DEF ServiceInv, CoreInv, TypeOK
<1>3. ASSUME NEW p \in DOMAIN sets
      PROVE  /\ SetInv(p, new(p))
             /\ sets[p].astCached => new(p).astCached /\ new(p).ast = sets[p].ast
             /\ ~sets[p].astCached /\ new(p).astCached => new(p).ast = disk[p]
  <2>1. uses(p) \in Seq(Uses) /\ DefaultMode \in Modes /\ SetInv(p, sets[p])
    BY <1>2, CommonUsesFacts, CoreAssumption
  <2> HIDE DEF uses
  <2> QED
    BY <2>1, CompileAllFacts
<1> HIDE DEF new
<1>4. DOMAIN sets' = DOMAIN sets /\ IsAFunction(sets') /\ \A p \in DOMAIN sets : sets'[p] = new(p)
  BY <1>1 DEF IsAFunction
<1>5. CoreInv'
  <2>1. ASSUME NEW p \in DOMAIN sets'
        PROVE  SetInv(p, sets'[p]) /\ (p \notin changed /\ sets'[p].astCached => sets'[p].ast = disk[p])
    BY <1>2, <1>3, <1>4 DEF CoreInv
  <2>2. recent' \in Seq(Uses) /\ Len(recent') <= RecentLimit
    BY <1>1, <1>2 DEF CoreInv, TypeOK
  <2> QED
    BY <1>1, <1>2, <1>4, <2>1, <2>2, CoreStep
<1>6. /\ DOMAIN metal' = DOMAIN metal /\ IsAFunction(metal')
      /\ \A k \in DOMAIN metal : metal'[k] = [metal[k] EXCEPT !.live = FALSE] \/ metal'[k] = metal[k]
  BY <1>1 DEF KeepPointers, IsAFunction
<1>7. ASSUME NEW k \in DOMAIN metal PROVE LibraryInv(k)'
  <2> DEFINE q == metal[k].pipeline
  <2>1. /\ metal[k] = [metal[k] EXCEPT !.live = metal[k].live] /\ metal[k].live \in BOOLEAN
        /\ q \in DOMAIN sets /\ sets[q].astCached
    BY DEF ServiceInv, LibraryInv
  <2>2. q \in DOMAIN sets' /\ sets'[q].astCached /\ sets'[q].ast = sets[q].ast
    BY <1>3, <1>4, <2>1
  <2>3. CASE metal'[k] = metal[k]
    BY <1>1, <2>1, <2>2, <2>3, LibraryStep
  <2>4. CASE metal'[k] = [metal[k] EXCEPT !.live = FALSE]
    BY <1>1, <2>2, <2>4, LibraryStep
  <2> QED
    BY <1>6, <2>3, <2>4
<1> QED
  BY <1>1, <1>5, <1>6, <1>7 DEF ServiceInv, IsAFunction

(* What a reload makes of the pipeline it is for.                          *)
LEMMA RecompiledFacts ==
  ASSUME CoreInv, NEW p \in DOMAIN sets
  PROVE  LET new == Recompiled(p)
         IN /\ SetInv(p, new)
            /\ new.astCached => new.ast = disk[p]
            /\ LongPasses = {} =>
                 \A k \in DOMAIN recent :
                   recent[k].pipeline = p /\ Compiles(EmptySet, disk[p], recent[k].pass, recent[k].mask) =>
                     \E v \in DOMAIN new.variants :
                       new.variants[v].pass = recent[k].pass /\ new.variants[v].mask = recent[k].mask
<1>1. recent \in Seq(Uses) /\ DefaultMode \in Modes
  BY CoreAssumption DEF CoreInv, TypeOK
<1>2. SetInv(p, EmptySet) /\ ~EmptySet.astCached
  BY DEF SetInv, EmptySet, NoVariants, IsAFunction
<1> QED
  BY <1>1, <1>2, CompileAllFacts DEF Recompiled

LEMMA MetalFileChangeStep ==
  ASSUME ServiceInv, NEW p \in Pipelines, MetalFileChange(p)
  PROVE  ServiceInv'
<1>1. /\ UNCHANGED <<disk, edits, validates, recent, open>>
      /\ p \in changed /\ changed' = changed \ {p}
      /\ p \in DOMAIN sets => /\ sets' = [sets EXCEPT ![p] = Recompiled(p)]
                              /\ metal' = HandlePipelineRecompiled(p, KeepPointers(DOMAIN sets[p].variants))
      /\ p \notin DOMAIN sets => UNCHANGED <<sets, metal>>
  BY DEF MetalFileChange, HandleFileChange
<1>2. CoreInv /\ DOMAIN sets \subseteq Pipelines /\ IsAFunction(sets) /\ \A q \in DOMAIN sets : SetInv(q, sets[q])
  BY DEF ServiceInv, CoreInv, TypeOK
<1>3. CASE p \notin DOMAIN sets
  <2>1. CoreInv'
    BY <1>1, <1>2, <1>3 DEF CoreInv, TypeOK, IsAFunction
  <2> QED
    BY <1>1, <1>3, <2>1 DEF ServiceInv, LibraryInv, IsAFunction
<1>4. CASE p \in DOMAIN sets
  <2> DEFINE new == Recompiled(p)
  <2>1. SetInv(p, new) /\ (new.astCached => new.ast = disk[p])
    BY <1>2, <1>4, RecompiledFacts
  <2> HIDE DEF new
  <2>2. /\ DOMAIN sets' = DOMAIN sets /\ sets'[p] = new
        /\ \A q \in DOMAIN sets : q # p => sets'[q] = sets[q]
        /\ IsAFunction(sets')
    BY <1>1, <1>4 DEF IsAFunction, new
  <2>3. \A q \in DOMAIN sets' : SetInv(q, sets[q])' /\ (q \notin changed' /\ sets'[q].astCached => sets'[q].ast = disk'[q])
    BY <1>1, <1>2, <2>1, <2>2 DEF CoreInv, SetInv, VariantInv
  <2>4. TypeOK'
    BY <1>1, <1>2, <2>2, <2>3 DEF CoreInv, TypeOK, SetInv, VariantInv
  <2>5. CoreInv'
    BY <2>2, <2>3, <2>4 DEF CoreInv, IsAFunction
  <2>6. p \in PrefixOf[p]
    BY PrefixAssumption
  <2>7. /\ DOMAIN metal' = {k \in DOMAIN metal : metal[k].pipeline \notin PrefixOf[p]}
        /\ IsAFunction(metal')
        /\ \A k \in DOMAIN metal' : metal'[k] = [metal[k] EXCEPT !.live = FALSE] \/ metal'[k] = metal[k]
    <3> DEFINE kept == KeepPointers(DOMAIN sets[p].variants)
    <3>1. /\ DOMAIN kept = DOMAIN metal
          /\ \A k \in DOMAIN metal : /\ kept[k] = [metal[k] EXCEPT !.live = FALSE] \/ kept[k] = metal[k]
                                     /\ kept[k].pipeline = metal[k].pipeline
      BY DEF KeepPointers, ServiceInv, LibraryInv
    <3> HIDE DEF kept
    <3>2. metal' = HandlePipelineRecompiled(p, kept)
      BY <1>1, <1>4 DEF kept
    <3> QED
      BY <3>1, <3>2 DEF HandlePipelineRecompiled, IsAFunction
  <2>8. ASSUME NEW k \in DOMAIN metal' PROVE LibraryInv(k)'
    <3> DEFINE q == metal[k].pipeline
    <3>1. /\ k \in DOMAIN metal /\ q # p
          /\ metal[k] = [metal[k] EXCEPT !.live = metal[k].live] /\ metal[k].live \in BOOLEAN
          /\ q \in DOMAIN sets /\ sets[q].astCached
      BY <2>6, <2>7 DEF ServiceInv, LibraryInv
    <3>2. q \in DOMAIN sets' /\ sets'[q].astCached /\ sets'[q].ast = sets[q].ast
      BY <2>2, <3>1
    <3>3. CASE metal'[k] = metal[k]
      BY <1>1, <3>1, <3>2, <3>3, LibraryStep
    <3>4. CASE metal'[k] = [metal[k] EXCEPT !.live = FALSE]
      BY <1>1, <3>1, <3>2, <3>4, LibraryStep
    <3> QED
      BY <2>7, <3>3, <3>4
  <2> QED
    BY <1>1, <2>5, <2>7, <2>8 DEF ServiceInv, IsAFunction
<1> QED
  BY <1>3, <1>4

LEMMA MetalShutdownStep == ServiceInv /\ MetalShutdown => ServiceInv'
<1> SUFFICES ASSUME ServiceInv, MetalShutdown PROVE ServiceInv'
  OBVIOUS
<1>1. /\ UNCHANGED <<disk, edits, changed, validates, recent>>
      /\ DOMAIN sets' = {} /\ IsAFunction(sets') /\ DOMAIN metal' = {} /\ IsAFunction(metal') /\ open' = FALSE
  BY DEF MetalShutdown, Shutdown, IsAFunction
<1>2. CoreInv'
  BY <1>1 DEF ServiceInv, CoreInv, TypeOK, IsAFunction
<1> QED
  BY <1>1, <1>2 DEF ServiceInv, IsAFunction

LEMMA WorldStep == ServiceInv /\ World => ServiceInv'
<1> SUFFICES ASSUME ServiceInv, World PROVE ServiceInv'
  OBVIOUS
<1>1. CASE Edit
  <2>1. PICK p \in Pipelines, content \in Contents \cup {NoContent} : EditFile(p, content)
    BY <1>1 DEF Edit
  <2>2. /\ UNCHANGED <<validates, sets, recent, metal, open>>
        /\ disk' = [disk EXCEPT ![p] = content] /\ changed' = changed \cup {p}
        /\ edits < MaxEdits /\ edits' = edits + 1
    BY <2>1 DEF World, EditFile, Edit, ToggleValidator
  <2>3. TypeOK'
    BY <2>2, CoreAssumption DEF ServiceInv, CoreInv, TypeOK
  <2>4. \A q \in DOMAIN sets' : q \notin changed' => q \notin changed /\ disk'[q] = disk[q]
    BY <2>2 DEF ServiceInv, CoreInv, TypeOK
  <2>5. CoreInv'
    BY <2>2, <2>3, <2>4 DEF ServiceInv, CoreInv, IsAFunction
  <2> QED
    BY <2>2, <2>5 DEF ServiceInv, LibraryInv, IsAFunction
<1>2. CASE ToggleValidator
  <2>1. UNCHANGED <<disk, edits, changed, sets, recent, metal, open>> /\ validates' \in BOOLEAN
    BY <1>2 DEF World, ToggleValidator
  <2>2. TypeOK'
    BY <2>1 DEF ServiceInv, CoreInv, TypeOK
  <2>3. CoreInv'
    BY <2>1, <2>2 DEF ServiceInv, CoreInv, IsAFunction
  <2> QED
    BY <2>1, <2>3 DEF ServiceInv, LibraryInv, IsAFunction
<1> QED
  BY <1>1, <1>2 DEF World

LEMMA ServiceInvNext == ServiceInv /\ [MetalNext]_vars => ServiceInv'
<1> SUFFICES ASSUME ServiceInv, [MetalNext]_vars PROVE ServiceInv'
  OBVIOUS
<1>1. ASSUME NEW p \in Pipelines, NEW pass \in Passes, NEW mask \in Masks, NEW mode \in Modes,
             NEW built \in BOOLEAN, MetalMiss(p, pass, mask, mode, built)
      PROVE  ServiceInv'
  BY <1>1, MetalMissStep
<1>2. CASE MetalPrecompile
  BY <1>2, MetalPrecompileStep
<1>3. CASE MetalShutdown
  BY <1>3, MetalShutdownStep
<1>4. ASSUME NEW p \in Pipelines, MetalFileChange(p) PROVE ServiceInv'
  BY <1>4, MetalFileChangeStep
<1>5. CASE World
  BY <1>5, WorldStep
<1>6. CASE UNCHANGED vars
  BY <1>6, StutterStep
<1> QED
  BY <1>1, <1>2, <1>3, <1>4, <1>5, <1>6 DEF MetalNext, MetalCall

THEOREM ServiceInvariant == MetalSpec => []ServiceInv
BY ServiceInvInit, ServiceInvNext, PTL DEF MetalSpec

----------------------------------------------------------------------------
(* What the runs check on two pipelines.                                   *)

(* Both services keep their shape, and every Metal library is filed under  *)
(* the key of what it was built for (TrackVariantUsage keeps its bound).   *)
THEOREM ServicesTypeCorrect == MetalSpec => []MetalTypeOK
<1>1. ServiceInv => MetalTypeOK
  BY DEF ServiceInv, CoreInv, LibraryInv, MetalTypeOK
<1> QED
  BY <1>1, ServiceInvariant, PTL

(* Every cached variant was compiled from the cached syntax tree, and from *)
(* the file as it is once the watcher has caught up (HandleFileChange and  *)
(* EnsureASTCached), whatever the lengths of names.                        *)
THEOREM VariantsAreFresh == MetalSpec => []NoStaleVariant
<1>1. ServiceInv => NoStaleVariant
  BY DEF ServiceInv, CoreInv, SetInv, VariantInv, NoStaleVariant
<1> QED
  BY <1>1, ServiceInvariant, PTL

(* As long as no name fills the key's buffer, a caller gets the variant it *)
(* asks for, and one that compiles (GetOrCompileVariant).                  *)
THEOREM CallersGetTheirVariant ==
  ASSUME LongPasses = {}
  PROVE  MetalSpec => []RightVariant
<1>1. ServiceInv => RightVariant
  <2> SUFFICES ASSUME ServiceInv, NEW p \in DOMAIN sets, NEW pass \in Passes, NEW mask \in Masks, NEW mode \in Modes,
                      NEW v \in GetOrCompileVariant(p, pass, mask, mode).got
               PROVE  /\ v.pass = pass /\ v.mask = mask
                      /\ v.pass \in Declares[v.from] /\ <<v.pass, v.mask>> \notin Failing[v.from]
    BY DEF RightVariant
  <2> DEFINE after == GetOrCompileVariant(p, pass, mask, mode).sets[p]
             key == MakeVariantKey(p, pass, mask)
  <2>1. v = after.variants[key] /\ VariantInv(p, after, key)
    BY CallFacts DEF ServiceInv
  <2> HIDE DEF after, key
  <2>2. key = MakeVariantKey(p, v.pass, v.mask)
    BY <2>1 DEF VariantInv
  <2>3. v.pass = pass /\ v.mask = mask
    BY <2>2, KeyFacts DEF key
  <2> QED
    BY <2>1, <2>3 DEF VariantInv
<1> QED
  BY <1>1, ServiceInvariant, PTL

(* Every Metal library was built from the syntax tree the core has cached, *)
(* and none is left of a core that was shut down                           *)
(* (HandlePipelineRecompiled and Shutdown).                                *)
THEOREM LibrariesAreFresh == MetalSpec => []LibrariesFollowTheCore
<1>1. ServiceInv => LibrariesFollowTheCore
  BY DEF ServiceInv, CoreInv, LibraryInv, LibrariesFollowTheCore
<1> QED
  BY <1>1, ServiceInvariant, PTL

(* A reload compiles again what was used recently and still compiles, an   *)
(* earlier failure notwithstanding (RecompileRecentVariants).              *)
THEOREM RecentVariantsReturn ==
  ASSUME LongPasses = {}
  PROVE  MetalSpec => ReloadBringsBackRecent
<1> DEFINE Back(p) == HandleFileChange(p) /\ p \in DOMAIN sets =>
             \A k \in DOMAIN recent :
               recent[k].pipeline = p /\ Compiles(EmptySet, disk[p], recent[k].pass, recent[k].mask)
                 => \E v \in DOMAIN sets'[p].variants :
                      sets'[p].variants[v].pass = recent[k].pass /\ sets'[p].variants[v].mask = recent[k].mask
<1>1. ServiceInv /\ [MetalNext]_vars => [\A p \in Pipelines : Back(p)]_coreVars
  <2> SUFFICES ASSUME ServiceInv, NEW p \in Pipelines, HandleFileChange(p), p \in DOMAIN sets PROVE Back(p)
    OBVIOUS
  <2> DEFINE new == Recompiled(p)
  <2>1. /\ IsAFunction(sets)
        /\ \A k \in DOMAIN recent :
             recent[k].pipeline = p /\ Compiles(EmptySet, disk[p], recent[k].pass, recent[k].mask) =>
               \E v \in DOMAIN new.variants :
                 new.variants[v].pass = recent[k].pass /\ new.variants[v].mask = recent[k].mask
    BY RecompiledFacts DEF ServiceInv, CoreInv
  <2> HIDE DEF new
  <2>2. sets'[p] = new
    BY <2>1 DEF HandleFileChange, IsAFunction, new
  <2> QED
    BY <2>1, <2>2
<1> QED
  BY <1>1, ServiceInvariant, PTL DEF MetalSpec, ReloadBringsBackRecent

(* The step in which an entry loses its variant.                           *)
LEMMA DeadOnlyByFailure ==
  ASSUME LongPasses = {}, ServiceInv, [MetalNext]_vars, NEW k \in DOMAIN metal',
         ~metal'[k].live, k \in DOMAIN metal => metal[k].live
  PROVE  /\ \A p \in Pipelines : ~MetalFileChange(p)
         /\ MetalPrecompile /\ ~validates
<1>1. ASSUME NEW p \in Pipelines, NEW pass \in Passes, NEW mask \in Masks, NEW mode \in Modes,
             NEW built \in BOOLEAN, MetalMiss(p, pass, mask, mode, built)
      PROVE  FALSE
  <2> DEFINE result == GetOrCompileVariant(p, pass, mask, mode)
             got == IF p \in DOMAIN sets /\ open /\ built THEN result.got ELSE {}
             entries == {[pipeline |-> p, pass |-> pass, mask |-> mask, from |-> v.from, live |-> TRUE] : v \in got}
             new == CHOOSE e \in entries : TRUE
             key == MakeVariantKey(p, pass, mask)
  <2>1. key \notin DOMAIN metal /\ metal' = IF entries = {} THEN metal ELSE With(metal, key, new)
    BY <1>1 DEF MetalMiss
  <2>2. entries # {} => new.live
    <3> SUFFICES ASSUME entries # {} PROVE new.live
      OBVIOUS
    <3>1. new \in entries
      OBVIOUS
    <3> QED
      BY <3>1
  <2> HIDE DEF entries, new, key
  <2> QED
    BY <2>1, <2>2 DEF With
<1>2. ASSUME MetalPrecompile PROVE ~validates
  <2>1. /\ k \in DOMAIN metal /\ k \in ErasedByPrecompile
    BY <1>2 DEF MetalPrecompile, KeepPointers
  <2>2. PICK job \in (DOMAIN sets) \X (Passes \X CommonMasks) :
          /\ k = MakeVariantKey(job[1], job[2][1], job[2][2])
          /\ sets[job[1]].astCached /\ job[2][1] \in Declares[sets[job[1]].ast]
          /\ ~Compiles(sets[job[1]], disk[job[1]], job[2][1], job[2][2])
    BY <2>1 DEF ErasedByPrecompile
  <2>3. /\ k = MakeVariantKey(metal[k].pipeline, metal[k].pass, metal[k].mask)
        /\ metal[k].from = sets[metal[k].pipeline].ast
        /\ <<metal[k].pass, metal[k].mask>> \notin Failing[metal[k].from]
    BY <2>1 DEF ServiceInv, LibraryInv
  <2>4. metal[k].pipeline = job[1] /\ metal[k].pass = job[2][1] /\ metal[k].mask = job[2][2]
    BY <2>2, <2>3, KeyFacts
  <2> QED
    BY <2>2, <2>3, <2>4 DEF Compiles, EnsureASTCached
<1>3. ASSUME MetalShutdown PROVE FALSE
  BY <1>3 DEF MetalShutdown
<1>4. ASSUME NEW p \in Pipelines, MetalFileChange(p) PROVE FALSE
  <2>1. CASE p \notin DOMAIN sets
    BY <1>4, <2>1 DEF MetalFileChange
  <2>2. CASE p \in DOMAIN sets
    <3> DEFINE erased == DOMAIN sets[p].variants
    <3>1. /\ k \in DOMAIN metal /\ k \in erased /\ KeepPointers(erased)[k].pipeline \notin PrefixOf[p]
      BY <1>4, <2>2 DEF MetalFileChange, HandlePipelineRecompiled, KeepPointers
    <3>2. KeepPointers(erased)[k].pipeline = metal[k].pipeline
      BY <3>1 DEF KeepPointers, ServiceInv, LibraryInv
    <3>3. VariantInv(p, sets[p], k) /\ k = MakeVariantKey(metal[k].pipeline, metal[k].pass, metal[k].mask)
      BY <2>2, <3>1 DEF ServiceInv, CoreInv, SetInv, LibraryInv
    <3>4. metal[k].pipeline = p
      BY <3>3, KeyFacts DEF VariantInv
    <3> QED
      BY <3>1, <3>2, <3>4, PrefixAssumption
  <2> QED
    BY <2>1, <2>2
<1>5. ASSUME World \/ UNCHANGED vars PROVE FALSE
  BY <1>5 DEF World, vars
<1> QED
  BY <1>1, <1>2, <1>3, <1>4, <1>5 DEF MetalNext, MetalCall

(* As long as no name fills the key's buffer, no reload takes the variant  *)
(* away that a Metal entry points to (HandleFileChange erases a pipeline's *)
(* variants, HandlePipelineRecompiled its entries), and only a             *)
(* precompilation without spirv-val does.                                  *)
THEOREM PointersStayAlive ==
  ASSUME LongPasses = {}
  PROVE  MetalSpec => ReloadsLeaveNoDeadPointer
<1>1. ServiceInv /\ [MetalNext]_vars =>
        [\A k \in DOMAIN metal' :
           ~metal'[k].live /\ (k \in DOMAIN metal => metal[k].live) =>
             /\ \A p \in Pipelines : ~MetalFileChange(p)
             /\ MetalPrecompile /\ ~validates]_vars
  BY DeadOnlyByFailure
<1> QED
  BY <1>1, ServiceInvariant, PTL DEF MetalSpec, ReloadsLeaveNoDeadPointer
=============================================================================
