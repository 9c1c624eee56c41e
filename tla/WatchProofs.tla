----------------------------- MODULE WatchProofs -----------------------------
(***************************************************************************)
(* The watch loop misses no change but those that escape it in one of the  *)
(* three ways that Escapes names, for all sets of units, files, search     *)
(* paths and imports and any number of edits at any moments.               *)
(***************************************************************************)
EXTENDS Watch, WellFoundedInduction, TLAPS

(* A job whose output is that of its last compilation, or of the one that  *)
(* is going on and has read the source.                                    *)
Compiled(u) == u \in ToSet(jobs) /\ (u \notin todo \/ (pc = "import" /\ u = Current))

(* The loop has not seen f, or it will try the jobs that missed it.        *)
Unseen(f) ==
  IF f \in ModuleFiles THEN f \notin listing
  ELSE f \notin ToSet(jobs) \/ (jobsAdded /\ pc \in {"sources", "modules", "directories"})

(* What was read from p is what is there, or the loop can tell, or it was  *)
(* looked at too late.                                                     *)
Traced(p, e) ==
  /\ e.stamp # 0 /\ e.stamp <= file[p].stamp
  /\ \/ p \in late \cup e.news
     \/ IF p \in DOMAIN moduleSigs THEN moduleSigs[p] # 0 /\ moduleSigs[p] <= e.stamp
                                   ELSE Stat(p) = e.stamp

(* The files whose coming the loop sees to, for a module that was found    *)
(* and for one that was not; and the k-th file would still be the first    *)
(* one there, for all the loop has seen of them.                           *)
Watched(e) == ModuleFiles \cup (IF e.path = Nowhere THEN Units ELSE {})
StillFirst(paths, k, e) ==
  \A i \in 1..(k - 1) : paths[i] \in Watched(e) => Unseen(paths[i]) \/ paths[i] \in e.news

(* What was loaded for module n of directory d.                            *)
Entries == [path : Files \cup {Nowhere}, news : SUBSET Files, stamp : Nat, imports : SUBSET Names]
EntryInv(d, n, e) ==
  /\ e \in Entries
  /\ IF e.path = Nowhere THEN StillFirst(Candidates[d][n], Len(Candidates[d][n]) + 1, e)
     ELSE /\ Traced(e.path, e)
          /\ \E k \in 1..Len(Candidates[d][n]) :
               /\ Candidates[d][n][k] = e.path /\ StillFirst(Candidates[d][n], k, e)
               /\ \A i \in 1..(k - 1) : Candidates[d][n][i] # e.path

ImportInv(u, n) ==
  /\ n \in Names
  /\ \E e \in Entries :
       /\ e = state[u].output.modules[n] /\ EntryInv(Directory[u], n, e)
       /\ IF e.path = Nowhere THEN state[u].failed ELSE e.path \in state[u].deps

FileInv == file \in [Files -> [exists : BOOLEAN, stamp : Nat \ {0}, imports : SUBSET Names]]

LoopInv ==
  /\ jobs \in Seq(Units) /\ todo \subseteq ToSet(jobs) /\ listing \subseteq ModuleFiles
  /\ pc \in Building \cup {"wait", "sources", "modules", "directories", "settle", "stopped"}
  /\ pc \in {"read", "import"} => todo # {}
  /\ pc = "wait" => todo = {}
  /\ wanted \subseteq Names

JobInv ==
  /\ DOMAIN state = Units
  /\ \A u \in Units : state[u].sourceSig \in Nat /\ state[u].deps \subseteq Files

SourceInv ==
  \A u \in Units :
    /\ state[u].sourceSig <= file[u].stamp
    /\ Compiled(u) /\ file[u].exists /\ file[u].stamp = state[u].sourceSig
         => state[u].output.source = file[u].stamp

ModulesInv == \A u \in Units : Compiled(u) => \A n \in DOMAIN state[u].output.modules : ImportInv(u, n)

CacheInv ==
  pc \in Building =>
    \A k \in DOMAIN cache : \E d \in DOMAIN Candidates, n \in Names, e \in Entries :
      k = <<d, n>> /\ e = cache[k] /\ EntryInv(d, n, e)

(* A module a job depends on is signed, or was read in this build.         *)
CachePaths == {cache[k].path : k \in DOMAIN cache}
SigsInv ==
  /\ DOMAIN moduleSigs \subseteq Files
  /\ \A p \in DOMAIN moduleSigs : moduleSigs[p] \in Nat /\ moduleSigs[p] <= file[p].stamp
  /\ late \subseteq Files
  /\ \A u \in ToSet(jobs) :
       state[u].deps \subseteq DOMAIN moduleSigs \cup (IF pc \in Building THEN CachePaths ELSE {})

WatchInv == FileInv /\ LoopInv /\ JobInv /\ SourceInv /\ ModulesInv /\ CacheInv /\ SigsInv

----------------------------------------------------------------------------
(* Induction, for the proofs about sequences.                              *)

LEMMA NatSetInduction ==
  ASSUME NEW S, 0 \in S, \A n \in Nat : n \in S => n + 1 \in S
  PROVE  Nat \subseteq S
<1> DEFINE T == Nat \ S
           R == OpToRel(<, Nat)
<1> SUFFICES ASSUME T # {} PROVE FALSE
  OBVIOUS
<1>1. PICK x \in T : \A y \in T : ~ (<<y, x>> \in R)
  <2>1. IsWellFoundedOn(R, Nat) /\ T \subseteq Nat
    BY NatLessThanWellFounded
  <2> HIDE DEF T, R
  <2> QED
    BY <2>1, WFMin
<1>2. x \in Nat /\ x # 0 /\ x - 1 \in Nat /\ (x - 1) + 1 = x
  OBVIOUS
<1>3. <<x - 1, x>> \in R
  BY <1>2 DEF OpToRel
<1>4. x - 1 \in S
  BY <1>1, <1>2, <1>3
<1> QED
  BY <1>2, <1>4

(* The sequences Keep builds, one element after the other.                 *)
IsKept(f, s, S, m) ==
  /\ f = [n \in 0..m |-> f[n]]
  /\ f[0] = <<>>
  /\ \A n \in 1..m : f[n] = IF s[n] \in S THEN Append(f[n - 1], s[n]) ELSE f[n - 1]

LEMMA KeepSteps ==
  ASSUME NEW s, NEW S, NEW m \in Nat
  PROVE  \E f : IsKept(f, s, S, m)
<1> DEFINE R == {n \in Nat : \E f : IsKept(f, s, S, n)}
<1>1. 0 \in R
  <2> DEFINE f == [n \in 0..0 |-> <<>>]
  <2>1. IsKept(f, s, S, 0)
    BY DEF IsKept
  <2> QED
    BY <2>1
<1>2. ASSUME NEW n \in Nat, n \in R PROVE n + 1 \in R
  <2> PICK f : IsKept(f, s, S, n)
    BY <1>2
  <2> DEFINE last == IF s[n + 1] \in S THEN Append(f[n], s[n + 1]) ELSE f[n]
             g == [k \in 0..(n + 1) |-> IF k = n + 1 THEN last ELSE f[k]]
  <2>1. g = [k \in 0..(n + 1) |-> g[k]] /\ g[0] = <<>>
    BY DEF IsKept
  <2>2. ASSUME NEW k \in 1..(n + 1)
        PROVE  g[k] = IF s[k] \in S THEN Append(g[k - 1], s[k]) ELSE g[k - 1]
    <3>1. CASE k = n + 1
      BY <3>1
    <3>2. CASE k # n + 1
      <4>1. k \in 1..n /\ k - 1 \in 0..n /\ k - 1 # n + 1
        BY <3>2
      <4>2. g[k] = f[k] /\ g[k - 1] = f[k - 1]
        BY <3>2, <4>1
      <4> HIDE DEF g
      <4> QED
        BY <4>1, <4>2 DEF IsKept
    <3> QED
      BY <3>1, <3>2
  <2> HIDE DEF g
  <2>3. IsKept(g, s, S, n + 1)
    BY <2>1, <2>2 DEF IsKept
  <2> QED
    BY <2>3
<1> HIDE DEF R
<1>3. m \in R
  BY <1>1, <1>2, NatSetInduction
<1> QED
  BY <1>3 DEF R

LEMMA KeepIsKept ==
  ASSUME NEW T, NEW s \in Seq(T), NEW S
  PROVE  \E f : IsKept(f, s, S, Len(s)) /\ Keep(s, S) = f[Len(s)]
<1> DEFINE Step(f, n) == IF n = 0 THEN <<>>
                         ELSE IF s[n] \in S THEN Append(f[n - 1], s[n]) ELSE f[n - 1]
           f == CHOOSE f : f = [n \in 0..Len(s) |-> Step(f, n)]
<1>1. \E g : g = [n \in 0..Len(s) |-> Step(g, n)]
  <2>0. Len(s) \in Nat
    OBVIOUS
  <2> PICK g : IsKept(g, s, S, Len(s))
    BY <2>0, KeepSteps
  <2>1. ASSUME NEW n \in 0..Len(s) PROVE g[n] = Step(g, n)
    <3>1. CASE n = 0
      BY <3>1 DEF IsKept
    <3>2. CASE n # 0
      <4>1. n \in 1..Len(s)
        BY <2>0, <3>2
      <4> QED
        BY <3>2, <4>1 DEF IsKept
    <3> QED
      BY <3>1, <3>2
  <2> HIDE DEF Step
  <2>2. g = [n \in 0..Len(s) |-> Step(g, n)]
    BY <2>1 DEF IsKept
  <2> QED
    BY <2>2
<1> HIDE DEF Step
<1>2. f = [n \in 0..Len(s) |-> Step(f, n)]
  BY <1>1
<1> HIDE DEF f
<1>3. IsKept(f, s, S, Len(s))
  <2>0. Len(s) \in Nat /\ \A n \in 0..Len(s) : f[n] = Step(f, n)
    BY <1>2
  <2>1. f[0] = <<>>
    BY <2>0 DEF Step
  <2>2. ASSUME NEW n \in 1..Len(s)
        PROVE  f[n] = IF s[n] \in S THEN Append(f[n - 1], s[n]) ELSE f[n - 1]
    BY <2>0, <2>2 DEF Step
  <2>3. f = [n \in 0..Len(s) |-> f[n]]
    BY <1>2
  <2> QED
    BY <2>1, <2>2, <2>3 DEF IsKept
<1>4. Keep(s, S) = f[Len(s)]
  BY DEF Keep, f, Step
<1> QED
  BY <1>3, <1>4

LEMMA AppendElements ==
  ASSUME NEW T, NEW s \in Seq(T), NEW x \in T
  PROVE  \A y : y \in ToSet(Append(s, x)) <=> y = x \/ y \in ToSet(s)
<1> DEFINE t == Append(s, x)
<1>1. /\ DOMAIN t = 1..(Len(s) + 1) /\ DOMAIN s = 1..Len(s) /\ Len(s) \in Nat
      /\ t[Len(s) + 1] = x /\ \A k \in 1..Len(s) : t[k] = s[k]
  OBVIOUS
<1>2. \A k \in 1..(Len(s) + 1) : k \in 1..Len(s) \/ k = Len(s) + 1
  BY <1>1
<1>3. Len(s) + 1 \in 1..(Len(s) + 1) /\ \A k \in 1..Len(s) : k \in 1..(Len(s) + 1)
  BY <1>1
<1> HIDE DEF t
<1>4. \A y : y \in ToSet(t) <=> y = x \/ y \in ToSet(s)
  BY <1>1, <1>2, <1>3 DEF ToSet
<1> QED
  BY <1>4 DEF t

(* Keep drops what is not in S and nothing else.                           *)
LEMMA KeepFacts ==
  ASSUME NEW T, NEW s \in Seq(T), NEW S
  PROVE  Keep(s, S) \in Seq(T) /\ ToSet(Keep(s, S)) = ToSet(s) \cap S
<1> PICK f : IsKept(f, s, S, Len(s)) /\ Keep(s, S) = f[Len(s)]
  BY KeepIsKept
<1> DEFINE Good(n) == f[n] \in Seq(T) /\ \A x : x \in ToSet(f[n]) <=> x \in S /\ \E k \in 1..n : s[k] = x
           R == {n \in Nat : n <= Len(s) => Good(n)}
<1>1. 0 \in R
  <2>1. f[0] = <<>> /\ f[0] \in Seq(T) /\ ToSet(f[0]) = {}
    BY DEF IsKept, ToSet
  <2>2. \A k \in 1..0 : FALSE
    OBVIOUS
  <2>3. Good(0)
    BY <2>1, <2>2
  <2> QED
    BY <2>3
<1>2. ASSUME NEW n \in Nat, n \in R PROVE n + 1 \in R
  <2> SUFFICES ASSUME n + 1 <= Len(s) PROVE Good(n + 1)
    OBVIOUS
  <2>1. n + 1 \in 1..Len(s) /\ s[n + 1] \in T /\ (n + 1) - 1 = n /\ n <= Len(s)
    OBVIOUS
  <2>2. Good(n)
    BY <1>2, <2>1
  <2>3. f[n + 1] = IF s[n + 1] \in S THEN Append(f[n], s[n + 1]) ELSE f[n]
    BY <2>1 DEF IsKept
  <2>4. \A x : (\E k \in 1..(n + 1) : s[k] = x) <=> s[n + 1] = x \/ \E k \in 1..n : s[k] = x
    <3>1. \A k \in 1..(n + 1) : k \in 1..n \/ k = n + 1
      BY <2>1
    <3>2. n + 1 \in 1..(n + 1) /\ \A k \in 1..n : k \in 1..(n + 1)
      BY <2>1
    <3> QED
      BY <3>1, <3>2
  <2>5. CASE s[n + 1] \in S
    <3>1. f[n + 1] = Append(f[n], s[n + 1]) /\ f[n + 1] \in Seq(T)
      BY <2>1, <2>2, <2>3, <2>5
    <3>2. \A x : x \in ToSet(f[n + 1]) <=> x = s[n + 1] \/ x \in ToSet(f[n])
      BY <2>1, <2>2, <3>1, AppendElements
    <3> QED
      BY <2>2, <2>4, <2>5, <3>1, <3>2
  <2>6. CASE s[n + 1] \notin S
    BY <2>2, <2>3, <2>4, <2>6
  <2> QED
    BY <2>5, <2>6
<1> HIDE DEF R
<1>3. Len(s) \in R
  BY <1>1, <1>2, NatSetInduction
<1>4. Len(s) \in Nat /\ DOMAIN s = 1..Len(s)
  OBVIOUS
<1>5. Good(Len(s))
  BY <1>3, <1>4 DEF R
<1>6. \A x : x \in ToSet(s) <=> \E k \in 1..Len(s) : s[k] = x
  BY <1>4 DEF ToSet
<1> HIDE DEF Good
<1>7. \A x : x \in ToSet(f[Len(s)]) <=> x \in S /\ x \in ToSet(s)
  BY <1>5, <1>6 DEF Good
<1> QED
  BY <1>5, <1>7 DEF Good

----------------------------------------------------------------------------
(* What the loop's own operators return.                                   *)

LEMMA LeastIndex ==
  ASSUME NEW I, I \subseteq Nat, I # {}
  PROVE  Min(I) \in I /\ \A j \in I : Min(I) <= j
<1> DEFINE R == OpToRel(<, Nat)
<1>1. PICK x \in I : \A y \in I : ~ (<<y, x>> \in R)
  <2>1. IsWellFoundedOn(R, Nat)
    BY NatLessThanWellFounded
  <2> HIDE DEF R
  <2> QED
    BY <2>1, WFMin
<1>2. ASSUME NEW y \in I, y < x PROVE FALSE
  <2>1. x \in Nat /\ y \in Nat
    OBVIOUS
  <2>2. <<y, x>> \in R
    BY <1>2, <2>1 DEF OpToRel
  <2> QED
    BY <1>1, <2>2
<1>3. x \in Nat /\ \A y \in I : y \in Nat /\ x <= y
  BY <1>2
<1> QED
  BY <1>3 DEF Min

(* The job that is compiled is a dirty one.                                *)
LEMMA CurrentIsDirty ==
  ASSUME LoopInv, todo # {}
  PROVE  Current \in todo /\ Current \in ToSet(jobs) /\ Current \in Units
<1> DEFINE I == {i \in 1..Len(jobs) : jobs[i] \in todo}
<1>1. /\ jobs \in Seq(Units) /\ Len(jobs) \in Nat /\ DOMAIN jobs = 1..Len(jobs)
      /\ \A i \in 1..Len(jobs) : jobs[i] \in Units
  BY DEF LoopInv
<1>2. PICK u : u \in todo /\ u \in ToSet(jobs)
  BY DEF LoopInv
<1>3. I # {} /\ I \subseteq Nat
  BY <1>1, <1>2 DEF ToSet
<1>4. Min(I) \in I
  BY <1>3, LeastIndex
<1>5. Current = jobs[Min(I)]
  BY <1>3 DEF Current, SelectInSeq
<1> QED
  BY <1>1, <1>4, <1>5 DEF ToSet

LEMMA CurrentStays ==
  ASSUME jobs' = jobs, todo' = todo
  PROVE  Current' = Current
BY DEF Current, SelectInSeq

(* A module is searched in order.                                          *)
LEMMA ResolveFacts ==
  ASSUME NEW u \in Units, NEW n \in Names, NEW paths, paths = Candidates[Directory[u]][n]
  PROVE  /\ paths \in Seq(Files) /\ Len(paths) \in Nat /\ \A k \in 1..Len(paths) : paths[k] \in Files
         /\ \/ Resolve(u, n) = Nowhere /\ \A k \in 1..Len(paths) : ~file[paths[k]].exists
            \/ \E k \in 1..Len(paths) : /\ Resolve(u, n) = paths[k] /\ file[paths[k]].exists
                                        /\ \A i \in 1..(k - 1) : ~file[paths[i]].exists
<1> DEFINE I == {i \in 1..Len(paths) : file[paths[i]].exists}
<1>1. paths \in Seq(Files)
  BY WatchAssumption
<1>2. Len(paths) \in Nat /\ \A k \in 1..Len(paths) : paths[k] \in Files
  BY <1>1
<1>3. Resolve(u, n) = IF (IF I # {} THEN Min(I) ELSE 0) = 0 THEN Nowhere
                      ELSE paths[IF I # {} THEN Min(I) ELSE 0]
  BY DEF Resolve, SelectInSeq
<1>4. CASE I = {}
  BY <1>1, <1>2, <1>3, <1>4
<1>5. CASE I # {}
  <2>1. I \subseteq Nat
    BY <1>2
  <2>0. Min(I) \in I /\ \A j \in I : Min(I) <= j
    <3> HIDE DEF I
    <3> QED
      BY <1>5, <2>1, LeastIndex
  <2> PICK k : k = Min(I) /\ k \in I /\ \A j \in I : k <= j
    <3> HIDE DEF I
    <3> QED
      BY <2>0
  <2>2. k \in 1..Len(paths) /\ file[paths[k]].exists
    OBVIOUS
  <2>3. k \in Nat /\ k # 0
    <3>1. Len(paths) \in Nat /\ k \in 1..Len(paths)
      BY <1>2, <2>2
    <3> HIDE DEF I
    <3> QED
      BY ONLY <3>1
  <2>4. Resolve(u, n) = paths[k]
    BY <1>3, <1>5, <2>3
  <2>5. \A i \in 1..(k - 1) : ~file[paths[i]].exists
    <3>1. \A i \in 1..(k - 1) : i \in 1..Len(paths) /\ ~(k <= i)
      <4> HIDE DEF I
      <4> QED
        BY <1>2, <2>2, <2>3
    <3> QED
      BY <3>1
  <2> QED
    BY <1>1, <1>2, <2>2, <2>4, <2>5
<1> QED
  BY <1>4, <1>5

(* What is known of a module that was loaded stays true in a step that     *)
(* neither hides a change of its file nor shows the loop one that comes    *)
(* before it.                                                              *)
LEMMA EntryKept ==
  ASSUME NEW d \in DOMAIN Candidates, NEW n \in Names, NEW e, EntryInv(d, n, e),
         e.path # Nowhere => (Traced(e.path, e) => Traced(e.path, e)'),
         \A f \in Watched(e) : Unseen(f) => Unseen(f)'
  PROVE  EntryInv(d, n, e)'
<1> DEFINE paths == Candidates[d][n]
<1>1. \A k : StillFirst(paths, k, e) => StillFirst(paths, k, e)'
  BY DEF StillFirst, Watched
<1> QED
  BY <1>1 DEF EntryInv

LEMMA EntryUntouched ==
  ASSUME file' = file, moduleSigs' = moduleSigs, late' = late, \A f : Unseen(f) => Unseen(f)'
  PROVE  \A d \in DOMAIN Candidates, n \in Names : \A e : EntryInv(d, n, e) => EntryInv(d, n, e)'
<1> SUFFICES ASSUME NEW d \in DOMAIN Candidates, NEW n \in Names, NEW e, EntryInv(d, n, e)
             PROVE  EntryInv(d, n, e)'
  OBVIOUS
<1>1. Traced(e.path, e) => Traced(e.path, e)'
  BY DEF Traced, Stat
<1> QED
  BY <1>1, EntryKept

(* A compiled job keeps what it was compiled from in a step that does not  *)
(* touch it.                                                               *)
LEMMA ModulesKept ==
  ASSUME NEW u \in Units, \A n \in DOMAIN state[u].output.modules : ImportInv(u, n),
         state'[u].output = state[u].output, state'[u].deps = state[u].deps,
         state'[u].failed = state[u].failed,
         \A n \in Names, e \in Entries :
           EntryInv(Directory[u], n, e) /\ (e.path # Nowhere => e.path \in state[u].deps)
                                        /\ (e.path = Nowhere => state[u].failed)
             => EntryInv(Directory[u], n, e)'
  PROVE  \A n \in DOMAIN state'[u].output.modules : ImportInv(u, n)'
<1> SUFFICES ASSUME NEW n \in DOMAIN state[u].output.modules PROVE ImportInv(u, n)'
  OBVIOUS
<1>1. ImportInv(u, n)
  OBVIOUS
<1>2. PICK e \in Entries :
        /\ e = state[u].output.modules[n] /\ EntryInv(Directory[u], n, e)
        /\ IF e.path = Nowhere THEN state[u].failed ELSE e.path \in state[u].deps
  BY <1>1 DEF ImportInv
<1>3. n \in Names
  BY <1>1 DEF ImportInv
<1>4. EntryInv(Directory[u], n, e)'
  BY <1>2, <1>3
<1> QED
  BY <1>2, <1>3, <1>4 DEF ImportInv

LEMMA CacheKept ==
  ASSUME CacheInv, pc \in Building, cache' = cache,
         \A d \in DOMAIN Candidates, n \in Names : \A e : EntryInv(d, n, e) => EntryInv(d, n, e)'
  PROVE  CacheInv'
<1> SUFFICES ASSUME NEW k \in DOMAIN cache
             PROVE  \E d \in DOMAIN Candidates, n \in Names, e \in Entries :
                      k = <<d, n>> /\ e = cache[k] /\ EntryInv(d, n, e)'
  BY DEF CacheInv
<1> QED
  BY DEF CacheInv

LEMMA StatInType ==
  ASSUME FileInv, NEW f \in Files
  PROVE  /\ Stat(f) \in Nat /\ Stat(f) <= file[f].stamp /\ file[f].stamp \in Nat \ {0}
         /\ file[f].exists \in BOOLEAN /\ file[f].imports \subseteq Names
         /\ file[f].exists <=> Stat(f) # 0
         /\ file[f].exists => Stat(f) = file[f].stamp
<1>1. file[f] \in [exists : BOOLEAN, stamp : Nat \ {0}, imports : SUBSET Names]
  BY DEF FileInv
<1>2. file[f].exists \in BOOLEAN /\ file[f].stamp \in Nat \ {0} /\ file[f].imports \subseteq Names
  BY <1>1
<1> QED
  BY <1>2 DEF Stat

LEMMA UnitsAreFiles == Units \subseteq Files /\ \A u \in Units : Directory[u] \in DOMAIN Candidates
BY WatchAssumption DEF Files

----------------------------------------------------------------------------
(* What every part of a build keeps.                                       *)

LEMMA StartJobKeeps ==
  ASSUME WatchInv, StartJob
  PROVE  WatchInv'
<1> USE DEF WatchInv
<1> DEFINE c == Current
<1>1. c \in todo /\ c \in ToSet(jobs) /\ c \in Units
  BY CurrentIsDirty DEF StartJob
<1> HIDE DEF c
<1>2. /\ pc = "start" /\ todo # {} /\ pc' = "read" /\ file' = file /\ jobs' = jobs /\ todo' = todo
      /\ moduleSigs' = moduleSigs /\ late' = late /\ listing' = listing /\ cache' = cache /\ wanted' = wanted
      /\ jobsAdded' = jobsAdded
      /\ state' = [state EXCEPT ![c].sourceSig = Stat(c)]
  BY DEF StartJob, sigs, files, loop, c
<1>3. DOMAIN state = Units /\ Stat(c) \in Nat /\ Stat(c) <= file[c].stamp
  BY <1>1, StatInType, UnitsAreFiles DEF JobInv
<1>4. /\ DOMAIN state' = Units
      /\ \A u \in Units : u # c => state'[u] = state[u]
      /\ state'[c].sourceSig = Stat(c) /\ state'[c].deps = state[c].deps
  BY <1>1, <1>2, <1>3
<1>5. \A d \in DOMAIN Candidates, n \in Names : \A e : EntryInv(d, n, e) => EntryInv(d, n, e)'
  <2>1. \A f : Unseen(f) => Unseen(f)'
    BY <1>2 DEF Unseen
  <2> QED
    BY <1>2, <2>1, EntryUntouched
<1>6. FileInv'
  BY <1>2 DEF FileInv
<1>7. LoopInv'
  BY <1>2 DEF LoopInv, Building
<1>8. JobInv'
  <2>1. \A u \in Units : state[u].sourceSig \in Nat /\ state[u].deps \subseteq Files
    BY DEF JobInv
  <2>2. ASSUME NEW u \in Units PROVE state'[u].sourceSig \in Nat /\ state'[u].deps \subseteq Files
    <3>1. CASE u = c
      BY <1>3, <1>4, <2>1, <3>1
    <3>2. CASE u # c
      BY <1>4, <2>1, <3>2
    <3> QED
      BY <3>1, <3>2
  <2> QED
    BY <1>4, <2>2 DEF JobInv
<1>9. ASSUME NEW u \in Units, Compiled(u)'
      PROVE  u # c /\ Compiled(u)
  BY <1>1, <1>2, <1>9 DEF Compiled
<1>10. SourceInv'
  <2>1. ASSUME NEW u \in Units PROVE state'[u].sourceSig <= file'[u].stamp
    BY <1>2, <1>3, <1>4 DEF SourceInv
  <2>2. ASSUME NEW u \in Units, Compiled(u)', file'[u].exists, file'[u].stamp = state'[u].sourceSig
        PROVE  state'[u].output.source = file'[u].stamp
    BY <1>2, <1>4, <1>9, <2>2 DEF SourceInv
  <2> QED
    BY <2>1, <2>2 DEF SourceInv
<1>11. ModulesInv'
  <2> SUFFICES ASSUME NEW u \in Units, Compiled(u)'
               PROVE  \A n \in DOMAIN state'[u].output.modules : ImportInv(u, n)'
    BY DEF ModulesInv
  <2>1. \A n \in DOMAIN state[u].output.modules : ImportInv(u, n)
    BY <1>9 DEF ModulesInv
  <2>2. state'[u] = state[u]
    BY <1>4, <1>9
  <2> QED
    BY <1>5, <2>1, <2>2, ModulesKept, UnitsAreFiles
<1>12. CacheInv'
  BY <1>2, <1>5, CacheKept DEF Building
<1>13. SigsInv'
  <2>1. \A u \in ToSet(jobs)' : u \in Units /\ state'[u].deps = state[u].deps
    BY <1>1, <1>2, <1>4 DEF LoopInv, ToSet
  <2> QED
    BY <1>2, <2>1 DEF SigsInv, CachePaths, Building
<1> QED
  BY <1>6, <1>7, <1>8, <1>10, <1>11, <1>12, <1>13

LEMMA ReadSourceKeeps ==
  ASSUME WatchInv, ReadSource
  PROVE  WatchInv'
<1> USE DEF WatchInv
<1> DEFINE c == Current
           job == [NewJob EXCEPT !.sourceSig = state[c].sourceSig, !.output.source = Stat(c)]
<1>1. c \in todo /\ c \in ToSet(jobs) /\ c \in Units
  BY CurrentIsDirty DEF ReadSource, LoopInv
<1>2. /\ pc = "read" /\ pc' = "import" /\ file' = file /\ jobs' = jobs /\ todo' = todo
      /\ moduleSigs' = moduleSigs /\ late' = late /\ listing' = listing /\ cache' = cache /\ jobsAdded' = jobsAdded
      /\ state' = [state EXCEPT ![c] = job]
      /\ wanted' = IF file[c].exists THEN file[c].imports ELSE {}
  BY DEF ReadSource, sigs, files, loop
<1>3. /\ job.sourceSig = state[c].sourceSig /\ job.deps = {}
      /\ job.output.source = Stat(c) /\ job.output.modules = <<>>
  BY DEF NewJob
<1>4. Current' = c
  BY <1>2, CurrentStays
<1> HIDE DEF c, job
<1>5. DOMAIN state = Units /\ file[c].imports \subseteq Names
      /\ (file[c].exists => Stat(c) = file[c].stamp)
  BY <1>1, StatInType, UnitsAreFiles DEF JobInv
<1>6. DOMAIN state' = Units /\ state'[c] = job /\ \A u \in Units : u # c => state'[u] = state[u]
  BY <1>1, <1>2, <1>5
<1>7. \A d \in DOMAIN Candidates, n \in Names : \A e : EntryInv(d, n, e) => EntryInv(d, n, e)'
  <2>1. \A f : Unseen(f) => Unseen(f)'
    BY <1>2 DEF Unseen
  <2> QED
    BY <1>2, <2>1, EntryUntouched
<1>8. FileInv'
  BY <1>2 DEF FileInv
<1>9. LoopInv'
  BY <1>1, <1>2, <1>5 DEF LoopInv, Building
<1>10. JobInv'
  <2>1. \A u \in Units : state[u].sourceSig \in Nat /\ state[u].deps \subseteq Files
    BY DEF JobInv
  <2>2. ASSUME NEW u \in Units PROVE state'[u].sourceSig \in Nat /\ state'[u].deps \subseteq Files
    <3>1. CASE u = c
      BY <1>1, <1>3, <1>6, <2>1, <3>1
    <3>2. CASE u # c
      BY <1>6, <2>1, <3>2
    <3> QED
      BY <3>1, <3>2
  <2> QED
    BY <1>6, <2>2 DEF JobInv
<1>11. ASSUME NEW u \in Units, Compiled(u)', u # c
       PROVE  Compiled(u) /\ state'[u] = state[u]
  BY <1>2, <1>4, <1>6, <1>11 DEF Compiled
<1>12. SourceInv'
  <2>1. ASSUME NEW u \in Units PROVE state'[u].sourceSig <= file'[u].stamp
    BY <1>2, <1>3, <1>6 DEF SourceInv
  <2>2. ASSUME NEW u \in Units, Compiled(u)', file'[u].exists, file'[u].stamp = state'[u].sourceSig
        PROVE  state'[u].output.source = file'[u].stamp
    <3>1. CASE u = c
      BY <1>2, <1>3, <1>5, <1>6, <2>2, <3>1
    <3>2. CASE u # c
      BY <1>2, <1>11, <2>2, <3>2 DEF SourceInv
    <3> QED
      BY <3>1, <3>2
  <2> QED
    BY <2>1, <2>2 DEF SourceInv
<1>13. ModulesInv'
  <2> SUFFICES ASSUME NEW u \in Units, Compiled(u)'
               PROVE  \A n \in DOMAIN state'[u].output.modules : ImportInv(u, n)'
    BY DEF ModulesInv
  <2>1. CASE u = c
    BY <1>3, <1>6, <2>1
  <2>2. CASE u # c
    <3>1. \A n \in DOMAIN state[u].output.modules : ImportInv(u, n)
      BY <1>11, <2>2 DEF ModulesInv
    <3>2. state'[u] = state[u]
      BY <1>11, <2>2
    <3> QED
      BY <1>7, <3>1, <3>2, ModulesKept, UnitsAreFiles
  <2> QED
    BY <2>1, <2>2
<1>14. CacheInv'
  BY <1>2, <1>7, CacheKept DEF Building
<1>15. SigsInv'
  <2>1. \A u \in ToSet(jobs)' : u \in Units /\ (state'[u].deps = state[u].deps \/ state'[u].deps = {})
    BY <1>2, <1>3, <1>6 DEF LoopInv, ToSet
  <2> QED
    BY <1>2, <2>1 DEF SigsInv, CachePaths, Building
<1> QED
  BY <1>8, <1>9, <1>10, <1>12, <1>13, <1>14, <1>15

(* What is read now is first in the search path and traced.                *)
LEMMA LoadedFacts ==
  ASSUME FileInv, SigsInv, NEW u \in Units, NEW n \in Names
  PROVE  Loaded(u, n) \in Entries /\ EntryInv(Directory[u], n, Loaded(u, n))
<1> DEFINE paths == Candidates[Directory[u]][n]
<1> PICK path : path = Resolve(u, n)
  OBVIOUS
<1> PICK news : news = News(u, n)
  OBVIOUS
<1>1. /\ paths \in Seq(Files) /\ Len(paths) \in Nat /\ \A k \in 1..Len(paths) : paths[k] \in Files
      /\ \/ path = Nowhere /\ \A k \in 1..Len(paths) : ~file[paths[k]].exists
         \/ \E k \in 1..Len(paths) : /\ path = paths[k] /\ file[paths[k]].exists
                                     /\ \A i \in 1..(k - 1) : ~file[paths[i]].exists
  BY ResolveFacts
<1>2. Nowhere \notin Files
  BY WatchAssumption
<1> PICK e : e = Loaded(u, n)
  OBVIOUS
<1>3. e = [path |-> path, news |-> news, stamp |-> IF path = Nowhere THEN 0 ELSE file[path].stamp,
           imports |-> IF path = Nowhere THEN {} ELSE file[path].imports]
  BY DEF Loaded
<1>4. /\ news = {f \in ToSet(paths) : IF file[f].exists THEN f \in DOMAIN moduleSigs /\ moduleSigs[f] = 0
                                                       ELSE f \in listing \cup ToSet(jobs)}
      /\ ToSet(paths) = {paths[k] : k \in 1..Len(paths)}
  <2>1. DOMAIN paths = 1..Len(paths)
    <3> HIDE DEF paths
    <3>1. paths \in Seq(Files)
      BY <1>1
    <3> QED
      BY ONLY <3>1
  <2> QED
    BY <2>1 DEF News, ToSet
<1>5. news \subseteq Files
  BY <1>1, <1>4, ZenonT(40)
<1>6. \A k \in 1..Len(paths) : ~file[paths[k]].exists => Unseen(paths[k]) \/ paths[k] \in news
  BY <1>4 DEF Unseen
<1> HIDE DEF paths
<1>7. CASE path = Nowhere
  <2>1. \A k \in 1..Len(paths) : ~file[paths[k]].exists
    BY <1>1, <1>2, <1>7
  <2>2. e.path = Nowhere /\ e.news = news /\ e \in Entries
    BY <1>3, <1>5, <1>7 DEF Entries
  <2>3. \A i \in 1..((Len(paths) + 1) - 1) : i \in 1..Len(paths)
    BY <1>1
  <2>4. StillFirst(paths, Len(paths) + 1, e)
    BY <1>6, <2>1, <2>2, <2>3 DEF StillFirst
  <2> QED
    BY <2>2, <2>4 DEF EntryInv, paths
<1>8. CASE path # Nowhere
  <2>1. PICK k \in 1..Len(paths) : /\ path = paths[k] /\ file[paths[k]].exists
                                   /\ \A i \in 1..(k - 1) : ~file[paths[i]].exists
    BY <1>1, <1>8
  <2>2. path \in Files /\ file[path].exists
    BY <1>1, <2>1
  <2>3. Stat(path) = file[path].stamp /\ file[path].stamp \in Nat \ {0} /\ file[path].imports \subseteq Names
    BY <2>2, StatInType
  <2>4. e = [path |-> path, news |-> news, stamp |-> file[path].stamp, imports |-> file[path].imports]
    BY <1>3, <1>8
  <2>5. e \in Entries /\ e.path = path /\ e.stamp = file[path].stamp /\ e.news = news
    BY <1>5, <2>2, <2>3, <2>4 DEF Entries
  <2>6. path \in news \/ (path \in DOMAIN moduleSigs => moduleSigs[path] # 0)
    BY <1>4, <2>1
  <2>7. path \in DOMAIN moduleSigs => moduleSigs[path] \in Nat /\ moduleSigs[path] <= file[path].stamp
    BY DEF SigsInv
  <2>8. Traced(e.path, e)
    BY <2>3, <2>5, <2>6, <2>7 DEF Traced
  <2>9. \A i \in 1..(k - 1) : i \in 1..Len(paths)
    <3>1. Len(paths) \in Nat
      BY <1>1
    <3> QED
      BY ONLY <3>1, k \in 1..Len(paths)
  <2>10. StillFirst(paths, k, e) /\ \A i \in 1..(k - 1) : paths[i] # e.path
    BY <1>6, <2>1, <2>5, <2>9 DEF StillFirst
  <2> QED
    BY <1>8, <2>1, <2>5, <2>8, <2>10 DEF EntryInv, paths
<1> QED
  BY <1>7, <1>8

LEMMA ImportModuleKeeps ==
  ASSUME WatchInv, NEW n \in wanted, ImportModule(n)
  PROVE  WatchInv'
<1> USE DEF WatchInv
<1> PICK c : c = Current
  OBVIOUS
<1> DEFINE key == <<Directory[c], n>>
           entry == IF key \in DOMAIN cache THEN cache[key] ELSE Loaded(c, n)
           old == state[c].output.modules
           modules == [m \in DOMAIN old \cup {n} |-> IF m = n THEN entry ELSE old[m]]
           deps == state[c].deps \cup ({entry.path} \ {Nowhere})
<1>1. c \in todo /\ c \in ToSet(jobs) /\ c \in Units /\ Directory[c] \in DOMAIN Candidates
  BY CurrentIsDirty, UnitsAreFiles DEF ImportModule, LoopInv
<1>2. n \in Names
  BY DEF LoopInv
<1>3. /\ pc = "import" /\ pc' = pc /\ file' = file /\ jobs' = jobs /\ todo' = todo
      /\ moduleSigs' = moduleSigs /\ late' = late /\ listing' = listing /\ jobsAdded' = jobsAdded
      /\ cache' = [k \in DOMAIN cache \cup {key} |-> IF k = key THEN entry ELSE cache[k]]
      /\ wanted' = (wanted \cup entry.imports) \ DOMAIN modules
  BY DEF ImportModule, sigs, files, loop
<1>4. state' = [state EXCEPT ![c].deps = @ \cup ({entry.path} \ {Nowhere}),
                             ![c].failed = @ \/ entry.path = Nowhere,
                             ![c].output.modules = modules]
  BY DEF ImportModule
<1>5. Current' = c
  BY <1>3, CurrentStays
<1>6. entry \in Entries /\ EntryInv(Directory[c], n, entry)
  <2>1. CASE key \in DOMAIN cache
    <3>1. PICK d \in DOMAIN Candidates, m \in Names, e \in Entries :
            key = <<d, m>> /\ e = cache[key] /\ EntryInv(d, m, e)
      BY <1>3, <2>1 DEF CacheInv, Building
    <3>2. d = Directory[c] /\ m = n /\ e = entry
      BY <2>1, <3>1
    <3> HIDE DEF entry
    <3> QED
      BY <3>1, <3>2
  <2>2. CASE key \notin DOMAIN cache
    BY <1>1, <1>2, <2>2, LoadedFacts
  <2> QED
    BY <2>1, <2>2
<1> PICK e \in Entries : e = entry /\ EntryInv(Directory[c], n, e)
  <2> HIDE DEF entry
  <2> QED
    BY <1>6
<1>7. e.path \in Files \cup {Nowhere} /\ e.imports \subseteq Names
  BY DEF Entries
<1> HIDE DEF entry
<1>8. DOMAIN state = Units
  BY DEF JobInv
<1>9. /\ DOMAIN state' = Units /\ \A u \in Units : u # c => state'[u] = state[u]
      /\ state'[c].sourceSig = state[c].sourceSig /\ state'[c].deps = deps
      /\ state'[c].output.source = state[c].output.source
      /\ state'[c].output.modules = modules
  BY <1>1, <1>4, <1>8
<1>10. state[c].failed \/ e.path = Nowhere => state'[c].failed
  <2>1. state'[c].failed = (state[c].failed \/ e.path = Nowhere)
    BY <1>1, <1>4, <1>8
  <2> QED
    BY <2>1
<1>11. \A d \in DOMAIN Candidates, m \in Names : \A x : EntryInv(d, m, x) => EntryInv(d, m, x)'
  <2>1. \A f : Unseen(f) => Unseen(f)'
    BY <1>3 DEF Unseen
  <2> QED
    BY <1>3, <2>1, EntryUntouched
<1>12. FileInv'
  BY <1>3 DEF FileInv
<1>13. LoopInv'
  BY <1>1, <1>3, <1>7 DEF LoopInv, Building
<1>14. JobInv'
  <2>1. \A u \in Units : state[u].sourceSig \in Nat /\ state[u].deps \subseteq Files
    BY DEF JobInv
  <2>2. ASSUME NEW u \in Units PROVE state'[u].sourceSig \in Nat /\ state'[u].deps \subseteq Files
    <3>1. CASE u = c
      BY <1>1, <1>7, <1>9, <2>1, <3>1
    <3>2. CASE u # c
      BY <1>9, <2>1, <3>2
    <3> QED
      BY <3>1, <3>2
  <2> QED
    BY <1>9, <2>2 DEF JobInv
<1>15. ASSUME NEW u \in Units, Compiled(u)'
       PROVE  Compiled(u)
  BY <1>3, <1>5, <1>15 DEF Compiled
<1>16. SourceInv'
  <2>1. \A u \in Units : /\ state'[u].sourceSig = state[u].sourceSig
                         /\ state'[u].output.source = state[u].output.source
    BY <1>9
  <2> QED
    BY <1>3, <1>15, <2>1 DEF SourceInv
<1>17. ModulesInv'
  <2> SUFFICES ASSUME NEW u \in Units, Compiled(u)'
               PROVE  \A m \in DOMAIN state'[u].output.modules : ImportInv(u, m)'
    BY DEF ModulesInv
  <2>1. \A m \in DOMAIN state[u].output.modules : ImportInv(u, m)
    BY <1>15 DEF ModulesInv
  <2>2. CASE u # c
    <3>1. state'[u] = state[u]
      BY <1>9, <2>2
    <3> QED
      BY <1>11, <2>1, <3>1, ModulesKept, UnitsAreFiles
  <2>3. CASE u = c
    <3> SUFFICES ASSUME NEW m \in DOMAIN modules PROVE ImportInv(c, m)'
      BY <1>9, <2>3
    <3>1. CASE m = n
      <4>1. state'[c].output.modules[m] = e
        BY <1>9, <3>1
      <4>2. IF e.path = Nowhere THEN state'[c].failed ELSE e.path \in state'[c].deps
        BY <1>7, <1>9, <1>10
      <4>3. EntryInv(Directory[c], m, e)'
        BY <1>1, <1>2, <1>11, <3>1
      <4> QED
        BY <1>2, <3>1, <4>1, <4>2, <4>3 DEF ImportInv
    <3>2. CASE m # n
      <4>1. m \in DOMAIN old /\ state'[c].output.modules[m] = old[m] /\ ImportInv(c, m)
        BY <1>9, <2>1, <2>3, <3>2
      <4>2. PICK x \in Entries :
              /\ x = old[m] /\ EntryInv(Directory[c], m, x)
              /\ IF x.path = Nowhere THEN state[c].failed ELSE x.path \in state[c].deps
        BY <4>1 DEF ImportInv
      <4>3. m \in Names
        BY <4>1 DEF ImportInv
      <4>4. IF x.path = Nowhere THEN state'[c].failed ELSE x.path \in state'[c].deps
        BY <1>9, <1>10, <4>2
      <4>5. EntryInv(Directory[c], m, x)'
        BY <1>1, <1>11, <4>2, <4>3
      <4> QED
        BY <4>1, <4>2, <4>3, <4>4, <4>5 DEF ImportInv
    <3> QED
      BY <3>1, <3>2
  <2> QED
    BY <2>2, <2>3
<1>18. CacheInv'
  <2> SUFFICES ASSUME NEW k \in DOMAIN cache \cup {key}
               PROVE  \E d \in DOMAIN Candidates, m \in Names, x \in Entries :
                        k = <<d, m>> /\ x = cache'[k] /\ EntryInv(d, m, x)'
    BY <1>3 DEF CacheInv
  <2>1. CASE k = key
    <3>1. cache'[k] = e
      BY <1>3, <2>1
    <3>2. EntryInv(Directory[c], n, e)'
      BY <1>1, <1>2, <1>11
    <3> QED
      BY <1>1, <1>2, <2>1, <3>1, <3>2
  <2>2. CASE k # key
    <3>1. k \in DOMAIN cache /\ cache'[k] = cache[k]
      BY <1>3, <2>2
    <3> HIDE DEF key
    <3> QED
      BY <1>3, <1>11, <3>1 DEF CacheInv, Building
  <2> QED
    BY <2>1, <2>2
<1>19. SigsInv'
  <2>1. CachePaths \subseteq CachePaths' /\ e.path \in CachePaths'
    <3>1. cache'[key] = e /\ key \in DOMAIN cache'
      BY <1>3
    <3>2. \A k \in DOMAIN cache : k \in DOMAIN cache' /\ cache'[k].path = cache[k].path
      BY <1>3, <1>6 DEF entry
    <3> QED
      BY <3>1, <3>2 DEF CachePaths
  <2>2. ASSUME NEW u \in ToSet(jobs) PROVE state'[u].deps \subseteq DOMAIN moduleSigs \cup CachePaths'
    <3>1. u \in Units /\ state[u].deps \subseteq DOMAIN moduleSigs \cup CachePaths
      BY <1>3 DEF SigsInv, LoopInv, ToSet, Building
    <3>2. state'[u].deps \subseteq state[u].deps \cup {e.path}
      BY <1>9, <3>1
    <3> QED
      BY <2>1, <3>1, <3>2
  <2> QED
    BY <1>3, <2>2 DEF SigsInv, Building
<1> QED
  BY <1>12, <1>13, <1>14, <1>16, <1>17, <1>18, <1>19

LEMMA EndJobKeeps ==
  ASSUME WatchInv, EndJob
  PROVE  WatchInv'
<1> USE DEF WatchInv
<1>1. /\ pc = "import" /\ pc' = "start" /\ file' = file /\ jobs' = jobs /\ todo' = todo \ {Current}
      /\ moduleSigs' = moduleSigs /\ late' = late /\ listing' = listing /\ cache' = cache /\ wanted' = wanted
      /\ jobsAdded' = jobsAdded /\ state' = state
  BY DEF EndJob, sigs, files
<1>2. \A d \in DOMAIN Candidates, n \in Names : \A e : EntryInv(d, n, e) => EntryInv(d, n, e)'
  <2>1. \A f : Unseen(f) => Unseen(f)'
    BY <1>1 DEF Unseen
  <2> QED
    BY <1>1, <2>1, EntryUntouched
<1>3. FileInv' /\ JobInv' /\ SigsInv'
  BY <1>1 DEF FileInv, JobInv, SigsInv, CachePaths, Building
<1>4. LoopInv'
  BY <1>1 DEF LoopInv, Building
<1>5. \A u \in Units : Compiled(u)' => Compiled(u)
  BY <1>1 DEF Compiled
<1>6. SourceInv'
  BY <1>1, <1>5 DEF SourceInv
<1>7. ModulesInv'
  <2> SUFFICES ASSUME NEW u \in Units, Compiled(u)'
               PROVE  \A n \in DOMAIN state'[u].output.modules : ImportInv(u, n)'
    BY DEF ModulesInv
  <2>1. \A n \in DOMAIN state[u].output.modules : ImportInv(u, n)
    BY <1>5 DEF ModulesInv
  <2> QED
    BY <1>1, <1>2, <2>1, ModulesKept, UnitsAreFiles
<1>8. CacheInv'
  BY <1>1, <1>2, CacheKept DEF Building
<1> QED
  BY <1>3, <1>4, <1>6, <1>7, <1>8

LEMMA EndBuildKeeps ==
  ASSUME WatchInv, EndBuild
  PROVE  WatchInv'
<1> USE DEF WatchInv
<1> DEFINE deps == UNION {state[u].deps : u \in ToSet(jobs)}
<1>1. /\ pc = "start" /\ todo = {} /\ pc' = "wait" /\ file' = file /\ jobs' = jobs /\ todo' = todo
      /\ listing' = listing /\ cache' = cache /\ wanted' = wanted /\ jobsAdded' = jobsAdded
      /\ state' = state
      /\ moduleSigs' = [p \in deps |-> IF p \in DOMAIN moduleSigs THEN moduleSigs[p] ELSE Stat(p)]
      /\ late' = late \cap DOMAIN moduleSigs'
  BY DEF EndBuild, sigs, files, loop
<1>2. ToSet(jobs) \subseteq Units
  BY DEF LoopInv, ToSet
<1>3. deps \subseteq Files
  BY <1>2 DEF JobInv
<1>4. \A u \in ToSet(jobs) : state[u].deps \subseteq deps
  OBVIOUS
<1> HIDE DEF deps
<1>5. FileInv' /\ JobInv'
  BY <1>1 DEF FileInv, JobInv
<1>6. LoopInv'
  BY <1>1 DEF LoopInv, Building
<1>7. \A u \in Units : Compiled(u)' => Compiled(u) /\ u \in ToSet(jobs)
  BY <1>1 DEF Compiled
<1>8. SourceInv'
  BY <1>1, <1>7 DEF SourceInv
<1>9. ASSUME NEW p \in deps, NEW e, Traced(p, e)
      PROVE  Traced(p, e)'
  <2>1. p \in DOMAIN moduleSigs' /\ Stat(p)' = Stat(p) /\ (p \in late => p \in late')
        /\ moduleSigs'[p] = IF p \in DOMAIN moduleSigs THEN moduleSigs[p] ELSE Stat(p)
    BY <1>1 DEF Stat
  <2>2. Stat(p) \in Nat
    BY <1>3, StatInType
  <2> QED
    BY <1>1, <1>9, <2>1, <2>2 DEF Traced
<1>10. ModulesInv'
  <2> SUFFICES ASSUME NEW u \in Units, Compiled(u)'
               PROVE  \A n \in DOMAIN state'[u].output.modules : ImportInv(u, n)'
    BY DEF ModulesInv
  <2>1. u \in ToSet(jobs) /\ \A n \in DOMAIN state[u].output.modules : ImportInv(u, n)
    BY <1>7 DEF ModulesInv
  <2>2. \A f : Unseen(f) => Unseen(f)'
    BY <1>1 DEF Unseen
  <2>3. ASSUME NEW n \in Names, NEW e \in Entries, EntryInv(Directory[u], n, e),
               e.path # Nowhere => e.path \in state[u].deps
        PROVE  EntryInv(Directory[u], n, e)'
    <3>1. e.path # Nowhere => (Traced(e.path, e) => Traced(e.path, e)')
      BY <1>4, <1>9, <2>1, <2>3
    <3> QED
      BY <2>2, <2>3, <3>1, EntryKept, UnitsAreFiles
  <2> QED
    BY <1>1, <2>1, <2>3, ModulesKept
<1>11. CacheInv'
  BY <1>1 DEF CacheInv, Building
<1>12. SigsInv'
  <2>1. ASSUME NEW p \in deps PROVE moduleSigs'[p] \in Nat /\ moduleSigs'[p] <= file'[p].stamp
    BY <1>1, <1>3, StatInType DEF SigsInv
  <2>2. DOMAIN moduleSigs' = deps
    BY <1>1
  <2>3. late' \subseteq Files
    BY <1>1 DEF SigsInv
  <2> QED
    BY <1>1, <1>3, <1>4, <2>1, <2>2, <2>3 DEF SigsInv
<1> QED
  BY <1>5, <1>6, <1>8, <1>10, <1>11, <1>12

----------------------------------------------------------------------------
(* What a tick keeps.                                                      *)

(* A step that changes nothing but which jobs are dirty, and adds to them. *)
LEMMA QuietStepKeeps ==
  ASSUME WatchInv,
         file' = file, jobs' = jobs, state' = state, moduleSigs' = moduleSigs /\ late' = late, listing' = listing,
         wanted' = wanted, todo \subseteq todo', todo' \subseteq ToSet(jobs),
         pc \notin Building, pc' \in {"start", "wait", "sources", "modules", "settle", "stopped"},
         pc' = "wait" => todo' = {}, pc' = "start" => cache' = <<>>,
         \A f : Unseen(f) => Unseen(f)'
  PROVE  WatchInv'
<1> USE DEF WatchInv
<1>1. \A d \in DOMAIN Candidates, n \in Names : \A e : EntryInv(d, n, e) => EntryInv(d, n, e)'
  BY EntryUntouched
<1>2. FileInv' /\ JobInv' /\ SigsInv'
  BY DEF FileInv, JobInv, SigsInv
<1>3. LoopInv'
  BY DEF LoopInv, Building
<1>4. \A u \in Units : Compiled(u)' => Compiled(u)
  BY DEF Compiled
<1>5. SourceInv'
  BY <1>4 DEF SourceInv
<1>6. ModulesInv'
  <2> SUFFICES ASSUME NEW u \in Units, Compiled(u)'
               PROVE  \A n \in DOMAIN state'[u].output.modules : ImportInv(u, n)'
    BY DEF ModulesInv
  <2>1. \A n \in DOMAIN state[u].output.modules : ImportInv(u, n)
    BY <1>4 DEF ModulesInv
  <2> QED
    BY <1>1, <2>1, ModulesKept, UnitsAreFiles
<1>7. CacheInv'
  <2>1. pc' \in Building => DOMAIN cache' = {}
    BY DEF Building
  <2> QED
    BY <2>1 DEF CacheInv
<1> QED
  BY <1>2, <1>3, <1>5, <1>6, <1>7

LEMMA KeepJobsKeeps ==
  ASSUME WatchInv, KeepJobs
  PROVE  WatchInv'
<1>1. /\ pc = "wait" /\ todo = {} /\ todo' = {} /\ jobsAdded' = FALSE /\ pc' = "sources"
      /\ file' = file /\ jobs' = jobs /\ state' = state /\ moduleSigs' = moduleSigs /\ late' = late
      /\ listing' = listing /\ wanted' = wanted
  BY DEF WatchInv, LoopInv, KeepJobs, sigs, files
<1>2. \A f : Unseen(f) => Unseen(f)'
  BY <1>1 DEF Unseen
<1>3. pc \notin Building
  BY <1>1 DEF Building
<1> QED
  BY <1>1, <1>2, <1>3, QuietStepKeeps

LEMMA StatSourcesKeeps ==
  ASSUME WatchInv, StatSources
  PROVE  WatchInv'
<1>1. /\ pc = "sources" /\ pc' = "modules" /\ todo \subseteq todo' /\ todo' \subseteq ToSet(jobs)
      /\ file' = file /\ jobs' = jobs /\ state' = state /\ moduleSigs' = moduleSigs /\ late' = late
      /\ listing' = listing /\ wanted' = wanted /\ jobsAdded' = jobsAdded
  BY DEF WatchInv, LoopInv, StatSources, sigs, files
<1>2. \A f : Unseen(f) => Unseen(f)'
  BY <1>1 DEF Unseen
<1>3. pc \notin Building
  BY <1>1 DEF Building
<1> QED
  BY <1>1, <1>2, <1>3, QuietStepKeeps

LEMMA StartBuildKeeps ==
  ASSUME WatchInv, StartBuild
  PROVE  WatchInv'
<1>1. /\ pc = "settle" /\ pc' = "start" /\ todo' = todo /\ todo \subseteq ToSet(jobs)
      /\ file' = file /\ jobs' = jobs /\ state' = state /\ moduleSigs' = moduleSigs /\ late' = late
      /\ listing' = listing /\ wanted' = wanted /\ jobsAdded' = jobsAdded /\ cache' = <<>>
  BY DEF WatchInv, LoopInv, StartBuild, sigs, files, loop
<1>2. \A f : Unseen(f) => Unseen(f)'
  BY <1>1 DEF Unseen
<1>3. pc \notin Building
  BY <1>1 DEF Building
<1> QED
  BY <1>1, <1>2, <1>3, QuietStepKeeps

LEMMA StopKeeps ==
  ASSUME WatchInv, Stop
  PROVE  WatchInv'
<1>1. /\ pc \in {"wait", "settle"} /\ pc' = "stopped" /\ todo' = todo /\ todo \subseteq ToSet(jobs)
      /\ file' = file /\ jobs' = jobs /\ state' = state /\ moduleSigs' = moduleSigs /\ late' = late
      /\ listing' = listing /\ wanted' = wanted /\ jobsAdded' = jobsAdded
  BY DEF WatchInv, LoopInv, Stop, sigs, files, loop
<1>2. \A f : Unseen(f) => Unseen(f)'
  BY <1>1 DEF Unseen
<1>3. pc \notin Building
  BY <1>1 DEF Building
<1> QED
  BY <1>1, <1>2, <1>3, QuietStepKeeps

LEMMA StatModulesKeeps ==
  ASSUME WatchInv, StatModules
  PROVE  WatchInv'
<1> USE DEF WatchInv
<1> DEFINE changed == {p \in DOMAIN moduleSigs : Stat(p) # moduleSigs[p]}
<1>1. /\ pc = "modules" /\ pc' = "directories"
      /\ todo' = todo \cup {u \in ToSet(jobs) : state[u].deps \cap changed # {}}
      /\ moduleSigs' = [p \in DOMAIN moduleSigs |-> Stat(p)] /\ late' = late \ changed
      /\ file' = file /\ jobs' = jobs /\ state' = state /\ listing' = listing
      /\ wanted' = wanted /\ jobsAdded' = jobsAdded
  BY DEF StatModules, sigs, files
<1>2. FileInv' /\ JobInv'
  BY <1>1 DEF FileInv, JobInv
<1>3. LoopInv'
  BY <1>1 DEF LoopInv, Building
<1>4. ASSUME NEW u \in Units, Compiled(u)'
      PROVE  Compiled(u) /\ u \in ToSet(jobs)
             /\ \A p \in state[u].deps : p \in DOMAIN moduleSigs /\ Stat(p) = moduleSigs[p]
  <2>1. u \in ToSet(jobs) /\ u \notin todo' /\ Compiled(u)
    BY <1>1, <1>4 DEF Compiled
  <2>2. state[u].deps \subseteq DOMAIN moduleSigs
    BY <1>1, <2>1 DEF SigsInv, Building
  <2> QED
    BY <1>1, <2>1, <2>2
<1>5. SourceInv'
  BY <1>1, <1>4 DEF SourceInv
<1>6. ModulesInv'
  <2> SUFFICES ASSUME NEW u \in Units, Compiled(u)'
               PROVE  \A n \in DOMAIN state'[u].output.modules : ImportInv(u, n)'
    BY DEF ModulesInv
  <2>1. \A n \in DOMAIN state[u].output.modules : ImportInv(u, n)
    BY <1>4 DEF ModulesInv
  <2>2. \A f : Unseen(f) => Unseen(f)'
    BY <1>1 DEF Unseen
  <2>3. ASSUME NEW n \in Names, NEW e \in Entries, EntryInv(Directory[u], n, e),
               e.path # Nowhere => e.path \in state[u].deps
        PROVE  EntryInv(Directory[u], n, e)'
    <3>1. ASSUME e.path # Nowhere, Traced(e.path, e) PROVE Traced(e.path, e)'
      <4>1. e.path \in DOMAIN moduleSigs /\ Stat(e.path) = moduleSigs[e.path]
        BY <1>4, <2>3, <3>1
      <4>2. /\ DOMAIN moduleSigs' = DOMAIN moduleSigs /\ moduleSigs'[e.path] = moduleSigs[e.path]
            /\ (e.path \in late => e.path \in late')
        BY <1>1, <4>1
      <4> QED
        BY <1>1, <3>1, <4>1, <4>2 DEF Traced, Stat
    <3> QED
      BY <2>2, <2>3, <3>1, EntryKept, UnitsAreFiles
  <2> QED
    BY <1>1, <2>1, <2>3, ModulesKept
<1>7. CacheInv'
  BY <1>1 DEF CacheInv, Building
<1>8. SigsInv'
  <2>1. DOMAIN moduleSigs' = DOMAIN moduleSigs
    BY <1>1
  <2>2. ASSUME NEW p \in DOMAIN moduleSigs PROVE moduleSigs'[p] \in Nat /\ moduleSigs'[p] <= file'[p].stamp
    BY <1>1, StatInType DEF SigsInv
  <2>3. late' \subseteq Files
    BY <1>1 DEF SigsInv
  <2> QED
    BY <1>1, <2>1, <2>2, <2>3 DEF SigsInv, Building
<1> QED
  BY <1>2, <1>3, <1>5, <1>6, <1>7, <1>8

LEMMA ScanModuleDirsKeeps ==
  ASSUME WatchInv, ScanModuleDirs
  PROVE  WatchInv'
<1> USE DEF WatchInv
<1>1. /\ pc = "directories" /\ pc' = IF todo' = {} /\ ~removed THEN "wait" ELSE "settle"
      /\ listing' = ModuleDirFiles
      /\ todo' = IF ModuleDirFiles # listing THEN ToSet(jobs)
                 ELSE IF jobsAdded THEN todo \cup {u \in ToSet(jobs) : state[u].failed}
                 ELSE todo
      /\ file' = file /\ jobs' = jobs /\ state' = state /\ moduleSigs' = moduleSigs /\ late' = late
      /\ wanted' = wanted /\ jobsAdded' = jobsAdded
  BY DEF ScanModuleDirs, sigs, files
<1>2. FileInv' /\ JobInv'
  BY <1>1 DEF FileInv, JobInv
<1>3. todo \subseteq todo' /\ todo' \subseteq ToSet(jobs)
  BY <1>1 DEF LoopInv
<1>4. LoopInv'
  BY <1>1, <1>3 DEF LoopInv, Building, ModuleDirFiles
<1>5. ASSUME NEW u \in Units, Compiled(u)'
      PROVE  Compiled(u) /\ listing' = listing /\ (jobsAdded => ~state[u].failed)
  <2>1. u \in ToSet(jobs) /\ u \notin todo'
    BY <1>1, <1>5 DEF Compiled
  <2> QED
    BY <1>1, <1>3, <2>1 DEF Compiled
<1>6. SourceInv'
  BY <1>1, <1>5 DEF SourceInv
<1>7. ModulesInv'
  <2> SUFFICES ASSUME NEW u \in Units, Compiled(u)'
               PROVE  \A n \in DOMAIN state'[u].output.modules : ImportInv(u, n)'
    BY DEF ModulesInv
  <2>1. \A n \in DOMAIN state[u].output.modules : ImportInv(u, n)
    BY <1>5 DEF ModulesInv
  <2>2. ASSUME NEW n \in Names, NEW e \in Entries, EntryInv(Directory[u], n, e),
               e.path = Nowhere => state[u].failed
        PROVE  EntryInv(Directory[u], n, e)'
    <3>1. Traced(e.path, e) => Traced(e.path, e)'
      BY <1>1 DEF Traced, Stat
    <3>2. ASSUME NEW f \in Watched(e), Unseen(f) PROVE Unseen(f)'
      BY <1>1, <1>5, <2>2, <3>2 DEF Unseen, Watched
    <3> QED
      BY <2>2, <3>1, <3>2, EntryKept, UnitsAreFiles
  <2> QED
    BY <1>1, <2>1, <2>2, ModulesKept
<1>8. CacheInv'
  BY <1>1 DEF CacheInv, Building
<1>9. SigsInv'
  BY <1>1 DEF SigsInv, Building
<1> QED
  BY <1>2, <1>4, <1>6, <1>7, <1>8, <1>9

LEMMA ConcatElements ==
  ASSUME NEW T, NEW s \in Seq(T), NEW t \in Seq(T)
  PROVE  s \o t \in Seq(T) /\ ToSet(s \o t) = ToSet(s) \cup ToSet(t)
<1> DEFINE r == s \o t
<1>1. /\ Len(s) \in Nat /\ Len(t) \in Nat /\ DOMAIN s = 1..Len(s) /\ DOMAIN t = 1..Len(t)
      /\ r \in Seq(T) /\ DOMAIN r = 1..(Len(s) + Len(t))
      /\ \A k \in 1..(Len(s) + Len(t)) : r[k] = IF k <= Len(s) THEN s[k] ELSE t[k - Len(s)]
  OBVIOUS
<1> HIDE DEF r
<1>2. ASSUME NEW k \in 1..(Len(s) + Len(t)) PROVE r[k] \in ToSet(s) \cup ToSet(t)
  <2>1. CASE k <= Len(s)
    BY <1>1, <2>1 DEF ToSet
  <2>2. CASE ~(k <= Len(s))
    <3>1. k - Len(s) \in 1..Len(t) /\ r[k] = t[k - Len(s)]
      BY <1>1, <2>2
    <3> QED
      BY <1>1, <3>1 DEF ToSet
  <2> QED
    BY <2>1, <2>2
<1>3. ASSUME NEW k \in 1..Len(s) PROVE s[k] \in ToSet(r)
  <2>1. k \in 1..(Len(s) + Len(t)) /\ k <= Len(s)
    BY <1>1
  <2> QED
    BY <1>1, <2>1 DEF ToSet
<1>4. ASSUME NEW k \in 1..Len(t) PROVE t[k] \in ToSet(r)
  <2>1. /\ Len(s) + k \in 1..(Len(s) + Len(t)) /\ ~(Len(s) + k <= Len(s))
        /\ (Len(s) + k) - Len(s) = k
    BY <1>1
  <2> QED
    BY <1>1, <2>1 DEF ToSet
<1>5. ToSet(r) = ToSet(s) \cup ToSet(t)
  BY <1>1, <1>2, <1>3, <1>4 DEF ToSet
<1> QED
  BY <1>1, <1>5 DEF r

LEMMA ListedFacts ==
  Listed \in Seq(Units) /\ \A u : u \in ToSet(Listed) <=> u \in Units /\ (u \in Named \/ file[u].exists)
<1>1. Inputs \in Seq(Units)
  BY WatchAssumption
<1>2. /\ Listed \in Seq(Units)
      /\ ToSet(Listed) = ToSet(Inputs) \cap (Named \cup {u \in Units : file[u].exists})
  BY <1>1, KeepFacts DEF Listed
<1> QED
  BY <1>2 DEF Units

LEMMA ListJobsKeeps ==
  ASSUME WatchInv, ListJobs
  PROVE  WatchInv'
<1> USE DEF WatchInv
<1> PICK added : added = Keep(Listed, Units \ ToSet(jobs))
  OBVIOUS
<1> PICK kept : kept = Keep(jobs, ToSet(Listed))
  OBVIOUS
<1>1. /\ pc = "wait" /\ pc' = "sources" /\ jobs' = kept \o added /\ todo' = ToSet(added)
      /\ state' = [u \in Units |-> IF u \in ToSet(kept) THEN state[u] ELSE NewJob]
      /\ jobsAdded' = (added # <<>>)
      /\ file' = file /\ moduleSigs' = moduleSigs /\ late' = late /\ listing' = listing /\ wanted' = wanted
  BY DEF ListJobs, sigs, files
<1>2. added \in Seq(Units) /\ ToSet(added) = ToSet(Listed) \cap (Units \ ToSet(jobs))
  BY ListedFacts, KeepFacts
<1>3. kept \in Seq(Units) /\ ToSet(kept) = ToSet(jobs) \cap ToSet(Listed)
  BY KeepFacts DEF LoopInv
<1>4. jobs' \in Seq(Units) /\ ToSet(jobs)' = ToSet(kept) \cup ToSet(added)
  <2>0. kept \in Seq(Units) /\ added \in Seq(Units)
    BY <1>2, <1>3
  <2>1. kept \o added \in Seq(Units) /\ ToSet(kept \o added) = ToSet(kept) \cup ToSet(added)
    BY ONLY <2>0, ConcatElements
  <2> QED
    BY <1>1, <2>1
<1>5. /\ NewJob.sourceSig = 0 /\ NewJob.deps = {}
  BY DEF NewJob
<1>6. /\ DOMAIN state' = Units
      /\ \A u \in Units : u \in ToSet(kept) => state'[u] = state[u]
      /\ \A u \in Units : u \notin ToSet(kept) => state'[u] = NewJob
  BY <1>1
<1>7. FileInv'
  BY <1>1 DEF FileInv
<1>8. LoopInv'
  BY <1>1, <1>4 DEF LoopInv, Building
<1>9. JobInv'
  BY <1>5, <1>6 DEF JobInv
<1>10. ASSUME NEW u \in Units, Compiled(u)'
       PROVE  Compiled(u) /\ u \in ToSet(jobs) /\ state'[u] = state[u]
  <2>1. u \in ToSet(kept)
    BY <1>1, <1>4, <1>10 DEF Compiled
  <2> QED
    BY <1>1, <1>3, <1>6, <2>1 DEF Compiled, LoopInv
<1>11. SourceInv'
  <2>1. ASSUME NEW u \in Units PROVE state'[u].sourceSig <= file'[u].stamp
    <3>1. file[u].stamp \in Nat
      BY StatInType, UnitsAreFiles
    <3> QED
      BY <1>1, <1>5, <1>6, <3>1 DEF SourceInv
  <2> QED
    BY <1>1, <1>10, <2>1 DEF SourceInv
<1>12. \A d \in DOMAIN Candidates, n \in Names : \A e : EntryInv(d, n, e) => EntryInv(d, n, e)'
  <2>1. ASSUME NEW f, Unseen(f) PROVE Unseen(f)'
    <3>1. CASE f \in ModuleFiles
      BY <1>1, <2>1, <3>1 DEF Unseen
    <3>2. CASE f \notin ModuleFiles /\ f \notin ToSet(jobs)'
      BY <3>2 DEF Unseen
    <3>3. CASE f \notin ModuleFiles /\ f \in ToSet(jobs)'
      <4>1. f \in ToSet(added)
        BY <1>1, <1>3, <1>4, <2>1, <3>3 DEF Unseen
      <4>2. added # <<>>
        BY <4>1 DEF ToSet
      <4> QED
        BY <1>1, <3>3, <4>2 DEF Unseen
    <3> QED
      BY <3>1, <3>2, <3>3
  <2> QED
    BY <1>1, <2>1, EntryUntouched
<1>13. ModulesInv'
  <2> SUFFICES ASSUME NEW u \in Units, Compiled(u)'
               PROVE  \A n \in DOMAIN state'[u].output.modules : ImportInv(u, n)'
    BY DEF ModulesInv
  <2>1. \A n \in DOMAIN state[u].output.modules : ImportInv(u, n)
    BY <1>10 DEF ModulesInv
  <2>2. state'[u] = state[u]
    BY <1>10
  <2> QED
    BY <1>12, <2>1, <2>2, ModulesKept, UnitsAreFiles
<1>14. CacheInv'
  BY <1>1 DEF CacheInv, Building
<1>15. SigsInv'
  <2>1. ASSUME NEW u \in ToSet(jobs)' PROVE state'[u].deps \subseteq DOMAIN moduleSigs
    <3>1. u \in Units
      BY <1>2, <1>3, <1>4, ListedFacts
    <3>2. CASE u \in ToSet(kept)
      BY <1>1, <1>3, <1>6, <3>1, <3>2 DEF SigsInv, Building
    <3>3. CASE u \notin ToSet(kept)
      BY <1>5, <1>6, <3>1, <3>3
    <3> QED
      BY <3>2, <3>3
  <2> QED
    BY <1>1, <2>1 DEF SigsInv
<1> QED
  BY <1>7, <1>8, <1>9, <1>11, <1>13, <1>14, <1>15

----------------------------------------------------------------------------
(* Edits.  A file that is not signed yet and was read is late from now on. *)
LEMMA EditKeeps ==
  ASSUME WatchInv, NEW f \in Files, NEW r,
         r \in [exists : BOOLEAN, stamp : Nat \ {0}, imports : SUBSET Names],
         file' = [file EXCEPT ![f] = r],
         r.stamp = IF r.exists THEN file[f].stamp + 1 ELSE file[f].stamp,
         jobs' = jobs, state' = state, moduleSigs' = moduleSigs,
         late' = late \cup ({f} \cap ReadUnsigned), listing' = listing,
         cache' = cache, pc' = pc, todo' = todo, jobsAdded' = jobsAdded, wanted' = wanted
  PROVE  WatchInv'
<1> USE DEF WatchInv
<1>1. DOMAIN file = Files /\ \A g \in Files : file[g].stamp \in Nat
  BY StatInType DEF FileInv
<1>2. DOMAIN file' = Files /\ file'[f] = r /\ \A g \in Files : g # f => file'[g] = file[g]
  BY <1>1
<1>3. r.stamp \in Nat /\ r.stamp # 0 /\ file[f].stamp <= r.stamp
  BY <1>1
<1>4. FileInv'
  BY <1>2 DEF FileInv
<1>5. \A g \in Files : file[g].stamp <= file'[g].stamp
  BY <1>1, <1>2, <1>3
<1>6. LoopInv' /\ JobInv'
  BY DEF LoopInv, JobInv
<1>7. SigsInv'
  <2>1. ASSUME NEW p \in DOMAIN moduleSigs PROVE moduleSigs[p] <= file'[p].stamp
    <3>1. p \in Files /\ moduleSigs[p] \in Nat /\ moduleSigs[p] <= file[p].stamp
      BY DEF SigsInv
    <3>2. file'[p].stamp \in Nat
      BY <1>4, <3>1, StatInType DEF FileInv
    <3> QED
      BY <1>1, <1>5, <3>1, <3>2
  <2>2. CachePaths' = CachePaths /\ late' \subseteq Files
    BY DEF CachePaths, SigsInv
  <2> QED
    BY <2>1, <2>2 DEF SigsInv
<1>8. \A u : Compiled(u)' <=> Compiled(u)
  BY CurrentStays DEF Compiled
<1>9. SourceInv'
  <2>1. ASSUME NEW u \in Units PROVE state[u].sourceSig <= file'[u].stamp
    <3>1. u \in Files /\ state[u].sourceSig \in Nat /\ state[u].sourceSig <= file[u].stamp
      BY UnitsAreFiles DEF JobInv, SourceInv
    <3>2. file'[u].stamp \in Nat
      BY <1>4, <3>1 DEF FileInv
    <3> QED
      BY <1>1, <1>5, <3>1, <3>2
  <2>2. ASSUME NEW u \in Units, Compiled(u), file'[u].exists, file'[u].stamp = state[u].sourceSig
        PROVE  state[u].output.source = file'[u].stamp
    <3>1. u \in Files /\ state[u].sourceSig \in Nat /\ state[u].sourceSig <= file[u].stamp
      BY UnitsAreFiles DEF JobInv, SourceInv
    <3>2. u # f
      BY <1>1, <1>2, <2>2, <3>1
    <3> QED
      BY <1>2, <2>2, <3>1, <3>2 DEF SourceInv
  <2> QED
    BY <1>8, <2>1, <2>2 DEF SourceInv
<1>10. ASSUME NEW e \in Entries, e.path # Nowhere, Traced(e.path, e),
              e.path \in DOMAIN moduleSigs \cup CachePaths
       PROVE  Traced(e.path, e)'
  <2>1. e.path \in Files /\ e.stamp \in Nat /\ e.stamp <= file[e.path].stamp
    BY <1>10 DEF Entries, Traced
  <2>2. e.stamp <= file'[e.path].stamp
    <3>1. file'[e.path].stamp \in Nat
      BY <1>4, <2>1 DEF FileInv
    <3> QED
      BY <1>1, <1>5, <2>1, <3>1
  <2>3. CASE e.path # f
    <3>1. Stat(e.path)' = Stat(e.path)
      BY <1>2, <2>1, <2>3 DEF Stat
    <3> QED
      BY <1>10, <2>2, <3>1 DEF Traced
  <2>4. CASE e.path = f
    <3>1. f \in DOMAIN moduleSigs \/ f \in late'
      BY <1>10, <2>4 DEF CachePaths, ReadUnsigned
    <3> QED
      BY <1>10, <2>2, <2>4, <3>1 DEF Traced
  <2> QED
    BY <2>3, <2>4
<1>11. \A g : Unseen(g) => Unseen(g)'
  BY DEF Unseen
<1>12. ASSUME NEW d \in DOMAIN Candidates, NEW n \in Names, NEW e \in Entries, EntryInv(d, n, e),
              e.path # Nowhere => e.path \in DOMAIN moduleSigs \cup CachePaths
       PROVE  EntryInv(d, n, e)'
  <2>1. e.path # Nowhere => (Traced(e.path, e) => Traced(e.path, e)')
    BY <1>10, <1>12
  <2> QED
    BY <1>11, <1>12, <2>1, EntryKept
<1>13. ModulesInv'
  <2> SUFFICES ASSUME NEW u \in Units, Compiled(u)
               PROVE  \A n \in DOMAIN state'[u].output.modules : ImportInv(u, n)'
    BY <1>8 DEF ModulesInv
  <2>1. u \in ToSet(jobs) /\ \A n \in DOMAIN state[u].output.modules : ImportInv(u, n)
    BY DEF ModulesInv, Compiled
  <2>2. state[u].deps \subseteq DOMAIN moduleSigs \cup CachePaths
    BY <2>1 DEF SigsInv
  <2>3. \A n \in Names, e \in Entries :
          EntryInv(Directory[u], n, e) /\ (e.path # Nowhere => e.path \in state[u].deps)
            => EntryInv(Directory[u], n, e)'
    BY <1>12, <2>2, UnitsAreFiles
  <2> QED
    BY <2>1, <2>3, ModulesKept
<1>14. CacheInv'
  <2>1. CASE pc \in Building
    <3> SUFFICES ASSUME NEW k \in DOMAIN cache
                 PROVE  \E d \in DOMAIN Candidates, n \in Names, e \in Entries :
                          k = <<d, n>> /\ e = cache[k] /\ EntryInv(d, n, e)'
      BY DEF CacheInv
    <3>1. PICK d \in DOMAIN Candidates, n \in Names, e \in Entries :
            k = <<d, n>> /\ e = cache[k] /\ EntryInv(d, n, e)
      BY <2>1 DEF CacheInv
    <3>2. e.path \in CachePaths
      BY <3>1 DEF CachePaths
    <3> QED
      BY <1>12, <3>1, <3>2
  <2>2. CASE pc \notin Building
    BY <2>2 DEF CacheInv
  <2> QED
    BY <2>1, <2>2
<1> QED
  BY <1>4, <1>6, <1>7, <1>9, <1>13, <1>14

LEMMA WriteFileKeeps ==
  ASSUME WatchInv, NEW f \in Files, NEW imports \in Imports[f], WriteFile(f, imports)
  PROVE  WatchInv'
<1> DEFINE r == [exists |-> TRUE, stamp |-> file[f].stamp + 1, imports |-> imports]
<1>1. /\ file' = [file EXCEPT ![f] = r]
      /\ jobs' = jobs /\ state' = state /\ moduleSigs' = moduleSigs
      /\ late' = late \cup ({f} \cap ReadUnsigned) /\ listing' = listing
      /\ cache' = cache /\ pc' = pc /\ todo' = todo /\ jobsAdded' = jobsAdded /\ wanted' = wanted
  BY DEF WriteFile, WatchInv, FileInv, loop
<1>2. file[f].stamp \in Nat
  BY StatInType DEF WatchInv
<1>3. imports \subseteq Names
  BY DEF Names
<1>4. r \in [exists : BOOLEAN, stamp : Nat \ {0}, imports : SUBSET Names]
  BY <1>2, <1>3
<1>5. r.exists /\ r.stamp = file[f].stamp + 1
  OBVIOUS
<1> HIDE DEF r
<1> QED
  BY <1>1, <1>4, <1>5, EditKeeps

LEMMA DeleteFileKeeps ==
  ASSUME WatchInv, NEW f \in Files, DeleteFile(f)
  PROVE  WatchInv'
<1> DEFINE r == [exists |-> FALSE, stamp |-> file[f].stamp, imports |-> {}]
<1>1. /\ file' = [file EXCEPT ![f] = r]
      /\ jobs' = jobs /\ state' = state /\ moduleSigs' = moduleSigs
      /\ late' = late \cup ({f} \cap ReadUnsigned) /\ listing' = listing
      /\ cache' = cache /\ pc' = pc /\ todo' = todo /\ jobsAdded' = jobsAdded /\ wanted' = wanted
  BY DEF DeleteFile, WatchInv, FileInv, loop
<1>2. file[f].stamp \in Nat \ {0}
  BY StatInType DEF WatchInv
<1>3. r \in [exists : BOOLEAN, stamp : Nat \ {0}, imports : SUBSET Names]
  BY <1>2
<1>4. ~r.exists /\ r.stamp = file[f].stamp
  OBVIOUS
<1> HIDE DEF r
<1> QED
  BY <1>1, <1>3, <1>4, EditKeeps

----------------------------------------------------------------------------

LEMMA InitHolds == Init => WatchInv
<1> SUFFICES ASSUME Init PROVE WatchInv
  OBVIOUS
<1>1. /\ file \in [Files -> [exists : BOOLEAN, stamp : {1}, imports : SUBSET Names]]
      /\ jobs = Listed /\ state = [u \in Units |-> NewJob] /\ moduleSigs = <<>> /\ late = {}
      /\ listing = ModuleDirFiles /\ cache = <<>> /\ pc = "start" /\ todo = ToSet(jobs) /\ wanted = {}
  BY DEF Init
<1>2. DOMAIN moduleSigs = {} /\ DOMAIN cache = {}
  BY <1>1
<1>3. ASSUME NEW f \in Files
      PROVE  file[f] \in [exists : BOOLEAN, stamp : Nat \ {0}, imports : SUBSET Names]
             /\ file[f].stamp = 1
  BY <1>1
<1>4. FileInv
  BY <1>1, <1>3 DEF FileInv
<1>5. LoopInv
  BY <1>1, ListedFacts DEF LoopInv, Building, ModuleDirFiles
<1>6. \A u \in Units : ~Compiled(u)
  BY <1>1 DEF Compiled
<1>7. JobInv /\ SourceInv
  <2>1. \A u \in Units : state[u].sourceSig = 0 /\ state[u].deps = {} /\ 0 <= file[u].stamp
    BY <1>1, <1>3, UnitsAreFiles DEF NewJob
  <2>2. DOMAIN state = Units
    BY <1>1
  <2> QED
    BY <1>6, <2>1, <2>2 DEF JobInv, SourceInv
<1>8. ModulesInv /\ CacheInv /\ SigsInv
  <2>1. \A u \in ToSet(jobs) : state[u].deps = {}
    BY <1>1, <1>5 DEF LoopInv, ToSet, NewJob
  <2> QED
    BY <1>1, <1>2, <1>6, <2>1 DEF ModulesInv, CacheInv, SigsInv, Building
<1> QED
  BY <1>4, <1>5, <1>7, <1>8 DEF WatchInv

LEMMA StutterKeeps ==
  ASSUME WatchInv, UNCHANGED vars
  PROVE  WatchInv'
<1> USE DEF WatchInv
<1>1. /\ file' = file /\ jobs' = jobs /\ state' = state /\ moduleSigs' = moduleSigs /\ late' = late
      /\ listing' = listing /\ cache' = cache /\ pc' = pc /\ todo' = todo
      /\ jobsAdded' = jobsAdded /\ wanted' = wanted
  BY DEF vars, sigs, files, loop
<1>2. \A d \in DOMAIN Candidates, n \in Names : \A e : EntryInv(d, n, e) => EntryInv(d, n, e)'
  <2>1. \A f : Unseen(f) => Unseen(f)'
    BY <1>1 DEF Unseen
  <2> QED
    BY <1>1, <2>1, EntryUntouched
<1>3. FileInv' /\ LoopInv' /\ JobInv' /\ SigsInv'
  BY <1>1 DEF FileInv, LoopInv, JobInv, SigsInv, CachePaths
<1>4. \A u \in Units : Compiled(u)' => Compiled(u)
  BY <1>1, CurrentStays DEF Compiled
<1>5. SourceInv'
  BY <1>1, <1>4 DEF SourceInv
<1>6. ModulesInv'
  <2> SUFFICES ASSUME NEW u \in Units, Compiled(u)'
               PROVE  \A n \in DOMAIN state'[u].output.modules : ImportInv(u, n)'
    BY DEF ModulesInv
  <2>1. \A n \in DOMAIN state[u].output.modules : ImportInv(u, n)
    BY <1>4 DEF ModulesInv
  <2> QED
    BY <1>1, <1>2, <2>1, ModulesKept, UnitsAreFiles
<1>7. CacheInv'
  <2>1. CASE pc \in Building
    BY <1>1, <1>2, <2>1, CacheKept
  <2>2. CASE pc \notin Building
    BY <1>1, <2>2 DEF CacheInv
  <2> QED
    BY <2>1, <2>2
<1> QED
  BY <1>3, <1>5, <1>6, <1>7

(* A unit that the tick sees nothing new about is made from the files as   *)
(* they are, if nothing escaped.                                           *)
LEMMA ModuleIsNotMissed ==
  ASSUME WatchInv, pc = "wait", NEW u \in ToSet(jobs), ~Noticed(u),
         NEW n \in DOMAIN state[u].output.modules, ~Escapes(u, n)
  PROVE  ~StaleModule(u, n)
<1> USE DEF WatchInv
<1> DEFINE paths == Candidates[Directory[u]][n]
<1>1. u \in Units /\ u \in Files
  BY UnitsAreFiles DEF LoopInv, ToSet
<1>2. Compiled(u)
  BY DEF Compiled, LoopInv
<1>3. /\ ModuleDirFiles = listing /\ \A p \in state[u].deps : Stat(p) = moduleSigs[p]
      /\ state[u].failed => ToSet(Listed) \subseteq ToSet(jobs)
  BY DEF Noticed
<1>4. ImportInv(u, n) /\ n \in Names
  BY <1>1, <1>2 DEF ModulesInv, ImportInv
<1>5. PICK e \in Entries : /\ e = state[u].output.modules[n] /\ EntryInv(Directory[u], n, e)
                           /\ IF e.path = Nowhere THEN state[u].failed ELSE e.path \in state[u].deps
  BY <1>4 DEF ImportInv
<1>6. /\ paths \in Seq(Files) /\ Len(paths) \in Nat /\ \A k \in 1..Len(paths) : paths[k] \in Files
      /\ \/ Resolve(u, n) = Nowhere /\ \A k \in 1..Len(paths) : ~file[paths[k]].exists
         \/ \E k \in 1..Len(paths) : /\ Resolve(u, n) = paths[k] /\ file[paths[k]].exists
                                     /\ \A i \in 1..(k - 1) : ~file[paths[i]].exists
  BY <1>1, <1>4, ResolveFacts
<1>7. /\ e.path \in late \cup e.news => Stat(e.path) = e.stamp
      /\ \A f \in Ahead(u, n) : file[f].exists =>
           f \notin e.news /\ (f \in ModuleFiles \/ (f \in Units /\ e.path = Nowhere))
  BY <1>5 DEF Escapes
(* Nothing is there that comes before the file.                            *)
<1>8. ASSUME NEW k \in 1..(Len(paths) + 1), StillFirst(paths, k, e),
             \A i \in 1..(k - 1) : paths[i] \in Ahead(u, n)
      PROVE  \A i \in 1..(k - 1) : ~file[paths[i]].exists
  <2> SUFFICES ASSUME NEW i \in 1..(k - 1), file[paths[i]].exists PROVE FALSE
    OBVIOUS
  <2> PICK f : f = paths[i]
    OBVIOUS
  <2>1. i \in 1..Len(paths)
    <3>1. Len(paths) \in Nat
      BY <1>6
    <3> QED
      BY ONLY <3>1, k \in 1..(Len(paths) + 1), i \in 1..(k - 1)
  <2>2. f \in Files /\ file[f].exists /\ f \in Ahead(u, n)
    BY <1>6, <1>8, <2>1
  <2>3. f \notin e.news /\ (f \in ModuleFiles \/ (f \in Units /\ e.path = Nowhere))
    BY <1>7, <2>2
  <2>4. Unseen(f)
    BY <1>8, <2>3 DEF StillFirst, Watched
  <2>5. CASE f \in ModuleFiles
    BY <1>3, <2>2, <2>4, <2>5 DEF Unseen, ModuleDirFiles
  <2>6. CASE f \notin ModuleFiles
    <3>1. f \in ToSet(jobs)
      BY <1>3, <1>5, <2>2, <2>3, <2>6, ListedFacts
    <3> QED
      BY <2>4, <2>6, <3>1 DEF Unseen
  <2> QED
    BY <2>5, <2>6
<1>9. Ahead(u, n) = LET I == {i \in 1..Len(paths) : paths[i] = e.path}
                        at == IF I # {} THEN Min(I) ELSE 0
                    IN {paths[i] : i \in {i \in 1..Len(paths) : at = 0 \/ i < at}}
  <2>1. DOMAIN paths = 1..Len(paths)
    <3> HIDE DEF paths
    <3> QED
      BY ONLY <1>6
  <2> QED
    BY <1>5, <2>1 DEF Ahead, SelectInSeq
<1>10. CASE e.path = Nowhere
  <2>1. StillFirst(paths, Len(paths) + 1, e)
    BY <1>5, <1>10 DEF EntryInv
  <2>2. {i \in 1..Len(paths) : paths[i] = e.path} = {}
    BY <1>6, <1>10, WatchAssumption
  <2>3. Ahead(u, n) = {paths[i] : i \in 1..Len(paths)}
    BY <1>9, <2>2
  <2>4. (Len(paths) + 1) - 1 = Len(paths) /\ Len(paths) + 1 \in 1..(Len(paths) + 1)
    <3>1. Len(paths) \in Nat
      BY <1>6
    <3> QED
      BY ONLY <3>1
  <2>5. \A i \in 1..((Len(paths) + 1) - 1) : paths[i] \in Ahead(u, n)
    BY <2>3, <2>4
  <2>6. \A i \in 1..Len(paths) : ~file[paths[i]].exists
    <3>1. \A i \in 1..((Len(paths) + 1) - 1) : ~file[paths[i]].exists
      BY <1>8, <2>1, <2>4, <2>5
    <3> QED
      BY <2>4, <3>1
  <2>7. Resolve(u, n) = e.path
    BY <1>6, <1>10, <2>6
  <2> QED
    BY <1>5, <1>10, <2>7 DEF StaleModule
<1>11. CASE e.path # Nowhere
  <2>1. PICK k \in 1..Len(paths) : /\ paths[k] = e.path /\ StillFirst(paths, k, e)
                                   /\ \A i \in 1..(k - 1) : paths[i] # e.path
    BY <1>5, <1>11 DEF EntryInv
  <2>2. Traced(e.path, e) /\ e.path \in state[u].deps /\ e.path \in Files
    BY <1>5, <1>11 DEF EntryInv, Entries
  <2>3. e.path \in DOMAIN moduleSigs /\ moduleSigs[e.path] \in Nat
    BY <2>2 DEF SigsInv, Building
  <2>4. Stat(e.path) = e.stamp
    <3>1. CASE e.path \in late \cup e.news
      BY <1>7, <3>1
    <3>2. CASE e.path \notin late \cup e.news
      <4>1. /\ Stat(e.path) = moduleSigs[e.path] /\ moduleSigs[e.path] # 0
            /\ moduleSigs[e.path] <= e.stamp /\ e.stamp <= file[e.path].stamp
        BY <1>3, <2>2, <2>3, <3>2 DEF Traced
      <4>2. Stat(e.path) = file[e.path].stamp /\ file[e.path].stamp \in Nat /\ e.stamp \in Nat
        BY <2>2, <4>1, StatInType DEF Stat, Entries
      <4> QED
        BY <4>1, <4>2
    <3> QED
      BY <3>1, <3>2
  <2>5. file[paths[k]].exists
    BY <2>1, <2>2, <2>4, StatInType DEF Traced
  <2>6. PICK I : I = {i \in 1..Len(paths) : paths[i] = e.path}
    OBVIOUS
  <2>7. k \in I /\ I # {} /\ I \subseteq Nat
    BY <2>1, <2>6
  <2>8. PICK at : at = Min(I) /\ at \in I /\ at <= k
    BY <2>7, LeastIndex
  <2>9. at = k
    <3>1. at \notin 1..(k - 1)
      BY <2>1, <2>6, <2>8
    <3>2. Len(paths) \in Nat /\ at \in 1..Len(paths) /\ k \in 1..Len(paths)
      BY <1>6, <2>6, <2>8
    <3> QED
      BY ONLY <2>8, <3>1, <3>2
  <2>10. k # 0 /\ \A i \in 1..(k - 1) : i \in 1..Len(paths) /\ i < k
    <3>1. Len(paths) \in Nat
      BY <1>6
    <3> QED
      BY ONLY <3>1, k \in 1..Len(paths)
  <2>11. Ahead(u, n) = {paths[i] : i \in {i \in 1..Len(paths) : i < k}}
    BY <1>9, <2>6, <2>7, <2>8, <2>9, <2>10
  <2>12. \A i \in 1..(k - 1) : paths[i] \in Ahead(u, n)
    BY <2>10, <2>11
  <2>13. \A i \in 1..(k - 1) : ~file[paths[i]].exists
    <3>1. k \in 1..(Len(paths) + 1)
      <4>1. Len(paths) \in Nat
        BY <1>6
      <4> QED
        BY ONLY <4>1, k \in 1..Len(paths)
    <3> QED
      BY <1>8, <2>1, <2>12, <3>1
  <2>14. PICK j \in 1..Len(paths) : /\ Resolve(u, n) = paths[j] /\ file[paths[j]].exists
                                    /\ \A i \in 1..(j - 1) : ~file[paths[i]].exists
    BY <1>6, <2>5
  <2>15. j \in 1..(k - 1) \/ k \in 1..(j - 1) \/ j = k
    <3>1. Len(paths) \in Nat /\ j \in 1..Len(paths) /\ k \in 1..Len(paths)
      BY <1>6
    <3> QED
      BY ONLY <3>1
  <2>16. Resolve(u, n) = e.path
    BY <2>1, <2>5, <2>13, <2>14, <2>15
  <2> QED
    BY <1>5, <2>4, <2>16 DEF StaleModule
<1> QED
  BY <1>10, <1>11

LEMMA NothingIsMissed ==
  ASSUME WatchInv
  PROVE  NoMissedChange
<1> SUFFICES ASSUME pc = "wait", NEW u \in ToSet(jobs), ~Noticed(u), file[u].exists
             PROVE  ~Outdated(u)
  BY DEF NoMissedChange, Outdated
<1>1. u \in Units /\ u \in Files
  BY UnitsAreFiles DEF WatchInv, LoopInv, ToSet
<1>2. Compiled(u)
  BY DEF Compiled, WatchInv, LoopInv
<1>3. Stat(u) = state[u].sourceSig
  BY DEF Noticed
<1>4. ~StaleSource(u)
  BY <1>1, <1>2, <1>3, StatInType DEF StaleSource, WatchInv, SourceInv
<1>5. \A n \in DOMAIN state[u].output.modules : StaleModule(u, n) => Escapes(u, n)
  BY ModuleIsNotMissed
<1> QED
  BY <1>4, <1>5 DEF Outdated

(* The invariant the loop is built on: what a compiled job was made from   *)
(* is what is there, or something the next tick sees, or one of the named  *)
(* ways a change escapes (lines 4668-4670, 4717-4728, 4843-4853,           *)
(* 4887-4911).                                                             *)
THEOREM ChangesAreTraced == Spec => []WatchInv
<1>1. Init => WatchInv
  BY InitHolds
<1>2. WatchInv /\ [Next]_vars => WatchInv'
  <2> SUFFICES ASSUME WatchInv, [Next]_vars PROVE WatchInv'
    OBVIOUS
  <2>1. ASSUME StartJob PROVE WatchInv'
    BY <2>1, StartJobKeeps
  <2>2. ASSUME ReadSource PROVE WatchInv'
    BY <2>2, ReadSourceKeeps
  <2>3. ASSUME NEW n \in wanted, ImportModule(n) PROVE WatchInv'
    BY <2>3, ImportModuleKeeps
  <2>4. ASSUME EndJob PROVE WatchInv'
    BY <2>4, EndJobKeeps
  <2>5. ASSUME EndBuild PROVE WatchInv'
    BY <2>5, EndBuildKeeps
  <2>6. ASSUME ListJobs PROVE WatchInv'
    BY <2>6, ListJobsKeeps
  <2>7. ASSUME KeepJobs PROVE WatchInv'
    BY <2>7, KeepJobsKeeps
  <2>8. ASSUME StatSources PROVE WatchInv'
    BY <2>8, StatSourcesKeeps
  <2>9. ASSUME StatModules PROVE WatchInv'
    BY <2>9, StatModulesKeeps
  <2>10. ASSUME ScanModuleDirs PROVE WatchInv'
    BY <2>10, ScanModuleDirsKeeps
  <2>11. ASSUME StartBuild PROVE WatchInv'
    BY <2>11, StartBuildKeeps
  <2>12. ASSUME Stop PROVE WatchInv'
    BY <2>12, StopKeeps
  <2>13. ASSUME NEW f \in Files, DeleteFile(f) PROVE WatchInv'
    BY <2>13, DeleteFileKeeps
  <2>14. ASSUME NEW f \in Files, NEW imports \in Imports[f], WriteFile(f, imports) PROVE WatchInv'
    BY <2>14, WriteFileKeeps
  <2>15. ASSUME UNCHANGED vars PROVE WatchInv'
    BY <2>15, StutterKeeps
  <2> QED
    BY <2>1, <2>2, <2>3, <2>4, <2>5, <2>6, <2>7, <2>8, <2>9, <2>10, <2>11, <2>12, <2>13, <2>14, <2>15
       DEF Next, Build, Tick, Edit
<1> QED
  BY <1>1, <1>2, PTL DEF Spec

(* Whatever is edited and whenever, a build that is out of date is one the *)
(* next tick repeats: always for a source ("an extra rebuild, never a      *)
(* missed one", lines 4668-4670), for a module in all but the three cases  *)
(* of Escapes (lines 4717-4728, 4843-4853, 4887-4911).                     *)
THEOREM NoChangeIsMissed == Spec => []NoMissedChange
<1>1. WatchInv => NoMissedChange
  BY NothingIsMissed
<1> QED
  BY <1>1, ChangesAreTraced, PTL
=============================================================================
