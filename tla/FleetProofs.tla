----------------------------- MODULE FleetProofs -----------------------------
(* Proofs about PoolLadder and Fleet, for any number of projects,          *)
(* containers and runs, and any budget.                                    *)
EXTENDS Fleet, FiniteSetTheorems, WellFoundedInduction, TLAPS

-----------------------------------------------------------------------------
(* Sums over finite sets, by induction over their subsets                  *)

(* Induction over the subsets of a finite set, as the least counterexample.*)
LEMMA MinimalSubset ==
  ASSUME NEW S, IsFiniteSet(S), NEW B, B \subseteq SUBSET S, B # {}
  PROVE  \E t \in B : \A u \in B : u \subseteq t => u = t
<1> DEFINE R == StrictSubsetOrdering(S)
<1>1. IsWellFoundedOn(R, SUBSET S)
  BY FS_StrictSubsetOrderingWellFounded, FS_FiniteSubsetsOfFinite
<1>2. \A u \in SUBSET S, t \in SUBSET S : u \subseteq t /\ u # t => <<u, t>> \in R
  BY DEF StrictSubsetOrdering
<1> HIDE DEF R
<1>3. PICK t \in B : \A u \in B : ~(<<u, t>> \in R)
  BY <1>1, WFMin
<1>4. QED
  BY <1>2, <1>3

(* The sum of f over a set, as MapThenSumSet computes it: some element is  *)
(* taken out and added to the sum of the rest.                             *)
First(s) == CHOOSE x \in s : TRUE

SumsOf(f, S, g) ==
    g = [s \in SUBSET S |-> IF s = {} THEN 0 ELSE f[First(s)] + g[s \ {First(s)}]]

LEMMA FirstIn == ASSUME NEW s, s # {} PROVE First(s) \in s
BY DEF First

LEMMA SumsStep ==
  ASSUME NEW f, NEW S, NEW g, SumsOf(f, S, g), NEW s \in SUBSET S
  PROVE  g[s] = IF s = {} THEN 0 ELSE f[First(s)] + g[s \ {First(s)}]
<1>1. PICK e : e = [t \in SUBSET S |-> IF t = {} THEN 0 ELSE f[First(t)] + g[t \ {First(t)}]]
  OBVIOUS
<1>2. g = e
  BY <1>1 DEF SumsOf
<1>3. e[s] = IF s = {} THEN 0 ELSE f[First(s)] + g[s \ {First(s)}]
  BY <1>1
<1>4. QED
  BY <1>2, <1>3

(* The recursion has one solution, even over a part of the set.            *)
LEMMA SumsAgree ==
  ASSUME NEW f, NEW e, NEW S, NEW T, NEW g, NEW h, IsFiniteSet(S), T \subseteq S,
         SumsOf(f, S, g), SumsOf(e, T, h), \A x \in T : f[x] = e[x]
  PROVE  \A s \in SUBSET T : g[s] = h[s]
<1> SUFFICES ASSUME NEW s \in SUBSET T, g[s] # h[s] PROVE FALSE
  OBVIOUS
<1> DEFINE B == {t \in SUBSET T : g[t] # h[t]}
<1>0. IsFiniteSet(T)
  BY FS_Subset
<1>1. PICK t \in B : \A u \in B : u \subseteq t => u = t
  <2>1. B \subseteq SUBSET T /\ B # {}
    OBVIOUS
  <2> HIDE DEF B
  <2>2. QED
    BY <1>0, <2>1, MinimalSubset
<1>2. t \in SUBSET S /\ t \in SUBSET T
  OBVIOUS
<1>3. g[t] = IF t = {} THEN 0 ELSE f[First(t)] + g[t \ {First(t)}]
  BY <1>2, SumsStep
<1>4. h[t] = IF t = {} THEN 0 ELSE e[First(t)] + h[t \ {First(t)}]
  BY <1>2, SumsStep
<1>5. t # {}
  BY <1>3, <1>4
<1>6. First(t) \in t
  BY <1>5, FirstIn
<1>7. g[t \ {First(t)}] = h[t \ {First(t)}]
  BY <1>1, <1>2, <1>6
<1>8. QED
  BY <1>3, <1>4, <1>5, <1>6, <1>7

Sized(f, S) == \A x \in S : f[x] \in Nat

LEMMA SumsNatural ==
  ASSUME NEW f, NEW S, NEW g, IsFiniteSet(S), SumsOf(f, S, g), Sized(f, S)
  PROVE  \A s \in SUBSET S : g[s] \in Nat
<1> SUFFICES ASSUME NEW s \in SUBSET S, g[s] \notin Nat PROVE FALSE
  OBVIOUS
<1> DEFINE B == {t \in SUBSET S : g[t] \notin Nat}
<1>1. PICK t \in B : \A u \in B : u \subseteq t => u = t
  <2>1. B \subseteq SUBSET S /\ B # {}
    OBVIOUS
  <2> HIDE DEF B
  <2>2. QED
    BY <2>1, MinimalSubset
<1>2. g[t] = IF t = {} THEN 0 ELSE f[First(t)] + g[t \ {First(t)}]
  BY SumsStep
<1>3. t # {}
  BY <1>2
<1>4. First(t) \in t
  BY <1>3, FirstIn
<1>5. g[t \ {First(t)}] \in Nat /\ f[First(t)] \in Nat
  BY <1>1, <1>4 DEF Sized
<1>6. QED
  BY <1>2, <1>3, <1>5

(* Which element is taken out first makes no difference.                   *)
LEMMA SumsRemove ==
  ASSUME NEW f, NEW S, NEW g, IsFiniteSet(S), SumsOf(f, S, g), Sized(f, S)
  PROVE  \A s \in SUBSET S : \A y \in s : g[s] = f[y] + g[s \ {y}]
<1> SUFFICES ASSUME NEW s \in SUBSET S, NEW y0 \in s, g[s] # f[y0] + g[s \ {y0}] PROVE FALSE
  OBVIOUS
<1> DEFINE B == {t \in SUBSET S : \E y \in t : g[t] # f[y] + g[t \ {y}]}
<1>1. PICK t \in B : \A u \in B : u \subseteq t => u = t
  <2>1. B \subseteq SUBSET S /\ B # {}
    OBVIOUS
  <2> HIDE DEF B
  <2>2. QED
    BY <2>1, MinimalSubset
<1>2. PICK y \in t : g[t] # f[y] + g[t \ {y}]
  OBVIOUS
<1>3. PICK x : x = First(t)
  OBVIOUS
<1>4. x \in t /\ g[t] = f[x] + g[t \ {x}]
  BY <1>2, <1>3, SumsStep, FirstIn
<1>5. x # y
  BY <1>2, <1>4
<1>6. t \ {x} \in SUBSET S /\ t \ {y} \in SUBSET S /\ (t \ {x}) \ {y} \in SUBSET S
  OBVIOUS
<1>7. g[t \ {x}] = f[y] + g[(t \ {x}) \ {y}]
  BY <1>1, <1>2, <1>4, <1>5, <1>6
<1>8. g[t \ {y}] = f[x] + g[(t \ {y}) \ {x}]
  BY <1>1, <1>2, <1>4, <1>5, <1>6
<1>9. (t \ {x}) \ {y} = (t \ {y}) \ {x}
  OBVIOUS
<1>10. f[x] \in Nat /\ f[y] \in Nat /\ g[(t \ {x}) \ {y}] \in Nat
  BY <1>2, <1>4, <1>6, SumsNatural DEF Sized
<1>11. PICK a \in Nat, b \in Nat, k \in Nat : a = f[x] /\ b = f[y] /\ k = g[(t \ {x}) \ {y}]
  BY <1>10
<1>12. g[t] = a + (b + k) /\ g[t \ {y}] = a + k
  BY <1>4, <1>7, <1>8, <1>9, <1>11
<1>13. a + (b + k) = b + (a + k)
  OBVIOUS
<1>14. QED
  BY <1>2, <1>11, <1>12, <1>13

(* The recursion has a solution.                                           *)
LEMMA SumsExist ==
  ASSUME NEW f, NEW S, IsFiniteSet(S)
  PROVE  \E g : SumsOf(f, S, g)
<1> SUFFICES ASSUME ~\E g : SumsOf(f, S, g) PROVE FALSE
  OBVIOUS
<1> DEFINE B == {t \in SUBSET S : ~\E g : SumsOf(f, t, g)}
<1>1. PICK t \in B : \A u \in B : u \subseteq t => u = t
  <2>1. B \subseteq SUBSET S /\ B # {}
    OBVIOUS
  <2> HIDE DEF B
  <2>2. QED
    BY <2>1, MinimalSubset
<1>2. IsFiniteSet(t)
  BY FS_Subset
<1> DEFINE part(u) == CHOOSE g : SumsOf(f, u, g)
           g == [s \in SUBSET t |->
                    IF s = {} THEN 0
                    ELSE f[First(s)] + part(s \ {First(s)})[s \ {First(s)}]]
<1>3. ASSUME NEW u \in SUBSET t, u # t PROVE SumsOf(f, u, part(u))
  <2>1. \E e : SumsOf(f, u, e)
    BY <1>1, <1>3
  <2>2. QED
    BY <2>1
<1> HIDE DEF part
<1>4. ASSUME NEW s \in SUBSET t, s # t PROVE g[s] = part(s)[s]
  <2>1. part(s)[s] = IF s = {} THEN 0 ELSE f[First(s)] + part(s)[s \ {First(s)}]
    BY <1>3, <1>4, SumsStep
  <2>2. CASE s = {}
    BY <2>1, <2>2
  <2>3. CASE s # {}
    <3>1. PICK v : v = s \ {First(s)}
      OBVIOUS
    <3>2. First(s) \in s /\ v \in SUBSET t /\ v # t /\ v \subseteq s /\ v \in SUBSET v
      BY <2>3, <3>1, FirstIn
    <3>3. SumsOf(f, v, part(v)) /\ SumsOf(f, s, part(s)) /\ IsFiniteSet(s)
      BY <1>2, <1>3, <1>4, <3>2, FS_Subset
    <3>4. part(s)[v] = part(v)[v]
      BY <3>2, <3>3, SumsAgree
    <3>5. g[s] = f[First(s)] + part(v)[v]
      BY <2>3, <3>1
    <3>6. QED
      BY <2>1, <2>3, <3>1, <3>4, <3>5
  <2>4. QED
    BY <2>2, <2>3
<1>5. ASSUME NEW s \in SUBSET t
      PROVE  g[s] = IF s = {} THEN 0 ELSE f[First(s)] + g[s \ {First(s)}]
  <2>1. CASE s = {}
    BY <2>1
  <2>2. CASE s # {}
    <3>1. PICK v : v = s \ {First(s)}
      OBVIOUS
    <3>2. First(s) \in s /\ v \in SUBSET t /\ v # t
      BY <2>2, <3>1, FirstIn
    <3>3. g[v] = part(v)[v]
      BY <1>4, <3>2
    <3>4. g[s] = f[First(s)] + part(v)[v]
      BY <2>2, <3>1
    <3>5. QED
      BY <2>2, <3>1, <3>3, <3>4
  <2>3. QED
    BY <2>1, <2>2
<1>6. \E e : e = g
  OBVIOUS
<1>7. DOMAIN g = SUBSET t /\ g = [s \in SUBSET t |-> g[s]]
  OBVIOUS
<1> HIDE DEF g
<1>8. g = [s \in SUBSET t |-> IF s = {} THEN 0 ELSE f[First(s)] + g[s \ {First(s)}]]
  BY <1>5, <1>7
<1>9. SumsOf(f, t, g)
  BY <1>8 DEF SumsOf
<1>10. QED
  BY <1>9

(* The sum.                                                                *)
Total(f, S) == (CHOOSE g : SumsOf(f, S, g))[S]

LEMMA TotalIs ==
  ASSUME NEW f, NEW S, NEW T, NEW g, IsFiniteSet(S), SumsOf(f, S, g), T \subseteq S
  PROVE  Total(f, T) = g[T]
<1>1. \E h : SumsOf(f, T, h)
  BY FS_Subset, SumsExist
<1>2. PICK h : h = CHOOSE e : SumsOf(f, T, e)
  OBVIOUS
<1>3. SumsOf(f, T, h)
  BY <1>1, <1>2
<1>4. g[T] = h[T]
  BY <1>3, SumsAgree
<1>5. QED
  BY <1>2, <1>4 DEF Total

LEMMA TotalEmpty == ASSUME NEW f PROVE Total(f, {}) = 0
<1>1. IsFiniteSet({})
  BY FS_EmptySet
<1>2. PICK g : SumsOf(f, {}, g)
  BY <1>1, SumsExist
<1>3. Total(f, {}) = g[{}] /\ g[{}] = 0
  BY <1>1, <1>2, TotalIs, SumsStep
<1>4. QED
  BY <1>3

LEMMA TotalNatural ==
  ASSUME NEW f, NEW S, IsFiniteSet(S), Sized(f, S)
  PROVE  Total(f, S) \in Nat
<1>1. PICK g : SumsOf(f, S, g)
  BY SumsExist
<1>2. QED
  BY <1>1, TotalIs, SumsNatural

LEMMA TotalRemove ==
  ASSUME NEW f, NEW S, IsFiniteSet(S), Sized(f, S), NEW x \in S
  PROVE  Total(f, S) = f[x] + Total(f, S \ {x})
<1>1. PICK g : SumsOf(f, S, g)
  BY SumsExist
<1>2. Total(f, S) = g[S] /\ Total(f, S \ {x}) = g[S \ {x}]
  BY <1>1, TotalIs
<1>3. QED
  BY <1>1, <1>2, SumsRemove

LEMMA TotalSame ==
  ASSUME NEW f, NEW e, NEW S, IsFiniteSet(S), \A x \in S : f[x] = e[x]
  PROVE  Total(f, S) = Total(e, S)
<1>1. PICK g, h : SumsOf(f, S, g) /\ SumsOf(e, S, h)
  BY SumsExist
<1>2. QED
  BY <1>1, TotalIs, SumsAgree

LEMMA TotalMonotone ==
  ASSUME NEW f, NEW S, IsFiniteSet(S), Sized(f, S), NEW T, T \subseteq S
  PROVE  Total(f, T) <= Total(f, S)
<1> SUFFICES ASSUME ~(Total(f, T) <= Total(f, S)) PROVE FALSE
  OBVIOUS
<1> DEFINE B == {d \in SUBSET S : ~(Total(f, S \ d) <= Total(f, S))}
<1>1. PICK d \in B : \A u \in B : u \subseteq d => u = d
  <2>1. S \ (S \ T) = T
    OBVIOUS
  <2>2. B \subseteq SUBSET S /\ S \ T \in B
    BY <2>1
  <2> HIDE DEF B
  <2>3. QED
    BY <2>2, MinimalSubset
<1>2. Total(f, S) \in Nat /\ IsFiniteSet(S \ d) /\ Sized(f, S \ d)
  BY TotalNatural, FS_Subset DEF Sized
<1>3. d # {}
  <2>1. S \ {} = S
    OBVIOUS
  <2>2. QED
    BY <1>2, <2>1
<1>4. PICK x \in d : TRUE
  BY <1>3
<1>5. PICK U : U = S \ (d \ {x})
  OBVIOUS
<1>6. x \in U /\ U \ {x} = S \ d /\ IsFiniteSet(U) /\ Sized(f, U) /\ f[x] \in Nat
  BY <1>4, <1>5, FS_Subset DEF Sized
<1>7. Total(f, U) <= Total(f, S)
  <2>1. d \ {x} \in SUBSET S /\ d \ {x} \subseteq d /\ d \ {x} # d
    BY <1>4
  <2>2. d \ {x} \notin B
    <3> HIDE DEF B
    <3>1. QED
      BY <1>1, <2>1
  <2>3. QED
    BY <1>5, <2>1, <2>2
<1>8. Total(f, U) = f[x] + Total(f, S \ d)
  BY <1>6, TotalRemove
<1>9. Total(f, S \ d) \in Nat
  BY <1>2, TotalNatural
<1>10. QED
  BY <1>2, <1>6, <1>7, <1>8, <1>9

(* A set of places in a sequence has a first and a last.                   *)
LEMMA LeastOf ==
  ASSUME NEW n \in Nat, NEW J, J \subseteq 0..n, J # {}
  PROVE  \E i \in J : \A j \in J : i <= j
<1> DEFINE B == {0..i : i \in J}
<1>1. IsFiniteSet(0..n)
  BY FS_Interval
<1>2. B \subseteq SUBSET (0..n) /\ B # {}
  <2>1. \A i \in J : 0..i \subseteq 0..n
    OBVIOUS
  <2>2. QED
    BY <2>1
<1>3. PICK t \in B : \A u \in B : u \subseteq t => u = t
  <2>1. PICK S, b : S = 0..n /\ b = B
    OBVIOUS
  <2>2. IsFiniteSet(S) /\ b \subseteq SUBSET S /\ b # {}
    BY <1>1, <1>2, <2>1
  <2>3. \E t \in b : \A u \in b : u \subseteq t => u = t
    BY <2>2, MinimalSubset
  <2>4. QED
    BY <2>1, <2>3
<1>4. PICK i \in J : t = 0..i
  OBVIOUS
<1>5. ASSUME NEW j \in J, ~(i <= j) PROVE FALSE
  <2>1. i \in Nat /\ j \in Nat /\ j < i
    BY <1>5
  <2>2. 0..j \subseteq 0..i /\ i \in 0..i /\ i \notin 0..j
    BY <2>1
  <2>3. 0..j \in B
    OBVIOUS
  <2>4. QED
    BY <1>3, <1>4, <2>2, <2>3
<1>6. QED
  BY <1>5

LEMMA GreatestOf ==
  ASSUME NEW n \in Nat, NEW J, J \subseteq 1..n, J # {}
  PROVE  \E i \in J : \A j \in J : j <= i
<1> DEFINE B == {i..n : i \in J}
<1>1. IsFiniteSet(1..n)
  BY FS_Interval
<1>2. B \subseteq SUBSET (1..n) /\ B # {}
  <2>1. \A i \in J : i..n \subseteq 1..n
    OBVIOUS
  <2>2. QED
    BY <2>1
<1>3. PICK t \in B : \A u \in B : u \subseteq t => u = t
  <2>1. PICK S, b : S = 1..n /\ b = B
    OBVIOUS
  <2>2. IsFiniteSet(S) /\ b \subseteq SUBSET S /\ b # {}
    BY <1>1, <1>2, <2>1
  <2>3. \E t \in b : \A u \in b : u \subseteq t => u = t
    BY <2>2, MinimalSubset
  <2>4. QED
    BY <2>1, <2>3
<1>4. PICK i \in J : t = i..n
  OBVIOUS
<1>5. ASSUME NEW j \in J, ~(j <= i) PROVE FALSE
  <2>1. i \in 1..n /\ j \in 1..n /\ i < j
    BY <1>5
  <2>2. j..n \subseteq i..n /\ i \in i..n /\ i \notin j..n
    BY <2>1
  <2>3. j..n \in B
    OBVIOUS
  <2>4. QED
    BY <1>3, <1>4, <2>2, <2>3
<1>6. QED
  BY <1>5

-----------------------------------------------------------------------------
(* The memory the model sums                                               *)

(* What the containers owned as o says take, and how the model sums it.    *)
Share(o) == [c \in Containers |-> Cap[o[c]]]
FoldOf(o, S) == MapThenSumSet(LAMBDA c : Cap[o[c]], S)
OwnFold(o, S, g) ==
    g = [s \in SUBSET S |->
            IF s = {} THEN 0
            ELSE Cap[o[CHOOSE x \in s : TRUE]] + g[s \ {CHOOSE x \in s : TRUE}]]

(* The library's sum is that recursion.                                    *)
LEMMA FoldIs ==
  ASSUME NEW o, NEW S, \E g : OwnFold(o, S, g)
  PROVE  \E g : OwnFold(o, S, g) /\ FoldOf(o, S) = g[S]
BY Zenon DEF FoldOf, OwnFold, MapThenSumSet, MapThenFoldSet

LEMMA OwnFoldSums ==
  ASSUME NEW o, NEW S, S \subseteq Containers, NEW g
  PROVE  OwnFold(o, S, g) <=> SumsOf(Share(o), S, g)
<1>1. \A s \in SUBSET S : s # {} => (CHOOSE x \in s : TRUE) \in Containers
  OBVIOUS
<1>2. \A s \in SUBSET S : s # {} => Share(o)[CHOOSE x \in s : TRUE] = Cap[o[CHOOSE x \in s : TRUE]]
  BY <1>1 DEF Share
<1>3. [s \in SUBSET S |-> IF s = {} THEN 0
            ELSE Cap[o[CHOOSE x \in s : TRUE]] + g[s \ {CHOOSE x \in s : TRUE}]]
      = [s \in SUBSET S |-> IF s = {} THEN 0
            ELSE Share(o)[CHOOSE x \in s : TRUE] + g[s \ {CHOOSE x \in s : TRUE}]]
  BY <1>2
<1>4. QED
  BY <1>3 DEF OwnFold, SumsOf, First

LEMMA FoldTotal ==
  ASSUME NEW o, NEW S, S \subseteq Containers, IsFiniteSet(Containers)
  PROVE  FoldOf(o, S) = Total(Share(o), S)
<1>1. IsFiniteSet(S)
  BY FS_Subset
<1>2. \E g : OwnFold(o, S, g)
  BY <1>1, SumsExist, OwnFoldSums
<1>3. PICK g : OwnFold(o, S, g) /\ FoldOf(o, S) = g[S]
  BY <1>2, FoldIs
<1>4. SumsOf(Share(o), S, g)
  BY <1>3, OwnFoldSums
<1>5. QED
  BY <1>1, <1>3, <1>4, TotalIs

(* What getActiveContainers counts.                                        *)
Running == {c \in Containers : state[c] \in Counted}

LEMMA UsedIs == UsedMemory = FoldOf(owner, Running)
BY Zenon DEF UsedMemory, FoldOf, Running, MapThenSumSet, MapThenFoldSet

LEMMA UsedIsNext == UsedMemory' = FoldOf(owner', Running')
BY Zenon DEF UsedMemory, FoldOf, Running, MapThenSumSet, MapThenFoldSet, Counted

LEMMA ReclaimableIs ==
  ASSUME NEW p PROVE ReclaimableMemory(p) = FoldOf(owner, Reclaimable(p))
BY Zenon DEF ReclaimableMemory, FoldOf, MapThenSumSet, MapThenFoldSet

(* The sizes of members.                                                   *)
SizeIn(U) == [m \in U |-> m.size]
SizeFold(S, g) ==
    g = [s \in SUBSET S |->
            IF s = {} THEN 0
            ELSE (CHOOSE x \in s : TRUE).size + g[s \ {CHOOSE x \in s : TRUE}]]

LEMMA SizesFold ==
  ASSUME NEW S, \E g : SizeFold(S, g)
  PROVE  \E g : SizeFold(S, g) /\ Sizes(S) = g[S]
BY Zenon DEF Sizes, SizeFold, MapThenSumSet, MapThenFoldSet

LEMMA SizeFoldSums ==
  ASSUME NEW U, NEW S, S \subseteq U, NEW g
  PROVE  SizeFold(S, g) <=> SumsOf(SizeIn(U), S, g)
<1>1. \A s \in SUBSET S : s # {} => (CHOOSE x \in s : TRUE) \in U
  OBVIOUS
<1>2. \A s \in SUBSET S : s # {} =>
         SizeIn(U)[CHOOSE x \in s : TRUE] = (CHOOSE x \in s : TRUE).size
  BY <1>1 DEF SizeIn
<1>3. [s \in SUBSET S |-> IF s = {} THEN 0
            ELSE (CHOOSE x \in s : TRUE).size + g[s \ {CHOOSE x \in s : TRUE}]]
      = [s \in SUBSET S |-> IF s = {} THEN 0
            ELSE SizeIn(U)[CHOOSE x \in s : TRUE] + g[s \ {CHOOSE x \in s : TRUE}]]
  BY <1>2
<1>4. QED
  BY <1>3 DEF SizeFold, SumsOf, First

LEMMA SizesTotal ==
  ASSUME NEW U, IsFiniteSet(U), NEW S, S \subseteq U
  PROVE  Sizes(S) = Total(SizeIn(U), S)
<1>1. IsFiniteSet(S)
  BY FS_Subset
<1>2. \E g : SizeFold(S, g)
  BY <1>1, SumsExist, SizeFoldSums
<1>3. PICK g : SizeFold(S, g) /\ Sizes(S) = g[S]
  BY <1>2, SizesFold
<1>4. SumsOf(SizeIn(U), S, g)
  BY <1>3, SizeFoldSums
<1>5. QED
  BY <1>1, <1>3, <1>4, TotalIs

SizesNatural(U) == \A m \in U : m.size \in Nat

LEMMA SizesFacts ==
  ASSUME NEW U, IsFiniteSet(U), SizesNatural(U), NEW S, S \subseteq U
  PROVE  Sizes(S) \in Nat /\ Sizes({}) = 0
<1>1. Sizes(S) = Total(SizeIn(U), S) /\ Sizes({}) = Total(SizeIn(U), {})
  BY SizesTotal
<1>2. IsFiniteSet(S) /\ Sized(SizeIn(U), S)
  BY FS_Subset DEF Sized, SizeIn, SizesNatural
<1>3. QED
  BY <1>1, <1>2, TotalNatural, TotalEmpty

-----------------------------------------------------------------------------
(* The idle planners                                                       *)

(* A plan that keeps the first of some members suspends at most one of     *)
(* them and destroys only others.                                          *)
LEMMA KeepFirstFacts ==
  ASSUME NEW ms, NEW chosen \in KeepFirst(ms)
  PROVE  /\ chosen.suspend \subseteq ms
         /\ chosen.destroy \subseteq ms
         /\ chosen.suspend \intersect chosen.destroy = {}
         /\ ms # {} => chosen.suspend # {}
<1>1. CASE ms = {}
  BY <1>1 DEF KeepFirst, Plan
<1>2. CASE ms # {}
  <2>1. PICK m \in ms : chosen = Plan({m}, ms \ {m})
    BY <1>2 DEF KeepFirst
  <2>2. QED
    BY <2>1 DEF Plan
<1>3. QED
  BY <1>1, <1>2

(* What every plan of planIdleShutdown keeps to.                           *)
LEMMA IdleShutdownFacts ==
  ASSUME NEW ms, NEW chosen \in PlanIdleShutdown(ms)
  PROVE  /\ chosen.suspend \subseteq InState(ms, "idle")
         /\ chosen.destroy \subseteq InState(ms, "idle") \ Pinned(ms)
         /\ chosen.suspend \intersect chosen.destroy = {}
         /\ chosen.suspend # {} \/ ms \ chosen.destroy # {} \/ ms = {}
<1> DEFINE idle == InState(ms, "idle")
           disposable == idle \ Pinned(idle)
<1>1. CASE Pinned(idle) # {} \/ InState(ms, "suspended") # {}
  <2>1. chosen = Plan(Pinned(idle), disposable)
    BY <1>1 DEF PlanIdleShutdown
  <2>2. InState(ms, "suspended") \intersect idle = {} /\ InState(ms, "suspended") \subseteq ms
    BY DEF InState
  <2>3. QED
    BY <1>1, <2>1, <2>2 DEF Plan, Pinned, InState
<1>2. CASE ~(Pinned(idle) # {} \/ InState(ms, "suspended") # {})
  <2>1. chosen \in KeepFirst(disposable)
    BY <1>2 DEF PlanIdleShutdown
  <2>2. QED
    BY <1>2, <2>1, KeepFirstFacts DEF Pinned, InState
<1>3. QED
  BY <1>1, <1>2

(* And what every plan of planSurplusIdleRetirement keeps to.              *)
LEMMA SurplusFacts ==
  ASSUME NEW ms, NEW stale, NEW chosen \in PlanSurplusIdleRetirement(ms, stale)
  PROVE  /\ chosen.suspend \subseteq InState(ms, "idle")
         /\ chosen.destroy \subseteq InState(ms, "idle") \ Pinned(ms)
         /\ chosen.suspend \intersect chosen.destroy = {}
         /\ chosen.suspend # {} \/ ms \ chosen.destroy # {} \/ ms = {}
<1> DEFINE going == {m \in InState(ms, "idle") : m \in stale}
           disposable == going \ Pinned(going)
<1>1. CASE Pinned(going) # {} \/ ms \ going # {}
  <2>1. chosen = Plan(Pinned(going), disposable)
    BY <1>1 DEF PlanSurplusIdleRetirement
  <2>2. QED
    BY <1>1, <2>1 DEF Plan, Pinned, InState
<1>2. CASE ~(Pinned(going) # {} \/ ms \ going # {})
  <2>1. chosen \in KeepFirst(disposable)
    BY <1>2 DEF PlanSurplusIdleRetirement
  <2>2. QED
    BY <1>2, <2>1, KeepFirstFacts DEF Pinned, InState
<1>3. QED
  BY <1>1, <1>2

(* A plan that keeps something leaves the project a member.                *)
LEMMA FloorKept ==
  ASSUME NEW ms, NEW chosen, chosen.suspend \subseteq ms,
         chosen.suspend # {} \/ ms \ chosen.destroy # {} \/ ms = {},
         ms # {}
  PROVE  AfterPlan(ms, chosen) # {}
<1>1. CASE chosen.suspend # {}
  <2>1. PICK m \in chosen.suspend : TRUE
    BY <1>1
  <2>2. [m EXCEPT !.state = "suspended"] \in AfterPlan(ms, chosen)
    BY <2>1, Zenon DEF AfterPlan
  <2>3. QED
    BY <2>2
<1>2. CASE chosen.suspend = {} /\ ms \ chosen.destroy # {}
  <2>1. PICK m \in ms : m \notin chosen.destroy /\ m \notin chosen.suspend
    BY <1>2
  <2>2. m \in AfterPlan(ms, chosen)
    BY <2>1, Zenon DEF AfterPlan
  <2>3. QED
    BY <2>2
<1>3. QED
  BY <1>1, <1>2

(* Neither idle pass can take a project's last warm start or a container   *)
(* that holds the only copy of its commits, in any state of the fleet      *)
(* (planIdleShutdown, planSurplusIdleRetirement).                          *)
THEOREM IdleFloor == Spec => []IdlePlansKeepFloor
<1>1. IdlePlansKeepFloor
  <2> SUFFICES ASSUME NEW p \in Projects, NEW stale \in SUBSET Members(p),
                      NEW chosen \in PlanIdleShutdown(Members(p))
                                     \union PlanSurplusIdleRetirement(Members(p), stale)
               PROVE  /\ Members(p) # {} => AfterPlan(Members(p), chosen) # {}
                      /\ \A m \in chosen.destroy : m.state = "idle" /\ ~m.pinned
                      /\ \A m \in chosen.suspend : m.state = "idle" /\ m \notin chosen.destroy
    BY DEF IdlePlansKeepFloor
  <2>1. /\ chosen.suspend \subseteq InState(Members(p), "idle")
        /\ chosen.destroy \subseteq InState(Members(p), "idle") \ Pinned(Members(p))
        /\ chosen.suspend \intersect chosen.destroy = {}
        /\ \/ chosen.suspend # {}
           \/ Members(p) \ chosen.destroy # {}
           \/ Members(p) = {}
    BY IdleShutdownFacts, SurplusFacts
  <2>2. Members(p) # {} => AfterPlan(Members(p), chosen) # {}
    BY <2>1, FloorKept DEF InState
  <2>3. QED
    BY <2>1, <2>2 DEF InState, Pinned
<1>2. QED
  BY <1>1, PTL

-----------------------------------------------------------------------------
(* planCrossProjectReclaim                                                 *)

(* An order of the eligible lists each of them once.                       *)
LEMMA OrderFacts ==
  ASSUME NEW E, IsFiniteSet(E), NEW order \in SetToSeqs(E)
  PROVE  /\ Cardinality(E) \in Nat
         /\ Len(order) = Cardinality(E)
         /\ order \in [1..Cardinality(E) -> E]
         /\ \A i, j \in 1..Cardinality(E) : i # j => order[i] # order[j]
         /\ FirstOf(order, Cardinality(E)) = E
<1> DEFINE N == Cardinality(E)
<1>1. N \in Nat /\ IsFiniteSet(1..N) /\ Cardinality(1..N) = N
  BY FS_CardinalityType, FS_Interval
<1>2. /\ order \in [1..N -> E]
      /\ \A i, j \in 1..N : i # j => order[i] # order[j]
  BY DEF SetToSeqs
<1> HIDE DEF N
<1>3. order \in Injection(1..N, E)
  BY <1>2 DEF Injection, IsInjective
<1>4. order \in Surjection(1..N, E)
  BY <1>1, <1>3, FS_Injection DEF N
<1>5. FirstOf(order, N) = E
  BY <1>2, <1>4 DEF Surjection, FirstOf
<1>6. Len(order) = N
  BY <1>1, <1>2
<1>7. QED
  BY <1>1, <1>2, <1>5, <1>6 DEF N

(* The shortest prefix that covers the need exists, and is what            *)
(* TakenCount says.                                                        *)
LEMMA TakenFacts ==
  ASSUME NEW E, IsFiniteSet(E), SizesNatural(E), NEW order \in SetToSeqs(E),
         NEW wanted \in Nat, wanted # 0, ~(Sizes(E) < wanted)
  PROVE  LET n == TakenCount(order, wanted) IN
         /\ n \in 1..Cardinality(E)
         /\ Sizes(FirstOf(order, n)) >= wanted
         /\ Sizes(FirstOf(order, n - 1)) < wanted
<1> DEFINE N == Cardinality(E)
           B == {i \in 0..N : Sizes(FirstOf(order, i)) >= wanted}
<1>1. /\ N \in Nat /\ Len(order) = N /\ order \in [1..N -> E]
      /\ FirstOf(order, N) = E
  BY OrderFacts
<1> HIDE DEF N
<1>2. \A i \in 0..N : FirstOf(order, i) \subseteq E
  BY <1>1 DEF FirstOf
<1>3. \A i \in 0..N : Sizes(FirstOf(order, i)) \in Nat
  BY <1>2, SizesFacts
<1>4. Sizes(FirstOf(order, 0)) = 0
  <2>1. FirstOf(order, 0) = {}
    BY DEF FirstOf
  <2>2. QED
    BY <2>1, SizesFacts
<1>5. N \in B
  BY <1>1, <1>3
<1>6. PICK n \in B : \A j \in B : n <= j
  BY <1>1, <1>5, LeastOf
<1>7. n > 0 => Sizes(FirstOf(order, n - 1)) < wanted
  <2> SUFFICES ASSUME n > 0 PROVE Sizes(FirstOf(order, n - 1)) < wanted
    OBVIOUS
  <2>1. n - 1 \in 0..N /\ ~(n <= n - 1)
    BY <1>1
  <2>2. n - 1 \notin B
    BY <1>6, <2>1
  <2>3. PICK a \in Nat : a = Sizes(FirstOf(order, n - 1))
    BY <1>3, <2>1
  <2>4. ~(a >= wanted)
    BY <2>1, <2>2, <2>3
  <2>5. QED
    BY <2>3, <2>4
<1>8. PICK k : k = TakenCount(order, wanted)
  OBVIOUS
<1>9. /\ k \in 0..N
      /\ Sizes(FirstOf(order, k)) >= wanted
      /\ k > 0 => Sizes(FirstOf(order, k - 1)) < wanted
  BY <1>1, <1>6, <1>7, <1>8 DEF TakenCount
<1>10. k # 0
  BY <1>4, <1>9
<1>11. QED
  BY <1>8, <1>9, <1>10 DEF N

LEMMA PlanIs ==
  ASSUME NEW E, IsFiniteSet(E), SizesNatural(E), NEW wanted \in Nat, NEW resumable,
         NEW chosen \in PlanCrossProjectReclaim(E, wanted, resumable)
  PROVE  \E order \in SetToSeqs(E) : \E n \in 1..Cardinality(E) :
            /\ chosen.suspend = {order[i] : i \in Kept(order, n, resumable)}
            /\ chosen.destroy = {order[i] : i \in (1..n) \ Kept(order, n, resumable)}
            /\ Sizes(FirstOf(order, n)) >= wanted
            /\ Sizes(FirstOf(order, n - 1)) < wanted
<1>1. wanted # 0 /\ ~(Sizes(E) < wanted)
  BY DEF PlanCrossProjectReclaim
<1>2. PICK order \in LosesFirst(E) :
         chosen = Plan({order[i] : i \in Kept(order, TakenCount(order, wanted), resumable)},
                       {order[i] : i \in (1..TakenCount(order, wanted))
                                         \ Kept(order, TakenCount(order, wanted), resumable)})
  BY <1>1, Zenon DEF PlanCrossProjectReclaim
<1>3. order \in SetToSeqs(E)
  BY DEF LosesFirst
<1>4. PICK n : n = TakenCount(order, wanted)
  OBVIOUS
<1>5. n \in 1..Cardinality(E) /\ Sizes(FirstOf(order, n)) >= wanted
      /\ Sizes(FirstOf(order, n - 1)) < wanted
  BY <1>1, <1>3, <1>4, TakenFacts
<1>6. /\ chosen.suspend = {order[i] : i \in Kept(order, n, resumable)}
      /\ chosen.destroy = {order[i] : i \in (1..n) \ Kept(order, n, resumable)}
  BY <1>2, <1>4 DEF Plan
<1>7. QED
  BY <1>3, <1>5, <1>6

(* What every plan of planCrossProjectReclaim keeps to.                    *)
LEMMA ReclaimFacts ==
  ASSUME NEW E, IsFiniteSet(E), SizesNatural(E), NEW wanted \in Nat, NEW resumable,
         NEW chosen \in PlanCrossProjectReclaim(E, wanted, resumable)
  PROVE  LET taken == chosen.suspend \union chosen.destroy IN
         /\ taken \subseteq E
         /\ chosen.suspend \intersect chosen.destroy = {}
         /\ Sizes(taken) >= wanted
         /\ \E m \in taken : Sizes(taken \ {m}) < wanted
         /\ \A m \in chosen.destroy : ~m.pinned
<1> DEFINE taken == chosen.suspend \union chosen.destroy
           N == Cardinality(E)
<1>1. PICK order \in SetToSeqs(E), n \in 1..N :
         /\ chosen.suspend = {order[i] : i \in Kept(order, n, resumable)}
         /\ chosen.destroy = {order[i] : i \in (1..n) \ Kept(order, n, resumable)}
         /\ Sizes(FirstOf(order, n)) >= wanted
         /\ Sizes(FirstOf(order, n - 1)) < wanted
  BY PlanIs
<1>2. /\ N \in Nat /\ order \in [1..N -> E]
      /\ \A i, j \in 1..N : i # j => order[i] # order[j]
  BY OrderFacts
<1> HIDE DEF N
<1>3. taken = FirstOf(order, n)
  BY <1>1 DEF FirstOf, Kept
<1>4. taken \subseteq E
  BY <1>2, <1>3 DEF FirstOf
<1>5. order[n] \in taken /\ taken \ {order[n]} = FirstOf(order, n - 1)
  <2>1. \A i \in 1..n : i \in 1..(n - 1) \/ i = n
    BY <1>2
  <2>2. \A i \in 1..(n - 1) : i \in 1..n /\ i # n /\ i \in 1..N /\ n \in 1..N
    BY <1>2
  <2>3. QED
    BY <1>2, <1>3, <2>1, <2>2 DEF FirstOf
<1>6. chosen.suspend \intersect chosen.destroy = {}
  <2>1. \A i \in 1..n : i \in 1..N
    BY <1>2
  <2>2. QED
    BY <1>1, <1>2, <2>1 DEF Kept
<1>7. \A m \in chosen.destroy : ~m.pinned
  BY <1>1 DEF Kept
<1>8. QED
  BY <1>1, <1>3, <1>4, <1>5, <1>6, <1>7

(* The last of a project's members in the list is suspended if all of them *)
(* go, so the project keeps one.                                           *)
LEMMA ReclaimFloor ==
  ASSUME NEW E, IsFiniteSet(E), SizesNatural(E), NEW wanted \in Nat, NEW resumable,
         NEW chosen \in PlanCrossProjectReclaim(E, wanted, resumable),
         NEW v, NEW ms, IsFiniteSet(ms), ms # {}, resumable[v] = Cardinality(ms),
         \A m \in E : m.project = v => m \in ms, \A m \in ms : m.project = v
  PROVE  AfterPlan(ms, chosen) # {}
<1> DEFINE N == Cardinality(E)
<1>1. PICK order \in SetToSeqs(E), n \in 1..N :
         /\ chosen.suspend = {order[i] : i \in Kept(order, n, resumable)}
         /\ chosen.destroy = {order[i] : i \in (1..n) \ Kept(order, n, resumable)}
  BY PlanIs
<1>2. N \in Nat /\ order \in [1..N -> E]
  BY OrderFacts
<1> HIDE DEF N
<1>3. \A m \in ms : m \in chosen.suspend =>
         [m EXCEPT !.state = "suspended"] \in AfterPlan(ms, chosen)
  BY Zenon DEF AfterPlan
<1>4. \A m \in ms : m \notin chosen.suspend /\ m \notin chosen.destroy =>
         m \in AfterPlan(ms, chosen)
  BY Zenon DEF AfterPlan
<1>5. SUFFICES ASSUME \A m \in ms : m \in chosen.destroy /\ m \notin chosen.suspend
               PROVE  FALSE
  BY <1>3, <1>4
<1> DEFINE J == {j \in 1..n : order[j].project = v}
           f == [j \in J |-> order[j]]
           T == {order[j] : j \in J}
<1>6. ms \subseteq T
  BY <1>1, <1>5
<1>7. J \subseteq 1..n /\ n \in Nat /\ J # {}
  BY <1>2, <1>6
<1>8. PICK i \in J : \A j \in J : j <= i
  <2> HIDE DEF J
  <2>1. QED
    BY <1>7, GreatestOf
<1>9. J = {j \in 1..i : order[j].project = order[i].project}
  BY <1>8
<1>10. IsFiniteSet(J)
  <2>1. IsFiniteSet(1..n)
    BY FS_Interval
  <2>2. QED
    BY <1>7, <2>1, FS_Subset
<1>11. f \in Surjection(J, T)
  BY DEF Surjection
<1>12. IsFiniteSet(T) /\ Cardinality(T) <= Cardinality(J)
  <2> HIDE DEF J, T, f
  <2>1. QED
    BY <1>10, <1>11, FS_Surjection
<1>13. Cardinality(ms) <= Cardinality(T)
  <2> HIDE DEF J, T, f
  <2>1. QED
    BY <1>6, <1>12, FS_Subset
<1>14. Cardinality(J) >= resumable[order[i].project]
  <2>1. order[i].project = v
    BY <1>8
  <2>2. Cardinality(ms) \in Nat /\ Cardinality(T) \in Nat /\ Cardinality(J) \in Nat
    <3> HIDE DEF J, T
    <3>1. QED
      BY <1>10, <1>12, FS_CardinalityType
  <2> HIDE DEF J, T
  <2>3. QED
    BY <1>12, <1>13, <2>1, <2>2
<1>15. WouldStrandVictim(order, i, resumable)
  <2>1. Cardinality({j \in 1..i : order[j].project = order[i].project})
          >= resumable[order[i].project]
    BY <1>9, <1>14
  <2>2. QED
    BY <2>1 DEF WouldStrandVictim
<1>16. order[i] \in chosen.suspend /\ order[i] \in E /\ order[i].project = v
  BY <1>1, <1>2, <1>8, <1>15 DEF Kept
<1>17. QED
  BY <1>5, <1>16

-----------------------------------------------------------------------------
(* The ladder                                                              *)

(* What the argument needs of the variables' types.                        *)
Shape ==
    /\ state \in [Containers -> MemberState]
    /\ owner \in [Containers -> Projects \union {None}]
    /\ pc \in [Runs -> RunPc]
    /\ at \in [Runs -> Containers \union {None}]
    /\ lock \in [Projects -> Runs \union {None}]

IInv == Shape /\ LadderInv

(* A member read from the table is the container's, as it is now.          *)
LEMMA MemberFacts ==
  ASSUME NEW p, NEW m \in Members(p)
  PROVE  /\ m.id \in Containers
         /\ owner[m.id] = p
         /\ m.state = state[m.id]
         /\ m.state \in {"idle", "busy", "suspended"}
         /\ m.pinned <=> m.id \in pinned
<1>1. PICK c \in Containers : /\ m = Member(c) /\ owner[c] = p
                              /\ state[c] \in {"idle", "busy", "suspended"}
  BY DEF Members
<1>2. m.pinned <=> m.id \in pinned
  <2>1. Member(c).id = c
    BY DEF Member
  <2>2. Member(c).pinned <=> c \in pinned
    BY DEF Member
  <2>3. QED
    BY <1>1, <2>1, <2>2
<1>3. QED
  BY <1>1, <1>2 DEF Member

(* Whatever the ladder offers is one of the project's members in the state *)
(* the rung is for.                                                        *)
LEMMA OfferedFacts ==
  ASSUME NEW r \in Runs, NEW kind, NEW d \in Offered(r, kind), NEW m \in d.members
  PROVE  /\ m \in Members(Home[r])
         /\ kind = "recycle" => m.state # "busy" /\ ~m.pinned
         /\ kind = "reuse" => m.state = "idle"
         /\ kind = "resume" => m.state = "suspended"
<1> DEFINE ms == Members(Home[r])
           warm == InState(Available(ms), "idle")
           cold == InState(Available(ms), "suspended")
<1>1. d \in SelectPoolMember(ms, Capacity(r)) /\ d.kind = kind
  BY DEF Offered
<1>2. \/ d = Decision("recycle", Mismatched(ms))
      \/ \E x \in warm : d = Decision("reuse", {x})
      \/ \E x \in cold : d = Decision("resume", {x})
      \/ d = Decision("create", {})
      \/ d = Decision("reclaim", {})
      \/ d = Decision("queue", {})
  BY <1>1, Zenon DEF SelectPoolMember
<1>3. QED
  BY <1>1, <1>2 DEF Decision, Mismatched, InState, Available

(* What retiring changes: idle or suspended members of projects nobody     *)
(* holds the lock of.                                                      *)
Movable(c) ==
    /\ state[c] \in {"idle", "suspended"}
    /\ owner[c] \in Projects
    /\ lock[owner[c]] = None

TakesMovable ==
    /\ state' \in [Containers -> MemberState]
    /\ owner' \in [Containers -> Projects \union {None}]
    /\ \A c \in Containers :
          ~Movable(c) => state'[c] = state[c] /\ owner'[c] = owner[c]

Retirement(S, D) ==
    /\ Retired(S, D)
    /\ \A c \in Containers : c \in S \union D => Movable(c)

LEMMA RetirementTakes ==
  ASSUME Shape, NEW S, NEW D, Retirement(S, D)
  PROVE  TakesMovable
<1>1. state' \in [Containers -> MemberState]
  BY DEF Shape, Retirement, Retired, MemberState
<1>2. owner' \in [Containers -> Projects \union {None}]
  BY DEF Shape, Retirement, Retired
<1>3. \A c \in Containers : c \notin S \union D => state'[c] = state[c] /\ owner'[c] = owner[c]
  BY DEF Retirement, Retired
<1>4. QED
  BY <1>1, <1>2, <1>3 DEF Retirement, TakesMovable

(* A step that takes only those disturbs no run.                           *)
LEMMA RetiringKeeps ==
  ASSUME IInv, TakesMovable, UNCHANGED claims
  PROVE  IInv'
<1> USE FleetAssumption
<1>1. Shape'
  BY DEF IInv, Shape, TakesMovable, claims
<1>2. InsideLock'
  BY DEF IInv, LadderInv, InsideLock, claims
<1>3. ASSUME NEW r \in Runs,
             pc[r] \in {"creating", "recorded", "resuming", "claiming", "working"}
      PROVE  at[r] \in Containers /\ ~Movable(at[r])
  <2>1. CASE pc[r] \in {"creating", "recorded", "working"}
    BY <2>1 DEF IInv, LadderInv, OnItsRung, Movable
  <2>2. CASE pc[r] \in {"resuming", "claiming"}
    <3>1. at[r] \in Containers /\ owner[at[r]] = Home[r] /\ lock[Home[r]] = r
      BY <2>2 DEF IInv, LadderInv, OnItsRung, InsideLock
    <3>2. QED
      BY <3>1 DEF Movable
  <2>3. QED
    BY <1>3, <2>1, <2>2
<1>4. OnItsRung'
  BY <1>3 DEF IInv, LadderInv, OnItsRung, TakesMovable, claims
<1>5. NotShared'
  BY DEF IInv, LadderInv, NotShared, claims
<1>6. QED
  BY <1>1, <1>2, <1>4, <1>5 DEF IInv, LadderInv

(* Each of the steps that retire takes only those, and all but a reclaim,  *)
(* which goes by what it read before, spare what is not pushed.            *)
LEMMA RecycleRetires ==
  ASSUME NEW r \in Runs, Recycle(r)
  PROVE  \E D : Retirement({}, D) /\ D \intersect pinned = {}
<1>1. PICK d \in Offered(r, "recycle") : Retired({}, Ids(d.members))
  BY DEF Recycle
<1>2. \A m \in d.members : /\ owner[m.id] = Home[r]
                           /\ state[m.id] \in {"idle", "suspended"}
                           /\ m.id \notin pinned
  BY <1>1, OfferedFacts, MemberFacts
<1>3. lock[Home[r]] = None /\ Home[r] \in Projects
  BY FleetAssumption DEF Recycle, AtLadder
<1>4. \A c \in Ids(d.members) : Movable(c) /\ c \notin pinned
  BY <1>2, <1>3 DEF Ids, Movable
<1>5. QED
  BY <1>1, <1>4 DEF Retirement

LEMMA EvictRetires ==
  ASSUME NEW r \in Runs, NEW v \in Projects, Evict(r, v)
  PROVE  \E S, D : Retirement(S, D) /\ D \subseteq plan[r].destroy
<1> DEFINE planned == {c \in plan[r].suspend \union plan[r].destroy : owner[c] = v}
           live == {c \in planned : StillIdle(c)}
<1>1. Retired(plan[r].suspend \intersect live, plan[r].destroy \intersect live)
  BY DEF Evict
<1>2. lock[v] = None
  BY DEF Evict
<1>3. \A c \in live : Movable(c)
  BY <1>2 DEF StillIdle, Movable
<1>4. QED
  BY <1>1, <1>3 DEF Retirement

(* Both idle passes act on a plan for idle members.                        *)
LEMMA IdlePlanRetires ==
  ASSUME NEW p \in Projects, lock[p] = None, NEW chosen,
         chosen.suspend \subseteq InState(Members(p), "idle"),
         chosen.destroy \subseteq InState(Members(p), "idle") \ Pinned(Members(p)),
         Retired(Ids(chosen.suspend), Ids(chosen.destroy))
  PROVE  \E S, D : Retirement(S, D) /\ D \intersect pinned = {}
<1>1. \A m \in InState(Members(p), "idle") : Movable(m.id)
  BY MemberFacts DEF InState, Movable
<1>2. \A m \in chosen.destroy : m.id \notin pinned
  BY MemberFacts DEF InState, Pinned
<1>3. \A c \in Ids(chosen.suspend) \union Ids(chosen.destroy) : Movable(c)
  BY <1>1 DEF Ids
<1>4. Ids(chosen.destroy) \intersect pinned = {}
  BY <1>2 DEF Ids
<1>5. QED
  BY <1>3, <1>4 DEF Retirement

LEMMA PassRetires ==
  ASSUME NEW p \in Projects,
         ShutDownIdlePool(p) \/ RetireIdleMembers(p) \/ RetireDormant(p)
  PROVE  \E S, D : Retirement(S, D) /\ D \intersect pinned = {}
<1>1. lock[p] = None
  BY DEF ShutDownIdlePool, RetireIdleMembers, RetireDormant, MayRetire
<1>2. CASE ShutDownIdlePool(p)
  <2>1. PICK chosen \in PlanIdleShutdown(Members(p)) :
           Retired(Ids(chosen.suspend), Ids(chosen.destroy))
    BY <1>2 DEF ShutDownIdlePool
  <2>2. /\ chosen.suspend \subseteq InState(Members(p), "idle")
        /\ chosen.destroy \subseteq InState(Members(p), "idle") \ Pinned(Members(p))
    BY IdleShutdownFacts
  <2>3. QED
    BY <1>1, <2>1, <2>2, IdlePlanRetires
<1>3. CASE RetireIdleMembers(p)
  <2>1. PICK stale \in StaleMembers(p) :
           \E chosen \in PlanSurplusIdleRetirement(Members(p), stale) :
              Retired(Ids(chosen.suspend), Ids(chosen.destroy))
    BY <1>3 DEF RetireIdleMembers
  <2>2. PICK chosen \in PlanSurplusIdleRetirement(Members(p), stale) :
           Retired(Ids(chosen.suspend), Ids(chosen.destroy))
    BY <2>1
  <2>3. /\ chosen.suspend \subseteq InState(Members(p), "idle")
        /\ chosen.destroy \subseteq InState(Members(p), "idle") \ Pinned(Members(p))
    BY SurplusFacts
  <2>4. QED
    BY <1>1, <2>2, <2>3, IdlePlanRetires
<1>4. CASE RetireDormant(p)
  <2>1. PICK m \in InState(Members(p), "suspended") \ Pinned(Members(p)) : Retired({}, {m.id})
    BY <1>4 DEF RetireDormant
  <2>2. Movable(m.id) /\ m.id \notin pinned
    BY <1>1, MemberFacts DEF InState, Pinned, Movable
  <2>3. QED
    BY <2>1, <2>2 DEF Retirement
<1>5. QED
  BY <1>2, <1>3, <1>4

LEMMA RetiringTakes ==
  ASSUME Shape,
         \/ \E r \in Runs : Recycle(r)
         \/ \E r \in Runs, v \in Projects : Evict(r, v)
         \/ \E p \in Projects : ShutDownIdlePool(p) \/ RetireIdleMembers(p) \/ RetireDormant(p)
  PROVE  TakesMovable
<1>1. \E S, D : Retirement(S, D)
  BY RecycleRetires, EvictRetires, PassRetires
<1>2. QED
  BY <1>1, RetirementTakes

-----------------------------------------------------------------------------
(* One step                                                                *)

Held == {"creating", "recorded", "resuming", "claiming", "working"}

(* A step that moves a run between the places it holds nothing in.         *)
LEMMA BystanderKeeps ==
  ASSUME IInv, UNCHANGED <<state, owner, at, lock>>,
         pc' \in [Runs -> RunPc],
         \A r \in Runs : pc'[r] \in Held => pc'[r] = pc[r]
  PROVE  IInv'
<1>1. Shape'
  BY DEF IInv, Shape
<1>2. InsideLock'
  BY DEF IInv, LadderInv, InsideLock, Held
<1>3. OnItsRung'
  BY DEF IInv, LadderInv, OnItsRung, Held
<1>4. NotShared'
  BY DEF IInv, LadderInv, NotShared, Held
<1>5. QED
  BY <1>1, <1>2, <1>3, <1>4 DEF IInv, LadderInv

LEMMA WaitingKeeps ==
  ASSUME IInv, NEW r \in Runs,
         \/ Gate(r) \/ Launch(r) \/ StartTurn(r) \/ Starve(r) \/ GiveUp(r)
         \/ PlanReclaim(r) \/ NothingToReclaim(r) \/ EndReclaim(r)
  PROVE  IInv'
<1>1. pc \in [Runs -> RunPc] /\ lock \in [Projects -> Runs \union {None}]
  BY DEF IInv, Shape
<1>2. CASE Gate(r)
  BY <1>1, <1>2, BystanderKeeps DEF Gate, members, Held, RunPc
<1>3. CASE Launch(r)
  BY <1>1, <1>3, BystanderKeeps DEF Launch, members, Held, RunPc
<1>4. CASE StartTurn(r)
  BY <1>1, <1>4, BystanderKeeps DEF StartTurn, members, Held, RunPc
<1>5. CASE Starve(r)
  <2>1. lock' = lock
    BY <1>1, <1>5, FleetAssumption DEF Starve, AtLadder, HeldIntoReclaim
  <2>2. QED
    BY <1>1, <1>5, <2>1, BystanderKeeps DEF Starve, members, Held, RunPc
<1>6. CASE GiveUp(r)
  BY <1>1, <1>6, BystanderKeeps DEF GiveUp, members, Held, RunPc
<1>7. CASE PlanReclaim(r)
  BY <1>1, <1>7, BystanderKeeps DEF PlanReclaim, members, Held, RunPc
<1>8. CASE NothingToReclaim(r)
  BY <1>1, <1>8, BystanderKeeps DEF NothingToReclaim, members, Held, RunPc
<1>9. CASE EndReclaim(r)
  BY <1>1, <1>9, BystanderKeeps DEF EndReclaim, members, Held, RunPc
<1>10. QED
  BY <1>2, <1>3, <1>4, <1>5, <1>6, <1>7, <1>8, <1>9

(* Whoever is inside the lock is the only one of its project there.        *)
LEMMA AloneInside ==
  ASSUME IInv, NEW r \in Runs, NEW s \in Runs, Home[r] = Home[s],
         pc[r] \in Held \ {"working"}, pc[s] \in Held \ {"working"}
  PROVE  r = s
BY DEF IInv, LadderInv, InsideLock, Held

LEMMA TakeMemberKeeps ==
  ASSUME IInv, NEW r \in Runs, TakeMember(r)
  PROVE  IInv'
<1> USE FleetAssumption
<1>1. PICK kind \in {"reuse", "resume"} : \E d \in Offered(r, kind) : \E m \in d.members :
         /\ at' = [at EXCEPT ![r] = m.id]
         /\ pc' = [pc EXCEPT ![r] = IF kind = "reuse" THEN "claiming" ELSE "resuming"]
  BY DEF TakeMember
<1>2. PICK d \in Offered(r, kind) : \E m \in d.members :
         /\ at' = [at EXCEPT ![r] = m.id]
         /\ pc' = [pc EXCEPT ![r] = IF kind = "reuse" THEN "claiming" ELSE "resuming"]
  BY <1>1
<1>3. PICK m \in d.members :
         /\ at' = [at EXCEPT ![r] = m.id]
         /\ pc' = [pc EXCEPT ![r] = IF kind = "reuse" THEN "claiming" ELSE "resuming"]
  BY <1>2
<1>4. /\ m.id \in Containers
      /\ owner[m.id] = Home[r]
      /\ kind = "reuse" => state[m.id] = "idle"
      /\ kind = "resume" => state[m.id] = "suspended"
  BY <1>3, OfferedFacts, MemberFacts
<1>5. /\ lock[Home[r]] = None /\ lock' = [lock EXCEPT ![Home[r]] = r]
      /\ state' = state /\ owner' = owner
  BY DEF TakeMember, AtLadder, members
<1>6. Shape'
  BY <1>3, <1>4, <1>5 DEF IInv, Shape, RunPc
<1>7. InsideLock'
  BY <1>3, <1>5 DEF IInv, Shape, LadderInv, InsideLock
<1>8. OnItsRung'
  BY <1>3, <1>4, <1>5 DEF IInv, Shape, LadderInv, OnItsRung
<1>9. NotShared'
  BY <1>3 DEF IInv, Shape, LadderInv, NotShared
<1>10. QED
  BY <1>6, <1>7, <1>8, <1>9 DEF IInv, LadderInv

LEMMA CreateKeeps ==
  ASSUME IInv, NEW r \in Runs, Create(r)
  PROVE  IInv'
<1> USE FleetAssumption
<1>1. PICK c \in Containers : Unused(c) /\ at' = [at EXCEPT ![r] = c]
  BY DEF Create
<1>2. /\ lock[Home[r]] = None /\ lock' = [lock EXCEPT ![Home[r]] = r]
      /\ pc' = [pc EXCEPT ![r] = "creating"]
      /\ state' = state /\ owner' = owner
  BY DEF Create, AtLadder, members
<1>3. state[c] = "none" /\ \A s \in Runs : at[s] # c
  BY <1>1 DEF Unused
<1>4. Shape'
  BY <1>1, <1>2 DEF IInv, Shape, RunPc
<1>5. InsideLock'
  BY <1>2 DEF IInv, Shape, LadderInv, InsideLock
<1>6. OnItsRung'
  BY <1>1, <1>2, <1>3 DEF IInv, Shape, LadderInv, OnItsRung
<1>7. NotShared'
  BY <1>1, <1>2, <1>3 DEF IInv, Shape, LadderInv, NotShared
<1>8. QED
  BY <1>4, <1>5, <1>6, <1>7 DEF IInv, LadderInv

LEMMA RecordCreateKeeps ==
  ASSUME IInv, NEW r \in Runs, RecordCreate(r)
  PROVE  IInv'
<1> USE FleetAssumption
<1>1. /\ pc[r] = "creating" /\ at[r] \in Containers /\ state[at[r]] = "none"
      /\ state' = [state EXCEPT ![at[r]] = "creating"]
      /\ owner' = [owner EXCEPT ![at[r]] = Home[r]]
      /\ pc' = [pc EXCEPT ![r] = "recorded"]
      /\ at' = at /\ lock' = lock
  BY DEF RecordCreate, IInv, LadderInv, OnItsRung
<1>2. \A s \in Runs : s # r /\ pc[s] \in Held => at[s] # at[r]
  BY <1>1 DEF IInv, LadderInv, OnItsRung, NotShared, Held
<1>3. Shape'
  BY <1>1 DEF IInv, Shape, RunPc, MemberState
<1>4. InsideLock'
  BY <1>1 DEF IInv, Shape, LadderInv, InsideLock
<1>5. OnItsRung'
  BY <1>1, <1>2 DEF IInv, Shape, LadderInv, OnItsRung, Held
<1>6. NotShared'
  BY <1>1 DEF IInv, Shape, LadderInv, NotShared
<1>7. QED
  BY <1>3, <1>4, <1>5, <1>6 DEF IInv, LadderInv

LEMMA ReadyKeeps ==
  ASSUME IInv, NEW r \in Runs, Ready(r)
  PROVE  IInv'
<1> USE FleetAssumption
<1>1. /\ pc[r] \in {"recorded", "resuming"} /\ at[r] \in Containers
      /\ state[at[r]] \in {"creating", "suspended"}
      /\ owner[at[r]] = Home[r]
      /\ state' = [state EXCEPT ![at[r]] = "idle"]
      /\ pc' = [pc EXCEPT ![r] = "claiming"]
      /\ owner' = owner /\ at' = at /\ lock' = lock
  BY DEF Ready, IInv, LadderInv, OnItsRung
<1>2. ASSUME NEW s \in Runs, s # r, pc[s] \in Held PROVE at[s] # at[r]
  <2>1. CASE pc[s] \in {"creating", "working"}
    BY <1>1, <2>1 DEF IInv, LadderInv, OnItsRung
  <2>2. CASE pc[s] \in {"recorded", "resuming", "claiming"}
    <3>1. Home[r] # Home[s]
      BY <1>1, <1>2, <2>2, AloneInside DEF Held
    <3>2. owner[at[s]] = Home[s]
      BY <2>2 DEF IInv, LadderInv, OnItsRung
    <3>3. QED
      BY <1>1, <3>1, <3>2
  <2>3. QED
    BY <1>2, <2>1, <2>2 DEF Held
<1>3. Shape'
  BY <1>1 DEF IInv, Shape, RunPc, MemberState
<1>4. InsideLock'
  BY <1>1 DEF IInv, Shape, LadderInv, InsideLock
<1>5. OnItsRung'
  BY <1>1, <1>2 DEF IInv, Shape, LadderInv, OnItsRung, Held
<1>6. NotShared'
  BY <1>1 DEF IInv, Shape, LadderInv, NotShared
<1>7. QED
  BY <1>3, <1>4, <1>5, <1>6 DEF IInv, LadderInv

LEMMA ProvisionFailsKeeps ==
  ASSUME IInv, NEW r \in Runs, ProvisionFails(r)
  PROVE  IInv'
<1> USE FleetAssumption
<1>1. /\ pc[r] \in {"creating", "recorded"} /\ at[r] \in Containers
      /\ state[at[r]] \in {"none", "creating"}
      /\ pc[r] = "recorded" => state[at[r]] = "creating" /\ owner[at[r]] = Home[r]
      /\ lock[Home[r]] = r
      /\ pc' = [pc EXCEPT ![r] = "idle"]
      /\ at' = [at EXCEPT ![r] = None]
      /\ lock' = [lock EXCEPT ![Home[r]] = None]
  BY DEF ProvisionFails, IInv, LadderInv, OnItsRung, InsideLock
<1>2. /\ state' \in [Containers -> MemberState]
      /\ owner' \in [Containers -> Projects \union {None}]
      /\ \A c \in Containers \ {at[r]} : state'[c] = state[c] /\ owner'[c] = owner[c]
  BY DEF ProvisionFails, Retired, IInv, Shape, MemberState
<1>3. ASSUME NEW s \in Runs, s # r, pc[s] \in Held PROVE at[s] # at[r]
  <2>1. CASE pc[s] \in {"resuming", "claiming", "working"}
    BY <1>1, <2>1 DEF IInv, LadderInv, OnItsRung
  <2>2. CASE pc[s] = "recorded" /\ pc[r] = "recorded"
    <3>1. Home[r] # Home[s]
      BY <1>3, <2>2, AloneInside DEF Held
    <3>2. owner[at[s]] = Home[s]
      BY <2>2 DEF IInv, LadderInv, OnItsRung
    <3>3. QED
      BY <1>1, <2>2, <3>1, <3>2
  <2>3. CASE pc[s] \in {"creating", "recorded"} /\ pc[s] # pc[r]
    BY <1>1, <2>3 DEF IInv, LadderInv, OnItsRung
  <2>4. CASE pc[s] = "creating" /\ pc[r] = "creating"
    BY <1>3, <2>4 DEF IInv, LadderInv, NotShared
  <2>5. QED
    BY <1>1, <1>3, <2>1, <2>2, <2>3, <2>4 DEF Held
<1>4. Shape'
  BY <1>1, <1>2 DEF IInv, Shape, RunPc
<1>5. InsideLock'
  BY <1>1 DEF IInv, Shape, LadderInv, InsideLock
<1>6. OnItsRung'
  BY <1>1, <1>2, <1>3 DEF IInv, Shape, LadderInv, OnItsRung, Held
<1>7. NotShared'
  BY <1>1 DEF IInv, Shape, LadderInv, NotShared
<1>8. QED
  BY <1>4, <1>5, <1>6, <1>7 DEF IInv, LadderInv

LEMMA ClaimKeeps ==
  ASSUME IInv, NEW r \in Runs, Claim(r)
  PROVE  IInv'
<1> USE FleetAssumption
<1>1. /\ pc[r] = "claiming" /\ at[r] \in Containers /\ state[at[r]] = "idle"
      /\ owner[at[r]] = Home[r] /\ lock[Home[r]] = r
      /\ state' = [state EXCEPT ![at[r]] = "busy"]
      /\ pc' = [pc EXCEPT ![r] = "working"]
      /\ lock' = [lock EXCEPT ![Home[r]] = None]
      /\ owner' = owner /\ at' = at
  BY DEF Claim, IInv, LadderInv, OnItsRung, InsideLock
<1>2. ASSUME NEW s \in Runs, s # r, pc[s] \in Held PROVE at[s] # at[r]
  <2>1. CASE pc[s] = "claiming"
    <3>1. Home[r] # Home[s]
      BY <1>1, <1>2, <2>1, AloneInside DEF Held
    <3>2. owner[at[s]] = Home[s]
      BY <2>1 DEF IInv, LadderInv, OnItsRung
    <3>3. QED
      BY <1>1, <3>1, <3>2
  <2>2. CASE pc[s] # "claiming"
    BY <1>1, <1>2, <2>2 DEF IInv, LadderInv, OnItsRung, Held
  <2>3. QED
    BY <2>1, <2>2
<1>3. Shape'
  BY <1>1 DEF IInv, Shape, RunPc, MemberState
<1>4. InsideLock'
  BY <1>1 DEF IInv, Shape, LadderInv, InsideLock
<1>5. OnItsRung'
  BY <1>1, <1>2 DEF IInv, Shape, LadderInv, OnItsRung, Held
<1>6. NotShared'
  BY <1>1, <1>2 DEF IInv, Shape, LadderInv, NotShared, Held
<1>7. QED
  BY <1>3, <1>4, <1>5, <1>6 DEF IInv, LadderInv

LEMMA EndKeeps ==
  ASSUME IInv, NEW r \in Runs, End(r)
  PROVE  IInv'
<1> USE FleetAssumption
<1>1. /\ pc[r] = "working" /\ at[r] \in Containers /\ state[at[r]] = "busy"
      /\ state' = [state EXCEPT ![at[r]] = "idle"]
      /\ pc' = [pc EXCEPT ![r] = "idle"]
      /\ at' = [at EXCEPT ![r] = None]
      /\ owner' = owner /\ lock' = lock
  BY DEF End, IInv, LadderInv, OnItsRung
<1>2. \A s \in Runs : s # r /\ pc[s] \in Held => at[s] # at[r]
  BY <1>1 DEF IInv, LadderInv, OnItsRung, NotShared, Held
<1>3. Shape'
  BY <1>1 DEF IInv, Shape, RunPc, MemberState
<1>4. InsideLock'
  BY <1>1 DEF IInv, Shape, LadderInv, InsideLock
<1>5. OnItsRung'
  BY <1>1, <1>2 DEF IInv, Shape, LadderInv, OnItsRung, Held
<1>6. NotShared'
  BY <1>1 DEF IInv, Shape, LadderInv, NotShared
<1>7. QED
  BY <1>3, <1>4, <1>5, <1>6 DEF IInv, LadderInv

(* Nobody holds anything at first.                                         *)
LEMMA InitHolds == Init => IInv
  BY FleetAssumption
     DEF Init, IInv, Shape, LadderInv, InsideLock, OnItsRung, NotShared, MemberState, RunPc

(* Every step keeps the invariant.                                         *)
LEMMA StepKeeps ==
  ASSUME IInv, [Next]_vars
  PROVE  IInv'
<1>1. ASSUME NEW r \in Runs, RunStep(r) PROVE IInv'
  <2>1. CASE Recycle(r)
    <3>1. TakesMovable
      BY <2>1, RetiringTakes DEF IInv
    <3>2. QED
      BY <2>1, <3>1, RetiringKeeps DEF Recycle
  <2>2. QED
    BY <1>1, <2>1, WaitingKeeps, TakeMemberKeeps, CreateKeeps, RecordCreateKeeps, ReadyKeeps,
       ProvisionFailsKeeps, ClaimKeeps, EndKeeps DEF RunStep
<1>2. ASSUME NEW r \in Runs, NEW v \in Projects, Evict(r, v) PROVE IInv'
  BY <1>2, RetiringTakes, RetiringKeeps DEF Evict, IInv
<1>3. ASSUME NEW p \in Projects,
             ShutDownIdlePool(p) \/ RetireIdleMembers(p) \/ RetireDormant(p)
      PROVE  IInv'
  <2>1. TakesMovable
    BY <1>3, RetiringTakes DEF IInv
  <2>2. UNCHANGED claims
    BY <1>3 DEF ShutDownIdlePool, RetireIdleMembers, RetireDormant
  <2>3. QED
    BY <2>1, <2>2, RetiringKeeps
<1>4. ASSUME UNCHANGED <<state, owner, claims>> PROVE IInv'
  <2>1. pc' \in [Runs -> RunPc] /\ \A r \in Runs : pc'[r] \in Held => pc'[r] = pc[r]
    BY <1>4 DEF IInv, Shape, claims
  <2>2. QED
    BY <1>4, <2>1, BystanderKeeps DEF claims
<1>5. ASSUME NEW c \in Containers, Rest(c) PROVE IInv'
  BY <1>4, <1>5 DEF Rest
<1>6. CASE SettingsChange
  BY <1>4, <1>6 DEF SettingsChange
<1>7. CASE UNCHANGED vars
  BY <1>4, <1>7 DEF vars, members
<1>8. QED
  BY <1>1, <1>2, <1>3, <1>5, <1>6, <1>7 DEF Next

(* What acquireRunContainer and claimPoolMember promise each other, for    *)
(* any number of projects, containers and runs: a run on its way to a      *)
(* claim is alone in its project's lock, finds its member in the state it  *)
(* was chosen in, and no container is worked in by two.                    *)
THEOREM LadderSafe == Spec => []LadderInv
<1>1. Init => IInv
  BY InitHolds
<1>2. IInv /\ [Next]_vars => IInv'
  BY StepKeeps
<1>3. IInv => LadderInv
  BY DEF IInv
<1>4. QED
  BY <1>1, <1>2, <1>3, PTL DEF Spec

(* A container a run works in leaves that state only with its own run.     *)
LEMMA StepSpares ==
  ASSUME IInv, [Next]_vars, NEW c \in Containers, state[c] = "busy", state'[c] # "busy"
  PROVE  \E r \in Runs : at[r] = c /\ pc[r] = "working" /\ pc'[r] = "idle"
<1>1. ~Movable(c)
  BY DEF Movable
<1>2. ~TakesMovable
  BY <1>1 DEF TakesMovable
<1>3. state' # state
  OBVIOUS
<1>4. ASSUME NEW r \in Runs, RunStep(r)
      PROVE  at[r] = c /\ pc[r] = "working" /\ pc'[r] = "idle"
  <2>1. CASE Recycle(r)
    BY <1>2, <2>1, RetiringTakes DEF IInv
  <2>2. CASE RecordCreate(r)
    <3>1. pc[r] = "creating" /\ at[r] \in Containers /\ state[at[r]] = "none"
      BY <2>2 DEF RecordCreate, IInv, LadderInv, OnItsRung
    <3>2. QED
      BY <2>2, <3>1 DEF RecordCreate, IInv, Shape
  <2>3. CASE Ready(r)
    <3>1. at[r] \in Containers /\ state[at[r]] \in {"creating", "suspended"}
      BY <2>3 DEF Ready, IInv, LadderInv, OnItsRung
    <3>2. QED
      BY <2>3, <3>1 DEF Ready, IInv, Shape
  <2>4. CASE ProvisionFails(r)
    <3>1. at[r] \in Containers /\ state[at[r]] \in {"none", "creating"}
      BY <2>4 DEF ProvisionFails, IInv, LadderInv, OnItsRung
    <3>2. QED
      BY <2>4, <3>1 DEF ProvisionFails, Retired, IInv, Shape
  <2>5. CASE Claim(r)
    BY <2>5 DEF Claim, IInv, Shape
  <2>6. CASE End(r)
    BY <2>6 DEF End, IInv, Shape
  <2>7. QED
    BY <1>3, <1>4, <2>1, <2>2, <2>3, <2>4, <2>5, <2>6
       DEF RunStep, Gate, Launch, StartTurn, TakeMember, Create, Starve, GiveUp,
           PlanReclaim, NothingToReclaim, EndReclaim, members
<1>5. ASSUME NEW r \in Runs, NEW v \in Projects, Evict(r, v) PROVE FALSE
  BY <1>2, <1>5, RetiringTakes DEF IInv
<1>6. ASSUME NEW p \in Projects,
             ShutDownIdlePool(p) \/ RetireIdleMembers(p) \/ RetireDormant(p)
      PROVE  FALSE
  BY <1>2, <1>6, RetiringTakes DEF IInv
<1>7. ~(\E d \in Containers : Rest(d)) /\ ~SettingsChange /\ ~UNCHANGED vars
  BY <1>3 DEF Rest, SettingsChange, vars, members
<1>8. QED
  BY <1>4, <1>5, <1>6, <1>7 DEF Next

(* No retirement, reclaim, recycling or failed provision ever takes a      *)
(* container a run is working in, whatever the scan it planned from said   *)
(* (reclaimIdleCapacityForProject, executeRetirementPlan).                 *)
THEOREM ClaimsKept == Spec => ClaimsSpared
<1> DEFINE Spares == \A c \in Containers : (state[c] = "busy" /\ state'[c] # "busy") =>
                        \E r \in Runs : at[r] = c /\ pc[r] = "working" /\ pc'[r] = "idle"
<1>1. Init => IInv
  BY InitHolds
<1>2. IInv /\ [Next]_vars => IInv'
  BY StepKeeps
<1>3. IInv /\ [Next]_vars => [Spares]_vars
  BY StepSpares
<1>4. QED
  BY <1>1, <1>2, <1>3, PTL DEF Spec, ClaimsSpared

-----------------------------------------------------------------------------
(* Types                                                                   *)

(* A container with a row is some project's.                               *)
Owned == \A c \in Containers : state[c] # "none" => owner[c] \in Projects

Flags ==
    /\ pinned \subseteq Containers
    /\ full \subseteq Containers
    /\ outdated \subseteq Containers
    /\ rested \subseteq Containers
    /\ chatted \subseteq Containers

Accounts ==
    /\ slot \in [Runs -> BOOLEAN]
    /\ need \in [Runs -> Nat]
    /\ plan \in [Runs -> [suspend : SUBSET Containers, destroy : SUBSET Containers]]
    /\ reclaiming \in Runs \union {None}

TInv == IInv /\ Owned /\ Flags /\ Accounts

LEMMA TypeParts == TInv => TypeOK
BY DEF TInv, IInv, Shape, Flags, Accounts, TypeOK

(* The memory of the running containers is a natural number.               *)
LEMMA ShareNatural ==
  ASSUME Owned, NEW S, S \subseteq Containers, \A c \in S : state[c] # "none"
  PROVE  IsFiniteSet(S) /\ Sized(Share(owner), S)
BY FleetAssumption, FS_Subset DEF Owned, Sized, Share

LEMMA UsedNatural ==
  ASSUME Owned
  PROVE  UsedMemory \in Nat
<1>1. Running \subseteq Containers /\ \A c \in Running : state[c] # "none"
  BY DEF Running, Counted
<1>2. UsedMemory = Total(Share(owner), Running)
  BY <1>1, FleetAssumption, UsedIs, FoldTotal
<1>3. IsFiniteSet(Running) /\ Sized(Share(owner), Running)
  BY <1>1, ShareNatural
<1>4. QED
  BY <1>2, <1>3, TotalNatural

(* A run is sent to reclaim only when something is missing.                *)
LEMMA ShortWhenStarved ==
  ASSUME NEW r \in Runs, Offered(r, "reclaim") # {}
  PROVE  ~FitsBudget(Capacity(r))
<1> DEFINE ms == Members(Home[r])
           warm == InState(Available(ms), "idle")
           cold == InState(Available(ms), "suspended")
<1>1. PICK d : d \in SelectPoolMember(ms, Capacity(r)) /\ d.kind = "reclaim"
  BY DEF Offered
<1>2. \/ d = Decision("recycle", Mismatched(ms))
      \/ \E x \in warm : d = Decision("reuse", {x})
      \/ \E x \in cold : d = Decision("resume", {x})
      \/ d = Decision("create", {})
      \/ ~FitsBudget(Capacity(r))
  BY <1>1, Zenon DEF SelectPoolMember
<1>3. QED
  BY <1>1, <1>2 DEF Decision

LEMMA CeilingNatural == ASSUME NEW r \in Runs PROVE Ceiling(r) \in 0..Budget
BY FleetAssumption DEF Ceiling, TaskBudget

LEMMA ShortfallNatural ==
  ASSUME Owned, NEW r \in Runs, Offered(r, "reclaim") # {}
  PROVE  Shortfall(Capacity(r)) \in Nat
<1>1. PICK u \in Nat, q \in Nat, b \in Nat :
         u = UsedMemory /\ q = Cap[Home[r]] /\ b = Ceiling(r)
  BY FleetAssumption, UsedNatural, CeilingNatural
<1>2. Capacity(r).used = u /\ Capacity(r).request = q /\ Capacity(r).budget = b
  BY <1>1 DEF Capacity
<1>3. ~(u + q <= b)
  BY <1>2, ShortWhenStarved DEF FitsBudget
<1>4. QED
  BY <1>2, <1>3 DEF Shortfall

(* What a reclaim plans with.                                              *)
Candidates(p) == {Member(c) : c \in Reclaimable(p)}

LEMMA MembersOf ==
  ASSUME NEW S, S \subseteq Containers
  PROVE  IsFiniteSet({Member(c) : c \in S})
<1> DEFINE T == {Member(c) : c \in S}
           f == [c \in S |-> Member(c)]
<1>1. f \in Surjection(S, T)
  BY DEF Surjection
<1>2. IsFiniteSet(S)
  BY FleetAssumption, FS_Subset
<1> HIDE DEF T, f
<1>3. IsFiniteSet(T)
  BY <1>1, <1>2, FS_Surjection
<1>4. QED
  BY <1>3 DEF T

LEMMA CandidateFacts ==
  ASSUME Owned, Flags, NEW p
  PROVE  /\ IsFiniteSet(Candidates(p))
         /\ SizesNatural(Candidates(p))
         /\ \A m \in Candidates(p) : m.id \in Containers
         /\ \A m \in Candidates(p), v \in Projects : m.project = v => m \in Members(v)
<1>1. \A c \in Reclaimable(p) : c \in Containers /\ state[c] = "idle" /\ owner[c] \in Projects
  BY DEF Reclaimable, Owned, Flags
<1>2. IsFiniteSet(Candidates(p))
  BY <1>1, MembersOf DEF Candidates
<1>3. \A c \in Reclaimable(p) : /\ Member(c).size \in Nat /\ Member(c).id \in Containers
                                /\ Member(c).project = owner[c]
  BY <1>1, FleetAssumption DEF Member
<1>4. \A c \in Reclaimable(p) : Member(c) \in Members(owner[c])
  BY <1>1, Zenon DEF Members
<1>5. QED
  BY <1>2, <1>3, <1>4 DEF Candidates, SizesNatural

LEMMA MembersFacts ==
  ASSUME NEW p
  PROVE  IsFiniteSet(Members(p)) /\ \A m \in Members(p) : m.project = p
<1>1. PICK S \in SUBSET Containers :
         /\ Members(p) = {Member(c) : c \in S}
         /\ \A c \in S : owner[c] = p
  <2>1. PICK S : S = {d \in Containers : owner[d] = p /\ state[d] \in {"idle", "busy", "suspended"}}
    OBVIOUS
  <2>2. QED
    BY <2>1 DEF Members
<1>2. IsFiniteSet(Members(p))
  BY <1>1, MembersOf
<1>3. \A c \in S : Member(c).project = owner[c]
  BY DEF Member
<1>4. QED
  BY <1>1, <1>2, <1>3

(* Every plan is tight in any state of the right types.                    *)
LEMMA PlansTight ==
  ASSUME Owned, Flags, NEW p \in Projects, NEW n \in Nat,
         NEW chosen \in PlanCrossProjectReclaim(Candidates(p), n, Resumable)
  PROVE  LET taken == chosen.suspend \union chosen.destroy IN
         /\ Sizes(taken) >= n
         /\ \E m \in taken : Sizes(taken \ {m}) < n
         /\ \A m \in chosen.destroy : ~m.pinned
         /\ \A v \in Projects : Members(v) # {} => AfterPlan(Members(v), chosen) # {}
<1>1. IsFiniteSet(Candidates(p)) /\ SizesNatural(Candidates(p))
  BY CandidateFacts
<1>2. ASSUME NEW v \in Projects, Members(v) # {} PROVE AfterPlan(Members(v), chosen) # {}
  <2>1. Resumable[v] = Cardinality(Members(v))
    BY DEF Resumable
  <2>2. PICK ms : ms = Members(v)
    OBVIOUS
  <2>3. IsFiniteSet(ms) /\ ms # {} /\ Resumable[v] = Cardinality(ms)
        /\ (\A m \in Candidates(p) : m.project = v => m \in ms) /\ (\A m \in ms : m.project = v)
    BY <1>2, <2>1, <2>2, CandidateFacts, MembersFacts
  <2>4. PICK res, E : res = Resumable /\ E = Candidates(p)
    OBVIOUS
  <2>5. AfterPlan(ms, chosen) # {}
    BY <1>1, <2>3, <2>4, ReclaimFloor
  <2>6. QED
    BY <2>2, <2>5
<1>3. QED
  BY <1>1, <1>2, ReclaimFacts

LEMMA TightNow ==
  ASSUME Owned, Flags
  PROVE  ReclaimPlansTight
<1>1. ASSUME NEW p \in Projects, NEW n \in 1..Budget,
             NEW chosen \in PlanCrossProjectReclaim(Candidates(p), n, Resumable)
      PROVE  LET taken == chosen.suspend \union chosen.destroy IN
             /\ Sizes(taken) >= n
             /\ \E m \in taken : Sizes(taken \ {m}) < n
             /\ \A m \in chosen.destroy : ~m.pinned
             /\ \A v \in Projects : Members(v) # {} => AfterPlan(Members(v), chosen) # {}
  <2>1. n \in Nat
    BY FleetAssumption
  <2>2. QED
    BY <1>1, <2>1, PlansTight
<1>2. QED
  BY <1>1, Zenon DEF ReclaimPlansTight, Candidates

(* Each step keeps the types.                                              *)
LEMMA RetirementTypes ==
  ASSUME TInv, NEW S, NEW D, Retirement(S, D)
  PROVE  Owned' /\ Flags'
<1>1. Flags'
  BY DEF TInv, Flags, Retirement, Retired
<1>2. ASSUME NEW c \in Containers, state'[c] # "none" PROVE owner'[c] \in Projects
  <2>1. /\ c \in D => state'[c] = "none"
        /\ c \notin D /\ c \notin S => state'[c] = state[c]
        /\ c \notin D => owner'[c] = owner[c]
    BY DEF Retirement, Retired
  <2>2. c \notin D /\ owner'[c] = owner[c]
    BY <1>2, <2>1
  <2>3. CASE c \in S
    BY <2>2, <2>3 DEF Retirement, Movable
  <2>4. CASE c \notin S
    BY <1>2, <2>1, <2>2, <2>4 DEF TInv, Owned
  <2>5. QED
    BY <2>3, <2>4
<1>3. QED
  BY <1>1, <1>2 DEF Owned

LEMMA OwnedSame ==
  ASSUME Owned, UNCHANGED <<state, owner>>
  PROVE  Owned'
BY DEF Owned

LEMMA RunTypes ==
  ASSUME TInv, NEW r \in Runs, RunStep(r)
  PROVE  Owned' /\ Flags' /\ Accounts'
<1> USE FleetAssumption DEF TInv
<1>1. CASE Gate(r) \/ Launch(r) \/ StartTurn(r) \/ TakeMember(r) \/ Create(r) \/ GiveUp(r)
  <2>1. UNCHANGED <<members, reclaims>>
    BY <1>1 DEF Gate, Launch, StartTurn, TakeMember, Create, GiveUp
  <2>2. slot' \in [Runs -> BOOLEAN]
    BY <1>1 DEF Gate, Launch, StartTurn, TakeMember, Create, GiveUp, Accounts
  <2>3. Owned'
    BY <2>1, OwnedSame DEF members
  <2>4. QED
    BY <2>1, <2>2, <2>3 DEF members, reclaims, Flags, Accounts
<1>2. CASE Recycle(r)
  <2>1. Owned' /\ Flags'
    BY <1>2, RecycleRetires, RetirementTypes
  <2>2. QED
    BY <1>2, <2>1 DEF Recycle, claims, reclaims, Accounts
<1>3. CASE Starve(r)
  <2>1. Shortfall(Capacity(r)) \in Nat
    BY <1>3, ShortfallNatural DEF Starve
  <2>2. /\ need' = [need EXCEPT ![r] = Shortfall(Capacity(r))]
        /\ UNCHANGED <<members, slot, plan, reclaiming>>
    BY <1>3 DEF Starve
  <2>3. need' \in [Runs -> Nat]
    BY <2>1, <2>2 DEF Accounts
  <2>4. Owned'
    BY <2>2, OwnedSame DEF members
  <2>5. QED
    BY <2>2, <2>3, <2>4 DEF members, Flags, Accounts
<1>4. CASE RecordCreate(r)
  <2>1. at[r] \in Containers /\ Home[r] \in Projects
    BY <1>4 DEF RecordCreate, IInv, LadderInv, OnItsRung
  <2>2. Owned'
    BY <1>4, <2>1 DEF RecordCreate, Owned, IInv, Shape
  <2>3. QED
    BY <1>4, <2>2 DEF RecordCreate, reclaims, Flags, Accounts
<1>5. CASE Ready(r)
  <2>1. at[r] \in Containers /\ state[at[r]] \in {"creating", "suspended"}
    BY <1>5 DEF Ready, IInv, LadderInv, OnItsRung
  <2>2. Owned'
    BY <1>5, <2>1 DEF Ready, Owned, IInv, Shape
  <2>3. QED
    BY <1>5, <2>2 DEF Ready, reclaims, Flags, Accounts
<1>6. CASE ProvisionFails(r)
  <2>1. Retired({}, {at[r]}) /\ slot' = [slot EXCEPT ![r] = FALSE] /\ UNCHANGED reclaims
    BY <1>6 DEF ProvisionFails
  <2>2. \A c \in Containers : /\ state'[c] = IF c = at[r] THEN "none" ELSE state[c]
                              /\ owner'[c] = IF c = at[r] THEN None ELSE owner[c]
    BY <2>1 DEF Retired
  <2>3. Owned'
    BY <2>2 DEF Owned
  <2>4. Flags'
    BY <2>1 DEF Retired, Flags
  <2>5. QED
    BY <2>1, <2>3, <2>4 DEF reclaims, Accounts
<1>7. CASE Claim(r)
  <2>1. Owned'
    BY <1>7 DEF Claim, Owned, IInv, Shape
  <2>2. QED
    BY <1>7, <2>1 DEF Claim, reclaims, Flags, Accounts
<1>8. CASE End(r)
  <2>1. at[r] \in Containers /\ state[at[r]] = "busy"
    BY <1>8 DEF End, IInv, LadderInv, OnItsRung
  <2>2. Owned'
    BY <1>8, <2>1 DEF End, Owned, IInv, Shape
  <2>3. Flags'
    BY <1>8, <2>1 DEF End, Flags
  <2>4. QED
    BY <1>8, <2>2, <2>3 DEF End, reclaims, Accounts
<1>9. CASE PlanReclaim(r)
  <2>1. PICK chosen \in PlanCrossProjectReclaim(Eligible(r), need[r], Resumable) :
           plan' = [plan EXCEPT ![r] = Plan(Ids(chosen.suspend), Ids(chosen.destroy))]
    BY <1>9 DEF PlanReclaim
  <2>2. UNCHANGED <<members, slot, need>> /\ reclaiming' = r
    BY <1>9 DEF PlanReclaim
  <2>3. Eligible(r) = Candidates(Home[r])
    BY DEF Eligible, Candidates
  <2>4. need[r] \in Nat
    BY DEF Accounts
  <2>5. PICK E, res : E = Eligible(r) /\ res = Resumable
    OBVIOUS
  <2>6. IsFiniteSet(E) /\ SizesNatural(E) /\ \A m \in E : m.id \in Containers
    BY <2>3, <2>5, CandidateFacts
  <2>7. chosen.suspend \union chosen.destroy \subseteq E
    BY <2>1, <2>4, <2>5, <2>6, ReclaimFacts
  <2>8. Plan(Ids(chosen.suspend), Ids(chosen.destroy))
          \in [suspend : SUBSET Containers, destroy : SUBSET Containers]
    BY <2>6, <2>7 DEF Plan, Ids
  <2>9. plan' \in [Runs -> [suspend : SUBSET Containers, destroy : SUBSET Containers]]
    BY <2>1, <2>8 DEF Accounts
  <2>10. Owned'
    BY <2>2, OwnedSame DEF members
  <2>11. QED
    BY <2>2, <2>9, <2>10 DEF members, Flags, Accounts
<1>10. CASE NothingToReclaim(r) \/ EndReclaim(r)
  <2>1. UNCHANGED <<members, slot>> /\ need' = [need EXCEPT ![r] = 0]
        /\ plan' \in {plan, [plan EXCEPT ![r] = NoPlan]} /\ reclaiming' \in {reclaiming, None}
    BY <1>10 DEF NothingToReclaim, EndReclaim
  <2>2. NoPlan \in [suspend : SUBSET Containers, destroy : SUBSET Containers]
    BY DEF NoPlan, Plan
  <2>3. Owned'
    BY <2>1, OwnedSame DEF members
  <2>4. QED
    BY <2>1, <2>2, <2>3 DEF members, Flags, Accounts
<1>11. QED
  BY <1>1, <1>2, <1>3, <1>4, <1>5, <1>6, <1>7, <1>8, <1>9, <1>10 DEF RunStep

LEMMA InitTypes == Init => TInv
<1> SUFFICES ASSUME Init PROVE TInv
  OBVIOUS
<1>1. IInv
  BY InitHolds
<1>2. Owned /\ Flags
  BY DEF Init, Owned, Flags
<1>3. NoPlan \in [suspend : SUBSET Containers, destroy : SUBSET Containers]
  BY DEF NoPlan, Plan
<1>4. Accounts
  BY <1>3 DEF Init, Accounts
<1>5. QED
  BY <1>1, <1>2, <1>4 DEF TInv

LEMMA StepTypes ==
  ASSUME TInv, [Next]_vars
  PROVE  TInv'
<1>1. SUFFICES Owned' /\ Flags' /\ Accounts'
  BY StepKeeps DEF TInv
<1>2. ASSUME NEW r \in Runs, NEW v \in Projects, Evict(r, v)
      PROVE  Owned' /\ Flags' /\ Accounts'
  <2>1. Owned' /\ Flags'
    BY <1>2, EvictRetires, RetirementTypes
  <2>2. UNCHANGED <<claims, need, reclaiming>>
    BY <1>2 DEF Evict
  <2>3. PICK gone :
           plan' = [plan EXCEPT ![r] = Plan(plan[r].suspend \ gone, plan[r].destroy \ gone)]
    BY <1>2 DEF Evict
  <2>4. plan[r].suspend \in SUBSET Containers /\ plan[r].destroy \in SUBSET Containers
    BY DEF TInv, Accounts
  <2>5. Plan(plan[r].suspend \ gone, plan[r].destroy \ gone)
          \in [suspend : SUBSET Containers, destroy : SUBSET Containers]
    BY <2>4 DEF Plan
  <2>6. plan' \in [Runs -> [suspend : SUBSET Containers, destroy : SUBSET Containers]]
    BY <2>3, <2>5 DEF TInv, Accounts
  <2>7. QED
    BY <2>1, <2>2, <2>6 DEF TInv, claims, Accounts
<1>3. ASSUME NEW p \in Projects,
             ShutDownIdlePool(p) \/ RetireIdleMembers(p) \/ RetireDormant(p)
      PROVE  Owned' /\ Flags' /\ Accounts'
  <2>1. Owned' /\ Flags'
    BY <1>3, PassRetires, RetirementTypes
  <2>2. UNCHANGED <<claims, reclaims>>
    BY <1>3 DEF ShutDownIdlePool, RetireIdleMembers, RetireDormant
  <2>3. QED
    BY <2>1, <2>2 DEF TInv, claims, reclaims, Accounts
<1>4. ASSUME UNCHANGED <<state, owner, claims, reclaims>>, Flags'
      PROVE  Owned' /\ Flags' /\ Accounts'
  BY <1>4 DEF TInv, Owned, claims, reclaims, Accounts
<1>5. ASSUME NEW c \in Containers, Rest(c) PROVE Owned' /\ Flags' /\ Accounts'
  BY <1>4, <1>5 DEF Rest, TInv, Flags
<1>6. CASE SettingsChange
  BY <1>4, <1>6 DEF SettingsChange, TInv, Flags
<1>7. CASE UNCHANGED vars
  BY <1>4, <1>7 DEF vars, members, TInv, Flags
<1>8. QED
  BY <1>2, <1>3, <1>5, <1>6, <1>7, RunTypes DEF Next

(* Every variable keeps its type.  A need is a natural number because a    *)
(* run is sent to reclaim only when something is missing (selectPoolMember *)
(* computes the shortfall from the sum of what runs), and a plan names     *)
(* containers only, because the shortest prefix it takes exists.           *)
THEOREM TypeCorrect == Spec => []TypeOK
<1>1. Init => TInv
  BY InitTypes
<1>2. TInv /\ [Next]_vars => TInv'
  BY StepTypes
<1>3. TInv => TypeOK
  BY TypeParts
<1>4. QED
  BY <1>1, <1>2, <1>3, PTL DEF Spec

(* Whatever the fleet looks like and whatever is needed, a plan of         *)
(* planCrossProjectReclaim frees enough and stops as soon as it does: not  *)
(* without the last member taken.  It destroys no unpushed work and leaves *)
(* every victim project a member to serve its next run with.               *)
THEOREM ReclaimTight == Spec => []ReclaimPlansTight
<1>1. Init => TInv
  BY InitTypes
<1>2. TInv /\ [Next]_vars => TInv'
  BY StepTypes
<1>3. TInv => ReclaimPlansTight
  BY TightNow DEF TInv
<1>4. QED
  BY <1>1, <1>2, <1>3, PTL DEF Spec

-----------------------------------------------------------------------------
(* The budget                                                              *)

LEMMA UsedTotal ==
  ASSUME Owned
  PROVE  /\ UsedMemory = Total(Share(owner), Running)
         /\ IsFiniteSet(Running)
         /\ Sized(Share(owner), Running)
<1>1. Running \subseteq Containers /\ \A c \in Running : state[c] # "none"
  BY DEF Running, Counted
<1>2. QED
  BY <1>1, FleetAssumption, UsedIs, FoldTotal, ShareNatural

(* What fewer containers, one more and the same ones make of it.           *)
LEMMA UsedShrinks ==
  ASSUME Owned, Running' \subseteq Running,
         \A c \in Running' : owner'[c] = owner[c]
  PROVE  UsedMemory' <= UsedMemory
<1>1. PICK o, S : o = owner' /\ S = Running'
  OBVIOUS
<1>2. S \subseteq Containers /\ S \subseteq Running /\ \A c \in S : o[c] = owner[c]
  BY <1>1 DEF Running
<1>3. UsedMemory' = FoldOf(o, S)
  BY <1>1, UsedIsNext
<1>4. FoldOf(o, S) = Total(Share(o), S)
  BY <1>2, FleetAssumption, FoldTotal
<1>5. IsFiniteSet(S)
  BY <1>2, FleetAssumption, FS_Subset
<1>6. \A c \in S : Share(o)[c] = Share(owner)[c]
  BY <1>2 DEF Share
<1>7. Total(Share(o), S) = Total(Share(owner), S)
  BY <1>5, <1>6, TotalSame
<1>8. Total(Share(owner), S) <= Total(Share(owner), Running)
  BY <1>2, UsedTotal, TotalMonotone
<1>9. QED
  BY <1>3, <1>4, <1>7, <1>8, UsedTotal

LEMMA UsedAdds ==
  ASSUME Owned, NEW x \in Containers, x \notin Running, Running' = Running \union {x},
         owner'[x] \in Projects, \A c \in Running : owner'[c] = owner[c]
  PROVE  UsedMemory' = UsedMemory + Cap[owner'[x]]
<1>1. PICK o, S : o = owner' /\ S = Running'
  OBVIOUS
<1>2. /\ S \subseteq Containers /\ x \in S /\ S \ {x} = Running
      /\ \A c \in Running : o[c] = owner[c]
  BY <1>1 DEF Running
<1>3. UsedMemory' = Total(Share(o), S)
  BY <1>1, <1>2, UsedIsNext, FleetAssumption, FoldTotal
<1>4. IsFiniteSet(S) /\ Sized(Share(o), S)
  <2>1. IsFiniteSet(S)
    BY <1>2, FleetAssumption, FS_Subset
  <2>2. \A c \in Running : owner[c] \in Projects
    BY DEF Owned, Running, Counted
  <2>3. \A c \in S : o[c] \in Projects /\ c \in Containers
    BY <1>1, <1>2, <2>2
  <2>4. QED
    BY <2>1, <2>3, FleetAssumption DEF Sized, Share
<1>5. Total(Share(o), S) = Share(o)[x] + Total(Share(o), Running)
  BY <1>2, <1>4, TotalRemove
<1>6. Total(Share(o), Running) = Total(Share(owner), Running)
  <2>1. \A c \in Running : Share(o)[c] = Share(owner)[c]
    BY <1>2 DEF Share, Running
  <2>2. QED
    BY <2>1, UsedTotal, TotalSame
<1>7. Share(o)[x] = Cap[owner'[x]] /\ Cap[owner'[x]] \in Nat
  BY <1>1, FleetAssumption DEF Share
<1>8. PICK a \in Nat, b \in Nat : a = UsedMemory /\ b = Cap[owner'[x]]
  BY <1>7, UsedNatural
<1>9. UsedMemory' = b + a
  BY <1>3, <1>5, <1>6, <1>7, <1>8, UsedTotal
<1>10. QED
  BY <1>8, <1>9

LEMMA UsedSame ==
  ASSUME Running' = Running, owner' = owner
  PROVE  UsedMemory' = UsedMemory
BY UsedIs, UsedIsNext

(* Retiring frees memory.                                                  *)
LEMMA RetirementFrees ==
  ASSUME Owned, NEW S, NEW D, Retired(S, D)
  PROVE  UsedMemory' <= UsedMemory
<1>1. ASSUME NEW c \in Containers, state'[c] \in Counted
      PROVE  state[c] \in Counted /\ owner'[c] = owner[c]
  <2>1. /\ c \in D => state'[c] = "none"
        /\ c \notin D /\ c \in S => state'[c] = "suspended"
        /\ c \notin D /\ c \notin S => state'[c] = state[c]
        /\ c \notin D => owner'[c] = owner[c]
    BY DEF Retired
  <2>2. QED
    BY <1>1, <2>1 DEF Counted
<1>2. Running' \subseteq Running /\ \A c \in Running' : owner'[c] = owner[c]
  BY <1>1 DEF Running, Counted
<1>3. QED
  BY <1>2, UsedShrinks

(* Whatever is started was found to fit.                                   *)
LEMMA StartsFit ==
  ASSUME NEW r \in Runs, NEW kind \in {"resume", "create"}, Offered(r, kind) # {}, Owned
  PROVE  UsedMemory + Cap[Home[r]] <= Budget
<1> DEFINE ms == Members(Home[r])
           warm == InState(Available(ms), "idle")
           cold == InState(Available(ms), "suspended")
<1>1. PICK d : d \in SelectPoolMember(ms, Capacity(r)) /\ d.kind = kind
  BY DEF Offered
<1>2. \/ d = Decision("recycle", Mismatched(ms))
      \/ \E x \in warm : d = Decision("reuse", {x})
      \/ FitsBudget(Capacity(r))
      \/ d = Decision("reclaim", {})
      \/ d = Decision("queue", {})
  BY <1>1, Zenon DEF SelectPoolMember
<1>3. FitsBudget(Capacity(r))
  BY <1>1, <1>2 DEF Decision
<1>4. PICK u \in Nat, q \in Nat, b \in Nat :
         u = UsedMemory /\ q = Cap[Home[r]] /\ b = Ceiling(r) /\ b <= Budget
  BY FleetAssumption, UsedNatural, CeilingNatural
<1>5. Capacity(r).used = u /\ Capacity(r).request = q /\ Capacity(r).budget = b
  BY <1>4 DEF Capacity
<1>6. u + q <= b /\ Budget \in Nat
  BY <1>3, <1>5, FleetAssumption DEF FitsBudget
<1>7. QED
  BY <1>4, <1>6

(* What the projects of a set build their containers with.                 *)
CapSum(S) == MapThenSumSet(LAMBDA p : Cap[p], S)

LEMMA CapFold ==
  ASSUME NEW S, \E g : SumsOf(Cap, S, g)
  PROVE  \E g : SumsOf(Cap, S, g) /\ CapSum(S) = g[S]
BY Zenon DEF CapSum, SumsOf, First, MapThenSumSet, MapThenFoldSet

LEMMA CapTotal ==
  ASSUME NEW S, S \subseteq Projects
  PROVE  CapSum(S) = Total(Cap, S) /\ IsFiniteSet(S) /\ Sized(Cap, S)
<1>1. IsFiniteSet(S) /\ Sized(Cap, S)
  BY FleetAssumption, FS_Subset DEF Sized
<1>2. \E g : SumsOf(Cap, S, g)
  BY <1>1, SumsExist
<1>3. PICK g : SumsOf(Cap, S, g) /\ CapSum(S) = g[S]
  BY <1>2, CapFold
<1>4. QED
  BY <1>1, <1>3, TotalIs

LEMMA CapSumFacts ==
  ASSUME NEW S, S \subseteq Projects
  PROVE  /\ CapSum(S) \in Nat
         /\ \A T \in SUBSET S : CapSum(T) <= CapSum(S)
         /\ \A p \in S : CapSum(S) = Cap[p] + CapSum(S \ {p})
<1>1. CapSum(S) = Total(Cap, S) /\ IsFiniteSet(S) /\ Sized(Cap, S)
  BY CapTotal
<1>2. \A T \in SUBSET S : CapSum(T) = Total(Cap, T)
  BY CapTotal
<1>3. CapSum(S) \in Nat
  BY <1>1, TotalNatural
<1>4. \A T \in SUBSET S : CapSum(T) <= CapSum(S)
  BY <1>1, <1>2, TotalMonotone
<1>5. ASSUME NEW p \in S PROVE CapSum(S) = Cap[p] + CapSum(S \ {p})
  BY <1>1, <1>2, TotalRemove
<1>6. QED
  BY <1>3, <1>4, <1>5

(* The projects with a start decided on and not yet made.                  *)
Starting(r) == pc[r] \in {"creating", "resuming"}
Wanting == {p \in Projects : \E r \in Runs : Home[r] = p /\ Starting(r)}

(* What runs and what is about to is within k.                             *)
Within(k) == UsedMemory + CapSum(Wanting) <= k

LEMMA WithinNext ==
  ASSUME NEW W, W = Wanting', NEW k, UsedMemory' + CapSum(W) <= k
  PROVE  Within(k)'
<1>1. CapSum(Wanting)' = CapSum(W)
  BY Zenon DEF CapSum, Wanting, MapThenSumSet, MapThenFoldSet
<1>2. UsedMemory' + CapSum(Wanting)' <= k
  BY <1>1
<1>3. QED
  BY <1>2 DEF Within

LEMMA WithinStays ==
  ASSUME Owned, Owned', NEW k \in Nat, Within(k), UsedMemory' <= UsedMemory,
         Wanting' \subseteq Wanting
  PROVE  Within(k)'
<1>1. PICK W : W = Wanting'
  OBVIOUS
<1>3. W \subseteq Wanting /\ Wanting \subseteq Projects
  BY <1>1 DEF Wanting
<1>4. CapSum(W) \in Nat /\ CapSum(Wanting) \in Nat /\ CapSum(W) <= CapSum(Wanting)
  BY <1>3, CapSumFacts
<1>5. UsedMemory' \in Nat
  <2>1. PICK o, S : o = owner' /\ S = Running'
    OBVIOUS
  <2>2. S \subseteq Containers /\ \A c \in S : o[c] \in Projects
    BY <2>1 DEF Running, Owned, Counted
  <2>3. IsFiniteSet(S) /\ Sized(Share(o), S)
    BY <2>2, FleetAssumption, FS_Subset DEF Sized, Share
  <2>4. UsedMemory' = Total(Share(o), S)
    BY <2>1, <2>2, UsedIsNext, FleetAssumption, FoldTotal
  <2>5. QED
    BY <2>3, <2>4, TotalNatural
<1>6. PICK u \in Nat, v \in Nat, a \in Nat, b \in Nat :
         u = UsedMemory /\ v = UsedMemory' /\ a = CapSum(Wanting) /\ b = CapSum(W)
  BY <1>4, <1>5, UsedNatural
<1>7. v <= u /\ b <= a /\ u + a <= k
  BY <1>4, <1>6 DEF Within
<1>8. v + b <= k
  BY <1>7
<1>9. UsedMemory' + CapSum(W) <= k
  BY <1>6, <1>8
<1>10. QED
  BY <1>1, <1>9, WithinNext

(* A start is decided on: there was room for it, not for what the others   *)
(* had decided on before.                                                  *)
LEMMA WithinDecided ==
  ASSUME Owned, NEW p \in Projects, UsedMemory + Cap[p] <= Budget, UsedMemory' = UsedMemory
  PROVE  Within(Budget + CapSum(Projects \ {p}))'
<1>1. PICK W : W = Wanting'
  OBVIOUS
<1>2. PICK V : V = W \union {p}
  OBVIOUS
<1>3. V \subseteq Projects /\ W \subseteq V /\ p \in V /\ V \ {p} \subseteq Projects \ {p}
  BY <1>1, <1>2 DEF Wanting
<1>4. CapSum(W) <= CapSum(V) /\ CapSum(V) = Cap[p] + CapSum(V \ {p})
  BY <1>3, CapSumFacts
<1>5. CapSum(V \ {p}) <= CapSum(Projects \ {p})
  BY <1>3, CapSumFacts
<1>6. PICK u \in Nat, w \in Nat, x \in Nat, y \in Nat, k \in Nat, b \in Nat :
         /\ u = UsedMemory /\ w = CapSum(W) /\ x = CapSum(V \ {p})
         /\ y = CapSum(Projects \ {p}) /\ k = Cap[p] /\ b = Budget
  <2>1. CapSum(W) \in Nat
    BY <1>3, CapSumFacts
  <2>2. CapSum(V \ {p}) \in Nat
    BY <1>3, CapSumFacts
  <2>3. CapSum(Projects \ {p}) \in Nat
    BY CapSumFacts
  <2>4. QED
    BY <2>1, <2>2, <2>3, FleetAssumption, UsedNatural
<1>7. w <= k + x /\ x <= y /\ u + k <= b
  BY <1>4, <1>5, <1>6
<1>8. u + w <= b + y
  BY <1>7
<1>9. PICK m : m = Budget + CapSum(Projects \ {p})
  OBVIOUS
<1>10. UsedMemory' + CapSum(W) <= m
  BY <1>6, <1>8, <1>9
<1>11. Within(m)'
  BY <1>1, <1>10, WithinNext
<1>12. QED
  BY <1>9, <1>11 DEF Within

(* With nothing decided on before, there is room.                          *)
LEMMA WithinAlone ==
  ASSUME Owned, NEW p \in Projects, UsedMemory + Cap[p] <= Budget, UsedMemory' = UsedMemory,
         Wanting' \subseteq {p}
  PROVE  Within(Budget)'
<1>1. PICK W : W = Wanting'
  OBVIOUS
<1>2. W \subseteq {p} /\ {p} \subseteq Projects /\ {p} \ {p} = {}
  BY <1>1
<1>3. CapSum(W) <= CapSum({p}) /\ CapSum({p}) = Cap[p] + CapSum({p} \ {p})
  BY <1>2, CapSumFacts
<1>4. CapSum({}) = 0
  BY CapTotal, TotalEmpty
<1>5. PICK u \in Nat, w \in Nat, k \in Nat, b \in Nat :
         u = UsedMemory /\ w = CapSum(W) /\ k = Cap[p] /\ b = Budget
  <2>1. W \subseteq Projects
    BY <1>2
  <2>2. CapSum(W) \in Nat
    BY <2>1, CapSumFacts
  <2>3. QED
    BY <2>2, FleetAssumption, UsedNatural
<1>6. w <= k + 0 /\ u + k <= b
  BY <1>2, <1>3, <1>4, <1>5
<1>7. u + w <= b
  BY <1>6
<1>8. UsedMemory' + CapSum(W) <= Budget
  BY <1>5, <1>7
<1>9. QED
  BY <1>1, <1>8, WithinNext

(* And made.                                                               *)
LEMMA WithinMade ==
  ASSUME Owned, NEW m \in Nat, Within(m), NEW p \in Wanting, UsedMemory' = UsedMemory + Cap[p],
         Wanting' = Wanting \ {p}
  PROVE  Within(m)'
<1>1. PICK W : W = Wanting'
  OBVIOUS
<1>3. W = Wanting \ {p} /\ Wanting \subseteq Projects /\ p \in Projects
  BY <1>1 DEF Wanting
<1>4. CapSum(Wanting) = Cap[p] + CapSum(W)
  BY <1>3, CapSumFacts
<1>5. PICK u \in Nat, w \in Nat, k \in Nat : u = UsedMemory /\ w = CapSum(W) /\ k = Cap[p]
  <2>1. W \subseteq Projects
    BY <1>3
  <2>2. CapSum(W) \in Nat
    BY <2>1, CapSumFacts
  <2>3. QED
    BY <1>3, <2>2, FleetAssumption, UsedNatural
<1>6. u + (k + w) = (u + k) + w
  OBVIOUS
<1>7. UsedMemory' + CapSum(W) <= m
  BY <1>4, <1>5, <1>6 DEF Within
<1>8. QED
  BY <1>1, <1>7, WithinNext

(* The step in which run r decides on a start, having found it to fit.     *)
Decides(r) ==
    /\ ~Starting(r) /\ Starting(r)'
    /\ Wanting' \subseteq Wanting \union {Home[r]}
    /\ UsedMemory + Cap[Home[r]] <= Budget
    /\ UsedMemory' = UsedMemory

LEMMA RunFits ==
  ASSUME TInv, Owned', NEW k \in Nat, Within(k), NEW r \in Runs, RunStep(r)
  PROVE  Within(k)' \/ Decides(r)
<1>0. Home \in [Runs -> Projects] /\ Home[r] \in Projects /\ UsedMemory \in Nat
  BY FleetAssumption, UsedNatural DEF TInv
<1>1. ASSUME Running' = Running, owner' = owner, \A s \in Runs : Starting(s)' => Starting(s)
      PROVE  Within(k)'
  <2>1. UsedMemory' <= UsedMemory
    BY <1>0, <1>1, UsedSame
  <2>2. Wanting' \subseteq Wanting
    BY <1>1 DEF Wanting
  <2>3. QED
    BY <2>1, <2>2, WithinStays DEF TInv
<1>2. ASSUME NEW q \in RunPc \ {"creating", "resuming"}, pc' = [pc EXCEPT ![r] = q]
      PROVE  \A s \in Runs : Starting(s)' => Starting(s)
  BY <1>2 DEF Starting, TInv, IInv, Shape
<1>3. ASSUME UNCHANGED <<state, owner>>
      PROVE  Running' = Running /\ owner' = owner
  BY <1>3 DEF Running
<1>4. ASSUME NEW q \in RunPc \ {"creating", "resuming"}, pc' = [pc EXCEPT ![r] = q],
             UNCHANGED <<state, owner>>
      PROVE  Within(k)'
  BY <1>1, <1>2, <1>3, <1>4
<1>5. ASSUME UNCHANGED <<state, owner>>, UsedMemory + Cap[Home[r]] <= Budget,
             NEW q \in {"creating", "resuming"}, pc[r] = "ladder", pc' = [pc EXCEPT ![r] = q]
      PROVE  Decides(r)
  <2>1. UsedMemory' = UsedMemory
    BY <1>3, <1>5, UsedSame
  <2>2. /\ ~Starting(r) /\ Starting(r)'
        /\ \A s \in Runs \ {r} : Starting(s)' => Starting(s)
    BY <1>5 DEF Starting, TInv, IInv, Shape
  <2>3. Wanting' \subseteq Wanting \union {Home[r]}
    BY <2>2 DEF Wanting
  <2>4. QED
    BY <1>5, <2>1, <2>2, <2>3 DEF Decides
<1>6. CASE Gate(r)
  BY <1>4, <1>6 DEF Gate, members, RunPc
<1>7. CASE Launch(r)
  BY <1>4, <1>7 DEF Launch, members, RunPc
<1>8. CASE StartTurn(r)
  BY <1>4, <1>8 DEF StartTurn, members, RunPc
<1>9. CASE TakeMember(r)
  <2>1. PICK kind \in {"reuse", "resume"} :
           /\ Offered(r, kind) # {} /\ pc[r] = "ladder"
           /\ pc' = [pc EXCEPT ![r] = IF kind = "reuse" THEN "claiming" ELSE "resuming"]
    BY <1>9 DEF TakeMember, AtLadder
  <2>2. UNCHANGED <<state, owner>>
    BY <1>9 DEF TakeMember, members
  <2>3. CASE kind = "reuse"
    BY <1>4, <2>1, <2>2, <2>3 DEF RunPc
  <2>4. CASE kind = "resume"
    BY <1>5, <2>1, <2>2, <2>4, StartsFit DEF TInv
  <2>5. QED
    BY <2>3, <2>4
<1>10. CASE Create(r)
  <2>1. /\ Offered(r, "create") # {} /\ UNCHANGED <<state, owner>>
        /\ pc[r] = "ladder" /\ pc' = [pc EXCEPT ![r] = "creating"]
    BY <1>10 DEF Create, members, AtLadder
  <2>2. QED
    BY <1>5, <2>1, StartsFit DEF TInv
<1>11. CASE Recycle(r)
  <2>1. PICK D : Retired({}, D)
    BY <1>11 DEF Recycle
  <2>2. UsedMemory' <= UsedMemory
    BY <2>1, RetirementFrees DEF TInv
  <2>3. Wanting' \subseteq Wanting
    BY <1>11 DEF Recycle, claims, Starting, Wanting
  <2>4. QED
    BY <2>2, <2>3, WithinStays DEF TInv
<1>12. CASE Starve(r)
  BY <1>4, <1>12 DEF Starve, members, RunPc
<1>13. CASE GiveUp(r)
  BY <1>4, <1>13 DEF GiveUp, members, RunPc
<1>14. CASE RecordCreate(r) \/ (Ready(r) /\ pc[r] = "resuming")
  <2>1. /\ Starting(r) /\ at[r] \in Containers /\ state[at[r]] \in {"none", "suspended"}
        /\ \E q \in Counted : state' = [state EXCEPT ![at[r]] = q]
        /\ \A c \in Containers \ {at[r]} : owner'[c] = owner[c]
        /\ owner'[at[r]] = Home[r]
    BY <1>14 DEF RecordCreate, Ready, TInv, IInv, Shape, LadderInv, OnItsRung, Starting, Counted
  <2>2. /\ Running' = Running \union {at[r]} /\ at[r] \notin Running
        /\ \A c \in Running : owner'[c] = owner[c]
    BY <2>1 DEF Running, Counted, TInv, IInv, Shape
  <2>3. UsedMemory' = UsedMemory + Cap[Home[r]]
    BY <1>0, <2>1, <2>2, UsedAdds DEF TInv
  <2>4. ASSUME NEW s \in Runs PROVE Starting(s)' <=> (Starting(s) /\ Home[s] # Home[r])
    <3>1. \E q \in {"recorded", "claiming"} : pc' = [pc EXCEPT ![r] = q]
      BY <1>14 DEF RecordCreate, Ready
    <3>2. s # r /\ Starting(s) => Home[s] # Home[r]
      BY <2>1, AloneInside DEF TInv, Starting, Held
    <3>3. s # r => pc'[s] = pc[s]
      BY <3>1 DEF TInv, IInv, Shape
    <3>4. ~Starting(r)'
      BY <3>1 DEF TInv, IInv, Shape, Starting
    <3>5. CASE s = r
      BY <3>4, <3>5
    <3>6. CASE s # r
      BY <3>2, <3>3, <3>6 DEF Starting
    <3>7. QED
      BY <3>5, <3>6
  <2>5. Home[r] \in Wanting /\ Wanting' = Wanting \ {Home[r]}
    BY <1>0, <2>1, <2>4 DEF Wanting
  <2>6. QED
    BY <2>3, <2>5, WithinMade DEF TInv
<1>15. CASE (Ready(r) /\ pc[r] = "recorded") \/ Claim(r) \/ End(r)
  <2>1. /\ at[r] \in Containers /\ state[at[r]] \in Counted /\ owner' = owner
        /\ \E q \in Counted : state' = [state EXCEPT ![at[r]] = q]
        /\ \E q \in RunPc \ {"creating", "resuming"} : pc' = [pc EXCEPT ![r] = q]
    BY <1>15 DEF Ready, Claim, End, TInv, IInv, LadderInv, OnItsRung, Counted, RunPc
  <2>2. Running' = Running
    BY <2>1 DEF Running, Counted, TInv, IInv, Shape
  <2>3. QED
    BY <1>1, <1>2, <2>1, <2>2
<1>16. CASE ProvisionFails(r)
  <2>1. Retired({}, {at[r]}) /\ pc' = [pc EXCEPT ![r] = "idle"]
    BY <1>16 DEF ProvisionFails
  <2>2. UsedMemory' <= UsedMemory
    BY <2>1, RetirementFrees DEF TInv
  <2>3. \A s \in Runs : Starting(s)' => Starting(s)
    BY <1>2, <2>1 DEF RunPc
  <2>4. Wanting' \subseteq Wanting
    BY <2>3 DEF Wanting
  <2>5. QED
    BY <2>2, <2>4, WithinStays DEF TInv
<1>17. CASE PlanReclaim(r)
  BY <1>4, <1>17 DEF PlanReclaim, members, RunPc
<1>18. CASE NothingToReclaim(r)
  BY <1>4, <1>18 DEF NothingToReclaim, members, RunPc
<1>19. CASE EndReclaim(r)
  BY <1>4, <1>19 DEF EndReclaim, members, RunPc
<1>20. QED
  BY <1>6, <1>7, <1>8, <1>9, <1>10, <1>11, <1>12, <1>13, <1>14, <1>15, <1>16, <1>17, <1>18, <1>19
     DEF RunStep, Ready

LEMMA StepFits ==
  ASSUME TInv, NEW k \in Nat, Within(k), [Next]_vars
  PROVE  Within(k)' \/ \E r \in Runs : Decides(r)
<1>1. Owned'
  BY StepTypes DEF TInv
<1>2. ASSUME UsedMemory' <= UsedMemory, UNCHANGED claims PROVE Within(k)'
  <2>1. Wanting' \subseteq Wanting
    BY <1>2 DEF claims, Starting, Wanting
  <2>2. QED
    BY <1>1, <1>2, <2>1, WithinStays DEF TInv
<1>3. ASSUME NEW r \in Runs, NEW v \in Projects, Evict(r, v) PROVE Within(k)'
  <2>1. \E S, D : Retired(S, D)
    BY <1>3 DEF Evict
  <2>2. UsedMemory' <= UsedMemory
    BY <2>1, RetirementFrees DEF TInv
  <2>3. QED
    BY <1>2, <1>3, <2>2 DEF Evict
<1>4. ASSUME NEW q \in Projects,
             ShutDownIdlePool(q) \/ RetireIdleMembers(q) \/ RetireDormant(q)
      PROVE  Within(k)'
  <2>1. \E S, D : Retired(S, D)
    BY <1>4, PassRetires DEF Retirement
  <2>2. UsedMemory' <= UsedMemory
    BY <2>1, RetirementFrees DEF TInv
  <2>3. UNCHANGED claims
    BY <1>4 DEF ShutDownIdlePool, RetireIdleMembers, RetireDormant
  <2>4. QED
    BY <1>2, <2>2, <2>3
<1>5. ASSUME UNCHANGED <<state, owner, claims>> PROVE Within(k)'
  <2>1. UsedMemory' = UsedMemory /\ UsedMemory \in Nat
    BY <1>5, UsedSame, UsedNatural DEF Running, TInv
  <2>2. QED
    BY <1>2, <1>5, <2>1
<1>6. ASSUME NEW c \in Containers, Rest(c) PROVE Within(k)'
  BY <1>5, <1>6 DEF Rest
<1>7. CASE SettingsChange
  BY <1>5, <1>7 DEF SettingsChange
<1>8. CASE UNCHANGED vars
  BY <1>5, <1>8 DEF vars, members
<1>9. QED
  BY <1>1, <1>3, <1>4, <1>6, <1>7, <1>8, RunFits DEF Next

LEMMA InitFits ==
  ASSUME Init, NEW k \in Nat
  PROVE  Within(k)
<1>1. Running = {} /\ Wanting = {}
  BY DEF Init, Running, Counted, Wanting, Starting
<1>2. Owned
  BY InitTypes DEF TInv
<1>3. UsedMemory = 0
  BY <1>1, <1>2, UsedTotal, TotalEmpty
<1>4. CapSum({}) = 0
  BY CapTotal, TotalEmpty
<1>5. 0 + 0 <= k
  OBVIOUS
<1>6. QED
  BY <1>1, <1>3, <1>4, <1>5 DEF Within

LEMMA WithinBounds ==
  ASSUME Owned, NEW k \in Nat, Within(k)
  PROVE  UsedMemory <= k
<1>1. CapSum(Wanting) \in Nat
  BY CapSumFacts DEF Wanting
<1>2. PICK u \in Nat, w \in Nat : u = UsedMemory /\ w = CapSum(Wanting)
  BY <1>1, UsedNatural
<1>3. u + w <= k
  BY <1>2 DEF Within
<1>4. QED
  BY <1>2, <1>3

(* Whoever decided last had room for its own.                              *)
Fits == \E p \in Projects : Within(Budget + CapSum(Projects \ {p}))

(* The budget is overrun by no more than the other projects' next starts:  *)
(* for some project, by no more than one container of each of the others.  *)
OverrunBounded == \E p \in Projects : UsedMemory <= Budget + CapSum(Projects \ {p})

(* The per-project locks of acquireRunContainer do not keep two projects   *)
(* from deciding on the same reading of getActiveContainers, but each has  *)
(* one start on its way at most, so that is all they can overrun by, in    *)
(* any instance and however often they do.                                 *)
THEOREM Overrun ==
  ASSUME Projects # {}
  PROVE  Spec => []OverrunBounded
<1>1. \A p \in Projects : Budget + CapSum(Projects \ {p}) \in Nat
  BY FleetAssumption, CapSumFacts
<1>2. Init => TInv /\ Fits
  BY <1>1, InitTypes, InitFits DEF Fits
<1>3. TInv /\ Fits /\ [Next]_vars => (TInv /\ Fits)'
  <2> SUFFICES ASSUME TInv, Fits, [Next]_vars PROVE TInv' /\ Fits'
    OBVIOUS
  <2>1. PICK p \in Projects, k \in Nat : k = Budget + CapSum(Projects \ {p}) /\ Within(k)
    BY <1>1 DEF Fits
  <2>2. CASE Within(k)'
    <3>1. Within(Budget + CapSum(Projects \ {p}))'
      BY <2>1, <2>2 DEF Within
    <3>2. QED
      BY <3>1, StepTypes DEF Fits
  <2>3. ASSUME NEW r \in Runs, Decides(r) PROVE Fits'
    <3>1. Home[r] \in Projects
      BY FleetAssumption
    <3>2. Within(Budget + CapSum(Projects \ {Home[r]}))'
      BY <2>3, <3>1, WithinDecided DEF Decides, TInv
    <3>3. QED
      BY <3>1, <3>2 DEF Fits
  <2>4. QED
    BY <2>1, <2>2, <2>3, StepFits, StepTypes
<1>4. TInv /\ Fits => OverrunBounded
  BY <1>1, WithinBounds DEF Fits, OverrunBounded, TInv
<1>5. QED
  BY <1>2, <1>3, <1>4, PTL DEF Spec

(* An overlap: a run decides on a start while another's, of a project with *)
(* a lock of its own, has been decided on and is not yet to be seen in     *)
(* what getActiveContainers counts.                                        *)
Overlap == \E r \in Runs : ~Starting(r) /\ Starting(r)' /\ Wanting # {}

(* The memory of what runs never exceeds the operator's total unless two   *)
(* projects' starts overlap, whatever projects, runs and container sizes   *)
(* there are: chat turns, failed provisions, recycling, retirement,        *)
(* reclaims and every interleaving of two projects between a start's       *)
(* becoming visible and the next decision included                         *)
(* (isContainerCapacityBlocked, selectPoolMember).  FleetBudget.cfg has a  *)
(* behaviour in which two starts overlap and the total is exceeded.        *)
THEOREM BudgetSafe == Spec /\ [][~Overlap]_vars => []BudgetKept
<1> DEFINE Inv == TInv /\ Within(Budget)
<1>1. Budget \in Nat
  BY FleetAssumption
<1>2. Init => Inv
  BY <1>1, InitTypes, InitFits
<1>3. Inv /\ [Next /\ ~Overlap]_vars => Inv'
  <2> SUFFICES ASSUME Inv, [Next /\ ~Overlap]_vars PROVE Inv'
    OBVIOUS
  <2>1. [Next]_vars /\ ~Overlap
    BY DEF Overlap, Starting, vars, claims
  <2>2. ASSUME NEW r \in Runs, Decides(r) PROVE Within(Budget)'
    <3>1. Home[r] \in Projects
      BY FleetAssumption
    <3>2. Wanting = {}
      BY <2>1, <2>2 DEF Overlap, Decides
    <3>3. Wanting' \subseteq {Home[r]}
      BY <2>2, <3>2 DEF Decides
    <3>4. QED
      BY <2>2, <3>1, <3>3, WithinAlone DEF Decides, TInv
  <2>3. QED
    BY <1>1, <2>1, <2>2, StepFits, StepTypes
<1>4. Inv => BudgetKept
  BY <1>1, WithinBounds DEF BudgetKept, TInv
<1>5. QED
  BY <1>2, <1>3, <1>4, PTL DEF Spec

-----------------------------------------------------------------------------
(* Unpushed work                                                           *)

PinnedRows == \A c \in pinned : state[c] \in {"idle", "busy", "suspended"}

(* What a reclaim has planned to take is another project's, and no run is  *)
(* about to make it its own.                                               *)
Elsewhere ==
    \A r \in Runs : \A c \in plan[r].suspend \union plan[r].destroy :
        owner[c] # Home[r] /\ \A s \in Runs : pc[s] = "creating" => at[s] # c

(* What a step leaves of the pinned: none is destroyed but by a plan of    *)
(* another project's, and each that is still pinned has its row.           *)
Spared ==
    /\ \A c \in pinned :
          state'[c] = "none" => \E r \in Runs : c \in plan[r].destroy /\ owner[c] # Home[r]
    /\ PinnedRows'

LEMMA RetirementSpares ==
  ASSUME TInv, PinnedRows, NEW S, NEW D, Retirement(S, D), D \intersect pinned = {}
  PROVE  Spared
<1>1. ASSUME NEW c \in pinned PROVE state'[c] \in {"idle", "busy", "suspended"}
  <2>1. c \in Containers /\ c \notin D /\ state[c] \in {"idle", "busy", "suspended"}
    BY DEF TInv, Flags, PinnedRows
  <2>2. state'[c] = "suspended" \/ state'[c] = state[c]
    BY <2>1 DEF Retirement, Retired
  <2>3. QED
    BY <2>1, <2>2
<1>2. pinned' \subseteq pinned
  BY DEF Retirement, Retired
<1>3. QED
  BY <1>1, <1>2 DEF Spared, PinnedRows

LEMMA EvictSpares ==
  ASSUME TInv, PinnedRows, Elsewhere, NEW r \in Runs, NEW v \in Projects, Evict(r, v)
  PROVE  Spared
<1>1. PICK S, D : Retirement(S, D) /\ D \subseteq plan[r].destroy
  BY EvictRetires
<1>2. ASSUME NEW c \in pinned, c \notin D PROVE state'[c] \in {"idle", "busy", "suspended"}
  <2>1. c \in Containers /\ state[c] \in {"idle", "busy", "suspended"}
    BY DEF TInv, Flags, PinnedRows
  <2>2. state'[c] = "suspended" \/ state'[c] = state[c]
    BY <1>1, <1>2, <2>1 DEF Retirement, Retired
  <2>3. QED
    BY <2>1, <2>2
<1>3. pinned' = pinned \ D
  BY <1>1 DEF Retirement, Retired
<1>4. ASSUME NEW c \in D PROVE c \in plan[r].destroy /\ owner[c] # Home[r]
  BY <1>1 DEF Elsewhere
<1>5. QED
  BY <1>2, <1>3, <1>4 DEF Spared, PinnedRows

LEMMA SameSpares ==
  ASSUME PinnedRows, UNCHANGED <<state, pinned>>
  PROVE  Spared
BY DEF PinnedRows, Spared

LEMMA RunSpares ==
  ASSUME TInv, PinnedRows, NEW r \in Runs, RunStep(r)
  PROVE  Spared
<1>1. CASE Recycle(r)
  BY <1>1, RecycleRetires, RetirementSpares
<1>2. CASE RecordCreate(r)
  <2>1. at[r] \in Containers /\ state[at[r]] = "none" /\ at[r] \notin pinned
    BY <1>2 DEF RecordCreate, TInv, IInv, LadderInv, OnItsRung, PinnedRows
  <2>2. QED
    BY <1>2, <2>1 DEF RecordCreate, TInv, IInv, Shape, Flags, PinnedRows, Spared
<1>3. CASE Ready(r)
  BY <1>3 DEF Ready, TInv, IInv, Shape, Flags, PinnedRows, Spared
<1>4. CASE ProvisionFails(r)
  <2>1. at[r] \in Containers /\ state[at[r]] \in {"none", "creating"} /\ at[r] \notin pinned
    BY <1>4 DEF ProvisionFails, TInv, IInv, LadderInv, OnItsRung, PinnedRows
  <2>2. Retired({}, {at[r]})
    BY <1>4 DEF ProvisionFails
  <2>3. pinned' \subseteq pinned /\ \A c \in Containers \ {at[r]} : state'[c] = state[c]
    BY <2>2 DEF Retired
  <2>4. QED
    BY <2>1, <2>3 DEF TInv, Flags, PinnedRows, Spared
<1>5. CASE Claim(r)
  BY <1>5 DEF Claim, TInv, IInv, Shape, Flags, PinnedRows, Spared
<1>6. CASE End(r)
  <2>1. at[r] \in Containers /\ state' = [state EXCEPT ![at[r]] = "idle"]
        /\ pinned' \subseteq pinned \union {at[r]}
    BY <1>6 DEF End, TInv, IInv, LadderInv, OnItsRung
  <2>2. QED
    BY <2>1 DEF TInv, IInv, Shape, Flags, PinnedRows, Spared
<1>7. QED
  BY <1>1, <1>2, <1>3, <1>4, <1>5, <1>6, SameSpares
     DEF RunStep, Gate, Launch, StartTurn, TakeMember, Create, Starve, GiveUp,
         PlanReclaim, NothingToReclaim, EndReclaim, members

LEMMA StepSpared ==
  ASSUME TInv, Elsewhere, PinnedRows, [Next]_vars
  PROVE  Spared
<1>1. ASSUME NEW q \in Projects,
             ShutDownIdlePool(q) \/ RetireIdleMembers(q) \/ RetireDormant(q)
      PROVE  Spared
  BY <1>1, PassRetires, RetirementSpares
<1>2. ASSUME NEW c \in Containers, Rest(c) PROVE Spared
  BY <1>2, SameSpares DEF Rest
<1>3. CASE SettingsChange
  BY <1>3, SameSpares DEF SettingsChange
<1>4. CASE UNCHANGED vars
  BY <1>4, SameSpares DEF vars, members
<1>5. QED
  BY <1>1, <1>2, <1>3, <1>4, RunSpares, EvictSpares DEF Next

(* A plan, when it is made.                                                *)
LEMMA PlanReclaimPlans ==
  ASSUME TInv, NEW r \in Runs, PlanReclaim(r)
  PROVE  /\ UNCHANGED <<members, at>>
         /\ \A s \in Runs : s # r => plan'[s] = plan[s]
         /\ \A c \in plan'[r].suspend \union plan'[r].destroy :
               c \in Containers /\ state[c] = "idle" /\ owner[c] # Home[r]
         /\ plan'[r].destroy \intersect pinned = {}
<1>1. PICK chosen \in PlanCrossProjectReclaim(Eligible(r), need[r], Resumable) :
         plan' = [plan EXCEPT ![r] = Plan(Ids(chosen.suspend), Ids(chosen.destroy))]
  BY DEF PlanReclaim
<1>2. need[r] \in Nat /\ Home[r] \in Projects
  BY FleetAssumption DEF TInv, Accounts
<1>3. PICK E, res : E = Eligible(r) /\ res = Resumable
  OBVIOUS
<1>4. IsFiniteSet(E) /\ SizesNatural(E)
  BY <1>2, <1>3, CandidateFacts DEF Eligible, Candidates, TInv
<1>5. /\ chosen.suspend \union chosen.destroy \subseteq E
      /\ \A m \in chosen.destroy : ~m.pinned
  BY <1>1, <1>2, <1>3, <1>4, ReclaimFacts
<1>6. \A m \in E : /\ m.id \in Containers /\ state[m.id] = "idle" /\ owner[m.id] # Home[r]
                   /\ m.pinned = (m.id \in pinned)
  BY <1>3 DEF Eligible, Reclaimable, Member, TInv, Flags
<1>7. plan'[r] = Plan(Ids(chosen.suspend), Ids(chosen.destroy))
      /\ \A s \in Runs : s # r => plan'[s] = plan[s]
  BY <1>1 DEF TInv, Accounts
<1>8. UNCHANGED <<members, at>>
  BY DEF PlanReclaim
<1>9. plan'[r].suspend = Ids(chosen.suspend) /\ plan'[r].destroy = Ids(chosen.destroy)
  BY <1>7 DEF Plan
<1>10. ASSUME NEW c \in plan'[r].suspend \union plan'[r].destroy
       PROVE  c \in Containers /\ state[c] = "idle" /\ owner[c] # Home[r]
  <2>1. PICK m \in chosen.suspend \union chosen.destroy : m.id = c
    BY <1>9 DEF Ids
  <2>2. QED
    BY <2>1, <1>5, <1>6
<1>11. ASSUME NEW c \in plan'[r].destroy PROVE c \notin pinned
  <2>1. PICK m \in chosen.destroy : m.id = c
    BY <1>9 DEF Ids
  <2>2. QED
    BY <2>1, <1>5, <1>6
<1>12. QED
  BY <1>7, <1>8, <1>10, <1>11

(* No plan takes in a pinned container; plans only shrink otherwise.       *)
LEMMA StepPlans ==
  ASSUME TInv, [Next]_vars, NEW s \in Runs
  PROVE  \/ plan'[s].suspend \subseteq plan[s].suspend /\ plan'[s].destroy \subseteq plan[s].destroy
         \/ PlanReclaim(s)
<1>1. ASSUME plan' = plan
      PROVE  plan'[s].suspend \subseteq plan[s].suspend /\ plan'[s].destroy \subseteq plan[s].destroy
  BY <1>1
<1>2. ASSUME NEW r \in Runs, RunStep(r) PROVE plan' = plan \/ PlanReclaim(r) \/ EndReclaim(r)
  BY <1>2 DEF RunStep, Gate, Launch, StartTurn, TakeMember, Create, Recycle, Starve, GiveUp,
     RecordCreate, Ready, ProvisionFails, Claim, End, NothingToReclaim, reclaims
<1>3. ASSUME NEW r \in Runs, EndReclaim(r)
      PROVE  plan'[s].suspend \subseteq plan[s].suspend /\ plan'[s].destroy \subseteq plan[s].destroy
  <2>1. plan'[s] = plan[s] \/ plan'[s] = NoPlan
    BY <1>3 DEF EndReclaim, TInv, Accounts
  <2>2. QED
    BY <2>1 DEF NoPlan, Plan
<1>4. ASSUME NEW r \in Runs, NEW v \in Projects, Evict(r, v)
      PROVE  plan'[s].suspend \subseteq plan[s].suspend /\ plan'[s].destroy \subseteq plan[s].destroy
  <2>1. PICK gone : plan' = [plan EXCEPT ![r] = Plan(@.suspend \ gone, @.destroy \ gone)]
    BY <1>4 DEF Evict
  <2>2. plan'[s] = plan[s] \/ plan'[s] = Plan(plan[s].suspend \ gone, plan[s].destroy \ gone)
    BY <2>1 DEF TInv, Accounts
  <2>3. QED
    BY <2>2 DEF Plan
<1>5. ASSUME NEW r \in Runs, PlanReclaim(r), r # s PROVE plan'[s] = plan[s]
  BY <1>5, PlanReclaimPlans
<1>6. CASE \E r \in Runs : RunStep(r)
  BY <1>1, <1>2, <1>3, <1>5, <1>6
<1>7. CASE \E r \in Runs, v \in Projects : Evict(r, v)
  BY <1>4, <1>7
<1>8. CASE \/ \E q \in Projects : ShutDownIdlePool(q) \/ RetireIdleMembers(q) \/ RetireDormant(q)
           \/ \E c \in Containers : Rest(c)
           \/ SettingsChange \/ UNCHANGED vars
  BY <1>1, <1>8
     DEF ShutDownIdlePool, RetireIdleMembers, RetireDormant, Rest, SettingsChange, reclaims, vars
<1>9. QED
  BY <1>6, <1>7, <1>8 DEF Next

(* Who owns a container changes by its being retired, or created.          *)
LEMMA StepOwners ==
  ASSUME TInv, [Next]_vars, NEW c \in Containers
  PROVE  \/ owner'[c] = owner[c] \/ owner'[c] = None
         \/ \E r \in Runs : RecordCreate(r) /\ at[r] = c /\ pc[r] = "creating"
<1>1. ASSUME NEW S, NEW D, Retired(S, D) PROVE owner'[c] = owner[c] \/ owner'[c] = None
  BY <1>1 DEF Retired
<1>2. ASSUME NEW r \in Runs, RunStep(r)
      PROVE  owner' = owner \/ (\E S, D : Retired(S, D)) \/ RecordCreate(r)
  BY <1>2 DEF RunStep, Gate, Launch, StartTurn, TakeMember, Create, Recycle, Starve, GiveUp, Ready,
     ProvisionFails, Claim, End, PlanReclaim, NothingToReclaim, EndReclaim, members
<1>3. ASSUME NEW r \in Runs, RecordCreate(r), at[r] # c PROVE owner'[c] = owner[c]
  BY <1>3 DEF RecordCreate, TInv, IInv, Shape
<1>4. ASSUME NEW r \in Runs, RecordCreate(r) PROVE pc[r] = "creating"
  BY <1>4 DEF RecordCreate
<1>5. CASE \E r \in Runs : RunStep(r)
  BY <1>1, <1>2, <1>3, <1>4, <1>5
<1>6. CASE \/ \E r \in Runs, v \in Projects : Evict(r, v)
           \/ \E q \in Projects : ShutDownIdlePool(q) \/ RetireIdleMembers(q) \/ RetireDormant(q)
  BY <1>1, <1>6, EvictRetires, PassRetires DEF Retirement
<1>7. CASE \/ \E d \in Containers : Rest(d)
           \/ SettingsChange \/ UNCHANGED vars
  BY <1>7 DEF Rest, SettingsChange, vars, members
<1>8. QED
  BY <1>5, <1>6, <1>7 DEF Next

(* A run comes to create a container only if nobody has planned to take it.*)
LEMMA StepCreates ==
  ASSUME TInv, [Next]_vars, NEW s \in Runs, pc'[s] = "creating"
  PROVE  /\ at'[s] \in Containers
         /\ \/ pc[s] = "creating" /\ at'[s] = at[s]
            \/ Create(s) /\ \A r \in Runs : at'[s] \notin plan[r].suspend \union plan[r].destroy
<1>1. IInv'
  BY StepKeeps DEF TInv
<1>2. at'[s] \in Containers
  BY <1>1 DEF IInv, LadderInv, OnItsRung
<1>3. ASSUME NEW r \in Runs, Create(r)
      PROVE  \/ pc[s] = "creating" /\ at'[s] = at[s]
             \/ Create(s) /\ \A q \in Runs : at'[s] \notin plan[q].suspend \union plan[q].destroy
  BY <1>3 DEF Create, Unused, TInv, IInv, Shape
<1>4. ASSUME NEW r \in Runs, RunStep(r), ~Create(r)
      PROVE  pc[s] = "creating" /\ at'[s] = at[s]
  <2>1. \/ pc' = pc
        \/ \E q \in RunPc \ {"creating"} : pc' = [pc EXCEPT ![r] = q]
    BY <1>4 DEF RunStep, Gate, Launch, StartTurn, TakeMember, Recycle, Starve, GiveUp, Ready,
       RecordCreate, ProvisionFails, Claim, End, PlanReclaim, NothingToReclaim, EndReclaim, claims,
       RunPc
  <2>2. pc[s] = "creating" /\ (s # r \/ pc' = pc)
    BY <2>1 DEF TInv, IInv, Shape
  <2>3. at'[s] = at[s]
    <3>1. at' = at \/ \E c : at' = [at EXCEPT ![r] = c] /\ pc'[r] # "creating"
      BY <1>4 DEF RunStep, Gate, Launch, StartTurn, TakeMember, Recycle, Starve, GiveUp, Ready,
         RecordCreate, ProvisionFails, Claim, End, PlanReclaim, NothingToReclaim, EndReclaim, claims,
         TInv, IInv, Shape
    <3>2. QED
      BY <3>1 DEF TInv, IInv, Shape
  <2>4. QED
    BY <2>2, <2>3
<1>5. ASSUME UNCHANGED claims PROVE pc[s] = "creating" /\ at'[s] = at[s]
  BY <1>5 DEF claims
<1>6. QED
  BY <1>2, <1>3, <1>4, <1>5
     DEF Next, Evict, ShutDownIdlePool, RetireIdleMembers, RetireDormant, Rest, SettingsChange, vars

LEMMA StepElsewhere ==
  ASSUME TInv, Elsewhere, [Next]_vars
  PROVE  Elsewhere'
<1> SUFFICES ASSUME NEW r \in Runs, NEW c \in plan'[r].suspend \union plan'[r].destroy
             PROVE  owner'[c] # Home[r] /\ \A s \in Runs : pc'[s] = "creating" => at'[s] # c
  BY DEF Elsewhere
<1>1. Home[r] \in Projects /\ None \notin Projects
  BY FleetAssumption
<1>2. CASE PlanReclaim(r)
  <2>1. /\ UNCHANGED <<owner, at>> /\ c \in Containers /\ state[c] = "idle" /\ owner[c] # Home[r]
        /\ pc' = [pc EXCEPT ![r] = "reclaiming"]
    BY <1>2, PlanReclaimPlans DEF members, PlanReclaim
  <2>2. \A s \in Runs : pc'[s] = "creating" => pc[s] = "creating"
    BY <2>1 DEF TInv, IInv, Shape
  <2>3. QED
    BY <2>1, <2>2 DEF TInv, IInv, LadderInv, OnItsRung
<1>3. CASE ~PlanReclaim(r)
  <2>1. c \in plan[r].suspend \union plan[r].destroy
    BY <1>3, StepPlans
  <2>2. c \in Containers
    BY <2>1 DEF TInv, Accounts
  <2>3. owner[c] # Home[r] /\ \A s \in Runs : pc[s] = "creating" => at[s] # c
    BY <2>1 DEF Elsewhere
  <2>4. owner'[c] # Home[r]
    BY <1>1, <2>2, <2>3, StepOwners
  <2>5. ASSUME NEW s \in Runs, pc'[s] = "creating" PROVE at'[s] # c
    BY <2>1, <2>3, <2>5, StepCreates
  <2>6. QED
    BY <2>4, <2>5
<1>4. QED
  BY <1>2, <1>3

(* A container that holds unpushed commits is destroyed by nobody but a    *)
(* reclaim that had planned it before they were made, and no plan is made  *)
(* to destroy one, for any projects, runs and containers: not by           *)
(* recycling, the idle passes, the dormant pass, a failed provision or a   *)
(* fresh reclaim (PoolMember.hasUnpushedCommits).  FleetPinned.cfg has a   *)
(* behaviour in which a stale plan does destroy one.                       *)
THEOREM PinnedSafe == Spec => PinnedSpared
<1> DEFINE Inv == TInv /\ Elsewhere /\ PinnedRows
           Keeps == \A c \in pinned :
             /\ state'[c] = "none" => \E r \in Runs : c \in plan[r].destroy /\ owner[c] # Home[r]
             /\ \A r \in Runs : c \in plan'[r].destroy => c \in plan[r].destroy
<1>1. Init => Inv
  <2>1. Init => Elsewhere /\ PinnedRows
    BY DEF Init, Elsewhere, PinnedRows, NoPlan, Plan
  <2>2. QED
    BY <2>1, InitTypes
<1>2. Inv /\ [Next]_vars => Inv'
  BY StepTypes, StepElsewhere, StepSpared DEF Spared
<1>3. Inv /\ [Next]_vars => [Keeps]_vars
  <2> SUFFICES ASSUME Inv, [Next]_vars PROVE Keeps
    OBVIOUS
  <2>1. ASSUME NEW c \in pinned, NEW r \in Runs, c \in plan'[r].destroy
        PROVE  c \in plan[r].destroy
    BY <2>1, StepPlans, PlanReclaimPlans
  <2>2. QED
    BY <2>1, StepSpared DEF Spared
<1>4. QED
  BY <1>1, <1>2, <1>3, PTL DEF Spec, PinnedSpared

==============================================================================
