----------------------------- MODULE SetLemmas -----------------------------
(***************************************************************************)
(* What the proofs need of finite sets: that a set of numbers has a least  *)
(* and a greatest element, that a set of subsets has a least one, and what *)
(* the folds of the community modules come to, with which the counters of  *)
(* a job and the bytes of a log are added up. A fold is given here by      *)
(* functions, never by operators: `pick` says which element of a set comes *)
(* last, and `step` what it makes of what the others came to.              *)
(***************************************************************************)
EXTENDS Integers, FiniteSets, FiniteSetsExt, FiniteSetTheorems, WellFoundedInduction, TLAPS

-----------------------------------------------------------------------------
(* The least and the greatest *)

LEMMA LessIsWellFounded ==
  IsWellFoundedOn({ss \in Nat \X Nat : ss[1] < ss[2]}, Nat)
  BY NatLessThanWellFounded, Zenon DEF OpToRel

\* A nonempty set of naturals has a least element.
LEMMA FirstExists ==
  ASSUME NEW S, S \subseteq Nat, S # {}
  PROVE  \E t \in S : \A u \in S : t <= u
<1> DEFINE R == {ss \in Nat \X Nat : ss[1] < ss[2]}
<1>1. IsWellFoundedOn(R, Nat)
  BY LessIsWellFounded
<1>2. PICK t \in S : \A u \in S : ~ (<<u, t>> \in R)
  <2> HIDE DEF R
  <2> QED BY <1>1, WFMin
<1>3. \A u \in S : ~ (u < t)
  BY <1>2
<1> QED
  BY <1>3

LEMMA MinProperty ==
  ASSUME NEW S, S \subseteq Nat, S # {}
  PROVE  Min(S) \in S /\ \A u \in S : Min(S) <= u
  BY FirstExists, Zenon DEF Min

\* A nonempty finite set of naturals has a greatest element: a least set without one
\* would have one once an element is taken out.
LEMMA MaxProperty ==
  ASSUME NEW S, S \subseteq Nat, S # {}, IsFiniteSet(S)
  PROVE  Max(S) \in S /\ \A u \in S : u <= Max(S)
<1> DEFINE HasMax(T) == \E x \in T : \A y \in T : x >= y
           Bad == {T \in FiniteSubsetsOf(Nat) : T # {} /\ ~HasMax(T)}
<1>1. HasMax(S)
  <2> SUFFICES ASSUME ~HasMax(S) PROVE FALSE
    OBVIOUS
  <2>1. S \in Bad
    BY DEF FiniteSubsetsOf
  <2>2. PICK T \in Bad : \A U \in Bad : ~ (<<U, T>> \in StrictSubsetOrdering(Nat))
    <3>1. IsWellFoundedOn(StrictSubsetOrdering(Nat), FiniteSubsetsOf(Nat))
      BY FS_StrictSubsetOrderingWellFounded, Zenon
    <3>2. Bad \subseteq FiniteSubsetsOf(Nat) /\ Bad # {}
      BY <2>1
    <3> HIDE DEF Bad
    <3> QED
      BY <3>1, <3>2, WFMin
  <2>3. T \subseteq Nat /\ T # {} /\ IsFiniteSet(T) /\ ~HasMax(T)
    BY <2>2 DEF FiniteSubsetsOf
  <2>4. PICK x \in T : TRUE
    BY <2>3
  <2> DEFINE U == T \ {x}
  <2>5. U \subseteq Nat /\ U # T /\ U \subseteq T /\ IsFiniteSet(U)
    BY <2>3, <2>4, FS_RemoveElement
  <2>6. <<U, T>> \in StrictSubsetOrdering(Nat)
    BY <2>3, <2>5 DEF StrictSubsetOrdering
  <2>7. U = {} \/ HasMax(U)
    BY <2>2, <2>5, <2>6 DEF FiniteSubsetsOf
  <2>8. CASE U = {}
    <3>1. T = {x} /\ x \in Nat
      BY <2>3, <2>4, <2>8
    <3> QED
      BY <2>3, <3>1
  <2>9. CASE HasMax(U)
    <3>1. PICK z \in U : \A y \in U : z >= y
      BY <2>9
    <3>2. x \in Nat /\ z \in Nat /\ z \in T /\ \A y \in T : y \in Nat /\ (y = x \/ z >= y)
      BY <2>3, <2>4, <2>5, <3>1
    <3>3. CASE x >= z
      <4>1. \A y \in T : x >= y
        BY <3>2, <3>3
      <4> QED
        BY <2>3, <2>4, <4>1
    <3>4. CASE ~(x >= z)
      <4>1. \A y \in T : z >= y
        BY <3>2, <3>4
      <4> QED
        BY <2>3, <3>2, <4>1
    <3> QED
      BY <3>3, <3>4
  <2> QED
    BY <2>7, <2>8, <2>9
<1>2. Max(S) \in S /\ \A y \in S : Max(S) >= y
  BY <1>1, Zenon DEF Max
<1> QED
  BY <1>2

\* Among sets of subsets of a finite set there is a least one.
LEMMA LeastSubset ==
  ASSUME NEW D, IsFiniteSet(D), NEW Bad, Bad \subseteq SUBSET D, Bad # {}
  PROVE  \E t \in Bad : \A u \in Bad : u \subseteq t => u = t
<1>1. IsWellFoundedOn(StrictSubsetOrdering(D), FiniteSubsetsOf(D))
  BY FS_StrictSubsetOrderingWellFounded, Zenon
<1>2. Bad \subseteq FiniteSubsetsOf(D)
  BY FS_Subset DEF FiniteSubsetsOf
<1>3. PICK t \in Bad : \A u \in Bad : ~ (<<u, t>> \in StrictSubsetOrdering(D))
  BY <1>1, <1>2, WFMin
<1>4. ASSUME NEW u \in Bad, u \subseteq t PROVE u = t
  <2> SUFFICES ASSUME u # t PROVE FALSE
    OBVIOUS
  <2>1. <<u, t>> \in StrictSubsetOrdering(D)
    BY <1>4 DEF StrictSubsetOrdering
  <2> QED
    BY <1>3, <2>1
<1> QED
  BY <1>4

LEMMA IntervalSize ==
  ASSUME NEW n \in Nat
  PROVE  IsFiniteSet(1..n) /\ Cardinality(1..n) = n
<1>1. 1 \in Int /\ n \in Int
  OBVIOUS
<1>2. IsFiniteSet(1..n) /\ Cardinality(1..n) = IF 1 > n THEN 0 ELSE n - 1 + 1
  BY <1>1, FS_Interval, Zenon
<1> QED
  BY <1>2

-----------------------------------------------------------------------------
(* Ranks *)

\* The number of elements of D that come no later than i, by their keys.
IsRank(rank, D, key) == \A i \in D : rank[i] = Cardinality({j \in D : key[j] <= key[i]})

\* Elements with different keys have the ranks from one to how many they are, in the
\* order of their keys.
LEMMA Ranks ==
  ASSUME NEW D, IsFiniteSet(D), NEW key, \A i \in D : key[i] \in Int,
         \A i, j \in D : key[i] = key[j] => i = j,
         NEW rank, IsRank(rank, D, key)
  PROVE  /\ \A i \in D : rank[i] \in 1..Cardinality(D)
         /\ \A i, j \in D : key[i] < key[j] <=> rank[i] < rank[j]
         /\ \A n \in 1..Cardinality(D) : \E i \in D : rank[i] = n
<1> DEFINE upTo(i) == {j \in D : key[j] <= key[i]}
<1>1. ASSUME NEW i \in D
      PROVE  /\ upTo(i) \subseteq D /\ IsFiniteSet(upTo(i))
             /\ rank[i] = Cardinality(upTo(i))
             /\ rank[i] \in 1..Cardinality(D) /\ rank[i] \in Nat
  <2>1. upTo(i) \in SUBSET D /\ i \in upTo(i)
    OBVIOUS
  <2>2. rank[i] = Cardinality(upTo(i))
    BY DEF IsRank
  <2> HIDE DEF upTo
  <2>3. IsFiniteSet(upTo(i)) /\ Cardinality(upTo(i)) <= Cardinality(D)
    BY <2>1, FS_Subset
  <2>4. Cardinality(upTo(i)) # 0
    BY <2>1, <2>3, FS_EmptySet
  <2>5. Cardinality(upTo(i)) \in Nat /\ Cardinality(D) \in Nat
    BY <2>3, FS_CardinalityType
  <2> QED
    BY <2>1, <2>2, <2>3, <2>4, <2>5
<1>2. ASSUME NEW i \in D, NEW j \in D, key[i] < key[j]
      PROVE  rank[i] < rank[j]
  <2>1. upTo(i) \in SUBSET upTo(j) /\ j \in upTo(j) /\ j \notin upTo(i)
    BY <1>2
  <2> HIDE DEF upTo
  <2>2. /\ Cardinality(upTo(i)) <= Cardinality(upTo(j))
        /\ Cardinality(upTo(j)) = Cardinality(upTo(i)) => upTo(j) = upTo(i)
    BY <1>1, <2>1, FS_Subset
  <2>3. Cardinality(upTo(i)) # Cardinality(upTo(j))
    BY <2>1, <2>2
  <2> QED
    BY <1>1, <2>2, <2>3
<1>3. ASSUME NEW i \in D, NEW j \in D
      PROVE  key[i] < key[j] <=> rank[i] < rank[j]
  <2>1. key[i] < key[j] \/ key[i] = key[j] \/ key[j] < key[i]
    OBVIOUS
  <2>2. rank[i] \in Nat /\ rank[j] \in Nat
    BY <1>1
  <2> QED
    BY <1>2, <2>1, <2>2
<1>4. ASSUME NEW n \in 1..Cardinality(D)
      PROVE  \E i \in D : rank[i] = n
  <2> DEFINE f == [i \in D |-> rank[i]]
             T == 1..Cardinality(D)
  <2>1. Cardinality(D) \in Nat
    BY FS_CardinalityType
  <2>2. f \in [D -> T]
    BY <1>1
  <2>3. \A i, j \in D : f[i] = f[j] => i = j
    <3>1. SUFFICES ASSUME NEW i \in D, NEW j \in D, rank[i] = rank[j] PROVE i = j
      OBVIOUS
    <3>2. rank[i] \in Nat /\ rank[j] \in Nat
      BY <1>1
    <3>3. ~(key[i] < key[j]) /\ ~(key[j] < key[i])
      BY <1>2, <3>1, <3>2
    <3> QED
      BY <3>3
  <2>4. f \in Injection(D, T)
    BY <2>2, <2>3 DEF Injection, IsInjective
  <2>5. IsFiniteSet(T) /\ Cardinality(T) = Cardinality(D)
    BY <2>1, FS_Interval
  <2> HIDE DEF f, T
  <2>6. f \in Surjection(D, T)
    BY <2>4, <2>5, FS_Injection
  <2>7. \A t \in T : \E i \in D : f[i] = t
    BY <2>6 DEF Surjection
  <2> QED
    BY <2>7 DEF f, T
<1> QED
  BY <1>1, <1>3, <1>4

-----------------------------------------------------------------------------
(* Folds *)

\* g folds the subsets of D.
IsFold(g, D, base, step, pick) ==
    \A s \in SUBSET D :
        g[s] = IF s = {} THEN base ELSE step[pick[s]][g[s \ {pick[s]}]]

IsPick(pick, D) == \A s \in SUBSET D : s # {} => pick[s] \in s

\* Folds that agree on what the elements come to and on which comes last agree.
LEMMA FoldsAgree ==
  ASSUME NEW D, IsFiniteSet(D), NEW base,
         NEW g, NEW DG, NEW stepG, NEW pickG, D \subseteq DG, IsFold(g, DG, base, stepG, pickG),
         NEW h, NEW DH, NEW stepH, NEW pickH, D \subseteq DH, IsFold(h, DH, base, stepH, pickH),
         IsPick(pickG, D),
         \A x \in D : stepG[x] = stepH[x],
         \A s \in SUBSET D : s # {} => pickG[s] = pickH[s]
  PROVE  \A s \in SUBSET D : g[s] = h[s]
<1> DEFINE Bad == {s \in SUBSET D : g[s] # h[s]}
<1> SUFFICES ASSUME Bad # {} PROVE FALSE
  OBVIOUS
<1>1. PICK t \in Bad : \A u \in Bad : u \subseteq t => u = t
  <2>1. Bad \subseteq SUBSET D
    OBVIOUS
  <2> HIDE DEF Bad
  <2> QED
    BY <2>1, LeastSubset
<1>2. t \in SUBSET D /\ t \in SUBSET DG /\ t \in SUBSET DH /\ g[t] # h[t]
  OBVIOUS
<1>3. CASE t = {}
  BY <1>2, <1>3 DEF IsFold
<1>4. CASE t # {}
  <2> DEFINE x == pickG[t]
             u == t \ {x}
  <2>1. x \in t /\ pickH[t] = x
    BY <1>2, <1>4 DEF IsPick
  <2>2. u \in SUBSET D /\ u \subseteq t /\ u # t
    BY <1>2, <2>1
  <2>3. g[u] = h[u]
    BY <1>1, <2>2
  <2>4. g[t] = stepG[x][g[u]]
    BY <1>2, <1>4, Zenon DEF IsFold
  <2>5. h[t] = stepH[x][h[u]]
    BY <1>2, <1>4, <2>1, Zenon DEF IsFold
  <2>6. stepG[x] = stepH[x]
    BY <1>2, <2>1
  <2> HIDE DEF u, x
  <2> QED
    BY <1>2, <2>3, <2>4, <2>5, <2>6, Zenon
<1> QED
  BY <1>3, <1>4

\* There is a fold.
LEMMA FoldExists ==
  ASSUME NEW D, IsFiniteSet(D), NEW V, NEW base \in V, NEW step, NEW pick,
         \A x \in D, v \in V : step[x][v] \in V, IsPick(pick, D)
  PROVE  \E g \in [SUBSET D -> V] : IsFold(g, D, base, step, pick)
<1> DEFINE Has(T) == \E g \in [SUBSET T -> V] : IsFold(g, T, base, step, pick)
           Bad == {T \in SUBSET D : ~Has(T)}
<1> SUFFICES ASSUME Bad # {} PROVE FALSE
  OBVIOUS
<1>1. PICK T \in Bad : \A U \in Bad : U \subseteq T => U = T
  <2>1. Bad \subseteq SUBSET D
    OBVIOUS
  <2> HIDE DEF Bad
  <2> QED
    BY <2>1, LeastSubset
<1>2. T \in SUBSET D /\ ~Has(T) /\ \A U \in SUBSET T : U # T => Has(U)
  BY <1>1
<1>3. CASE T = {}
  <2> DEFINE g == [s \in SUBSET T |-> base]
  <2>1. g \in [SUBSET T -> V]
    OBVIOUS
  <2>2. IsFold(g, T, base, step, pick)
    BY <1>3 DEF IsFold
  <2> QED
    BY <1>2, <2>1, <2>2
<1>4. CASE T # {}
  <2> DEFINE G(U) == CHOOSE g \in [SUBSET U -> V] : IsFold(g, U, base, step, pick)
             x == pick[T]
             g == [s \in SUBSET T |-> IF s = T THEN step[x][G(T \ {x})[T \ {x}]] ELSE G(s)[s]]
  <2>1. \A U \in SUBSET T : U # T =>
            G(U) \in [SUBSET U -> V] /\ IsFold(G(U), U, base, step, pick)
    BY <1>2, Zenon
  <2>2. x \in T /\ x \in D /\ T \ {x} \in SUBSET T /\ T \ {x} # T
    BY <1>2, <1>4 DEF IsPick
  <2> HIDE DEF G
  <2>3. g \in [SUBSET T -> V]
    <3>1. ASSUME NEW s \in SUBSET T PROVE g[s] \in V
      <4>1. CASE s = T
        <5> DEFINE u == T \ {x}
        <5>1. G(u)[u] \in V
          <6>1. G(u) \in [SUBSET u -> V] /\ u \in SUBSET u
            BY <2>1, <2>2
          <6> HIDE DEF u
          <6> QED
            BY <6>1
        <5>2. g[s] = step[x][G(T \ {x})[T \ {x}]]
          BY <4>1
        <5> HIDE DEF g, x
        <5> QED
          BY <2>2, <5>1, <5>2
      <4>2. CASE s # T
        <5>1. G(s)[s] \in V
          BY <2>1, <4>2
        <5> QED
          BY <4>2, <5>1
      <4> QED
        BY <4>1, <4>2
    <3> QED
      BY <3>1
  <2>4. ASSUME NEW s \in SUBSET T
        PROVE  g[s] = IF s = {} THEN base ELSE step[pick[s]][g[s \ {pick[s]}]]
    <3>1. CASE s = {}
      <4>1. g[s] = G(s)[s]
        BY <1>4, <3>1
      <4>2. IsFold(G(s), s, base, step, pick)
        BY <1>4, <2>1, <3>1
      <4>3. G(s)[s] = base
        BY <3>1, <4>2 DEF IsFold
      <4> QED
        BY <3>1, <4>1, <4>3
    <3>2. CASE s # {}
      <4> DEFINE u == s \ {pick[s]}
      <4>1. pick[s] \in s /\ u \in SUBSET T /\ u # T /\ u \subseteq s /\ u # s
        BY <1>2, <3>2 DEF IsPick
      <4>2. g[u] = G(u)[u]
        BY <4>1
      <4>3. CASE s = T
        <5>1. g[s] = step[x][G(T \ {x})[T \ {x}]]
          BY <4>3
        <5> QED
          BY <3>2, <4>2, <4>3, <5>1
      <4>4. CASE s # T
        <5>1. g[s] = G(s)[s]
          BY <4>4
        <5>2. IsFold(G(s), s, base, step, pick) /\ IsFold(G(u), u, base, step, pick)
          BY <2>1, <4>1, <4>4
        <5>3. G(s)[s] = step[pick[s]][G(s)[u]]
          BY <3>2, <5>2 DEF IsFold
        <5>4. G(s)[u] = G(u)[u]
          <6>1. IsFiniteSet(u) /\ IsPick(pick, u) /\ u \subseteq s /\ u \subseteq u
            BY <1>2, <4>1, FS_Subset DEF IsPick
          <6>2. u \in SUBSET u
            OBVIOUS
          <6> HIDE DEF u
          <6>3. \A w \in SUBSET u : G(s)[w] = G(u)[w]
            BY <5>2, <6>1, FoldsAgree
          <6> QED
            BY <6>2, <6>3
        <5> HIDE DEF g
        <5> QED
          BY <3>2, <4>2, <5>1, <5>3, <5>4
      <4> QED
        BY <4>3, <4>4
    <3> QED
      BY <3>1, <3>2
  <2>5. IsFold(g, T, base, step, pick)
    <3> HIDE DEF g
    <3> QED
      BY <2>4, Zenon DEF IsFold
  <2> HIDE DEF g
  <2> QED
    BY <1>2, <2>3, <2>5
<1> QED
  BY <1>3, <1>4

\* The elements of 1..n from the first to the last: the greatest of a set comes last.
Greatest(n) == [s \in SUBSET (1..n) |-> Max(s)]

LEMMA GreatestIsPick ==
  ASSUME NEW n \in Nat
  PROVE  /\ IsFiniteSet(1..n)
         /\ IsPick(Greatest(n), 1..n)
         /\ \A s \in SUBSET (1..n) : Greatest(n)[s] = Max(s)
<1>1. IsFiniteSet(1..n)
  BY FS_Interval
<1>2. ASSUME NEW s \in SUBSET (1..n), s # {} PROVE Greatest(n)[s] \in s
  <2>1. s \subseteq Nat
    OBVIOUS
  <2>0. IsFiniteSet(s)
    BY <1>1, FS_Subset, Zenon
  <2>2. Max(s) \in s
    BY <1>2, <2>0, <2>1, MaxProperty
  <2> QED
    BY <2>2 DEF Greatest
<1> QED
  BY <1>1, <1>2 DEF IsPick, Greatest

\* g folds the sequences of what is in 1..n.
FromLeft(g, n, base, step) == IsFold(g, 1..n, base, step, Greatest(n))

\* What a sequence is folded to, from the left, once an element is added to its end.
LEMMA FoldOneMore ==
  ASSUME NEW n \in Nat, NEW m, m = n + 1, NEW base,
         NEW stepG, NEW g, FromLeft(g, m, base, stepG),
         NEW stepH, NEW h, FromLeft(h, n, base, stepH),
         \A i \in 1..n : stepG[i] = stepH[i]
  PROVE  g[1..m] = stepG[m][h[1..n]]
<1> USE DEF FromLeft
<1>0. IsFiniteSet(1..n) /\ IsFiniteSet(1..(n + 1))
  <2>1. n + 1 \in Nat
    OBVIOUS
  <2> QED
    BY <2>1, GreatestIsPick
<1>1. /\ 1..n \subseteq 1..(n + 1) /\ 1..n \subseteq 1..n
      /\ 1..n \in SUBSET (1..n) /\ 1..(n + 1) \in SUBSET (1..(n + 1))
      /\ 1..(n + 1) # {}
  OBVIOUS
<1>2. Max(1..(n + 1)) = n + 1
  <2>1. 1..(n + 1) \subseteq Nat /\ 1..(n + 1) # {}
    OBVIOUS
  <2>2. Max(1..(n + 1)) \in 1..(n + 1) /\ \A u \in 1..(n + 1) : u <= Max(1..(n + 1))
    BY <1>0, <2>1, MaxProperty
  <2> QED
    BY <2>2
<1>3. (1..(n + 1)) \ {n + 1} = 1..n
  OBVIOUS
<1>4. g[1..(n + 1)] = stepG[n + 1][g[1..n]]
  <2>1. Greatest(n + 1)[1..(n + 1)] = n + 1
    BY <1>1, <1>2, GreatestIsPick
  <2>2. g[1..(n + 1)]
          = IF 1..(n + 1) = {} THEN base
            ELSE stepG[Greatest(n + 1)[1..(n + 1)]][g[(1..(n + 1)) \ {Greatest(n + 1)[1..(n + 1)]}]]
    BY <1>1, Zenon DEF IsFold
  <2> QED
    BY <1>1, <1>3, <2>1, <2>2, Zenon
<1>5. /\ IsPick(Greatest(n + 1), 1..n)
      /\ \A s \in SUBSET (1..n) : s # {} => Greatest(n + 1)[s] = Greatest(n)[s]
  <2>1. SUBSET (1..n) \subseteq SUBSET (1..(n + 1))
    BY <1>1
  <2>2. /\ IsPick(Greatest(n + 1), 1..(n + 1))
        /\ \A s \in SUBSET (1..(n + 1)) : Greatest(n + 1)[s] = Max(s)
    BY GreatestIsPick
  <2>3. \A s \in SUBSET (1..n) : Greatest(n)[s] = Max(s)
    BY GreatestIsPick
  <2> QED
    BY <2>1, <2>2, <2>3, Zenon DEF IsPick
<1>6. \A s \in SUBSET (1..n) : g[s] = h[s]
  <2> DEFINE D == 1..n
             DG == 1..(n + 1)
             pickG == Greatest(n + 1)
             pickH == Greatest(n)
  <2>1. /\ IsFiniteSet(D) /\ D \subseteq DG /\ D \subseteq D /\ IsPick(pickG, D)
        /\ IsFold(g, DG, base, stepG, pickG) /\ IsFold(h, D, base, stepH, pickH)
        /\ \A i \in D : stepG[i] = stepH[i]
        /\ \A s \in SUBSET D : s # {} => pickG[s] = pickH[s]
    BY <1>0, <1>1, <1>5, Zenon
  <2> HIDE DEF D, DG, pickG, pickH
  <2>2. \A s \in SUBSET D : g[s] = h[s]
    BY <2>1, FoldsAgree
  <2> QED
    BY <2>2, Zenon DEF D
<1> QED
  BY <1>1, <1>4, <1>6, Zenon

\* What a sequence is folded to, from the left, goes from one element to the next.
LEMMA FoldByStep ==
  ASSUME NEW n \in Nat, NEW base, NEW step, NEW g, FromLeft(g, n, base, step)
  PROVE  /\ g[{}] = base
         /\ \A m \in 1..n : g[1..m] = step[m][g[1..(m - 1)]]
<1>1. IsFold(g, 1..n, base, step, Greatest(n))
  BY DEF FromLeft
<1>2. g[{}] = base
  BY <1>1, Zenon DEF IsFold
<1>3. ASSUME NEW m \in 1..n PROVE g[1..m] = step[m][g[1..(m - 1)]]
  <2>1. /\ m \in Nat /\ 1..m \in SUBSET (1..n) /\ m \in 1..m /\ \A i \in 1..m : i <= m
        /\ 1..m \subseteq Nat /\ 1..m # {} /\ (1..m) \ {m} = 1..(m - 1)
    OBVIOUS
  <2>2. Greatest(n)[1..m] = m
    <3>1. Greatest(n)[1..m] = Max(1..m)
      BY <2>1, GreatestIsPick
    <3>2. IsFiniteSet(1..m)
      BY <2>1, IntervalSize
    <3>3. Max(1..m) \in 1..m /\ \A u \in 1..m : u <= Max(1..m)
      BY <2>1, <3>2, MaxProperty
    <3> QED
      BY <2>1, <3>1, <3>3
  <2>3. g[1..m] = IF 1..m = {} THEN base
                  ELSE step[Greatest(n)[1..m]][g[(1..m) \ {Greatest(n)[1..m]}]]
    BY <1>1, <2>1, Zenon DEF IsFold
  <2> QED
    BY <2>1, <2>2, <2>3, Zenon
<1> QED
  BY <1>2, <1>3

-----------------------------------------------------------------------------
(* Sums *)

\* The equation by which MapThenSumSet adds up what the elements of a set come to.
SumEquation(g, D, w) ==
    g = [s \in SUBSET D |->
            IF s = {} THEN 0
            ELSE w[CHOOSE x \in s : TRUE] + g[s \ {CHOOSE x \in s : TRUE}]]

LEMMA SumExists ==
  ASSUME NEW D, IsFiniteSet(D), NEW w, \A x \in D : w[x] \in Nat
  PROVE  \E g : SumEquation(g, D, w)
<1> DEFINE step == [x \in D |-> [n \in Nat |-> w[x] + n]]
           pick == [s \in SUBSET D |-> CHOOSE x \in s : TRUE]
<1>1. \A x \in D, n \in Nat : step[x][n] \in Nat /\ step[x][n] = w[x] + n
  OBVIOUS
<1>2. IsPick(pick, D)
  BY DEF IsPick
<1>3. \A s \in SUBSET D : pick[s] = CHOOSE x \in s : TRUE
  OBVIOUS
<1> HIDE DEF step, pick
<1>4. PICK g \in [SUBSET D -> Nat] : IsFold(g, D, 0, step, pick)
  BY <1>1, <1>2, FoldExists
<1>5. ASSUME NEW s \in SUBSET D
      PROVE  g[s] = IF s = {} THEN 0
                    ELSE w[CHOOSE x \in s : TRUE] + g[s \ {CHOOSE x \in s : TRUE}]
  <2>1. CASE s = {}
    BY <1>4, <2>1 DEF IsFold
  <2>2. CASE s # {}
    <3> DEFINE x == pick[s]
    <3>1. x \in D /\ s \ {x} \in SUBSET D
      BY <1>2, <2>2 DEF IsPick
    <3>2. g[s] = step[x][g[s \ {x}]] /\ g[s \ {x}] \in Nat
      BY <1>4, <2>2, <3>1 DEF IsFold
    <3>3. g[s] = w[x] + g[s \ {x}]
      BY <1>1, <3>1, <3>2
    <3> QED
      BY <1>3, <2>2, <3>3
  <2> QED
    BY <2>1, <2>2
<1>6. g = [s \in SUBSET D |->
            IF s = {} THEN 0
            ELSE w[CHOOSE x \in s : TRUE] + g[s \ {CHOOSE x \in s : TRUE}]]
  BY <1>4, <1>5
<1> QED
  BY <1>6, Zenon DEF SumEquation

\* A sum of naturals is one.
LEMMA SumTyped ==
  ASSUME NEW D, IsFiniteSet(D), NEW w, \A x \in D : w[x] \in Nat,
         NEW g, SumEquation(g, D, w)
  PROVE  \A s \in SUBSET D : g[s] \in Nat
<1> DEFINE Bad == {s \in SUBSET D : g[s] \notin Nat}
<1> SUFFICES ASSUME Bad # {} PROVE FALSE
  OBVIOUS
<1>1. PICK t \in Bad : \A u \in Bad : u \subseteq t => u = t
  <2>1. Bad \subseteq SUBSET D
    OBVIOUS
  <2> HIDE DEF Bad
  <2> QED
    BY <2>1, LeastSubset
<1> DEFINE x == CHOOSE y \in t : TRUE
<1>2. g[t] = IF t = {} THEN 0 ELSE w[x] + g[t \ {x}]
  BY DEF SumEquation
<1>3. t # {} /\ x \in t
  BY <1>2
<1>4. w[x] \in Nat /\ g[t \ {x}] \in Nat
  BY <1>1, <1>3
<1> HIDE DEF x
<1> QED
  BY <1>2, <1>3, <1>4

\* Nor is it less than what one element comes to.
LEMMA SumAtLeast ==
  ASSUME NEW D, IsFiniteSet(D), NEW w, \A x \in D : w[x] \in Nat,
         NEW g, SumEquation(g, D, w), NEW i \in D
  PROVE  g[D] >= w[i]
<1> DEFINE Bad == {s \in SUBSET D : i \in s /\ ~(g[s] >= w[i])}
<1> SUFFICES ASSUME Bad # {} PROVE FALSE
  OBVIOUS
<1>1. PICK t \in Bad : \A u \in Bad : u \subseteq t => u = t
  <2>1. Bad \subseteq SUBSET D
    OBVIOUS
  <2> HIDE DEF Bad
  <2> QED
    BY <2>1, LeastSubset
<1> DEFINE x == CHOOSE y \in t : TRUE
           u == t \ {x}
<1>2. t \in SUBSET D /\ i \in t /\ ~(g[t] >= w[i]) /\ x \in t
  OBVIOUS
<1>3. g[t] = w[x] + g[u]
  BY <1>2 DEF SumEquation
<1>4. g[u] \in Nat /\ w[x] \in Nat /\ w[i] \in Nat /\ u \in SUBSET D /\ u \subseteq t /\ u # t
  <2>1. u \in SUBSET D
    BY <1>2
  <2>2. g[u] \in Nat
    BY <2>1, SumTyped
  <2> QED
    BY <1>2, <2>1, <2>2
<1>5. i \in u \/ i = x
  BY <1>2
<1> HIDE DEF x, u
<1>6. CASE i = x
  BY <1>2, <1>3, <1>4, <1>6
<1>7. CASE i \in u
  <2>1. u \notin Bad
    BY <1>1, <1>4
  <2>2. g[u] >= w[i]
    BY <1>4, <1>7, <2>1
  <2> QED
    BY <1>2, <1>3, <1>4, <2>2
<1> QED
  BY <1>5, <1>6, <1>7

\* The sizes of sets that have no element in common add up to that of their union.
LEMMA SizesAddUp ==
  ASSUME NEW D, IsFiniteSet(D), NEW part, \A x \in D : IsFiniteSet(part[x]),
         \A x, y \in D : x # y => part[x] \cap part[y] = {},
         NEW w, \A x \in D : w[x] = Cardinality(part[x]),
         NEW g, SumEquation(g, D, w)
  PROVE  g[D] = Cardinality(UNION {part[x] : x \in D})
<1> DEFINE U(s) == UNION {part[x] : x \in s}
           Bad == {s \in SUBSET D : ~(IsFiniteSet(U(s)) /\ g[s] = Cardinality(U(s)))}
<1> SUFFICES ASSUME Bad # {} PROVE FALSE
  <2>1. D \in SUBSET D
    OBVIOUS
  <2> QED
    BY <2>1
<1>1. PICK t \in Bad : \A u \in Bad : u \subseteq t => u = t
  <2>1. Bad \subseteq SUBSET D
    OBVIOUS
  <2> HIDE DEF Bad
  <2> QED
    BY <2>1, LeastSubset
<1>2. t \in SUBSET D /\ ~(IsFiniteSet(U(t)) /\ g[t] = Cardinality(U(t)))
  OBVIOUS
<1>3. ASSUME NEW s \in SUBSET t, s # t
      PROVE  IsFiniteSet(U(s)) /\ g[s] = Cardinality(U(s))
  BY <1>1, <1>3
<1> DEFINE x == CHOOSE y \in t : TRUE
<1>4. g[t] = IF t = {} THEN 0 ELSE w[x] + g[t \ {x}]
  BY DEF SumEquation
<1>5. CASE t = {}
  <2>1. U(t) = {}
    BY <1>5
  <2>2. IsFiniteSet({}) /\ Cardinality({}) = 0
    BY FS_EmptySet
  <2> HIDE DEF U
  <2> QED
    BY <1>2, <1>4, <1>5, <2>1, <2>2
<1>6. CASE t # {}
  <2>1. x \in t /\ x \in D /\ t \ {x} \in SUBSET t /\ t \ {x} # t
    BY <1>2, <1>6
  <2> HIDE DEF x
  <2>2. IsFiniteSet(U(t \ {x})) /\ g[t \ {x}] = Cardinality(U(t \ {x}))
    <3> HIDE DEF U
    <3> QED
      BY <1>3, <2>1
  <2>3. IsFiniteSet(part[x]) /\ w[x] = Cardinality(part[x])
    BY <2>1
  <2>4. U(t) = part[x] \cup U(t \ {x})
    BY <2>1
  <2>5. part[x] \cap U(t \ {x}) = {}
    BY <1>2, <2>1
  <2> HIDE DEF U
  <2>6. /\ IsFiniteSet(part[x] \cup U(t \ {x}))
        /\ Cardinality(part[x] \cup U(t \ {x}))
            = Cardinality(part[x]) + Cardinality(U(t \ {x})) - Cardinality(part[x] \cap U(t \ {x}))
    BY <2>2, <2>3, FS_Union
  <2>7. Cardinality(part[x]) \in Nat /\ Cardinality(U(t \ {x})) \in Nat /\ Cardinality({}) = 0
    BY <2>2, <2>3, FS_CardinalityType, FS_EmptySet
  <2>8. Cardinality(part[x] \cup U(t \ {x})) = Cardinality(part[x]) + Cardinality(U(t \ {x}))
    <3>1. Cardinality(part[x] \cap U(t \ {x})) = 0
      BY <2>5, <2>7, Zenon
    <3> QED
      BY <2>6, <2>7, <3>1
  <2> QED
    BY <1>2, <1>4, <1>6, <2>2, <2>3, <2>4, <2>6, <2>8, Zenon
<1> QED
  BY <1>5, <1>6

\* g adds up naturals.
IsSum(g, D, w) ==
    /\ IsFiniteSet(D)
    /\ \A x \in D : w[x] \in Nat
    /\ SumEquation(g, D, w)

\* Part of what f comes to, num of den, is more than what p comes to.
Less(p, f, num, den) == p * den < num * f

\* Of two sums one is the smaller part if it is with every element, and is not if it is
\* with none.
LEMMA SumsCompare ==
  ASSUME NEW D, NEW p, NEW gp, IsSum(gp, D, p), NEW f, NEW gf, IsSum(gf, D, f),
         NEW num \in Nat, NEW den \in Nat
  PROVE  /\ (\A x \in D : Less(p[x], f[x], num, den)) /\ D # {} => Less(gp[D], gf[D], num, den)
         /\ (\A x \in D : ~Less(p[x], f[x], num, den)) => ~Less(gp[D], gf[D], num, den)
<1> DEFINE Any(s) == CHOOSE x \in s : TRUE
           Lower(a, b) == Less(a, b, num, den)
           BadLess == {s \in SUBSET D : s # {} /\ ~Lower(gp[s], gf[s])}
           BadMore == {s \in SUBSET D : Lower(gp[s], gf[s])}
<1>0. /\ IsFiniteSet(D) /\ SumEquation(gp, D, p) /\ SumEquation(gf, D, f)
      /\ \A x \in D : p[x] \in Nat /\ f[x] \in Nat
  BY DEF IsSum
<1>1. ASSUME NEW s \in SUBSET D
      PROVE  /\ gp[s] \in Nat /\ gf[s] \in Nat
             /\ s = {} => gp[s] = 0 /\ gf[s] = 0
             /\ s # {} => /\ Any(s) \in s /\ s \ {Any(s)} \in SUBSET D
                          /\ gp[s] = p[Any(s)] + gp[s \ {Any(s)}]
                          /\ gf[s] = f[Any(s)] + gf[s \ {Any(s)}]
  <2>1. gp[s] \in Nat /\ gf[s] \in Nat
    BY <1>0, SumTyped
  <2>2. gp[s] = IF s = {} THEN 0 ELSE p[Any(s)] + gp[s \ {Any(s)}]
    BY <1>0 DEF SumEquation
  <2>3. gf[s] = IF s = {} THEN 0 ELSE f[Any(s)] + gf[s \ {Any(s)}]
    BY <1>0 DEF SumEquation
  <2>4. s # {} => Any(s) \in s
    OBVIOUS
  <2> HIDE DEF Any
  <2> QED
    BY <2>1, <2>2, <2>3, <2>4
<1>2. \A a, b, c, d \in Nat :
            /\ Lower(a, b) /\ Lower(c, d) => Lower(a + c, b + d)
            /\ ~Lower(a, b) /\ ~Lower(c, d) => ~Lower(a + c, b + d)
  <2>1. \A a, b \in Nat : a * den \in Nat /\ num * b \in Nat
    OBVIOUS
  <2>2. \A a, b \in Nat : (a + b) * den = a * den + b * den /\ num * (a + b) = num * a + num * b
    OBVIOUS
  <2>3. ASSUME NEW a \in Nat, NEW b \in Nat, NEW c \in Nat, NEW d \in Nat
        PROVE  /\ Lower(a, b) /\ Lower(c, d) => Lower(a + c, b + d)
               /\ ~Lower(a, b) /\ ~Lower(c, d) => ~Lower(a + c, b + d)
    <3> DEFINE A == a * den
               B == num * b
               C == c * den
               E == num * d
    <3>1. A \in Nat /\ B \in Nat /\ C \in Nat /\ E \in Nat
      BY <2>1
    <3>2. (a + c) * den = A + C /\ num * (b + d) = B + E
      BY <2>2
    <3> HIDE DEF A, B, C, E
    <3>3. /\ A < B /\ C < E => A + C < B + E
          /\ ~(A < B) /\ ~(C < E) => ~(A + C < B + E)
      BY <3>1
    <3> QED
      BY <3>2, <3>3, Zenon DEF A, B, C, E, Less
  <2> QED
    BY <2>3
<1>3. Lower(0, 0) = FALSE
  <2>1. 0 * den = 0 /\ num * 0 = 0
    OBVIOUS
  <2> QED
    BY <2>1 DEF Less
<1>4. ASSUME \A x \in D : Lower(p[x], f[x]), BadLess # {}
      PROVE  FALSE
  <2>1. PICK t \in BadLess : \A u \in BadLess : u \subseteq t => u = t
    <3>1. BadLess \subseteq SUBSET D
      OBVIOUS
    <3> HIDE DEF BadLess
    <3> QED
      BY <1>0, <1>4, <3>1, LeastSubset
  <2> DEFINE u == t \ {Any(t)}
  <2>2. t \in SUBSET D /\ t # {} /\ ~Lower(gp[t], gf[t])
    OBVIOUS
  <2> HIDE DEF Lower
  <2>3. /\ Any(t) \in t /\ u \in SUBSET D /\ u \subseteq t /\ u # t
        /\ gp[t] = p[Any(t)] + gp[u] /\ gf[t] = f[Any(t)] + gf[u]
        /\ gp[u] \in Nat /\ gf[u] \in Nat /\ p[Any(t)] \in Nat /\ f[Any(t)] \in Nat
    BY <1>0, <1>1, <2>2
  <2>4. Lower(p[Any(t)], f[Any(t)])
    BY <1>4, <2>2, <2>3
  <2>5. CASE u = {}
    <3>1. gp[t] = p[Any(t)] /\ gf[t] = f[Any(t)]
      <4>1. gp[u] = 0 /\ gf[u] = 0
        BY <1>1, <2>3, <2>5
      <4> HIDE DEF u, Any
      <4> QED
        BY <2>3, <4>1
    <3> QED
      BY <2>2, <2>4, <3>1
  <2>6. CASE u # {}
    <3>1. Lower(gp[u], gf[u])
      BY <2>1, <2>3, <2>6
    <3> HIDE DEF u, Any
    <3> QED
      BY <1>2, <2>2, <2>3, <2>4, <3>1
  <2> QED
    BY <2>5, <2>6
<1>5. ASSUME \A x \in D : ~Lower(p[x], f[x]), BadMore # {}
      PROVE  FALSE
  <2>1. PICK t \in BadMore : \A u \in BadMore : u \subseteq t => u = t
    <3>1. BadMore \subseteq SUBSET D
      OBVIOUS
    <3> HIDE DEF BadMore
    <3> QED
      BY <1>0, <1>5, <3>1, LeastSubset
  <2> DEFINE u == t \ {Any(t)}
  <2>2. t \in SUBSET D /\ Lower(gp[t], gf[t])
    OBVIOUS
  <2>3. t # {}
    BY <1>1, <1>3, <2>2
  <2> HIDE DEF Lower
  <2>4. /\ Any(t) \in t /\ u \in SUBSET D /\ u \subseteq t /\ u # t
        /\ gp[t] = p[Any(t)] + gp[u] /\ gf[t] = f[Any(t)] + gf[u]
        /\ gp[u] \in Nat /\ gf[u] \in Nat /\ p[Any(t)] \in Nat /\ f[Any(t)] \in Nat
    BY <1>0, <1>1, <2>2, <2>3
  <2>5. ~Lower(p[Any(t)], f[Any(t)])
    BY <1>5, <2>2, <2>4
  <2>6. ~Lower(gp[u], gf[u])
    BY <2>1, <2>4
  <2> HIDE DEF u, Any
  <2> QED
    BY <1>2, <2>2, <2>4, <2>5, <2>6
<1>6. D \in SUBSET D
  OBVIOUS
<1> HIDE DEF Lower
<1>7. (\A x \in D : Lower(p[x], f[x])) /\ D # {} => Lower(gp[D], gf[D])
  BY <1>4, <1>6
<1>8. (\A x \in D : ~Lower(p[x], f[x])) => ~Lower(gp[D], gf[D])
  BY <1>5, <1>6
<1> QED
  BY <1>7, <1>8, Zenon DEF Lower

-----------------------------------------------------------------------------
(* Images *)

LEMMA ImageIsFinite ==
  ASSUME NEW K, IsFiniteSet(K), NEW f
  PROVE  IsFiniteSet({f[k] : k \in K})
<1> DEFINE M == {f[k] : k \in K}
<1>1. PICK g : g = [k \in K |-> f[k]]
  OBVIOUS
<1>2. g \in Surjection(K, M)
  BY <1>1 DEF Surjection
<1> HIDE DEF M
<1>3. IsFiniteSet(M)
  BY <1>2, FS_Surjection
<1> QED
  BY <1>3 DEF M

=============================================================================
