---------------------------- MODULE DataLemmas ----------------------------
(***************************************************************************)
(* What the proofs need to know of data: induction over finite sets and    *)
(* numbers, as the existence of a least counterexample; sums; places, of   *)
(* numbers and in any order; recursive functions; sequences.               *)
(***************************************************************************)
EXTENDS Integers, FiniteSets, FiniteSetsExt, SequencesExt, Listings, FiniteSetTheorems,
        WellFoundedInduction, TLAPS

(***************************************************************************)
(* Least elements.                                                         *)
(***************************************************************************)
\* A set of subsets of a finite set has a least one: what is shown of a set from its
\* strict subsets holds of every finite set.  This is the induction that the sums need.
LEMMA FiniteLeast ==
  ASSUME NEW S, IsFiniteSet(S), NEW P, P \subseteq SUBSET S, P # {}
  PROVE  \E U \in P : \A V \in P : V \subseteq U => V = U
<1>1. IsWellFoundedOn(StrictSubsetOrdering(S), FiniteSubsetsOf(S))
  BY FS_StrictSubsetOrderingWellFounded
<1>2. P \subseteq FiniteSubsetsOf(S) BY FS_FiniteSubsetsOfFinite
<1>3. PICK U \in P : \A V \in P : ~ (<<V, U>> \in StrictSubsetOrdering(S)) BY <1>1, <1>2, WFMin
<1>4. ASSUME NEW V \in P, V \subseteq U, V # U PROVE FALSE
  BY <1>3, <1>4 DEF StrictSubsetOrdering
<1> QED BY <1>4

\* A set of natural numbers has its least one.
LEMMA LeastNumber ==
  ASSUME NEW S \in SUBSET Nat, S # {}
  PROVE  \E m \in S : \A n \in S : m <= n
<1>1. IsWellFoundedOn(OpToRel(<, Nat), Nat) BY NatLessThanWellFounded
<1>2. PICK m \in S : \A n \in S : ~ (<<n, m>> \in OpToRel(<, Nat)) BY <1>1, WFMin
<1>3. \A n \in S : ~ (n < m) BY <1>2 DEF OpToRel
<1> QED BY <1>3

(***************************************************************************)
(* Sums over finite sets.                                                  *)
(***************************************************************************)
\* The element a fold takes next, and the recursive function it is made of.
Pick(s) == CHOOSE x \in s : TRUE
IsIter(g, f, S) ==
  g = [s \in SUBSET S |-> IF s = {} THEN 0 ELSE f[Pick(s)] + g[s \ {Pick(s)}]]

\* The definition of the sum, which the community modules fold with a recursive function.
LEMMA SumIsIter == ASSUME NEW f, NEW S
  PROVE SumFunctionOnSet(f, S) = (CHOOSE g : IsIter(g, f, S))[S]
  BY DEF SumFunctionOnSet, FoldFunctionOnSet, MapThenFoldSet, IsIter, Pick

\* The element a fold takes next is one of the set.
LEMMA PickIsIn == ASSUME NEW s, s # {} PROVE Pick(s) \in s
  BY DEF Pick

\* Two such functions agree wherever both are defined.
LEMMA IterUnique ==
  ASSUME NEW f, NEW A, NEW B, NEW g, NEW h, IsIter(g, f, A), IsIter(h, f, B),
         NEW S, IsFiniteSet(S), S \subseteq A, S \subseteq B
  PROVE  g[S] = h[S]
<1> DEFINE P == {s \in SUBSET S : g[s] # h[s]}
<1> SUFFICES ASSUME P # {} PROVE FALSE OBVIOUS
<1>1. PICK U \in P : \A V \in P : V \subseteq U => V = U
  <2>1. P \subseteq SUBSET S OBVIOUS
  <2> HIDE DEF P
  <2> QED BY <2>1, FiniteLeast
<1>2. U # {} BY <1>1 DEF IsIter
<1> DEFINE W == U \ {Pick(U)}
<1>3. W \subseteq U /\ W # U /\ W \in SUBSET S BY <1>2, PickIsIn
<1>4. g[W] = h[W] BY <1>1, <1>3
<1>5. g[U] = f[Pick(U)] + g[W] /\ h[U] = f[Pick(U)] + h[W] BY <1>2 DEF IsIter
<1> QED BY <1>1, <1>4, <1>5

\* There is such a function for every finite set.
LEMMA IterExists ==
  ASSUME NEW f, NEW S, IsFiniteSet(S)
  PROVE  \E g : IsIter(g, f, S)
<1> DEFINE P == {s \in SUBSET S : ~ \E g : IsIter(g, f, s)}
<1> SUFFICES ASSUME P # {} PROVE FALSE OBVIOUS
<1>1. PICK U \in P : \A V \in P : V \subseteq U => V = U
  <2>1. P \subseteq SUBSET S OBVIOUS
  <2> HIDE DEF P
  <2> QED BY <2>1, FiniteLeast
<1> DEFINE G == [s \in SUBSET U |-> IF s = {} THEN 0 ELSE f[Pick(s)] + SumFunctionOnSet(f, s \ {Pick(s)})]
<1>2. ASSUME NEW v, v \subseteq U, v # U PROVE IsIter(CHOOSE g : IsIter(g, f, v), f, v)
  BY <1>1, <1>2
<1>3. ASSUME NEW v, v \subseteq U, v # U PROVE G[v] = SumFunctionOnSet(f, v)
  <2> DEFINE h == CHOOSE g : IsIter(g, f, v)
  <2>1. IsIter(h, f, v) BY <1>2, <1>3
  <2>2. SumFunctionOnSet(f, v) = h[v] BY SumIsIter
  <2>3. CASE v = {} BY <2>1, <2>2, <2>3 DEF IsIter
  <2>4. CASE v # {}
    <3> DEFINE w == v \ {Pick(v)}
               k == CHOOSE g : IsIter(g, f, w)
    <3>1. w \subseteq v /\ w \subseteq U /\ w # U BY <1>3, <2>4, PickIsIn
    <3>2. IsIter(k, f, w) BY <1>2, <3>1
    <3>3. IsFiniteSet(w) BY <3>1, FS_Subset
    <3>4. h[w] = k[w] BY <2>1, <3>1, <3>2, <3>3, IterUnique
    <3>5. SumFunctionOnSet(f, w) = k[w] BY SumIsIter
    <3>6. h[v] = f[Pick(v)] + h[w] BY <2>1, <2>4 DEF IsIter
    <3>7. G[v] = f[Pick(v)] + SumFunctionOnSet(f, w) BY <1>3, <2>4
    <3> HIDE DEF w, k, h, G
    <3> QED BY <2>2, <3>4, <3>5, <3>6, <3>7
  <2> QED BY <2>3, <2>4
<1>4. \A s \in SUBSET U : s # {} => G[s \ {Pick(s)}] = SumFunctionOnSet(f, s \ {Pick(s)})
  <2> SUFFICES ASSUME NEW s \in SUBSET U, s # {} PROVE G[s \ {Pick(s)}] = SumFunctionOnSet(f, s \ {Pick(s)})
    OBVIOUS
  <2>1. s \ {Pick(s)} \subseteq U /\ s \ {Pick(s)} # U BY PickIsIn
  <2> HIDE DEF G
  <2> QED BY <1>3, <2>1
<1>5. IsIter(G, f, U) BY <1>4, Zenon DEF IsIter
<1> QED BY <1>1, <1>5

\* A sum is the element picked and the sum of the others.
LEMMA SumUnfold ==
  ASSUME NEW f, NEW S, IsFiniteSet(S)
  PROVE  SumFunctionOnSet(f, S) = IF S = {} THEN 0 ELSE f[Pick(S)] + SumFunctionOnSet(f, S \ {Pick(S)})
<1> DEFINE g == CHOOSE k : IsIter(k, f, S)
           W == S \ {Pick(S)}
           h == CHOOSE k : IsIter(k, f, W)
<1>1. IsIter(g, f, S) BY IterExists
<1>2. IsFiniteSet(W) /\ W \subseteq S BY FS_Subset
<1>3. IsIter(h, f, W) BY <1>2, IterExists
<1>4. g[W] = h[W] BY <1>1, <1>2, <1>3, IterUnique
<1>5. SumFunctionOnSet(f, S) = g[S] /\ SumFunctionOnSet(f, W) = h[W] BY SumIsIter
<1>6. g[S] = IF S = {} THEN 0 ELSE f[Pick(S)] + g[W] BY <1>1 DEF IsIter
<1> HIDE DEF g, W, h
<1>7. SumFunctionOnSet(f, S) = IF S = {} THEN 0 ELSE f[Pick(S)] + SumFunctionOnSet(f, W) BY <1>4, <1>5, <1>6
<1> QED BY <1>7 DEF W

\* A sum of integers is one.
LEMMA SumType ==
  ASSUME NEW f, NEW S, IsFiniteSet(S), \A c \in S : f[c] \in Int
  PROVE  SumFunctionOnSet(f, S) \in Int
<1> DEFINE P == {s \in SUBSET S : SumFunctionOnSet(f, s) \notin Int}
<1> SUFFICES ASSUME P # {} PROVE FALSE OBVIOUS
<1>1. PICK U \in P : \A V \in P : V \subseteq U => V = U
  <2>1. P \subseteq SUBSET S OBVIOUS
  <2> HIDE DEF P
  <2> QED BY <2>1, FiniteLeast
<1>2. IsFiniteSet(U) BY FS_Subset
<1>3. U # {}
  <2>1. SumFunctionOnSet(f, {}) = 0 BY FS_EmptySet, SumUnfold
  <2>2. SumFunctionOnSet(f, U) \notin Int BY <1>1
  <2> QED BY <2>1, <2>2
<1>4. Pick(U) \in U BY <1>3, PickIsIn
<1>5. SumFunctionOnSet(f, U \ {Pick(U)}) \in Int BY <1>1, <1>4
<1>6. SumFunctionOnSet(f, U) = f[Pick(U)] + SumFunctionOnSet(f, U \ {Pick(U)}) BY <1>2, <1>3, SumUnfold
<1> QED BY <1>1, <1>4, <1>5, <1>6

\* Whatever element is taken first: a sum is that element and the sum of the others.
LEMMA SumRemove ==
  ASSUME NEW f, NEW S, IsFiniteSet(S), \A c \in S : f[c] \in Int, NEW x \in S
  PROVE  SumFunctionOnSet(f, S) = f[x] + SumFunctionOnSet(f, S \ {x})
<1> DEFINE P == {s \in SUBSET S : \E y \in s : SumFunctionOnSet(f, s) # f[y] + SumFunctionOnSet(f, s \ {y})}
<1> SUFFICES ASSUME P # {} PROVE FALSE OBVIOUS
<1>1. PICK U \in P : \A V \in P : V \subseteq U => V = U
  <2>1. P \subseteq SUBSET S OBVIOUS
  <2> HIDE DEF P
  <2> QED BY <2>1, FiniteLeast
<1>2. PICK y \in U : SumFunctionOnSet(f, U) # f[y] + SumFunctionOnSet(f, U \ {y}) OBVIOUS
<1> DEFINE p == Pick(U)
<1>3. p \in U BY PickIsIn
<1>4. IsFiniteSet(U) /\ IsFiniteSet(U \ {y}) /\ U \in SUBSET S BY FS_Subset
<1>5. SumFunctionOnSet(f, U) = f[p] + SumFunctionOnSet(f, U \ {p}) BY <1>4, <1>3, SumUnfold
<1>6. p # y BY <1>2, <1>5
<1>7. SumFunctionOnSet(f, U \ {p}) = f[y] + SumFunctionOnSet(f, (U \ {p}) \ {y})
  <2>1. U \ {p} \in SUBSET S /\ U \ {p} # U /\ y \in U \ {p} BY <1>3, <1>4, <1>6
  <2>2. U \ {p} \notin P BY <1>1, <2>1
  <2> QED BY <2>1, <2>2
<1>8. SumFunctionOnSet(f, U \ {y}) = f[p] + SumFunctionOnSet(f, (U \ {y}) \ {p})
  <2>1. U \ {y} \in SUBSET S /\ U \ {y} # U /\ p \in U \ {y} BY <1>3, <1>4, <1>6
  <2>2. U \ {y} \notin P BY <1>1, <2>1
  <2> QED BY <2>1, <2>2
<1>9. (U \ {p}) \ {y} = (U \ {y}) \ {p} OBVIOUS
<1>10. IsFiniteSet((U \ {y}) \ {p}) BY <1>4, FS_Subset
<1> DEFINE C == SumFunctionOnSet(f, (U \ {y}) \ {p})
           A == SumFunctionOnSet(f, U \ {p})
           B == SumFunctionOnSet(f, U \ {y})
<1>11. f[p] \in Int /\ f[y] \in Int /\ C \in Int BY <1>3, <1>4, <1>10, SumType
<1>12. A = f[y] + C /\ B = f[p] + C BY <1>7, <1>8, <1>9
<1>14. SumFunctionOnSet(f, U) = f[y] + B
  <2> HIDE DEF p, A, B, C, P
  <2>1. f[p] + (f[y] + C) = f[y] + (f[p] + C) BY <1>11
  <2>2. SumFunctionOnSet(f, U) = f[p] + A BY <1>5 DEF A
  <2> QED BY <1>12, <2>1, <2>2
<1> QED BY <1>2, <1>14

\* The sum over no element.
LEMMA SumEmpty == ASSUME NEW f PROVE SumFunctionOnSet(f, {}) = 0
BY FS_EmptySet, SumUnfold

\* Functions that agree on a set have the same sum over it.
LEMMA SumSame ==
  ASSUME NEW S, IsFiniteSet(S), NEW f, NEW g, \A c \in S : f[c] \in Int,
         \A c \in S : g[c] = f[c]
  PROVE  SumFunctionOnSet(g, S) = SumFunctionOnSet(f, S)
<1> DEFINE P == {s \in SUBSET S : SumFunctionOnSet(g, s) # SumFunctionOnSet(f, s)}
<1> SUFFICES ASSUME P # {} PROVE FALSE OBVIOUS
<1>1. PICK U \in P : \A V \in P : V \subseteq U => V = U
  <2>1. P \subseteq SUBSET S OBVIOUS
  <2> HIDE DEF P
  <2> QED BY <2>1, FiniteLeast
<1>2. U # {} BY <1>1, SumEmpty
<1>3. PICK x : x \in U BY <1>2
<1>4. IsFiniteSet(U) /\ U \subseteq S BY FS_Subset
<1>5. U \ {x} \in SUBSET S /\ U \ {x} # U BY <1>3, <1>4
<1>6. SumFunctionOnSet(g, U \ {x}) = SumFunctionOnSet(f, U \ {x}) BY <1>1, <1>5
<1>7. \A c \in U : f[c] \in Int /\ g[c] \in Int BY <1>4
<1>8. SumFunctionOnSet(g, U) = g[x] + SumFunctionOnSet(g, U \ {x}) BY <1>3, <1>4, <1>7, SumRemove
<1>9. SumFunctionOnSet(f, U) = f[x] + SumFunctionOnSet(f, U \ {x}) BY <1>3, <1>4, <1>7, SumRemove
<1>10. g[x] = f[x] BY <1>3, <1>4
<1> QED BY <1>1, <1>6, <1>8, <1>9, <1>10

\* A sum over two disjoint sets.
LEMMA SumUnion ==
  ASSUME NEW S, IsFiniteSet(S), NEW T, IsFiniteSet(T), S \cap T = {}, NEW f,
         \A c \in S \cup T : f[c] \in Int
  PROVE  SumFunctionOnSet(f, S \cup T) = SumFunctionOnSet(f, S) + SumFunctionOnSet(f, T)
<1> DEFINE Sum(s) == SumFunctionOnSet(f, s)
           P == {s \in SUBSET S : Sum(s \cup T) # Sum(s) + Sum(T)}
<1> SUFFICES ASSUME P # {} PROVE FALSE OBVIOUS
<1>1. PICK U \in P : \A V \in P : V \subseteq U => V = U
  <2>1. P \subseteq SUBSET S OBVIOUS
  <2> HIDE DEF P
  <2> QED BY <2>1, FiniteLeast
<1>2. IsFiniteSet(U) /\ U \subseteq S /\ IsFiniteSet(U \cup T) BY FS_Subset, FS_Union
<1>3. Sum(T) \in Int BY SumType
<1>4. U # {}
  <2>1. {} \cup T = T OBVIOUS
  <2>2. Sum({}) = 0 BY SumEmpty
  <2>3. Sum({} \cup T) = Sum({}) + Sum(T)
    <3> HIDE DEF Sum, P
    <3> QED BY <1>3, <2>1, <2>2
  <2> QED BY <1>1, <2>3
<1>5. PICK x : x \in U BY <1>4
<1> DEFINE V == U \ {x}
<1>6. V \in SUBSET S /\ V # U /\ V \subseteq U BY <1>2, <1>5
<1>7. Sum(V \cup T) = Sum(V) + Sum(T) BY <1>1, <1>6
<1>8. (U \cup T) \ {x} = V \cup T BY <1>2, <1>5
<1>9. Sum(U \cup T) = f[x] + Sum((U \cup T) \ {x}) BY <1>2, <1>5, SumRemove
<1>10. Sum(U) = f[x] + Sum(V) BY <1>2, <1>5, SumRemove
<1>11. Sum(V) \in Int /\ f[x] \in Int
  <2>1. IsFiniteSet(V) BY <1>2, FS_Subset
  <2> QED BY <1>2, <1>5, <2>1, SumType
<1>12. Sum(U \cup T) = f[x] + (Sum(V) + Sum(T)) BY <1>7, <1>8, <1>9
<1>13. f[x] + (Sum(V) + Sum(T)) = (f[x] + Sum(V)) + Sum(T)
  <2> HIDE DEF Sum, V, P
  <2> QED BY <1>3, <1>11
<1>14. Sum(U \cup T) = Sum(U) + Sum(T) BY <1>10, <1>12, <1>13
<1> QED BY <1>1, <1>14

\* A sum of natural numbers is one, and at least the sum over any of them.
LEMMA SumMonotone ==
  ASSUME NEW T, IsFiniteSet(T), NEW S, S \subseteq T, NEW f, \A c \in T : f[c] \in Nat
  PROVE  /\ SumFunctionOnSet(f, S) \in Nat /\ SumFunctionOnSet(f, T) \in Nat
         /\ SumFunctionOnSet(f, S) <= SumFunctionOnSet(f, T)
<1> DEFINE P == {s \in SUBSET T : SumFunctionOnSet(f, s) \notin Nat}
<1>1. \A s \in SUBSET T : SumFunctionOnSet(f, s) \in Nat
  <2> SUFFICES ASSUME P # {} PROVE FALSE OBVIOUS
  <2>1. PICK U \in P : \A V \in P : V \subseteq U => V = U
    <3>1. P \subseteq SUBSET T OBVIOUS
    <3> HIDE DEF P
    <3> QED BY <3>1, FiniteLeast
  <2>2. SumFunctionOnSet(f, {}) \in Nat BY SumEmpty
  <2>3. U # {} BY <2>1, <2>2
  <2>4. PICK x : x \in U BY <2>3
  <2>5. IsFiniteSet(U) /\ U \subseteq T BY FS_Subset
  <2>6. U \ {x} \in SUBSET T /\ U \ {x} # U BY <2>4, <2>5
  <2>7. SumFunctionOnSet(f, U \ {x}) \in Nat BY <2>1, <2>6
  <2>8. \A c \in U : f[c] \in Int BY <2>5
  <2>9. SumFunctionOnSet(f, U) = f[x] + SumFunctionOnSet(f, U \ {x}) BY <2>4, <2>5, <2>8, SumRemove
  <2>10. SumFunctionOnSet(f, U) \in Nat BY <2>4, <2>5, <2>7, <2>9
  <2> QED BY <2>1, <2>10
<1>2. S \cup (T \ S) = T /\ S \cap (T \ S) = {} OBVIOUS
<1>3. IsFiniteSet(S) /\ IsFiniteSet(T \ S) BY FS_Subset
<1>4. SumFunctionOnSet(f, T) = SumFunctionOnSet(f, S) + SumFunctionOnSet(f, T \ S)
  BY <1>2, <1>3, SumUnion
<1>5. SumFunctionOnSet(f, S) \in Nat /\ SumFunctionOnSet(f, T \ S) \in Nat BY <1>1
<1> QED BY <1>4, <1>5

\* No part of a sum of natural numbers is more than the sum.
LEMMA PartBelowSum ==
  ASSUME NEW S, IsFiniteSet(S), NEW f, \A c \in S : f[c] \in Nat, NEW x \in S
  PROVE  SumFunctionOnSet(f, S) \in Nat /\ f[x] <= SumFunctionOnSet(f, S)
<1> DEFINE v == f[x]
           T == SumFunctionOnSet(f, S)
           L == SumFunctionOnSet(f, S \ {x})
<1>1. v \in Nat OBVIOUS
<1>2. S \ {x} \subseteq S OBVIOUS
<1>3. L \in Nat /\ T \in Nat
  <2> DEFINE D == S \ {x}
  <2>1. D \subseteq S BY <1>2
  <2> HIDE DEF D
  <2>2. SumFunctionOnSet(f, D) \in Nat /\ SumFunctionOnSet(f, S) \in Nat
    BY <2>1, SumMonotone
  <2> QED BY <2>2 DEF D
<1>4. T = v + L
  <2>1. \A c \in S : f[c] \in Int OBVIOUS
  <2> QED BY <2>1, SumRemove
<1> HIDE DEF v, T, L
<1>5. T \in Nat /\ v <= T BY <1>1, <1>3, <1>4
<1> QED BY <1>5 DEF v, T

\* What one more summand adds.
LEMMA SumOneMore ==
  ASSUME NEW T, IsFiniteSet(T), NEW f \in [T -> Nat], NEW g \in [T -> Nat], NEW c \in T,
         f[c] = 0, \A d \in T : d # c => g[d] = f[d],
         NEW S, S \subseteq T
  PROVE  SumFunctionOnSet(g, S) = SumFunctionOnSet(f, S) + (IF c \in S THEN g[c] ELSE 0)
<1> DEFINE U == S \ {c}
<1>1. IsFiniteSet(S) /\ IsFiniteSet(U) BY FS_Subset
<1>2. \A d \in U : f[d] \in Int /\ g[d] = f[d] OBVIOUS
<1>3. SumFunctionOnSet(g, U) = SumFunctionOnSet(f, U)
  <2> HIDE DEF U
  <2> QED BY <1>1, <1>2, SumSame
<1>4. SumFunctionOnSet(f, U) \in Nat BY SumMonotone
<1>5. CASE c \in S
  <2>1. SumFunctionOnSet(f, S) = f[c] + SumFunctionOnSet(f, U) BY <1>1, <1>5, SumRemove
  <2>2. SumFunctionOnSet(g, S) = g[c] + SumFunctionOnSet(g, U) BY <1>1, <1>5, SumRemove
  <2> HIDE DEF U
  <2> QED BY <1>3, <1>4, <1>5, <2>1, <2>2
<1>6. CASE c \notin S
  <2>1. U = S BY <1>6
  <2> QED BY <1>3, <1>4, <1>6, <2>1
<1> QED BY <1>5, <1>6

\* Sums grow with what is summed, and a sum of multiples is a multiple of the sum.
LEMMA SumBelow ==
  ASSUME NEW S, IsFiniteSet(S), NEW f, NEW g, \A c \in S : f[c] \in Int /\ g[c] \in Int,
         \A c \in S : f[c] <= g[c]
  PROVE  SumFunctionOnSet(f, S) <= SumFunctionOnSet(g, S)
<1> DEFINE P == {s \in SUBSET S : ~ (SumFunctionOnSet(f, s) <= SumFunctionOnSet(g, s))}
<1> SUFFICES ASSUME P # {} PROVE FALSE OBVIOUS
<1>1. PICK U \in P : \A V \in P : V \subseteq U => V = U
  <2>1. P \subseteq SUBSET S OBVIOUS
  <2> HIDE DEF P
  <2> QED BY <2>1, FiniteLeast
<1>2. U # {}
  <2>1. SumFunctionOnSet(f, {}) = 0 /\ SumFunctionOnSet(g, {}) = 0 BY SumEmpty
  <2>2. SumFunctionOnSet(f, {}) <= SumFunctionOnSet(g, {}) BY <2>1
  <2> QED BY <1>1, <2>2
<1>3. PICK x \in U : TRUE BY <1>2
<1>4. IsFiniteSet(U) /\ IsFiniteSet(U \ {x}) BY <1>1, FS_Subset
<1> DEFINE W == U \ {x}
           a == SumFunctionOnSet(f, W)
           b == SumFunctionOnSet(g, W)
<1>5. a \in Int /\ b \in Int
  <2>1. \A c \in W : f[c] \in Int /\ g[c] \in Int BY <1>1
  <2> HIDE DEF W
  <2> QED BY <1>4, <2>1, SumType DEF W
<1>6. a <= b BY <1>1, <1>3
<1>7. SumFunctionOnSet(f, U) = f[x] + a /\ SumFunctionOnSet(g, U) = g[x] + b
  <2>1. \A c \in U : f[c] \in Int /\ g[c] \in Int BY <1>1
  <2> QED BY <1>3, <1>4, <2>1, SumRemove
<1>8. f[x] \in Int /\ g[x] \in Int /\ f[x] <= g[x] BY <1>1, <1>3
<1> HIDE DEF a, b, W
<1> QED BY <1>1, <1>5, <1>6, <1>7, <1>8

\* A sum of multiples is the multiple of the sum.
LEMMA SumTimes ==
  ASSUME NEW S, IsFiniteSet(S), NEW f, NEW g, NEW k \in Int, \A c \in S : f[c] \in Int,
         \A c \in S : g[c] = k * f[c]
  PROVE  SumFunctionOnSet(g, S) = k * SumFunctionOnSet(f, S)
<1> DEFINE P == {s \in SUBSET S : SumFunctionOnSet(g, s) # k * SumFunctionOnSet(f, s)}
<1> SUFFICES ASSUME P # {} PROVE FALSE OBVIOUS
<1>1. PICK U \in P : \A V \in P : V \subseteq U => V = U
  <2>1. P \subseteq SUBSET S OBVIOUS
  <2> HIDE DEF P
  <2> QED BY <2>1, FiniteLeast
<1>2. U # {}
  <2>1. SumFunctionOnSet(f, {}) = 0 /\ SumFunctionOnSet(g, {}) = 0 BY SumEmpty
  <2>2. SumFunctionOnSet(g, {}) = k * SumFunctionOnSet(f, {}) BY <2>1
  <2> QED BY <1>1, <2>2
<1>3. PICK x \in U : TRUE BY <1>2
<1>4. IsFiniteSet(U) /\ IsFiniteSet(U \ {x}) BY <1>1, FS_Subset
<1> DEFINE W == U \ {x}
           a == SumFunctionOnSet(f, W)
           b == SumFunctionOnSet(g, W)
<1>5. a \in Int
  <2>1. \A c \in W : f[c] \in Int BY <1>1
  <2> HIDE DEF W
  <2> QED BY <1>4, <2>1, SumType DEF W
<1>6. b = k * a BY <1>1, <1>3
<1>7. SumFunctionOnSet(f, U) = f[x] + a /\ SumFunctionOnSet(g, U) = g[x] + b
  <2>1. \A c \in U : f[c] \in Int /\ g[c] \in Int BY <1>1
  <2> QED BY <1>3, <1>4, <2>1, SumRemove
<1>8. f[x] \in Int /\ g[x] = k * f[x] BY <1>1, <1>3
<1> DEFINE y == f[x]
<1>9. k * y + k * a = k * (y + a)
  <2>1. y \in Int BY <1>8
  <2> HIDE DEF y, a
  <2> QED BY <1>5, <2>1
<1> HIDE DEF a, b, W
<1> QED BY <1>1, <1>5, <1>6, <1>7, <1>8, <1>9

\* The sum of what two functions add.
LEMMA SumPlus ==
  ASSUME NEW S, IsFiniteSet(S), NEW f, NEW g, NEW h, \A c \in S : f[c] \in Int /\ g[c] \in Int,
         \A c \in S : h[c] = f[c] + g[c]
  PROVE  SumFunctionOnSet(h, S) = SumFunctionOnSet(f, S) + SumFunctionOnSet(g, S)
<1> DEFINE Sum(k, s) == SumFunctionOnSet(k, s)
           P == {s \in SUBSET S : Sum(h, s) # Sum(f, s) + Sum(g, s)}
<1> SUFFICES ASSUME P # {} PROVE FALSE OBVIOUS
<1>1. PICK U \in P : \A V \in P : V \subseteq U => V = U
  <2>1. P \subseteq SUBSET S OBVIOUS
  <2> HIDE DEF P
  <2> QED BY <2>1, FiniteLeast
<1>2. U # {}
  <2>1. Sum(f, {}) = 0 /\ Sum(g, {}) = 0 /\ Sum(h, {}) = 0 BY SumEmpty
  <2>2. Sum(h, {}) = Sum(f, {}) + Sum(g, {}) BY <2>1
  <2>3. {} \notin P BY <2>2
  <2> HIDE DEF P
  <2> QED BY <1>1, <2>3
<1>3. PICK x \in U : TRUE BY <1>2
<1> DEFINE W == U \ {x}
<1>4. IsFiniteSet(U) /\ IsFiniteSet(W) BY <1>1, FS_Subset
<1>5. \A c \in U : f[c] \in Int /\ g[c] \in Int /\ h[c] \in Int
  <2>1. U \subseteq S BY <1>1
  <2> QED BY <2>1
<1>6. Sum(f, W) \in Int /\ Sum(g, W) \in Int
  <2>1. \A c \in W : f[c] \in Int /\ g[c] \in Int BY <1>5
  <2> HIDE DEF W
  <2> QED BY <1>4, <2>1, SumType
<1>7. Sum(h, W) = Sum(f, W) + Sum(g, W) BY <1>1, <1>3
<1>8. Sum(f, U) = f[x] + Sum(f, W) /\ Sum(g, U) = g[x] + Sum(g, W) /\ Sum(h, U) = h[x] + Sum(h, W)
  BY <1>3, <1>4, <1>5, SumRemove
<1>9. f[x] \in Int /\ g[x] \in Int /\ h[x] = f[x] + g[x] BY <1>1, <1>3, <1>5
<1>10. Sum(h, U) # Sum(f, U) + Sum(g, U) BY <1>1
<1> HIDE DEF Sum, W
<1> QED BY <1>6, <1>7, <1>8, <1>9, <1>10

\* What every member adds alike.
LEMMA SumAlike ==
  ASSUME NEW S, IsFiniteSet(S), NEW f, NEW k \in Int, \A c \in S : f[c] = k
  PROVE  /\ Cardinality(S) \in Nat
         /\ SumFunctionOnSet(f, S) = k * Cardinality(S)
<1> DEFINE P == {s \in SUBSET S : SumFunctionOnSet(f, s) # k * Cardinality(s)}
<1>0. Cardinality(S) \in Nat BY FS_CardinalityType
<1> SUFFICES ASSUME P # {} PROVE FALSE BY <1>0
<1>1. PICK U \in P : \A V \in P : V \subseteq U => V = U
  <2>1. P \subseteq SUBSET S OBVIOUS
  <2> HIDE DEF P
  <2> QED BY <2>1, FiniteLeast
<1>2. U # {}
  <2>1. SumFunctionOnSet(f, {}) = 0 /\ Cardinality({}) = 0 BY SumEmpty, FS_EmptySet
  <2>2. SumFunctionOnSet(f, {}) = k * Cardinality({}) BY <2>1
  <2> QED BY <1>1, <2>2
<1>3. PICK x \in U : TRUE BY <1>2
<1>4. IsFiniteSet(U) /\ IsFiniteSet(U \ {x}) BY <1>1, FS_Subset
<1> DEFINE W == U \ {x}
           a == SumFunctionOnSet(f, W)
           m == Cardinality(W)
<1>5. m \in Nat BY <1>4, FS_CardinalityType
<1>6. Cardinality(U) = m + 1
  <2>1. x \notin W /\ U = W \cup {x} BY <1>3
  <2> HIDE DEF W
  <2>2. Cardinality(W \cup {x}) = Cardinality(W) + 1 BY <1>4, <2>1, FS_AddElement DEF W
  <2> QED BY <2>1, <2>2
<1>7. a = k * m BY <1>1, <1>3
<1>8. SumFunctionOnSet(f, U) = k + a
  <2>1. \A c \in U : f[c] \in Int BY <1>1
  <2>2. f[x] = k BY <1>1, <1>3
  <2> QED BY <1>3, <1>4, <2>1, <2>2, SumRemove
<1>9. k * (m + 1) = k + k * m
  <2> HIDE DEF m
  <2> QED BY <1>5
<1> HIDE DEF a, m, W
<1> QED BY <1>1, <1>6, <1>7, <1>8, <1>9

Members(K, group, t) == {k \in K : group[k] = t}
MembersOf(K, group, T) == {k \in K : group[k] \in T}

\* A sum by groups: what the members of each group add is summed over the groups.
LEMMA SumGroups ==
  ASSUME NEW K, IsFiniteSet(K), NEW T, IsFiniteSet(T), NEW f, NEW h, NEW group,
         \A k \in K : f[k] \in Int,
         \A t \in T : h[t] \in Int /\ SumFunctionOnSet(f, Members(K, group, t)) = h[t]
  PROVE  SumFunctionOnSet(f, MembersOf(K, group, T)) = SumFunctionOnSet(h, T)
<1>0. \A t \in T : SumFunctionOnSet(f, {k \in K : group[k] = t}) = h[t] BY DEF Members
<1>14. MembersOf(K, group, T) = {k \in K : group[k] \in T} BY DEF MembersOf
<1> DEFINE In(s) == {k \in K : group[k] \in s}
           P == {s \in SUBSET T : SumFunctionOnSet(f, In(s)) # SumFunctionOnSet(h, s)}
<1> SUFFICES ASSUME P # {} PROVE FALSE BY <1>14
<1>1. PICK U \in P : \A V \in P : V \subseteq U => V = U
  <2>1. P \subseteq SUBSET T OBVIOUS
  <2> HIDE DEF P
  <2> QED BY <2>1, FiniteLeast
<1>2. U # {}
  <2>1. In({}) = {} OBVIOUS
  <2>2. SumFunctionOnSet(f, In({})) = SumFunctionOnSet(h, {}) BY <2>1, SumEmpty
  <2> QED BY <1>1, <2>2
<1>3. PICK x \in U : TRUE BY <1>2
<1> DEFINE W == U \ {x}
           A == In(W)
           B == {k \in K : group[k] = x}
<1>4. IsFiniteSet(U) /\ U \subseteq T BY <1>1, FS_Subset
<1>5. IsFiniteSet(A) /\ IsFiniteSet(B) /\ A \subseteq K /\ B \subseteq K BY FS_Subset
<1>6. SumFunctionOnSet(f, A) = SumFunctionOnSet(h, W)
  <2>1. W \in SUBSET T /\ W \subseteq U /\ W # U BY <1>3, <1>4
  <2>2. W \notin P BY <1>1, <2>1
  <2> QED BY <2>1, <2>2
<1>7. In(U) = A \cup B /\ A \cap B = {} BY <1>3
<1>8. SumFunctionOnSet(f, A \cup B) = SumFunctionOnSet(f, A) + SumFunctionOnSet(f, B)
  <2>1. \A c \in A \cup B : f[c] \in Int BY <1>5
  <2> HIDE DEF A, B, In
  <2> QED BY <1>5, <1>7, <2>1, SumUnion
<1>9. SumFunctionOnSet(f, B) = h[x] BY <1>0, <1>3, <1>4
<1>10. SumFunctionOnSet(h, U) = h[x] + SumFunctionOnSet(h, W)
  <2>1. \A c \in U : h[c] \in Int BY <1>4
  <2> QED BY <1>3, <1>4, <2>1, SumRemove
<1>11. SumFunctionOnSet(h, W) \in Int /\ h[x] \in Int
  <2>1. \A c \in W : h[c] \in Int BY <1>4
  <2>2. IsFiniteSet(W) BY <1>4, FS_Subset
  <2> HIDE DEF W
  <2> QED BY <1>3, <1>4, <2>1, <2>2, SumType
<1>12. SumFunctionOnSet(f, In(U)) = SumFunctionOnSet(h, U)
  <2> HIDE DEF A, B, In, W
  <2> QED BY <1>6, <1>7, <1>8, <1>9, <1>10, <1>11
<1> QED BY <1>1, <1>12

(***************************************************************************)
(* The places of numbers in the order of a finite set of them.             *)
(***************************************************************************)
NotAbove(S, x) == {y \in S : y <= x}
PlaceIn(S, x) == Cardinality(NotAbove(S, x))

\* A place is a number, and grows with the set and with the element.
LEMMA PlaceGrows ==
  ASSUME NEW S \in SUBSET Nat, IsFiniteSet(S), NEW T \in SUBSET S,
         NEW x \in Nat, NEW y \in Nat, y <= x
  PROVE  /\ PlaceIn(S, x) \in Nat /\ PlaceIn(T, y) \in Nat /\ PlaceIn(T, y) <= PlaceIn(S, x)
         /\ x \in S => PlaceIn(S, x) >= 1
<1>0. \A w \in T : w \in S /\ w \in Nat OBVIOUS
<1>1. NotAbove(T, y) \subseteq NotAbove(S, x)
  <2>1. ASSUME NEW w \in T, w <= y PROVE w \in S /\ w <= x BY <1>0, <2>1
  <2> QED BY <2>1 DEF NotAbove
<1>2. IsFiniteSet(NotAbove(S, x)) BY FS_Subset DEF NotAbove
<1>3. /\ IsFiniteSet(NotAbove(T, y)) /\ Cardinality(NotAbove(T, y)) <= Cardinality(NotAbove(S, x))
  BY <1>1, <1>2, FS_Subset
<1>4. x \in S => NotAbove(S, x) # {} BY DEF NotAbove
<1>5. Cardinality(NotAbove(S, x)) \in Nat /\ Cardinality(NotAbove(T, y)) \in Nat
  BY <1>2, <1>3, FS_CardinalityType
<1>6. NotAbove(S, x) # {} => Cardinality(NotAbove(S, x)) # 0 BY <1>2, FS_EmptySet
<1> QED BY <1>3, <1>4, <1>5, <1>6 DEF PlaceIn

\* A finite set of natural numbers has its greatest one.
LEMMA GreatestNumber ==
  ASSUME NEW S, \A n \in S : n \in Nat, IsFiniteSet(S), S # {}
  PROVE  \E m \in S : \A n \in S : n <= m
<1> DEFINE P == {s \in SUBSET S : s # {} /\ ~ \E m \in s : \A n \in s : n <= m}
<1> SUFFICES ASSUME P # {} PROVE FALSE OBVIOUS
<1>1. PICK U \in P : \A W \in P : W \subseteq U => W = U
  <2>1. P \subseteq SUBSET S OBVIOUS
  <2> HIDE DEF P
  <2> QED BY <2>1, FiniteLeast
<1>2. PICK x : x \in U BY <1>1
<1> DEFINE V == U \ {x}
<1>3. V \in SUBSET S /\ V \subseteq U /\ V # U BY <1>2
<1>4. V # {}
  <2>1. V = {} => \A n \in U : n <= x BY <1>2
  <2> QED BY <1>1, <1>2, <2>1
<1>5. PICK m \in V : \A n \in V : n <= m BY <1>1, <1>3, <1>4
<1>6. \A n \in U : n \in Nat /\ (n = x \/ n \in V) BY <1>3
<1>7. CASE m <= x
  <2>1. \A n \in U : n <= x BY <1>2, <1>5, <1>6, <1>7
  <2> QED BY <1>1, <1>2, <2>1
<1>8. CASE x <= m
  <2>1. \A n \in U : n <= m BY <1>2, <1>5, <1>6, <1>8
  <2> QED BY <1>1, <1>3, <1>5, <2>1
<1>9. m \in Nat /\ x \in Nat BY <1>2, <1>3, <1>6
<1> QED BY <1>7, <1>8, <1>9

\* Before a place that is taken, every place is: the first k are k.
LEMMA FirstPlaces ==
  ASSUME NEW S \in SUBSET Nat, IsFiniteSet(S), NEW k \in Nat,
         NEW r \in S, PlaceIn(S, r) > k
  PROVE  /\ IsFiniteSet({x \in S : PlaceIn(S, x) <= k})
         /\ Cardinality({x \in S : PlaceIn(S, x) <= k}) = k
<1> DEFINE A == {x \in S : PlaceIn(S, x) <= k}
<1>1. IsFiniteSet(A) /\ Cardinality(A) \in Nat BY FS_Subset, FS_CardinalityType
<1>2. PICK z \in S \ A : \A n \in S \ A : z <= n
  <2>1. r \in S \ A BY PlaceGrows
  <2> QED BY <2>1, LeastNumber
<1>3. PlaceIn(S, z) \in Nat /\ PlaceIn(S, z) > k BY <1>2, PlaceGrows
<1>4. \A y \in S : y \in A <=> y < z
  <2>1. ASSUME NEW y \in A, z <= y PROVE FALSE
    <3>1. PlaceIn(S, z) <= PlaceIn(S, y) /\ PlaceIn(S, y) \in Nat BY <1>2, <2>1, PlaceGrows
    <3> QED BY <1>3, <2>1, <3>1
  <2>2. ASSUME NEW y \in S, y < z PROVE y \in A BY <1>2, <2>2
  <2> QED BY <1>2, <2>1, <2>2
<1>5. PlaceIn(S, z) = Cardinality(A) + 1
  <2>0. \A y \in S : y <= z <=> y < z \/ y = z BY <1>2
  <2>1. NotAbove(S, z) = A \cup {z}
    <3> HIDE DEF A
    <3>1. A \subseteq S BY DEF A
    <3> QED BY <1>2, <1>4, <2>0, <3>1 DEF NotAbove
  <2>2. z \notin A BY <1>2
  <2> HIDE DEF A
  <2> QED BY <1>1, <2>1, <2>2, FS_AddElement DEF PlaceIn
<1>6. Cardinality(A) <= k
  <2>1. CASE A = {} BY <2>1, FS_EmptySet
  <2>2. CASE A # {}
    <3>2. PICK m \in A : \A y \in A : y <= m BY <1>1, <2>2, GreatestNumber
    <3>3. m \in A BY <3>2
    <3>4. A \subseteq NotAbove(S, m) BY <3>2 DEF NotAbove
    <3>5. IsFiniteSet(NotAbove(S, m)) BY FS_Subset DEF NotAbove
    <3>6. Cardinality(A) <= Cardinality(NotAbove(S, m)) BY <3>4, <3>5, FS_Subset
    <3>7. PlaceIn(S, m) <= k /\ PlaceIn(S, m) \in Nat BY <3>3, PlaceGrows
    <3> QED BY <1>1, <3>6, <3>7 DEF PlaceIn
  <2> QED BY <2>1, <2>2
<1> QED BY <1>1, <1>3, <1>5, <1>6

\* A page before a place that is taken is full.
LEMMA FullPage ==
  ASSUME NEW S \in SUBSET Nat, IsFiniteSet(S), NEW o \in Nat, NEW p \in Nat,
         NEW r \in S, PlaceIn(S, r) > o + p
  PROVE  Cardinality({x \in S : PlaceIn(S, x) \in (o + 1)..(o + p)}) = p
<1> DEFINE A == {x \in S : PlaceIn(S, x) <= o}
           B == {x \in S : PlaceIn(S, x) <= o + p}
           P == {x \in S : PlaceIn(S, x) \in (o + 1)..(o + p)}
<1>0. PlaceIn(S, r) \in Nat BY PlaceGrows
<1>1. IsFiniteSet(A) /\ Cardinality(A) = o BY <1>0, FirstPlaces
<1>2. IsFiniteSet(B) /\ Cardinality(B) = o + p BY <1>0, FirstPlaces
<1>a. \A x \in S : PlaceIn(S, x) \in Nat BY PlaceGrows
<1>b. ASSUME NEW x \in S
      PROVE  /\ x \in P <=> x \in B /\ x \notin A
             /\ x \in A => x \in B
  BY <1>a
<1>3. P = B \ A BY <1>b
<1>4. A \subseteq B BY <1>b
<1> HIDE DEF A, B, P
<1>5. B \cap A = A BY <1>4
<1>6. Cardinality(B \ A) = Cardinality(B) - Cardinality(B \cap A) BY <1>2, FS_Difference
<1>7. Cardinality(P) = (o + p) - o BY <1>1, <1>2, <1>3, <1>5, <1>6
<1> QED BY <1>7 DEF P

\* What leaves the set before an element moves it by that many places.
LEMMA PlaceMoves ==
  ASSUME NEW S \in SUBSET Nat, IsFiniteSet(S), NEW N \in SUBSET S, NEW r \in S \ N,
         \A x \in N : x <= r
  PROVE  /\ Cardinality(N) \in Nat /\ PlaceIn(S, r) \in Nat
         /\ PlaceIn(S \ N, r) = PlaceIn(S, r) - Cardinality(N)
<1>1. NotAbove(S \ N, r) = NotAbove(S, r) \ N BY DEF NotAbove
<1>2. NotAbove(S, r) \cap N = N BY DEF NotAbove
<1>3. IsFiniteSet(NotAbove(S, r)) BY FS_Subset DEF NotAbove
<1>4. IsFiniteSet(N) BY FS_Subset
<1> QED BY <1>1, <1>2, <1>3, <1>4, FS_Difference, FS_CardinalityType DEF PlaceIn

\* Every number up to the size of a set is the place of one of its elements.
LEMMA NthPlace ==
  ASSUME NEW S \in SUBSET Nat, IsFiniteSet(S), NEW n \in 1..Cardinality(S)
  PROVE  \E x \in S : PlaceIn(S, x) = n
<1> DEFINE A == {x \in S : PlaceIn(S, x) <= n - 1}
<1>0. \A x \in S : PlaceIn(S, x) \in Nat BY PlaceGrows
<1>1. IsFiniteSet(A) /\ Cardinality(A) \in Nat /\ Cardinality(S) \in Nat
  BY FS_Subset, FS_CardinalityType
<1>2. CASE \E r \in S : PlaceIn(S, r) > n - 1
  <2>1. PICK r \in S : PlaceIn(S, r) > n - 1 BY <1>2
  <2>2. n - 1 \in Nat BY <1>1
  <2>3. Cardinality(A) = n - 1 BY <2>1, <2>2, FirstPlaces
  <2>4. PICK z \in S \ A : \A y \in S \ A : z <= y
    <3>1. r \in S \ A BY <1>0, <1>1, <2>1
    <3> QED BY <3>1, LeastNumber
  <2>5. \A y \in NotAbove(S, z) : y \in A \/ y = z BY <2>4 DEF NotAbove
  <2>6. \A y \in A : y \in NotAbove(S, z)
    <3> SUFFICES ASSUME NEW y \in A, ~ (y <= z) PROVE FALSE BY DEF NotAbove
    <3>1. y \in Nat /\ z \in Nat /\ z <= y BY <2>4
    <3>2. PlaceIn(S, z) <= PlaceIn(S, y) BY <3>1, PlaceGrows
    <3> QED BY <1>0, <1>1, <2>4, <3>2
  <2>7. NotAbove(S, z) = A \cup {z}
    <3>1. z \in NotAbove(S, z) BY <2>4 DEF NotAbove
    <3> HIDE DEF A
    <3> QED BY <2>5, <2>6, <3>1
  <2>8. PlaceIn(S, z) = n
    <3>1. z \notin A BY <2>4
    <3> HIDE DEF A
    <3>2. Cardinality(A \cup {z}) = Cardinality(A) + 1 BY <1>1, <3>1, FS_AddElement
    <3>3. PlaceIn(S, z) = (n - 1) + 1 BY <2>3, <2>7, <3>2 DEF PlaceIn
    <3> QED BY <1>1, <3>3
  <2> QED BY <2>4, <2>8
<1>3. CASE ~ \E r \in S : PlaceIn(S, r) > n - 1
  <2> SUFFICES ASSUME TRUE PROVE FALSE OBVIOUS
  <2>1. S # {} BY <1>1, FS_EmptySet
  <2>2. PICK m \in S : \A y \in S : y <= m BY <2>1, GreatestNumber
  <2>3. NotAbove(S, m) = S BY <2>2 DEF NotAbove
  <2>4. PlaceIn(S, m) = Cardinality(S) BY <2>3 DEF PlaceIn
  <2> QED BY <1>1, <1>3, <2>2, <2>4
<1> QED BY <1>2, <1>3

\* Two elements have two places.
LEMMA PlacesDiffer ==
  ASSUME NEW S \in SUBSET Nat, IsFiniteSet(S), NEW x \in S, NEW y \in S,
         PlaceIn(S, x) = PlaceIn(S, y)
  PROVE  x = y
<1>1. ASSUME NEW a \in S, NEW b \in S, a < b PROVE PlaceIn(S, a) # PlaceIn(S, b)
  <2>1. NotAbove(S, a) \subseteq NotAbove(S, b)
    <3>1. ASSUME NEW w \in S, w <= a PROVE w <= b BY <1>1, <3>1
    <3> QED BY <3>1 DEF NotAbove
  <2>2. b \in NotAbove(S, b) /\ b \notin NotAbove(S, a) BY <1>1 DEF NotAbove
  <2>3. IsFiniteSet(NotAbove(S, b)) BY FS_Subset DEF NotAbove
  <2> QED BY <2>1, <2>2, <2>3, FS_Subset DEF PlaceIn
<1>2. x \in Nat /\ y \in Nat OBVIOUS
<1> QED BY <1>1, <1>2

\* The members of a set of numbers in their order: all of them, each once.
LEMMA AscendingLists ==
  ASSUME NEW s \in SUBSET Nat, IsFiniteSet(s)
  PROVE  /\ Cardinality(s) \in Nat
         /\ Ascending(s) \in [1..Cardinality(s) -> s]
         /\ \A m, n \in 1..Cardinality(s) : Ascending(s)[m] = Ascending(s)[n] => m = n
         /\ \A m, n \in 1..Cardinality(s) : m <= n => Ascending(s)[m] <= Ascending(s)[n]
         /\ \A x \in s : \E n \in 1..Cardinality(s) : Ascending(s)[n] = x
<1>1. Cardinality(s) \in Nat BY FS_CardinalityType
<1>2. \A n \in 1..Cardinality(s) : /\ Ascending(s)[n] \in s
                                   /\ PlaceIn(s, Ascending(s)[n]) = n
  <2> SUFFICES ASSUME NEW n \in 1..Cardinality(s)
               PROVE Ascending(s)[n] \in s /\ PlaceIn(s, Ascending(s)[n]) = n
    OBVIOUS
  <2>1. \E y \in s : PlaceIn(s, y) = n BY NthPlace
  <2>2. Ascending(s)[n] = CHOOSE y \in s : PlaceIn(s, y) = n
    BY DEF Ascending, PlaceIn, NotAbove
  <2> QED BY <2>1, <2>2
<1>3. Ascending(s) = [n \in 1..Cardinality(s) |-> Ascending(s)[n]] BY DEF Ascending
<1>4. \A m, n \in 1..Cardinality(s) : Ascending(s)[m] = Ascending(s)[n] => m = n BY <1>2
<1>5. ASSUME NEW x \in s PROVE \E n \in 1..Cardinality(s) : Ascending(s)[n] = x
  <2>1. PlaceIn(s, x) \in Nat /\ PlaceIn(s, x) >= 1 BY PlaceGrows
  <2>2. PlaceIn(s, x) <= Cardinality(s) BY FS_Subset DEF PlaceIn, NotAbove
  <2>3. PlaceIn(s, x) \in 1..Cardinality(s) BY <1>1, <2>1, <2>2
  <2> DEFINE y == Ascending(s)[PlaceIn(s, x)]
  <2>5. y \in s /\ PlaceIn(s, y) = PlaceIn(s, x) BY <1>2, <2>3
  <2> HIDE DEF y
  <2>4. y = x BY <2>5, PlacesDiffer
  <2> USE DEF y
  <2> QED BY <2>3, <2>4
<1>6. ASSUME NEW m \in 1..Cardinality(s), NEW n \in 1..Cardinality(s), m <= n
      PROVE  Ascending(s)[m] <= Ascending(s)[n]
  <2> DEFINE x == Ascending(s)[m]
             y == Ascending(s)[n]
  <2>1. x \in s /\ y \in s /\ PlaceIn(s, x) = m /\ PlaceIn(s, y) = n BY <1>2
  <2> HIDE DEF x, y
  <2>2. x \in Nat /\ y \in Nat BY <2>1
  <2>3. y <= x => PlaceIn(s, y) <= PlaceIn(s, x) BY <2>2, PlaceGrows
  <2>4. y <= x => m = n BY <1>1, <1>6, <2>1, <2>3
  <2>5. m = n => x = y BY DEF x, y
  <2>6. x <= y BY <2>2, <2>4, <2>5
  <2> QED BY <2>6 DEF x, y
<1> QED BY <1>1, <1>2, <1>3, <1>4, <1>5, <1>6

(***************************************************************************)
(* A finite set in an order.                                               *)
(***************************************************************************)
\* The pairs of R order s: of two members one comes first, and none before itself.
Orders(R, s) == /\ \A x, y \in s : x # y => <<x, y>> \in R \/ <<y, x>> \in R
                /\ \A x \in s : <<x, x>> \notin R
                /\ \A x, y, z \in s : <<x, y>> \in R /\ <<y, z>> \in R => <<x, z>> \in R
FirstOf(s, R, x) == {y \in s : y = x \/ <<y, x>> \in R}
RankIn(s, R, x) == Cardinality(FirstOf(s, R, x))

\* Ranks are numbers up to the size of the set, and grow with the order.
LEMMA RanksGrow ==
  ASSUME NEW s, IsFiniteSet(s), NEW R, Orders(R, s)
  PROVE  /\ Cardinality(s) \in Nat
         /\ \A x \in s : RankIn(s, R, x) \in 1..Cardinality(s)
         /\ \A x, y \in s : <<x, y>> \in R => RankIn(s, R, x) < RankIn(s, R, y)
         /\ \A x, y \in s : RankIn(s, R, x) = RankIn(s, R, y) => x = y
<1>1. Cardinality(s) \in Nat BY FS_CardinalityType
<1>2. ASSUME NEW x \in s
      PROVE  /\ IsFiniteSet(FirstOf(s, R, x)) /\ x \in FirstOf(s, R, x)
             /\ RankIn(s, R, x) \in Nat /\ RankIn(s, R, x) <= Cardinality(s)
  <2>1. FirstOf(s, R, x) \in SUBSET s /\ x \in FirstOf(s, R, x) BY DEF FirstOf
  <2> QED BY <2>1, FS_Subset, FS_CardinalityType DEF RankIn
<1>3. ASSUME NEW x \in s PROVE RankIn(s, R, x) \in 1..Cardinality(s)
  <2>1. RankIn(s, R, x) # 0 BY <1>2, FS_EmptySet DEF RankIn
  <2> QED BY <1>1, <1>2, <2>1
<1>4. ASSUME NEW x \in s, NEW y \in s, <<x, y>> \in R PROVE RankIn(s, R, x) < RankIn(s, R, y)
  <2>1. FirstOf(s, R, x) \in SUBSET FirstOf(s, R, y) BY <1>4 DEF FirstOf, Orders
  <2>2. y \in FirstOf(s, R, y) /\ y \notin FirstOf(s, R, x) BY <1>4 DEF FirstOf, Orders
  <2>3. RankIn(s, R, x) <= RankIn(s, R, y) /\ RankIn(s, R, x) # RankIn(s, R, y)
    BY <1>2, <2>1, <2>2, FS_Subset DEF RankIn
  <2> QED BY <1>2, <2>3
<1>5. ASSUME NEW x \in s, NEW y \in s, RankIn(s, R, x) = RankIn(s, R, y) PROVE x = y
  <2>1. CASE <<x, y>> \in R BY <1>2, <1>4, <1>5, <2>1
  <2>2. CASE <<y, x>> \in R BY <1>2, <1>4, <1>5, <2>2
  <2> QED BY <2>1, <2>2 DEF Orders
<1> QED BY <1>1, <1>3, <1>4, <1>5

\* A set that is numbered from 1 to n without a number twice, and has n members, has
\* every number.
LEMMA AllNumbered ==
  ASSUME NEW s, IsFiniteSet(s), NEW f \in [s -> 1..Cardinality(s)],
         \A x, y \in s : f[x] = f[y] => x = y,
         NEW n \in 1..Cardinality(s)
  PROVE  \E x \in s : f[x] = n
<1> DEFINE c == Cardinality(s)
           T == 1..c
<1>1. c \in Nat BY FS_CardinalityType
<1> HIDE DEF c
<1>2. IsFiniteSet(T) /\ Cardinality(T) = c BY <1>1, FS_Interval
<1>3. f \in [s -> T] BY DEF c
<1> HIDE DEF T
<1>4. f \in Injection(s, T) BY <1>3 DEF Injection, IsInjective
<1>5. f \in Surjection(s, T) BY <1>2, <1>4, FS_Injection DEF c
<1>6. n \in T BY DEF T, c
<1> QED BY <1>5, <1>6 DEF Surjection

\* A set listed in an order: all its members, each once, the first first.
LEMMA OrderedLists ==
  ASSUME NEW s, IsFiniteSet(s), NEW R, Orders(R, s)
  PROVE  /\ Cardinality(s) \in Nat
         /\ Ordered(s, R) \in [1..Cardinality(s) -> s]
         /\ \A x \in s : \E n \in 1..Cardinality(s) : Ordered(s, R)[n] = x
         /\ \A n \in 1..Cardinality(s) : RankIn(s, R, Ordered(s, R)[n]) = n
<1>1. Cardinality(s) \in Nat BY RanksGrow
<1> DEFINE f == [x \in s |-> RankIn(s, R, x)]
<1>2. f \in [s -> 1..Cardinality(s)] /\ \A x, y \in s : f[x] = f[y] => x = y BY RanksGrow
<1>3. ASSUME NEW n \in 1..Cardinality(s)
      PROVE  Ordered(s, R)[n] \in s /\ RankIn(s, R, Ordered(s, R)[n]) = n
  <2>1. \E x \in s : f[x] = n
    <3> HIDE DEF f
    <3> QED BY <1>2, AllNumbered
  <2>2. Ordered(s, R)[n] = CHOOSE x \in s : RankIn(s, R, x) = n
    BY DEF Ordered, RankIn, FirstOf
  <2> QED BY <2>1, <2>2
<1>4. Ordered(s, R) = [n \in 1..Cardinality(s) |-> Ordered(s, R)[n]]
  <2> DEFINE h == [n \in 1..Cardinality(s) |-> CHOOSE x \in s : RankIn(s, R, x) = n]
  <2>1. Ordered(s, R) = h BY DEF Ordered, RankIn, FirstOf
  <2>2. h = [n \in 1..Cardinality(s) |-> h[n]] OBVIOUS
  <2> HIDE DEF h
  <2> QED BY <2>1, <2>2
<1>5. ASSUME NEW x \in s PROVE \E n \in 1..Cardinality(s) : Ordered(s, R)[n] = x
  <2>1. RankIn(s, R, x) \in 1..Cardinality(s) BY RanksGrow
  <2>2. /\ Ordered(s, R)[RankIn(s, R, x)] \in s
        /\ RankIn(s, R, Ordered(s, R)[RankIn(s, R, x)]) = RankIn(s, R, x)
    BY <1>3, <2>1
  <2>3. Ordered(s, R)[RankIn(s, R, x)] = x BY <2>2, RanksGrow
  <2> QED BY <2>1, <2>3
<1> QED BY <1>1, <1>3, <1>4, <1>5

\* The first k of a set that has as many are k.
LEMMA FirstRanked ==
  ASSUME NEW s, IsFiniteSet(s), NEW R, Orders(R, s), NEW k \in 0..Cardinality(s)
  PROVE  /\ IsFiniteSet({x \in s : RankIn(s, R, x) <= k})
         /\ Cardinality({x \in s : RankIn(s, R, x) <= k}) = k
<1>1. Cardinality(s) \in Nat BY RanksGrow
<1> DEFINE A == {x \in s : RankIn(s, R, x) <= k}
           B == 1..k
           g == [n \in B |-> Ordered(s, R)[n]]
<1>2. IsFiniteSet(B) /\ Cardinality(B) = k BY <1>1, FS_Interval
<1>3. \A n \in B : n \in 1..Cardinality(s) BY <1>1
<1>4. \A n \in B : /\ Ordered(s, R)[n] \in s /\ RankIn(s, R, Ordered(s, R)[n]) = n
                   /\ n <= k
  BY <1>3, OrderedLists
<1>5. g \in [B -> A] BY <1>4
<1>6. \A m, n \in B : g[m] = g[n] => m = n BY <1>4
<1>7. \A x \in A : \E n \in B : g[n] = x
  <2> SUFFICES ASSUME NEW x \in A PROVE \E n \in B : g[n] = x OBVIOUS
  <2>1. PICK n \in 1..Cardinality(s) : Ordered(s, R)[n] = x BY OrderedLists
  <2>2. RankIn(s, R, x) = n BY <2>1, OrderedLists
  <2>3. n \in B BY <1>1, <2>2
  <2> QED BY <2>1, <2>3
<1> HIDE DEF A, B, g
<1>8. g \in Bijection(B, A)
  <2>1. g \in Injection(B, A) BY <1>5, <1>6 DEF Injection, IsInjective
  <2>2. g \in Surjection(B, A) BY <1>5, <1>7 DEF Surjection
  <2> QED BY <2>1, <2>2 DEF Bijection
<1>9. IsFiniteSet(A) /\ Cardinality(A) = k
  BY <1>2, <1>8, FS_Bijection DEF ExistsBijection
<1> QED BY <1>9 DEF A

\* The stable sort of a list of numbers: every place once, the numbers rising.
LEMMA RisingLists ==
  ASSUME NEW n \in Nat, NEW v \in [1..n -> Int]
  PROVE  /\ Rising(v) \in [1..n -> 1..n]
         /\ \A i \in 1..n : \E k \in 1..n : Rising(v)[k] = i
         /\ \A k, m \in 1..n : Rising(v)[k] = Rising(v)[m] => k = m
         /\ \A k, m \in 1..n : k <= m => v[Rising(v)[k]] <= v[Rising(v)[m]]
<1> DEFINE D == 1..n
           R == {p \in D \X D : \/ v[p[1]] < v[p[2]]
                                \/ v[p[1]] = v[p[2]] /\ p[1] < p[2]}
           o == Rising(v)
<1>1. DOMAIN v = D /\ \A i \in D : v[i] \in Int /\ i \in Int OBVIOUS
<1>2. o = Ordered(D, R) BY <1>1 DEF Rising
<1>3. IsFiniteSet(D) /\ Cardinality(D) = n
  <2>1. 1 \in Int /\ n \in Int OBVIOUS
  <2> QED BY <2>1, FS_Interval
<1>4. \A x, y \in D : <<x, y>> \in R <=> v[x] < v[y] \/ (v[x] = v[y] /\ x < y) OBVIOUS
<1> HIDE DEF R, D, o
<1>5. Orders(R, D)
  <2>1. \A x, y \in D : x # y => <<x, y>> \in R \/ <<y, x>> \in R BY <1>1, <1>4
  <2>2. \A x \in D : <<x, x>> \notin R BY <1>1, <1>4
  <2>3. \A x, y, z \in D : <<x, y>> \in R /\ <<y, z>> \in R => <<x, z>> \in R BY <1>1, <1>4
  <2> QED BY <2>1, <2>2, <2>3 DEF Orders
<1>6. /\ o \in [1..n -> D] /\ \A x \in D : \E k \in 1..n : o[k] = x
      /\ \A k \in 1..n : RankIn(D, R, o[k]) = k
  BY <1>2, <1>3, <1>5, OrderedLists
<1>7. ASSUME NEW k \in 1..n, NEW m \in 1..n, k <= m PROVE v[o[k]] <= v[o[m]]
  <2>1. o[k] \in D /\ o[m] \in D BY <1>6
  <2>2. <<o[m], o[k]>> \notin R
    <3> SUFFICES ASSUME <<o[m], o[k]>> \in R PROVE FALSE OBVIOUS
    <3>1. RankIn(D, R, o[m]) < RankIn(D, R, o[k]) BY <1>3, <1>5, <2>1, RanksGrow
    <3>2. m < k BY <1>6, <3>1
    <3> QED BY <1>7, <3>2
  <2> QED BY <1>1, <1>4, <2>1, <2>2
<1>8. \A k, m \in 1..n : o[k] = o[m] => k = m BY <1>6
<1> QED BY <1>6, <1>7, <1>8 DEF D, o

\* A number that more places have than lie before or behind the k-th smallest is the
\* k-th smallest.
LEMMA MostIsMiddle ==
  ASSUME NEW n \in Nat, NEW v \in [1..n -> Int], NEW x \in Int,
         NEW M \in SUBSET (1..n), \A i \in M : v[i] = x,
         NEW k \in 1..n, k <= Cardinality(M), n - k < Cardinality(M)
  PROVE  v[Rising(v)[k]] = x
<1> DEFINE r == Rising(v)
           Q == {m \in 1..n : r[m] \in M}
           f == [m \in Q |-> r[m]]
<1>1. /\ r \in [1..n -> 1..n] /\ \A i \in 1..n : \E m \in 1..n : r[m] = i
      /\ \A l, m \in 1..n : l <= m => v[r[l]] <= v[r[m]]
  BY RisingLists
<1> HIDE DEF r
<1>2. IsFiniteSet(1..n) /\ Cardinality(1..n) = n
  <2>1. 1 \in Int /\ n \in Int OBVIOUS
  <2> QED BY <2>1, FS_Interval
<1>3. IsFiniteSet(Q) /\ Cardinality(Q) \in Nat
  <2>1. Q \subseteq 1..n OBVIOUS
  <2> HIDE DEF Q
  <2> QED BY <1>2, <2>1, FS_Subset, FS_CardinalityType
<1>4. Cardinality(M) \in Nat /\ Cardinality(M) <= Cardinality(Q)
  <2>1. f \in [Q -> M] BY <1>1
  <2>2. \A i \in M : \E m \in Q : f[m] = i BY <1>1
  <2> HIDE DEF f, Q
  <2>3. f \in Surjection(Q, M) BY <2>1, <2>2 DEF Surjection
  <2> QED BY <1>3, <2>3, FS_Surjection, FS_CardinalityType
<1>5. \A m \in Q : m \in 1..n /\ v[r[m]] = x OBVIOUS
<1>6. v[r[k]] \in Int BY <1>1
<1> HIDE DEF Q, f
<1>7. ~(v[r[k]] < x)
  <2> SUFFICES ASSUME v[r[k]] < x PROVE FALSE OBVIOUS
  <2>1. ASSUME NEW m \in Q PROVE m \in (k + 1)..n
    <3>1. m \in 1..n /\ v[r[m]] = x BY <1>5
    <3>2. ~(m <= k)
      <4> SUFFICES ASSUME m <= k PROVE FALSE OBVIOUS
      <4>1. v[r[m]] <= v[r[k]] BY <1>1, <3>1
      <4> QED BY <1>6, <3>1, <4>1
    <3> QED BY <3>1, <3>2
  <2>2. IsFiniteSet((k + 1)..n) /\ Cardinality((k + 1)..n) = n - k
    <3> DEFINE a == k + 1
    <3>1. a \in Int /\ n \in Int /\ a <= n + 1 OBVIOUS
    <3>2. n - a + 1 = n - k OBVIOUS
    <3> HIDE DEF a
    <3>3. IsFiniteSet(a..n) /\ Cardinality(a..n) = IF a > n THEN 0 ELSE n - a + 1
      BY <3>1, FS_Interval
    <3>4. a > n => n - k = 0 BY <3>1 DEF a
    <3> QED BY <3>2, <3>3, <3>4 DEF a
  <2>3. Cardinality(Q) <= n - k
    <3>1. Q \subseteq (k + 1)..n BY <2>1
    <3> DEFINE I == (k + 1)..n
    <3> HIDE DEF I
    <3>2. IsFiniteSet(I) /\ Cardinality(I) = n - k /\ Q \subseteq I BY <2>2, <3>1 DEF I
    <3> QED BY <3>2, FS_Subset
  <2> QED BY <1>3, <1>4, <2>3
<1>8. ~(v[r[k]] > x)
  <2> SUFFICES ASSUME v[r[k]] > x PROVE FALSE OBVIOUS
  <2>1. ASSUME NEW m \in Q PROVE m \in 1..(k - 1)
    <3>1. m \in 1..n /\ v[r[m]] = x BY <1>5
    <3>2. ~(k <= m)
      <4> SUFFICES ASSUME k <= m PROVE FALSE OBVIOUS
      <4>1. v[r[k]] <= v[r[m]] BY <1>1, <3>1
      <4> QED BY <1>6, <3>1, <4>1
    <3> QED BY <3>1, <3>2
  <2>2. IsFiniteSet(1..(k - 1)) /\ Cardinality(1..(k - 1)) = k - 1
    <3> DEFINE b == k - 1
    <3>1. 1 \in Int /\ b \in Int /\ b \in Nat OBVIOUS
    <3> HIDE DEF b
    <3>2. IsFiniteSet(1..b) /\ Cardinality(1..b) = IF 1 > b THEN 0 ELSE b - 1 + 1
      BY <3>1, FS_Interval
    <3>3. Cardinality(1..b) = b BY <3>1, <3>2
    <3> QED BY <3>2, <3>3 DEF b
  <2>3. Cardinality(Q) <= k - 1
    <3> DEFINE I == 1..(k - 1)
    <3> HIDE DEF I
    <3>2. IsFiniteSet(I) /\ Cardinality(I) = k - 1 /\ Q \subseteq I BY <2>1, <2>2 DEF I
    <3> QED BY <3>2, FS_Subset
  <2> QED BY <1>3, <1>4, <2>3
<1> QED BY <1>6, <1>7, <1>8 DEF r

\* Of those with fewer than c before them there are at most c.
LEMMA FewBefore ==
  ASSUME NEW S \in SUBSET Nat, IsFiniteSet(S), NEW c \in Nat
  PROVE  /\ Cardinality({k \in S : Cardinality({j \in S : j < k}) < c}) \in Nat
         /\ Cardinality({k \in S : Cardinality({j \in S : j < k}) < c}) <= c
<1> DEFINE A == {k \in S : Cardinality({j \in S : j < k}) < c}
           E(k) == {j \in S : j < k}
<1>1. IsFiniteSet(A) /\ A \in SUBSET S
  <2>1. A \in SUBSET S OBVIOUS
  <2> HIDE DEF A
  <2> QED BY <2>1, FS_Subset
<1>2. Cardinality(A) \in Nat BY <1>1, FS_CardinalityType
<1>3. CASE A = {}
  <2>1. Cardinality(A) = 0 BY <1>3, FS_EmptySet
  <2> HIDE DEF A
  <2>2. Cardinality(A) \in Nat /\ Cardinality(A) <= c BY <2>1
  <2> QED BY <2>2 DEF A
<1>4. CASE A # {}
  <2>1. PICK m \in A : \A n \in A : n <= m
    <3>1. \A n \in A : n \in Nat BY <1>1
    <3> HIDE DEF A
    <3> QED BY <1>1, <1>4, <3>1, GreatestNumber
  <2>2. IsFiniteSet(E(m)) /\ Cardinality(E(m)) \in Nat
    <3>1. E(m) \in SUBSET S OBVIOUS
    <3> HIDE DEF E
    <3> QED BY <3>1, FS_Subset, FS_CardinalityType
  <2>3. Cardinality(E(m)) < c OBVIOUS
  <2>4. A \in SUBSET (E(m) \cup {m})
    <3> SUFFICES ASSUME NEW n \in A PROVE n \in E(m) \/ n = m OBVIOUS
    <3>1. n \in S /\ n \in Nat /\ m \in Nat /\ n <= m BY <1>1, <2>1
    <3> QED BY <3>1
  <2> HIDE DEF E, A
  <2> DEFINE e == E(m)
             M == e \cup {m}
  <2> HIDE DEF e
  <2>5. IsFiniteSet(M) /\ Cardinality(M) \in {Cardinality(e), Cardinality(e) + 1}
    BY <2>2, FS_AddElement DEF e
  <2> HIDE DEF M
  <2>6. Cardinality(A) <= Cardinality(M) BY <2>4, <2>5, FS_Subset DEF M, e
  <2>7. Cardinality(e) \in Nat /\ Cardinality(e) < c BY <2>2, <2>3 DEF e
  <2>8. Cardinality(A) <= c BY <1>2, <2>5, <2>6, <2>7
  <2> QED BY <1>2, <2>8 DEF A
<1> QED BY <1>3, <1>4

\* Pairs are counted by their first members.
LEMMA CountPairs ==
  ASSUME NEW D, IsFiniteSet(D), NEW K, IsFiniteSet(K), K \subseteq D \X Nat, NEW h,
         \A j \in D : h[j] = Cardinality({n \in Nat : <<j, n>> \in K})
  PROVE  Cardinality(K) \in Nat /\ Cardinality(K) = SumFunctionOnSet(h, D)
<1> DEFINE one == [p \in K |-> 1]
           group == [p \in K |-> p[1]]
<1>1. /\ \A p \in K : one[p] = 1 /\ one[p] \in Int /\ group[p] = p[1]
      /\ \A p \in K : p[1] \in D /\ p[2] \in Nat /\ p = <<p[1], p[2]>>
  OBVIOUS
<1>2. MembersOf(K, group, D) = K BY <1>1 DEF MembersOf
<1> HIDE DEF one, group
<1>3. ASSUME NEW j \in D
      PROVE  h[j] \in Int /\ SumFunctionOnSet(one, Members(K, group, j)) = h[j]
  <2> DEFINE M == Members(K, group, j)
             C == {n \in Nat : <<j, n>> \in K}
             f == [p \in M |-> p[2]]
  <2>1. M \subseteq K /\ \A p \in K : p \in M <=> p[1] = j BY <1>1 DEF Members
  <2>2. IsFiniteSet(M) BY <2>1, FS_Subset
  <2>3. \A p \in M : p = <<j, p[2]>> /\ p[2] \in C /\ f[p] = p[2] BY <1>1, <2>1
  <2>4. \A n \in C : <<j, n>> \in M /\ f[<<j, n>>] = n BY <2>1
  <2>5. f \in [M -> C] BY <2>3
  <2> HIDE DEF M, C, f
  <2>6. f \in Bijection(M, C)
    <3>1. \A p, q \in M : f[p] = f[q] => p = q BY <2>3
    <3>2. f \in Injection(M, C) BY <2>5, <3>1 DEF Injection, IsInjective
    <3>3. f \in Surjection(M, C) BY <2>4, <2>5 DEF Surjection
    <3> QED BY <3>2, <3>3 DEF Bijection
  <2>7. Cardinality(C) = Cardinality(M) BY <2>2, <2>6, FS_Bijection DEF ExistsBijection
  <2>8. \A p \in M : one[p] = 1 BY <1>1, <2>1
  <2>9. Cardinality(M) \in Nat /\ SumFunctionOnSet(one, M) = 1 * Cardinality(M)
    BY <2>2, <2>8, SumAlike
  <2>10. h[j] = Cardinality(C) BY DEF C
  <2> QED BY <2>7, <2>9, <2>10 DEF M
<1>4. SumFunctionOnSet(one, MembersOf(K, group, D)) = SumFunctionOnSet(h, D)
  BY <1>1, <1>3, SumGroups
<1>5. Cardinality(K) \in Nat /\ SumFunctionOnSet(one, K) = 1 * Cardinality(K)
  <2>1. \A p \in K : one[p] = 1 BY <1>1
  <2> QED BY <2>1, SumAlike
<1> QED BY <1>2, <1>4, <1>5

\* Numbers from one on of which none is left out are counted by the last.
LEMMA PrefixIsInterval ==
  ASSUME NEW n \in Nat, NEW S \in SUBSET (1..n), \A k \in S, m \in 1..n : m <= k => m \in S
  PROVE  Cardinality(S) \in Nat /\ S = 1..Cardinality(S)
<1>1. IsFiniteSet(S) /\ S \in SUBSET Nat
  <2>1. IsFiniteSet(1..n) BY FS_Interval
  <2>2. S \in SUBSET Nat OBVIOUS
  <2>3. S \in SUBSET (1..n) OBVIOUS
  <2>4. IsFiniteSet(S) BY <2>1, <2>3, FS_Subset
  <2> QED BY <2>2, <2>4
<1>2. CASE S = {} BY <1>2, FS_EmptySet
<1>3. CASE S # {}
  <2>1. PICK g \in S : \A k \in S : k <= g BY <1>1, <1>3, GreatestNumber
  <2>2. g \in 1..n OBVIOUS
  <2>3. S = 1..g
    <3>1. \A k \in S : k \in 1..g BY <2>1, <2>2
    <3>2. \A k \in 1..g : k \in S
      <4>1. \A k \in 1..g : k \in 1..n /\ k <= g BY <2>2
      <4> QED BY <4>1
    <3> QED BY <3>1, <3>2
  <2>4. Cardinality(1..g) = g
    <3>1. 1 \in Int /\ g \in Int /\ ~(1 > g) /\ g - 1 + 1 = g BY <2>2
    <3> QED BY <3>1, FS_Interval
  <2> QED BY <2>2, <2>3, <2>4
<1> QED BY <1>2, <1>3

(***************************************************************************)
(* Functions defined by recursion on the numbers up to N.                  *)
(***************************************************************************)
Iterates(g, a, F, N) == g = [i \in 0..N |-> IF i = 0 THEN a ELSE F[<<i, g[i - 1]>>]]

\* There is such a function, and its values have the type of the steps.
LEMMA IteratesExist ==
  ASSUME NEW S, NEW a \in S, NEW N \in Nat, NEW F,
         \A i \in 1..N, x \in S : F[<<i, x>>] \in S
  PROVE  \E g \in [0..N -> S] : Iterates(g, a, F, N)
<1> DEFINE P == {n \in 0..N : ~ \E g \in [0..n -> S] : Iterates(g, a, F, n)}
<1> SUFFICES ASSUME P # {} PROVE FALSE OBVIOUS
<1>1. PICK n \in P : \A m \in P : n <= m
  <2>1. P \in SUBSET Nat OBVIOUS
  <2> HIDE DEF P
  <2> QED BY <2>1, LeastNumber
<1>2. n # 0
  <2>1. [i \in 0..0 |-> a] \in [0..0 -> S] OBVIOUS
  <2>2. Iterates([i \in 0..0 |-> a], a, F, 0) BY DEF Iterates
  <2> QED BY <1>1, <2>1, <2>2
<1>3. n - 1 \in 0..N /\ n - 1 \notin P BY <1>1, <1>2
<1>4. PICK h \in [0..(n - 1) -> S] : Iterates(h, a, F, n - 1) BY <1>3
<1> DEFINE g == [i \in 0..n |-> IF i = n THEN F[<<n, h[n - 1]>>] ELSE h[i]]
<1>5. g \in [0..n -> S]
  <2>1. n \in 1..N /\ h[n - 1] \in S BY <1>2, <1>3, <1>4
  <2>2. \A i \in 0..n : i # n => i \in 0..(n - 1) OBVIOUS
  <2> QED BY <1>4, <2>1, <2>2
<1>6. ASSUME NEW i \in 0..n PROVE g[i] = IF i = 0 THEN a ELSE F[<<i, g[i - 1]>>]
  <2>1. CASE i = n
    <3>1. g[i] = F[<<n, h[n - 1]>>] BY <2>1
    <3>2. n - 1 \in 0..n /\ n - 1 # n BY <1>2
    <3>3. g[n - 1] = h[n - 1] BY <3>2
    <3> QED BY <1>2, <2>1, <3>1, <3>3
  <2>2. CASE i # n
    <3>1. i \in 0..(n - 1) /\ g[i] = h[i] BY <2>2
    <3>2. h[i] = IF i = 0 THEN a ELSE F[<<i, h[i - 1]>>] BY <1>4, <3>1 DEF Iterates
    <3>3. i # 0 => g[i - 1] = h[i - 1] BY <3>1
    <3> HIDE DEF g
    <3> QED BY <3>1, <3>2, <3>3
  <2> QED BY <2>1, <2>2
<1>7. g = [i \in 0..n |-> g[i]] OBVIOUS
<1> HIDE DEF g
<1>8. Iterates(g, a, F, n) BY <1>6, <1>7 DEF Iterates
<1> QED BY <1>1, <1>5, <1>8

(***************************************************************************)
(* Sequences put together and taken apart.                                 *)
(***************************************************************************)
\* What is numbered from one is a sequence.
LEMMA NumberedIsSeq == ASSUME NEW S, NEW n \in Nat, NEW f \in [1..n -> S]
                       PROVE  f \in Seq(S) /\ Len(f) = n
OBVIOUS

\* In two texts together the second follows the first.
LEMMA TextsAreJoined ==
  ASSUME NEW S, NEW a \in Seq(S), NEW b \in Seq(S)
  PROVE  /\ a \o b \in Seq(S) /\ Len(a \o b) = Len(a) + Len(b)
         /\ \A i \in 1..Len(a) + Len(b) :
              (a \o b)[i] = IF i <= Len(a) THEN a[i] ELSE b[i - Len(a)]
OBVIOUS

\* The lines of two texts together are the lines of both.
LEMMA TextsJoin ==
  ASSUME NEW S, NEW a \in Seq(S), NEW b \in Seq(S)
  PROVE  a \o b \in Seq(S) /\ Range(a \o b) = Range(a) \cup Range(b)
<1>1. /\ Len(a) \in Nat /\ Len(b) \in Nat /\ a \o b \in Seq(S)
      /\ Len(a \o b) = Len(a) + Len(b)
      /\ \A i \in 1..Len(a) + Len(b) : (a \o b)[i] = IF i <= Len(a) THEN a[i] ELSE b[i - Len(a)]
  <2>1. Len(a) \in Nat /\ Len(b) \in Nat OBVIOUS
  <2> QED BY <2>1, TextsAreJoined
<1>2. /\ DOMAIN a = 1..Len(a) /\ DOMAIN b = 1..Len(b) /\ DOMAIN (a \o b) = 1..Len(a) + Len(b)
  BY <1>1
<1> DEFINE u == a \o b
           m == Len(a)
           n == Len(b)
<1> HIDE DEF u, m, n
<1>3. /\ m \in Nat /\ n \in Nat /\ DOMAIN a = 1..m /\ DOMAIN b = 1..n /\ DOMAIN u = 1..m + n
      /\ \A i \in 1..m + n : u[i] = IF i <= m THEN a[i] ELSE b[i - m]
  BY <1>1, <1>2 DEF u, m, n
<1>4. \A i \in DOMAIN u : u[i] \in Range(a) \cup Range(b)
  <2> SUFFICES ASSUME NEW i \in 1..m + n PROVE u[i] \in Range(a) \cup Range(b) BY <1>3
  <2>1. CASE i <= m
    <3>1. i \in 1..m /\ u[i] = a[i] BY <1>3, <2>1
    <3> QED BY <1>3, <3>1 DEF Range
  <2>2. CASE i > m
    <3>1. i - m \in 1..n /\ u[i] = b[i - m] BY <1>3, <2>2
    <3> QED BY <1>3, <3>1 DEF Range
  <2> QED BY <1>3, <2>1, <2>2
<1>5. \A i \in DOMAIN a : a[i] \in Range(u)
  <2> SUFFICES ASSUME NEW i \in 1..m PROVE a[i] \in Range(u) BY <1>3
  <2>1. i \in 1..m + n /\ u[i] = a[i] BY <1>3
  <2> QED BY <1>3, <2>1 DEF Range
<1>6. \A i \in DOMAIN b : b[i] \in Range(u)
  <2> SUFFICES ASSUME NEW i \in 1..n PROVE b[i] \in Range(u) BY <1>3
  <2>1. i + m \in 1..m + n /\ ~(i + m <= m) /\ (i + m) - m = i BY <1>3
  <2>2. u[i + m] = b[i] BY <1>3, <2>1
  <2> QED BY <1>3, <2>1, <2>2 DEF Range
<1>7. Range(u) = Range(a) \cup Range(b)
  <2>1. Range(u) \subseteq Range(a) \cup Range(b) BY <1>4 DEF Range
  <2>2. Range(a) \subseteq Range(u) BY <1>5 DEF Range
  <2>3. Range(b) \subseteq Range(u) BY <1>6 DEF Range
  <2> QED BY <2>1, <2>2, <2>3
<1> QED BY <1>1, <1>7 DEF u

Joins(g, ss) ==
  g = [i \in 1..Len(ss) |-> IF i = 1 THEN ss[i] ELSE g[i - 1] \o ss[i]]

\* FlattenSeq is what such a function comes to.
LEMMA FlattenJoins ==
  ASSUME NEW S, NEW ss \in Seq(Seq(S)), ss # <<>>
  PROVE  \E g : Joins(g, ss) /\ FlattenSeq(ss) = g[Len(ss)]
<1> DEFINE N == Len(ss)
           F == [p \in (1..N) \X Seq(S) |-> p[2] \o ss[p[1]]]
<1>1. N \in Nat /\ N # 0 /\ \A i \in 1..N : ss[i] \in Seq(S) OBVIOUS
<1>2. \A i \in 1..N, x \in Seq(S) : F[<<i, x>>] = x \o ss[i] /\ F[<<i, x>>] \in Seq(S)
  <2> SUFFICES ASSUME NEW i \in 1..N, NEW x \in Seq(S)
               PROVE  F[<<i, x>>] = x \o ss[i] /\ F[<<i, x>>] \in Seq(S)
    OBVIOUS
  <2>1. F[<<i, x>>] = x \o ss[i] OBVIOUS
  <2>2. ss[i] \in Seq(S) BY <1>1
  <2>3. x \o ss[i] \in Seq(S) BY <2>2, TextsJoin
  <2> QED BY <2>1, <2>3
<1>3. \E g \in [0..N -> Seq(S)] : Iterates(g, <<>>, F, N)
  <2>1. <<>> \in Seq(S) OBVIOUS
  <2> HIDE DEF F, N
  <2> QED BY <1>1, <1>2, <2>1, IteratesExist
<1>4. PICK g \in [0..N -> Seq(S)] : Iterates(g, <<>>, F, N) BY <1>3
<1> DEFINE h == [i \in 1..N |-> g[i]]
<1>5. \A i \in 1..N : h[i] = IF i = 1 THEN ss[i] ELSE h[i - 1] \o ss[i]
  <2> SUFFICES ASSUME NEW i \in 1..N PROVE h[i] = IF i = 1 THEN ss[i] ELSE h[i - 1] \o ss[i]
    OBVIOUS
  <2>1. i \in 0..N /\ i # 0 /\ i - 1 \in 0..N /\ (i # 1 => i - 1 \in 1..N) BY <1>1
  <2>2. g[i] = F[<<i, g[i - 1]>>] BY <1>4, <2>1 DEF Iterates
  <2>3. g[i - 1] \in Seq(S) BY <2>1
  <2>4. g[i] = g[i - 1] \o ss[i] BY <1>2, <2>2, <2>3
  <2>5. CASE i = 1
    <3>1. g[0] = <<>> BY <1>4, <2>1 DEF Iterates
    <3>2. i - 1 = 0 BY <2>5
    <3>3. g[i] = <<>> \o ss[i] BY <2>4, <3>1, <3>2
    <3>4. ss[i] \in Seq(S) BY <1>1
    <3>5. <<>> \o ss[i] = ss[i]
      <4> DEFINE a == ss[i]
      <4> HIDE DEF a
      <4>1. a \in Seq(S) => <<>> \o a = a OBVIOUS
      <4> QED BY <3>4, <4>1 DEF a
    <3> QED BY <2>5, <3>3, <3>5
  <2>6. CASE i # 1 BY <2>1, <2>4, <2>6
  <2> QED BY <2>5, <2>6
<1>6. Joins(h, ss)
  <2>1. h = [i \in 1..N |-> h[i]] OBVIOUS
  <2> HIDE DEF h
  <2> QED BY <1>5, <2>1 DEF Joins
<1>7. FlattenSeq(ss) = (CHOOSE k : Joins(k, ss))[N]
  BY <1>1 DEF FlattenSeq, Joins
<1>8. Joins(CHOOSE k : Joins(k, ss), ss)
  <2> HIDE DEF h
  <2> QED BY <1>6
<1> QED BY <1>7, <1>8

\* A joined text is a text of the lines of all of its parts.
LEMMA FlattenIsAll ==
  ASSUME NEW S, NEW ss \in Seq(Seq(S)), ss # <<>>
  PROVE  /\ FlattenSeq(ss) \in Seq(S)
         /\ Range(FlattenSeq(ss)) = UNION {Range(ss[i]) : i \in DOMAIN ss}
<1> DEFINE N == Len(ss)
<1>1. N \in Nat /\ N # 0 /\ DOMAIN ss = 1..N /\ \A i \in 1..N : ss[i] \in Seq(S) OBVIOUS
<1>2. PICK g : Joins(g, ss) /\ FlattenSeq(ss) = g[Len(ss)] BY FlattenJoins
<1>3. \A i \in 1..N : g[i] = IF i = 1 THEN ss[i] ELSE g[i - 1] \o ss[i] BY <1>2 DEF Joins
<1> DEFINE Upto(n) == UNION {Range(ss[i]) : i \in 1..n}
           P == {n \in 1..N : ~(g[n] \in Seq(S) /\ Range(g[n]) = Upto(n))}
<1>4. P = {}
  <2> SUFFICES ASSUME P # {} PROVE FALSE OBVIOUS
  <2>1. PICK n \in P : \A m \in P : n <= m
    <3>1. P \in SUBSET Nat OBVIOUS
    <3> HIDE DEF P
    <3> QED BY <3>1, LeastNumber
  <2>2. n \in 1..N /\ ss[n] \in Seq(S) BY <1>1
  <2>3. CASE n = 1
    <3>1. g[n] = ss[1] BY <1>3, <2>2, <2>3
    <3>2. Upto(1) = Range(ss[1]) OBVIOUS
    <3> QED BY <2>2, <2>3, <3>1, <3>2
  <2>4. CASE n # 1
    <3>0. n - 1 \in 1..N /\ ~(n <= n - 1) BY <1>1, <2>2, <2>4
    <3>1. n - 1 \in 1..N /\ n - 1 \notin P
      <4> HIDE DEF P
      <4> QED BY <2>1, <3>0
    <3>2. g[n - 1] \in Seq(S) /\ Range(g[n - 1]) = Upto(n - 1) BY <3>1
    <3>3. g[n] = g[n - 1] \o ss[n] BY <1>3, <2>2, <2>4
    <3>4. g[n] \in Seq(S) /\ Range(g[n]) = Range(g[n - 1]) \cup Range(ss[n])
      BY <2>2, <3>2, <3>3, TextsJoin
    <3>5. Upto(n) = Upto(n - 1) \cup Range(ss[n])
      <4>1. \A i \in Nat : i \in 1..n <=> i \in 1..(n - 1) \/ i = n BY <2>2
      <4>2. 1..n = (1..(n - 1)) \cup {n} BY <2>2
      <4> QED BY <4>2
    <3> QED BY <3>2, <3>4, <3>5
  <2> QED BY <2>3, <2>4
<1>5. N \in 1..N /\ N \notin P
  <2>1. N \in 1..N BY <1>1
  <2> HIDE DEF P
  <2> QED BY <1>4, <2>1
<1>6. g[N] \in Seq(S) /\ Range(g[N]) = Upto(N) BY <1>5
<1> QED BY <1>1, <1>2, <1>6

\* A chunk begins inside the text, and where the one before it ends.
LEMMA ChunkBounds ==
  ASSUME NEW L \in Nat \ {0}, NEW n \in Nat \ {0}, NEW m, m = (L + n - 1) \div n
  PROVE  /\ m \in Nat \ {0} /\ L <= m * n
         /\ \A k \in 1..m : (k - 1) * n \in Nat /\ (k - 1) * n < L /\ k * n \in Nat
         /\ \A i \in 1..L : \E k \in 1..m : (k - 1) * n < i /\ i <= k * n
         /\ m = 1 => L <= n
         /\ m > 1 => n < L
<1>1. m \in Nat /\ m * n <= L + n - 1 /\ L + n - 1 < m * n + n OBVIOUS
<1>2. m # 0
  <2>1. m = 0 => m * n = 0 OBVIOUS
  <2> QED BY <1>1, <2>1
<1>3. L <= m * n BY <1>1
<1>4. ASSUME NEW k \in 1..m PROVE (k - 1) * n \in Nat /\ (k - 1) * n < L /\ k * n \in Nat
  <2>1. k - 1 \in Nat /\ k \in Nat /\ m - k \in Nat BY <1>1
  <2>2. (k - 1) * n \in Nat /\ k * n \in Nat /\ (m - k) * n \in Nat /\ m * n \in Nat
    BY <1>1, <2>1
  <2>3. (k - 1) * n = k * n - n BY <2>1
  <2>4. k * n + (m - k) * n = m * n BY <1>1, <2>1
  <2>5. n \in Nat /\ L \in Nat OBVIOUS
  <2> QED BY <1>1, <2>2, <2>3, <2>4, <2>5
<1>5. ASSUME NEW i \in 1..L PROVE \E k \in 1..m : (k - 1) * n < i /\ i <= k * n
  <2> DEFINE q == (i - 1) \div n
  <2>1. q \in Nat /\ q * n <= i - 1 /\ i - 1 < q * n + n OBVIOUS
  <2> HIDE DEF q
  <2>2. (q + 1) * n = q * n + n /\ q * n \in Nat BY <2>1
  <2>3. q + 1 <= m
    <3> SUFFICES ASSUME q + 1 > m PROVE FALSE BY <1>1, <2>1
    <3>1. q - m \in Nat BY <1>1, <2>1
    <3>2. (q - m) * n \in Nat /\ m * n \in Nat BY <1>1, <3>1
    <3>3. m * n + (q - m) * n = q * n BY <1>1, <2>1
    <3>4. i <= L /\ i \in Nat OBVIOUS
    <3> QED BY <1>3, <2>1, <2>2, <3>2, <3>3, <3>4
  <2>4. q + 1 \in 1..m /\ (q + 1) - 1 = q BY <1>1, <2>1, <2>3
  <2>5. q * n < i /\ i <= (q + 1) * n BY <2>1, <2>2
  <2> QED BY <2>4, <2>5
<1>6. m = 1 => L <= n BY <1>3
<1>7. m > 1 => n < L
  <2> SUFFICES ASSUME m > 1 PROVE n < L OBVIOUS
  <2>1. 2 \in 1..m BY <1>1
  <2>2. (2 - 1) * n < L BY <1>4, <2>1
  <2> QED BY <2>2
<1> QED BY <1>1, <1>2, <1>3, <1>4, <1>5, <1>6, <1>7
=============================================================================
