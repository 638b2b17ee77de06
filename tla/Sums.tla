-------------------------------- MODULE Sums --------------------------------
(***************************************************************************)
(* Sums over finite sets, as MapThenSumSet computes them: what it adds up  *)
(* in some order is what mathematics means by a sum.  The function that    *)
(* MapThenSumSet defines by recursion is shown to exist, and the laws are  *)
(* shown by induction.  The induction theorems of the library speak of     *)
(* operators; here the statement is the set of its instances, and the      *)
(* principle follows from the well-founded order of the naturals.          *)
(***************************************************************************)
EXTENDS Integers, FiniteSetsExt, Functions, TLAPS, FiniteSetTheorems, WellFoundedInduction

-----------------------------------------------------------------------------
(* Induction *)

LEMMA Least ==
  ASSUME NEW T \in SUBSET Nat, T # {}
  PROVE  \E n \in T : \A m \in T : n <= m
<1> DEFINE R == {ss \in Nat \X Nat : ss[1] < ss[2]}
<1>1. IsWellFoundedOn(R, Nat)
  BY NatLessThanWellFounded DEF OpToRel
<1> HIDE DEF R
<1>2. PICK n \in T : \A m \in T : <<m, n>> \notin R
  BY <1>1, WFMin
<1>3. \A m \in T : ~(m < n)
  BY <1>2 DEF R
<1> QED
  BY <1>3

LEMMA Induction ==
  ASSUME NEW T, 0 \in T, \A n \in Nat : n \in T => n + 1 \in T
  PROVE  Nat \subseteq T
<1> DEFINE F == Nat \ T
<1> SUFFICES ASSUME F # {} PROVE FALSE
  OBVIOUS
<1>1. PICK n \in F : \A m \in F : n <= m
  BY Least
<1>2. n - 1 \in Nat /\ n - 1 \notin F
  BY <1>1
<1> QED
  BY <1>2

(* What is true of the empty set, and of a set with one element more, is   *)
(* true of every finite set.                                               *)
LEMMA SetInduction ==
  ASSUME NEW S, IsFiniteSet(S), NEW F, {} \in F,
         \A T \in SUBSET S : \A x \in S \ T : T \in F => T \cup {x} \in F
  PROVE  S \in F
<1> DEFINE Ns == {n \in Nat : \A T \in SUBSET S : Cardinality(T) = n => T \in F}
<1>1. \A T \in SUBSET S : IsFiniteSet(T) /\ Cardinality(T) \in Nat
  BY FS_Subset, FS_CardinalityType
<1>2. 0 \in Ns
  BY <1>1, FS_EmptySet
<1>3. ASSUME NEW n \in Nat, n \in Ns PROVE n + 1 \in Ns
  <2> SUFFICES ASSUME NEW T \in SUBSET S, Cardinality(T) = n + 1 PROVE T \in F
    OBVIOUS
  <2>1. IsFiniteSet(T) /\ T # {}
    BY <1>1, FS_EmptySet
  <2>2. PICK x \in T : TRUE
    BY <2>1
  <2> DEFINE U == T \ {x}
  <2>3. Cardinality(U) = n
    <3>1. Cardinality(U) = Cardinality(T) - 1
      BY <2>1, FS_RemoveElement
    <3> QED
      BY <3>1
  <2>4. U \in SUBSET S /\ x \in S \ U /\ T = U \cup {x}
    OBVIOUS
  <2> HIDE DEF U
  <2>5. U \in F
    BY <1>3, <2>3, <2>4
  <2> QED
    BY <2>4, <2>5
<1> HIDE DEF Ns
<1>4. Nat \subseteq Ns
  BY <1>2, <1>3, Induction
<1> QED
  BY <1>1, <1>4 DEF Ns

-----------------------------------------------------------------------------
(* The recursion *)

Sum(f, S) == MapThenSumSet(LAMBDA x : f[x], S)

AnyOf(s)     == CHOOSE x \in s : TRUE
Remaining(s) == s \ {AnyOf(s)}
FoldOn(D, f, it) == [s \in D |-> IF s = {} THEN 0 ELSE f[AnyOf(s)] + it[Remaining(s)]]
IsFold(it, f, S) == it = FoldOn(SUBSET S, f, it)

LEMMA SumIsFold ==
  ASSUME NEW f, NEW S
  PROVE  Sum(f, S) = (CHOOSE it : IsFold(it, f, S))[S]
BY DEF Sum, MapThenSumSet, MapThenFoldSet, IsFold, FoldOn, AnyOf, Remaining

LEMMA Picked ==
  ASSUME NEW s, s # {}
  PROVE  AnyOf(s) \in s
BY DEF AnyOf

LEMMA FoldExists ==
  ASSUME NEW f, NEW S, IsFiniteSet(S)
  PROVE  \E it : IsFold(it, f, S)
<1> DEFINE D(n) == {s \in SUBSET S : Cardinality(s) <= n}
           Ns   == {n \in Nat : \E it : it = FoldOn(D(n), f, it)}
<1>1. \A s \in SUBSET S : IsFiniteSet(s) /\ Cardinality(s) \in Nat
  BY FS_Subset, FS_CardinalityType
<1>2. \A s \in SUBSET S : s # {} =>
        Remaining(s) \in SUBSET S /\ Cardinality(Remaining(s)) = Cardinality(s) - 1
  BY <1>1, Picked, FS_RemoveElement DEF Remaining
<1>3. 0 \in Ns
  <2> DEFINE it == [s \in D(0) |-> 0]
  <2>1. \A s \in D(0) : s = {}
    BY <1>1, FS_EmptySet
  <2>2. it = FoldOn(D(0), f, it)
    BY <2>1 DEF FoldOn
  <2> QED
    BY <2>2
<1>4. ASSUME NEW n \in Nat, n \in Ns PROVE n + 1 \in Ns
  <2>1. PICK g : g = FoldOn(D(n), f, g)
    BY <1>4
  <2> DEFINE h == FoldOn(D(n + 1), f, g)
  <2>2. \A s \in D(n + 1) : s # {} => Remaining(s) \in D(n)
    BY <1>1, <1>2
  <2>3. \A s \in D(n) : s \in D(n + 1) /\ h[s] = g[s]
    <3>1. \A s \in D(n) : s \in D(n + 1)
      BY <1>1
    <3>2. \A s \in D(n) : g[s] = IF s = {} THEN 0 ELSE f[AnyOf(s)] + g[Remaining(s)]
      BY <2>1 DEF FoldOn
    <3> QED
      BY <3>1, <3>2 DEF FoldOn
  <2>4. h = FoldOn(D(n + 1), f, h)
    <3>1. \A s \in D(n + 1) : s # {} => h[Remaining(s)] = g[Remaining(s)]
      BY <2>2, <2>3
    <3> HIDE DEF D
    <3> QED
      BY <3>1 DEF FoldOn
  <2> QED
    BY <2>4
<1> HIDE DEF Ns
<1>5. Nat \subseteq Ns
  BY <1>3, <1>4, Induction
<1>6. Cardinality(S) \in Ns
  BY <1>1, <1>5
<1>7. D(Cardinality(S)) = SUBSET S
  BY <1>1, FS_Subset
<1> QED
  BY <1>6, <1>7 DEF Ns, IsFold

(* Folds agree where both are defined.                                     *)
LEMMA FoldUnique ==
  ASSUME NEW f, NEW S, IsFiniteSet(S), NEW T, S \subseteq T,
         NEW g, IsFold(g, f, S), NEW h, IsFold(h, f, T)
  PROVE  g[S] = h[S]
<1> DEFINE Ns == {n \in Nat : \A s \in SUBSET S : Cardinality(s) <= n => g[s] = h[s]}
<1>1. \A s \in SUBSET S : IsFiniteSet(s) /\ Cardinality(s) \in Nat
  BY FS_Subset, FS_CardinalityType
<1>2. \A s \in SUBSET S : s # {} =>
        Remaining(s) \in SUBSET S /\ Cardinality(Remaining(s)) = Cardinality(s) - 1
  BY <1>1, Picked, FS_RemoveElement DEF Remaining
<1>3. /\ \A s \in SUBSET S : g[s] = IF s = {} THEN 0 ELSE f[AnyOf(s)] + g[Remaining(s)]
      /\ \A s \in SUBSET S : h[s] = IF s = {} THEN 0 ELSE f[AnyOf(s)] + h[Remaining(s)]
  BY DEF IsFold, FoldOn
<1>4. 0 \in Ns
  BY <1>1, <1>3, FS_EmptySet
<1>5. ASSUME NEW n \in Nat, n \in Ns PROVE n + 1 \in Ns
  <2> SUFFICES ASSUME NEW s \in SUBSET S, Cardinality(s) <= n + 1 PROVE g[s] = h[s]
    OBVIOUS
  <2>1. s # {} => g[Remaining(s)] = h[Remaining(s)]
    BY <1>1, <1>2, <1>5
  <2> QED
    BY <1>3, <2>1
<1> HIDE DEF Ns
<1>6. Nat \subseteq Ns
  BY <1>4, <1>5, Induction
<1>7. Cardinality(S) \in Ns
  BY <1>1, <1>6
<1> QED
  BY <1>1, <1>7 DEF Ns

LEMMA SumEmpty ==
  ASSUME NEW f
  PROVE  Sum(f, {}) = 0
<1>1. PICK it : IsFold(it, f, {})
  BY FoldExists, FS_EmptySet
<1>2. IsFold(CHOOSE g : IsFold(g, f, {}), f, {})
  BY <1>1
<1> QED
  BY <1>2, SumIsFold DEF IsFold, FoldOn

LEMMA SumStep ==
  ASSUME NEW f, NEW S, IsFiniteSet(S), S # {}
  PROVE  Sum(f, S) = f[AnyOf(S)] + Sum(f, Remaining(S))
<1> DEFINE R == Remaining(S)
           g == CHOOSE it : IsFold(it, f, S)
           h == CHOOSE it : IsFold(it, f, R)
<1>1. IsFiniteSet(R) /\ R \subseteq S
  BY FS_Subset DEF Remaining
<1>2. IsFold(g, f, S) /\ IsFold(h, f, R)
  BY <1>1, FoldExists
<1>3. Sum(f, S) = g[S] /\ Sum(f, R) = h[R]
  BY SumIsFold
<1> HIDE DEF g, h
<1>4. h[R] = g[R]
  BY <1>1, <1>2, FoldUnique
<1> QED
  BY <1>2, <1>3, <1>4 DEF IsFold, FoldOn

-----------------------------------------------------------------------------
(* The laws *)

(* Any element may be taken out first.                                     *)
LEMMA SumRemoves ==
  ASSUME NEW f, NEW S, IsFiniteSet(S), \A x \in S : f[x] \in Int
  PROVE  /\ Sum(f, S) \in Int
         /\ \A x \in S : Sum(f, S) = f[x] + Sum(f, S \ {x})
<1> DEFINE Ok(T) == /\ Sum(f, T) \in Int
                    /\ \A x \in T : Sum(f, T) = f[x] + Sum(f, T \ {x})
           Ns    == {n \in Nat : \A T \in SUBSET S : Cardinality(T) <= n => Ok(T)}
<1>1. \A T \in SUBSET S : IsFiniteSet(T) /\ Cardinality(T) \in Nat
  BY FS_Subset, FS_CardinalityType
<1>2. 0 \in Ns
  BY <1>1, FS_EmptySet, SumEmpty
<1>3. ASSUME NEW n \in Nat, n \in Ns PROVE n + 1 \in Ns
  <2> SUFFICES ASSUME NEW T \in SUBSET S, Cardinality(T) <= n + 1, T # {} PROVE Ok(T)
    BY SumEmpty
  <2> DEFINE a == AnyOf(T)
  <2>1. a \in T
    BY Picked
  <2>2. Sum(f, T) = f[a] + Sum(f, T \ {a})
    BY <1>1, SumStep DEF Remaining
  <2> HIDE DEF a
  <2>3. ASSUME NEW x \in T
        PROVE  T \ {x} \in SUBSET S /\ Cardinality(T \ {x}) <= n
    <3>1. Cardinality(T \ {x}) = Cardinality(T) - 1
      BY <1>1, FS_RemoveElement
    <3> QED
      BY <1>1, <3>1
  <2>4. \A x \in T : Ok(T \ {x})
    BY <1>3, <2>3
  <2>5. ASSUME NEW x \in T, x # a PROVE Sum(f, T) = f[x] + Sum(f, T \ {x})
    <3>1. Sum(f, T \ {a}) = f[x] + Sum(f, (T \ {a}) \ {x})
      BY <2>1, <2>4, <2>5
    <3>2. Sum(f, T \ {x}) = f[a] + Sum(f, (T \ {x}) \ {a})
      BY <2>1, <2>4, <2>5
    <3>3. (T \ {x}) \ {a} = (T \ {a}) \ {x}
      OBVIOUS
    <3>4. Ok((T \ {a}) \ {x})
      <4>1. Cardinality((T \ {a}) \ {x}) <= Cardinality(T \ {a})
        BY <1>1, FS_Subset
      <4>2. Cardinality((T \ {a}) \ {x}) <= n
        BY <1>1, <2>1, <2>3, <4>1
      <4> QED
        BY <1>3, <4>2
    <3> DEFINE v == Sum(f, (T \ {a}) \ {x})
    <3>5. f[a] \in Int /\ f[x] \in Int /\ v \in Int
      BY <2>1, <3>4
    <3>6. Sum(f, T) = f[a] + (f[x] + v) /\ Sum(f, T \ {x}) = f[a] + v
      BY <2>2, <3>1, <3>2, <3>3
    <3> HIDE DEF v
    <3> QED
      BY <3>5, <3>6
  <2>6. Sum(f, T) \in Int
    BY <2>1, <2>2, <2>4
  <2> QED
    BY <2>2, <2>5, <2>6
<1> HIDE DEF Ns
<1>4. Nat \subseteq Ns
  BY <1>2, <1>3, Induction
<1>5. Cardinality(S) \in Ns
  BY <1>1, <1>4
<1> QED
  BY <1>1, <1>5 DEF Ns

LEMMA SumAdds ==
  ASSUME NEW f, NEW S, IsFiniteSet(S), NEW x, x \notin S,
         f[x] \in Int, \A y \in S : f[y] \in Int
  PROVE  Sum(f, S \cup {x}) = Sum(f, S) + f[x]
<1> DEFINE T == S \cup {x}
<1>1. IsFiniteSet(T) /\ (\A y \in T : f[y] \in Int) /\ x \in T /\ T \ {x} = S
  BY FS_AddElement
<1> HIDE DEF T
<1>2. Sum(f, T) = f[x] + Sum(f, S) /\ Sum(f, S) \in Int
  BY <1>1, SumRemoves
<1> QED
  BY <1>2 DEF T

(* The sum of a union of disjoint sets.                                    *)
LEMMA SumUnion ==
  ASSUME NEW f, NEW S, IsFiniteSet(S), NEW T, IsFiniteSet(T), S \cap T = {},
         \A x \in S \cup T : f[x] \in Int
  PROVE  Sum(f, S \cup T) = Sum(f, S) + Sum(f, T)
<1> DEFINE F == {U \in SUBSET T : Sum(f, S \cup U) = Sum(f, S) + Sum(f, U)}
<1>1. {} \in F
  <2>1. S \cup {} = S /\ Sum(f, S) \in Int
    BY SumRemoves
  <2> QED
    BY <2>1, SumEmpty
<1>2. ASSUME NEW U \in SUBSET T, NEW x \in T \ U, U \in F PROVE U \cup {x} \in F
  <2>1. IsFiniteSet(U) /\ IsFiniteSet(S \cup U) /\ x \notin S \cup U
    BY FS_Subset, FS_Union
  <2>2. /\ Sum(f, U \cup {x}) = Sum(f, U) + f[x]
        /\ Sum(f, (S \cup U) \cup {x}) = Sum(f, S \cup U) + f[x]
    BY <2>1, SumAdds
  <2>3. S \cup (U \cup {x}) = (S \cup U) \cup {x}
    OBVIOUS
  <2>4. Sum(f, S) \in Int /\ Sum(f, U) \in Int /\ f[x] \in Int
    BY <2>1, SumRemoves
  <2>5. Sum(f, S \cup U) = Sum(f, S) + Sum(f, U)
    BY <1>2
  <2>6. Sum(f, S \cup (U \cup {x})) = Sum(f, S) + Sum(f, U \cup {x})
    <3>1. Sum(f, S \cup (U \cup {x})) = (Sum(f, S) + Sum(f, U)) + f[x]
      BY <2>2, <2>3, <2>5
    <3>2. Sum(f, U \cup {x}) = Sum(f, U) + f[x]
      BY <2>2
    <3> QED
      BY <2>4, <3>1, <3>2
  <2> QED
    BY <2>6
<1> HIDE DEF F
<1>3. T \in F
  BY <1>1, <1>2, SetInduction
<1> QED
  BY <1>3 DEF F

LEMMA SumDifference ==
  ASSUME NEW f, NEW S, IsFiniteSet(S), NEW T \in SUBSET S, \A x \in S : f[x] \in Int
  PROVE  Sum(f, S \ T) = Sum(f, S) - Sum(f, T)
<1>1. IsFiniteSet(T) /\ IsFiniteSet(S \ T) /\ T \cap (S \ T) = {} /\ T \cup (S \ T) = S
  BY FS_Subset
<1>2. Sum(f, S) = Sum(f, T) + Sum(f, S \ T)
  BY <1>1, SumUnion
<1>3. Sum(f, T) \in Int /\ Sum(f, S \ T) \in Int
  BY <1>1, SumRemoves
<1> QED
  BY <1>2, <1>3

(* The sum of the images under an injection.                               *)
LEMMA SumMapped ==
  ASSUME NEW S, IsFiniteSet(S), NEW e, NEW f, NEW g,
         \A x, y \in S : e[x] = e[y] => x = y,
         \A x \in S : f[x] = g[e[x]] /\ f[x] \in Int
  PROVE  Sum(f, S) = Sum(g, {e[x] : x \in S})
<1> DEFINE Img(U) == {e[x] : x \in U}
           F      == {U \in SUBSET S : IsFiniteSet(Img(U)) /\ Sum(f, U) = Sum(g, Img(U))}
<1>1. {} \in F
  <2>1. Img({}) = {}
    OBVIOUS
  <2> QED
    BY <2>1, SumEmpty, FS_EmptySet
<1>2. ASSUME NEW U \in SUBSET S, NEW x \in S \ U, U \in F PROVE U \cup {x} \in F
  <2>1. IsFiniteSet(U) /\ x \notin U /\ \A y \in U : f[y] \in Int
    BY FS_Subset
  <2>2. Img(U \cup {x}) = Img(U) \cup {e[x]} /\ e[x] \notin Img(U)
    OBVIOUS
  <2>3. g[e[x]] \in Int /\ \A y \in Img(U) : g[y] \in Int
    OBVIOUS
  <2>4. IsFiniteSet(Img(U)) /\ Sum(f, U) = Sum(g, Img(U))
    BY <1>2
  <2> HIDE DEF Img
  <2>5. Sum(f, U \cup {x}) = Sum(f, U) + f[x]
    BY <2>1, SumAdds
  <2>6. Sum(g, Img(U) \cup {e[x]}) = Sum(g, Img(U)) + g[e[x]]
    BY <2>2, <2>3, <2>4, SumAdds
  <2>7. IsFiniteSet(Img(U) \cup {e[x]})
    BY <2>4, FS_AddElement
  <2> QED
    BY <2>2, <2>4, <2>5, <2>6, <2>7
<1> HIDE DEF F
<1>3. S \in F
  BY <1>1, <1>2, SetInduction
<1> QED
  BY <1>3 DEF F

(* In particular, only the values on the set matter.                       *)
LEMMA SumSame ==
  ASSUME NEW S, IsFiniteSet(S), NEW f, NEW g, \A x \in S : f[x] = g[x] /\ f[x] \in Int
  PROVE  Sum(f, S) = Sum(g, S)
<1> DEFINE e == [x \in S |-> x]
<1>1. {e[x] : x \in S} = S
  OBVIOUS
<1>2. (\A x, y \in S : e[x] = e[y] => x = y) /\ \A x \in S : f[x] = g[e[x]] /\ f[x] \in Int
  OBVIOUS
<1> HIDE DEF e
<1>3. Sum(f, S) = Sum(g, {e[x] : x \in S})
  BY <1>2, SumMapped
<1> QED
  BY <1>1, <1>3

LEMMA SumMinus ==
  ASSUME NEW S, IsFiniteSet(S), NEW f, NEW g, NEW h,
         \A x \in S : f[x] \in Int /\ g[x] \in Int /\ h[x] = f[x] - g[x]
  PROVE  Sum(h, S) = Sum(f, S) - Sum(g, S)
<1> DEFINE F == {U \in SUBSET S : Sum(h, U) = Sum(f, U) - Sum(g, U)}
<1>1. {} \in F
  BY SumEmpty
<1>2. ASSUME NEW U \in SUBSET S, NEW x \in S \ U, U \in F PROVE U \cup {x} \in F
  <2>1. IsFiniteSet(U) /\ x \notin U
    BY FS_Subset
  <2>2. \A y \in U \cup {x} : f[y] \in Int /\ g[y] \in Int /\ h[y] \in Int
    OBVIOUS
  <2>3. /\ Sum(f, U \cup {x}) = Sum(f, U) + f[x]
        /\ Sum(g, U \cup {x}) = Sum(g, U) + g[x]
        /\ Sum(h, U \cup {x}) = Sum(h, U) + h[x]
    BY <2>1, <2>2, SumAdds
  <2>4. Sum(f, U) \in Int /\ Sum(g, U) \in Int
    BY <2>1, <2>2, SumRemoves
  <2>5. Sum(h, U) = Sum(f, U) - Sum(g, U) /\ h[x] = f[x] - g[x]
    BY <1>2
  <2> QED
    BY <2>2, <2>3, <2>4, <2>5
<1> HIDE DEF F
<1>3. S \in F
  BY <1>1, <1>2, SetInduction
<1> QED
  BY <1>3 DEF F

LEMMA SumNat ==
  ASSUME NEW S, IsFiniteSet(S), NEW f, \A x \in S : f[x] \in Nat
  PROVE  Sum(f, S) \in Nat
<1> DEFINE F == {U \in SUBSET S : Sum(f, U) \in Nat}
<1>1. {} \in F
  BY SumEmpty
<1>2. ASSUME NEW U \in SUBSET S, NEW x \in S \ U, U \in F PROVE U \cup {x} \in F
  <2>1. IsFiniteSet(U) /\ x \notin U /\ \A y \in U : f[y] \in Int
    BY FS_Subset
  <2>2. Sum(f, U \cup {x}) = Sum(f, U) + f[x]
    BY <2>1, SumAdds
  <2>3. Sum(f, U) \in Nat /\ f[x] \in Nat
    BY <1>2
  <2> QED
    BY <2>2, <2>3
<1> HIDE DEF F
<1>3. S \in F
  BY <1>1, <1>2, SetInduction
<1> QED
  BY <1>3 DEF F

LEMMA SumMonotone ==
  ASSUME NEW S, IsFiniteSet(S), NEW f, \A x \in S : f[x] \in Nat, NEW T \in SUBSET S
  PROVE  Sum(f, T) <= Sum(f, S)
<1>1. IsFiniteSet(T) /\ IsFiniteSet(S \ T)
  BY FS_Subset
<1>2. Sum(f, S \ T) = Sum(f, S) - Sum(f, T)
  BY SumDifference
<1>3. Sum(f, S) \in Nat /\ Sum(f, T) \in Nat /\ Sum(f, S \ T) \in Nat
  BY <1>1, SumNat
<1> QED
  BY <1>2, <1>3

(* A is made of the sets G[k], which are disjoint and worth s[k] each.     *)
Family(K, G, f, s, A) ==
  /\ IsFiniteSet(K) /\ A = UNION {G[k] : k \in K}
  /\ \A k \in K : IsFiniteSet(G[k]) /\ s[k] = Sum(f, G[k]) /\ \A x \in G[k] : f[x] \in Int
  /\ \A j, k \in K : j # k => G[j] \cap G[k] = {}

(* The sum over a family.                                                  *)
LEMMA SumFamily ==
  ASSUME NEW K, NEW G, NEW f, NEW s, NEW A, Family(K, G, f, s, A)
  PROVE  IsFiniteSet(A) /\ Sum(f, A) = Sum(s, K)
<1> USE DEF Family
<1> DEFINE All(U) == UNION {G[k] : k \in U}
           F      == {U \in SUBSET K : IsFiniteSet(All(U)) /\ Sum(f, All(U)) = Sum(s, U)}
<1>1. {} \in F
  <2>1. All({}) = {}
    OBVIOUS
  <2> QED
    BY <2>1, SumEmpty, FS_EmptySet
<1>2. ASSUME NEW U \in SUBSET K, NEW k \in K \ U, U \in F PROVE U \cup {k} \in F
  <2>1. IsFiniteSet(U) /\ k \notin U
    BY FS_Subset
  <2>2. \A j \in U \cup {k} : s[j] \in Int
    BY SumRemoves
  <2>3. All(U \cup {k}) = All(U) \cup G[k] /\ All(U) \cap G[k] = {}
    OBVIOUS
  <2>4. \A x \in All(U) \cup G[k] : f[x] \in Int
    OBVIOUS
  <2>5. IsFiniteSet(All(U)) /\ Sum(f, All(U)) = Sum(s, U)
    BY <1>2
  <2> HIDE DEF All
  <2>6. Sum(f, All(U) \cup G[k]) = Sum(f, All(U)) + Sum(f, G[k])
    BY <2>3, <2>4, <2>5, SumUnion
  <2>7. Sum(s, U \cup {k}) = Sum(s, U) + s[k]
    BY <2>1, <2>2, SumAdds
  <2>8. IsFiniteSet(All(U) \cup G[k])
    BY <2>5, FS_Union
  <2> QED
    BY <2>3, <2>5, <2>6, <2>7, <2>8
<1> HIDE DEF F
<1>3. K \in F
  BY <1>1, <1>2, SetInduction
<1> QED
  BY <1>3 DEF F
=============================================================================
