----------------------------- MODULE DataTheorems ------------------------------
(***************************************************************************)
(* Facts about data that the proofs of several components rest on: sums    *)
(* over finite sets, the elements of a set of numbers by rank, and the two *)
(* indices of a TimedSizedMap.                                             *)
(*                                                                         *)
(* The provers cannot instantiate an induction principle with a predicate. *)
(* Induction is by a least counterexample instead: a nonempty set of       *)
(* numbers has a smallest element (NatMin), so a set of counterexamples    *)
(* has one of smallest size (SmallestSet), and a family of sets that has   *)
(* the empty one and is closed under adding an element has every finite    *)
(* one (FiniteInduction).                                                  *)
(***************************************************************************)
EXTENDS ExpiryIndex, Integers, FiniteSetTheorems, TLAPS

\* A nonempty set of numbers has a smallest one: < is well-founded.
LEMMA NatMin ==
  ASSUME NEW T \in SUBSET Nat, T # {}
  PROVE  \E x \in T : \A y \in T : x <= y
<1> DEFINE R == OpToRel(<, Nat)
<1>1. IsWellFoundedOn(R, Nat)
  BY NatLessThanWellFounded, Zenon
<1>2. \A x, y \in Nat : x < y => <<x, y>> \in R
  BY Zenon DEF OpToRel
<1> HIDE DEF R
<1>3. \E x \in T : \A y \in T : ~ (<<y, x>> \in R)
  BY <1>1, WFMin, Zenon
<1>4. PICK x \in T : \A y \in T : ~ (<<y, x>> \in R)
  BY <1>3, Zenon
<1>5. \A y \in T : y \in Nat /\ x \in Nat
  BY Zenon
<1>6. \A y \in T : ~(y < x)
  BY <1>2, <1>4, <1>5, Zenon
<1>7. \A y \in T : x <= y
  BY <1>5, <1>6
<1> QED BY <1>7, Zenon

\* A set of finite sets has a smallest member
LEMMA SmallestSet ==
  ASSUME NEW F, F # {}, \A s \in F : IsFiniteSet(s)
  PROVE  \E s \in F : \A t \in F : Cardinality(s) <= Cardinality(t)
<1>. DEFINE T == {Cardinality(s) : s \in F}
<1>1. T \in SUBSET Nat /\ T # {}
  BY FS_CardinalityType, Zenon
<1>2. \E x \in T : \A y \in T : x <= y
  <2>. HIDE DEF T
  <2>. QED BY <1>1, NatMin, Zenon
<1>. QED BY <1>2, Zenon

\* The element that the recursion of a sum takes first.
Pick(s) == CHOOSE x \in s : TRUE

\* g maps every set in D to the sum of f over it.
Solves(g, f, D) ==
  g = [s \in D |-> IF s = {} THEN 0 ELSE f[Pick(s)] + g[s \ {Pick(s)}]]

\* A sum is defined by any function that solves its recursion.
LEMMA SumUnfold ==
  ASSUME NEW f, NEW S
  PROVE  SumFunctionOnSet(f, S) = (CHOOSE g : Solves(g, f, SUBSET S))[S]
BY Zenon DEF SumFunctionOnSet, FoldFunctionOnSet, MapThenFoldSet, Solves, Pick

\* Such a function exists for every finite set.
LEMMA SumExists ==
  ASSUME NEW f, NEW S, IsFiniteSet(S)
  PROVE  \E g : Solves(g, f, SUBSET S)
<1>. DEFINE D(n) == {s \in SUBSET S : Cardinality(s) < n}
            Bad == {n \in Nat : ~ \E g : Solves(g, f, D(n))}
<1>1. \A s \in SUBSET S : IsFiniteSet(s) /\ Cardinality(s) \in Nat
  BY FS_Subset, FS_CardinalityType, Zenon
<1>2. Bad = {}
  <2>. SUFFICES ASSUME Bad # {} PROVE FALSE
    BY Zenon
  <2>1. PICK n \in Bad : \A k \in Bad : n <= k
    <3>. HIDE DEF Bad
    <3>1. Bad \in SUBSET Nat
      BY Zenon DEF Bad
    <3>. QED BY <3>1, NatMin, Zenon
  <2>2. n # 0
    <3>1. D(0) = {}
      BY <1>1
    <3>. DEFINE g == [s \in {} |-> IF s = {} THEN 0 ELSE f[Pick(s)] + 0]
    <3>2. Solves(g, f, {})
      BY Zenon DEF Solves
    <3>. HIDE DEF D
    <3>. QED  BY <3>1, <3>2, Zenon
  <2>3. n - 1 \in Nat /\ n - 1 \notin Bad
    <3>. HIDE DEF D
    <3>. QED BY <2>1, <2>2
  <2>4. PICK h : Solves(h, f, D(n - 1))
    <3>. HIDE DEF D
    <3>. QED BY <2>3, Zenon
  <2>. DEFINE g == [s \in D(n) |-> IF s \in D(n - 1) THEN h[s] ELSE
                      IF s = {} THEN 0 ELSE f[Pick(s)] + h[s \ {Pick(s)}]]
  <2>5. ASSUME NEW s \in D(n), s # {}
        PROVE  s \ {Pick(s)} \in D(n - 1)
    <3>1. Pick(s) \in s
      BY <2>5, Zenon DEF Pick
    <3>2. IsFiniteSet(s) /\ Cardinality(s) \in Nat /\ Cardinality(s) < n
      BY <1>1, <2>5, Zenon
    <3>3. Cardinality(s \ {Pick(s)}) = Cardinality(s) - 1
      BY <3>1, <3>2, FS_RemoveElement, Zenon
    <3>. QED  BY <2>3, <3>2, <3>3, n \in Nat
  <2>6. D(n - 1) \subseteq D(n)
    <3>1. \A k \in Nat : k < n - 1 => k < n
      BY <2>1
    <3>. QED BY <1>1, <3>1, Zenon
  <2>7. ASSUME NEW s \in D(n)
        PROVE  g[s] = IF s = {} THEN 0 ELSE f[Pick(s)] + g[s \ {Pick(s)}]
    <3>. HIDE DEF D
    <3>1. CASE s \in D(n - 1)
      <4>1. h[s] = IF s = {} THEN 0 ELSE f[Pick(s)] + h[s \ {Pick(s)}]
        BY <2>4, <3>1, Zenon DEF Solves
      <4>. QED BY <2>5, <2>6, <2>7, <3>1, <4>1, Zenon
    <3>2. CASE s \notin D(n - 1)
      BY <2>5, <2>6, <2>7, <3>2, Zenon
    <3>. QED BY <3>1, <3>2, Zenon
  <2>8. Solves(g, f, D(n))
    <3>1. g = [s \in D(n) |-> g[s]]
      BY Zenon
    <3>. HIDE DEF g, D
    <3>. QED BY <2>7, <3>1, Zenon DEF Solves
  <2>. HIDE DEF D, g
  <2>. QED BY <2>1, <2>8, Zenon
<1>3. Cardinality(S) \in Nat /\ Cardinality(S) + 1 \in Nat
  BY FS_CardinalityType
<1>4. D(Cardinality(S) + 1) = SUBSET S
  <2>1. \A s \in SUBSET S : Cardinality(s) <= Cardinality(S)
    BY FS_Subset, Zenon
  <2>2. \A s \in SUBSET S : Cardinality(s) < Cardinality(S) + 1
    BY <1>1, <1>3, <2>1
  <2>. QED BY <2>2, Zenon
<1>. HIDE DEF D
<1>5. \E g : Solves(g, f, D(Cardinality(S) + 1))
  BY <1>2, <1>3, Zenon
<1>. QED  BY <1>4, <1>5, Zenon

\* And it is unique, so that sums over different sets agree on their parts.
LEMMA SumUnique ==
  ASSUME NEW f, NEW S, NEW T, NEW g, NEW h, IsFiniteSet(S), T \subseteq S,
         Solves(g, f, SUBSET S), Solves(h, f, SUBSET T)
  PROVE  g[T] = h[T]
<1>. DEFINE F == {s \in SUBSET T : g[s] # h[s]}
<1>. SUFFICES ASSUME F # {} PROVE FALSE
  BY Zenon
<1>1. \A s \in F : IsFiniteSet(s)
  BY FS_Subset, Zenon
<1>2. PICK s \in F : \A t \in F : Cardinality(s) <= Cardinality(t)
  <2>. HIDE DEF F
  <2>. QED BY <1>1, SmallestSet, Zenon
<1>3. s \in SUBSET T /\ s \in SUBSET S
  BY Zenon
<1>4. /\ g[s] = IF s = {} THEN 0 ELSE f[Pick(s)] + g[s \ {Pick(s)}]
      /\ h[s] = IF s = {} THEN 0 ELSE f[Pick(s)] + h[s \ {Pick(s)}]
  BY <1>3, Zenon DEF Solves
<1>5. s # {} /\ Pick(s) \in s
  BY <1>2, <1>4, Zenon DEF Pick
<1>6. s \ {Pick(s)} \in F
  BY <1>2, <1>4, <1>5, Zenon
<1>7. Cardinality(s \ {Pick(s)}) = Cardinality(s) - 1 /\ Cardinality(s) \in Nat
  BY <1>1, <1>5, FS_RemoveElement, FS_CardinalityType, Zenon
<1>. QED BY <1>2, <1>6, <1>7

\* The recursion of the sum.
LEMMA SumRec ==
  ASSUME NEW f, NEW S, IsFiniteSet(S)
  PROVE  SumFunctionOnSet(f, S) =
           IF S = {} THEN 0
           ELSE f[Pick(S)] + SumFunctionOnSet(f, S \ {Pick(S)})
<1>. DEFINE g == CHOOSE k : Solves(k, f, SUBSET S)
            T == S \ {Pick(S)}
            h == CHOOSE k : Solves(k, f, SUBSET T)
<1>1. IsFiniteSet(T) /\ T \subseteq S
  BY FS_Subset, Zenon
<1>2. Solves(g, f, SUBSET S)
  BY SumExists, Zenon
<1>3. Solves(h, f, SUBSET T)
  <2>. HIDE DEF T
  <2>. QED  BY <1>1, SumExists, Zenon
<1>4. SumFunctionOnSet(f, S) = g[S] /\ SumFunctionOnSet(f, T) = h[T]
  <2>. HIDE DEF T
  <2>. QED BY SumUnfold, Zenon
<1>5. g[T] = h[T]
  <2>1. ASSUME NEW U, U \subseteq S
        PROVE \A a, b : Solves(a, f, SUBSET S) /\ Solves(b, f, SUBSET U) => a[U] = b[U]
    BY <2>1, SumUnique
  <2>. HIDE DEF g, h, T
  <2>2. \A a, b : Solves(a, f, SUBSET S) /\ Solves(b, f, SUBSET T) => a[T] = b[T]
     BY <1>1, <2>1, Zenon
  <2>3. QED BY <2>2, <1>2, <1>3, Zenon
<1>6. g[S] = IF S = {} THEN 0 ELSE f[Pick(S)] + g[T]
  <2>. HIDE DEF g
  <2>. QED  BY <1>2, Zenon DEF Solves
<1>. HIDE DEF g, h
<1>. QED BY <1>4, <1>5, <1>6, Zenon

\* A family of sets that has the empty one, and with a part of S that part with one more
\* element, has S.
LEMMA FiniteInduction ==
  ASSUME NEW S, NEW G, IsFiniteSet(S), {} \in G,
         \A t \in G, x \in S : t \subseteq S /\ x \notin t => t \cup {x} \in G
  PROVE  S \in G
<1>. DEFINE F == {s \in SUBSET S : s \notin G}
<1>. SUFFICES ASSUME F # {} PROVE FALSE
  BY Zenon
<1>1. \A s \in F : IsFiniteSet(s)
  BY FS_Subset, Zenon
<1>2. PICK s \in F : \A t \in F : Cardinality(s) <= Cardinality(t)
  <2>. HIDE DEF F
  <2>. QED BY <1>1, SmallestSet, Zenon
<1>3. PICK x : x \in s
  BY <1>2, Zenon
<1>4. s \ {x} \in F
  <2>1. (s \ {x}) \cup {x} = s /\ x \in S /\ x \notin s \ {x} /\ s \ {x} \subseteq S
    BY <1>2, <1>3, Zenon
  <2>2. s \ {x} \notin G
    BY <1>2, <2>1, Zenon
  <2>. QED BY <2>1, <2>2, Zenon
<1>5. Cardinality(s \ {x}) = Cardinality(s) - 1 /\ Cardinality(s) \in Nat
  BY <1>1, <1>3, FS_RemoveElement, FS_CardinalityType, Zenon
<1>. QED BY <1>2, <1>4, <1>5

\* The empty sum.
LEMMA SumEmpty ==
  ASSUME NEW f
  PROVE  SumFunctionOnSet(f, {}) = 0
BY SumRec, FS_EmptySet, Zenon

\* Any element may be taken out first.
LEMMA SumTake ==
  ASSUME NEW f, NEW S, IsFiniteSet(S), \A x \in S : f[x] \in Int
  PROVE  /\ SumFunctionOnSet(f, S) \in Int
         /\ \A x \in S : SumFunctionOnSet(f, S) = f[x] + SumFunctionOnSet(f, S \ {x})
<1>. DEFINE Sum(T) == SumFunctionOnSet(f, T)
            Ok(T) == Sum(T) \in Int /\ \A x \in T : Sum(T) = f[x] + Sum(T \ {x})
            F == {T \in SUBSET S : ~Ok(T)}
<1>1. \A T \in SUBSET S : IsFiniteSet(T)
  BY FS_Subset, Zenon
<1>r. \A T \in SUBSET S : T # {} => Sum(T) = f[Pick(T)] + Sum(T \ {Pick(T)})
  BY <1>1, SumRec, Zenon
<1>e. Sum({}) = 0
  BY SumEmpty, Zenon
<1>p. \A T \in SUBSET S : T # {} => Pick(T) \in T
  BY Zenon DEF Pick
<1>. HIDE DEF Sum
<1>2. F = {}
  <2>. SUFFICES ASSUME F # {} PROVE FALSE
    BY Zenon
  <2>1. PICK T \in F : \A U \in F : Cardinality(T) <= Cardinality(U)
    <3>. HIDE DEF F
    <3>1. \A U \in F : IsFiniteSet(U)
      BY <1>1, Zenon DEF F
    <3>. QED BY <3>1, SmallestSet, Zenon
  <2>2. T \in SUBSET S /\ ~Ok(T)
    BY <2>1, Zenon
  <2>3. ASSUME NEW x \in T PROVE Ok(T \ {x})
    <3>1. Cardinality(T \ {x}) = Cardinality(T) - 1 /\ Cardinality(T) \in Nat
      BY <1>1, <2>2, FS_RemoveElement, FS_CardinalityType, Zenon
    <3>2. T \ {x} \notin F
      <4>. HIDE DEF F
      <4>. QED BY <2>1, <3>1
    <3>. QED BY <2>2, <3>2, Zenon
  <2>4. T # {}
    <3>. SUFFICES ASSUME T = {} PROVE FALSE
      BY Zenon
    <3>1. Sum(T) \in Int
      BY <1>e
    <3>. QED  BY <2>2, <3>1, Zenon
  <2>. DEFINE p == Pick(T)
  <2>5. p \in T /\ Sum(T) = f[p] + Sum(T \ {p}) /\ Sum(T \ {p}) \in Int
    BY <1>r, <1>p, <2>2, <2>3, <2>4, Zenon
  <2>6. f[p] \in Int /\ Sum(T) \in Int
    BY <2>2, <2>5
  <2>. HIDE DEF p
  <2>7. ASSUME NEW x \in T, x # p PROVE Sum(T) = f[x] + Sum(T \ {x})
    <3>1. Sum(T \ {p}) = f[x] + Sum((T \ {p}) \ {x})
      BY <2>3, <2>5, <2>7, Zenon
    <3>2. Sum(T \ {x}) = f[p] + Sum((T \ {x}) \ {p})
      BY <2>3, <2>5, <2>7, Zenon
    <3>3. (T \ {x}) \ {p} = (T \ {p}) \ {x}
      BY Zenon
    <3>4. Sum((T \ {p}) \ {x}) \in Int
      <4>1. Ok(T \ {x})
        BY <2>3, Zenon
      <4>2. T \ {x} \in SUBSET S /\ p \in T \ {x}
        BY <2>2, <2>5, <2>7, Zenon
      <4>3. Cardinality((T \ {x}) \ {p}) = Cardinality(T \ {x}) - 1
            /\ Cardinality(T \ {x}) = Cardinality(T) - 1
            /\ Cardinality(T) \in Nat
        <5>1. IsFiniteSet(T) /\ IsFiniteSet(T \ {x})
          BY <1>1, <2>2, Zenon
        <5>. QED BY <5>1, <4>2, FS_RemoveElement, FS_CardinalityType, Zenon
      <4>4. (T \ {x}) \ {p} \notin F
        <5>. HIDE DEF F
        <5>. QED BY <2>1, <4>3
      <4>. QED BY <3>3, <4>2, <4>4, Zenon
    <3>5. f[x] \in Int
      BY <2>2, Zenon
    <3>6. \A a, b, c \in Int : a + (b + c) = b + (a + c)
      OBVIOUS
    <3>7. Sum(T) = f[p] + (f[x] + Sum((T \ {p}) \ {x}))
      BY <2>5, <3>1, Zenon
    <3>8. Sum(T \ {x}) = f[p] + Sum((T \ {p}) \ {x})
      BY <3>2, <3>3, Zenon
    <3>9. f[p] + (f[x] + Sum((T \ {p}) \ {x})) = f[x] + (f[p] + Sum((T \ {p}) \ {x}))
      BY <2>6, <3>4, <3>5, <3>6, Zenon
    <3>. QED BY <3>7, <3>8, <3>9, Zenon
  <2>. QED BY <2>2, <2>5, <2>6, <2>7, Zenon
<1>3. Ok(S)
  BY <1>2, Zenon
<1>. QED BY <1>3, Zenon DEF Sum

\* A sum with one more element.
LEMMA SumAdd ==
  ASSUME NEW f, NEW S, NEW x, IsFiniteSet(S), \A y \in S : f[y] \in Int,
         f[x] \in Int, x \notin S
  PROVE  SumFunctionOnSet(f, S \cup {x}) = SumFunctionOnSet(f, S) + f[x]
<1>1. IsFiniteSet(S \cup {x})
  BY FS_AddElement, Zenon
<1>2. \A y \in S \cup {x} : f[y] \in Int
  BY Zenon
<1>3. SumFunctionOnSet(f, S \cup {x}) = f[x] + SumFunctionOnSet(f, (S \cup {x}) \ {x})
  BY <1>1, <1>2, SumTake
<1>4. (S \cup {x}) \ {x} = S
  BY Zenon
<1>5. SumFunctionOnSet(f, S) \in Int
  BY SumTake, Zenon
<1>6. SumFunctionOnSet(f, S \cup {x}) = f[x] + SumFunctionOnSet(f, S)
  BY <1>3, <1>4, Zenon
<1>. QED  BY <1>5, <1>6

\* Functions that agree on a set have the same sum over it.
LEMMA SumEq ==
  ASSUME NEW f, NEW g, NEW S, IsFiniteSet(S),
         \A x \in S : f[x] \in Int /\ g[x] = f[x]
  PROVE  SumFunctionOnSet(g, S) = SumFunctionOnSet(f, S)
<1>. DEFINE G == {T \in SUBSET S : SumFunctionOnSet(g, T) = SumFunctionOnSet(f, T)}
<1>1. {} \in G
  BY SumEmpty, Zenon
<1>2. ASSUME NEW T \in G, NEW x \in S, x \notin T PROVE T \cup {x} \in G
  <2>1. IsFiniteSet(T)
    BY FS_Subset, Zenon
  <2>2. SumFunctionOnSet(f, T \cup {x}) = SumFunctionOnSet(f, T) + f[x]
    BY <1>2, <2>1, SumAdd, Zenon
  <2>3. SumFunctionOnSet(g, T \cup {x}) = SumFunctionOnSet(g, T) + g[x]
    BY <1>2, <2>1, SumAdd, Zenon
  <2>. QED  BY <1>2, <2>2, <2>3, Zenon
<1>3. S \in G
  <2>. HIDE DEF G
  <2>. QED  BY <1>1, <1>2, FiniteInduction, Zenon
<1>. QED  BY <1>3, Zenon

\* Sums are monotonic in the function.
LEMMA SumLe ==
  ASSUME NEW f, NEW g, NEW S, IsFiniteSet(S),
         \A x \in S : f[x] \in Int /\ g[x] \in Int /\ f[x] <= g[x]
  PROVE  SumFunctionOnSet(f, S) <= SumFunctionOnSet(g, S)
<1>. DEFINE G == {T \in SUBSET S : SumFunctionOnSet(f, T) <= SumFunctionOnSet(g, T)}
<1>1. {} \in G
  BY SumEmpty
<1>2. ASSUME NEW T \in G, NEW x \in S, x \notin T PROVE T \cup {x} \in G
  <2>1. IsFiniteSet(T)
    BY FS_Subset, Zenon
  <2>2. SumFunctionOnSet(f, T \cup {x}) = SumFunctionOnSet(f, T) + f[x]
    BY <1>2, <2>1, SumAdd, Zenon
  <2>3. SumFunctionOnSet(g, T \cup {x}) = SumFunctionOnSet(g, T) + g[x]
    BY <1>2, <2>1, SumAdd, Zenon
  <2>4. SumFunctionOnSet(f, T) \in Int /\ SumFunctionOnSet(g, T) \in Int
    BY <2>1, SumTake, Zenon
  <2>5. f[x] \in Int /\ g[x] \in Int /\ f[x] <= g[x]
    BY <1>2, Zenon
  <2>6. SumFunctionOnSet(f, T) <= SumFunctionOnSet(g, T)
    BY <1>2, Zenon
  <2>7. SumFunctionOnSet(f, T \cup {x}) <= SumFunctionOnSet(g, T \cup {x})
    BY <2>2, <2>3, <2>4, <2>5, <2>6
  <2>. QED  BY <1>2, <2>7, Zenon
<1>3. S \in G
  <2>. HIDE DEF G
  <2>. QED  BY <1>1, <1>2, FiniteInduction, Zenon
<1>. QED  BY <1>3, Zenon

\* The sum of a constant.
LEMMA SumConst ==
  ASSUME NEW f, NEW S, NEW c \in Int, IsFiniteSet(S), \A x \in S : f[x] = c
  PROVE  SumFunctionOnSet(f, S) = c * Cardinality(S)
<1>. DEFINE G == {T \in SUBSET S : SumFunctionOnSet(f, T) = c * Cardinality(T)}
<1>1. {} \in G
  BY SumEmpty, FS_EmptySet
<1>2. ASSUME NEW T \in G, NEW x \in S, x \notin T PROVE T \cup {x} \in G
  <2>1. IsFiniteSet(T)
    BY FS_Subset, Zenon
  <2>2. SumFunctionOnSet(f, T \cup {x}) = SumFunctionOnSet(f, T) + c
    <3>1. f[x] = c /\ f[x] \in Int /\ \A y \in T : f[y] \in Int
      BY Zenon
    <3>2. SumFunctionOnSet(f, T \cup {x}) = SumFunctionOnSet(f, T) + f[x]
      BY <1>2, <2>1, <3>1, SumAdd, Zenon
    <3>. QED  BY <3>1, <3>2, Zenon
  <2>3. Cardinality(T \cup {x}) = Cardinality(T) + 1 /\ Cardinality(T) \in Nat
    BY <1>2, <2>1, FS_AddElement, FS_CardinalityType, Zenon
  <2>4. c * (Cardinality(T) + 1) = c * Cardinality(T) + c
    BY <2>3
  <2>5. SumFunctionOnSet(f, T) = c * Cardinality(T)
    BY <1>2, Zenon
  <2>6. SumFunctionOnSet(f, T \cup {x}) = c * Cardinality(T \cup {x})
    BY <2>2, <2>3, <2>4, <2>5, Zenon
  <2>. QED  BY <1>2, <2>6, Zenon
<1>3. S \in G
  <2>. HIDE DEF G
  <2>. QED  BY <1>1, <1>2, FiniteInduction, Zenon
<1>. QED  BY <1>3, Zenon

\* The sum of a sum of functions.
LEMMA SumPlus ==
  ASSUME NEW f, NEW g, NEW h, NEW S, IsFiniteSet(S),
         \A x \in S : f[x] \in Int /\ g[x] \in Int /\ h[x] = f[x] + g[x]
  PROVE  SumFunctionOnSet(h, S) = SumFunctionOnSet(f, S) + SumFunctionOnSet(g, S)
<1>. DEFINE G == {T \in SUBSET S :
                    SumFunctionOnSet(h, T) = SumFunctionOnSet(f, T) + SumFunctionOnSet(g, T)}
<1>1. {} \in G
  BY SumEmpty
<1>2. ASSUME NEW T \in G, NEW x \in S, x \notin T PROVE T \cup {x} \in G
  <2>1. IsFiniteSet(T)
    BY FS_Subset, Zenon
  <2>2. SumFunctionOnSet(f, T \cup {x}) = SumFunctionOnSet(f, T) + f[x]
    BY <1>2, <2>1, SumAdd, Zenon
  <2>3. SumFunctionOnSet(g, T \cup {x}) = SumFunctionOnSet(g, T) + g[x]
    BY <1>2, <2>1, SumAdd, Zenon
  <2>4. SumFunctionOnSet(h, T \cup {x}) = SumFunctionOnSet(h, T) + h[x]
    <3>1. h[x] \in Int /\ \A y \in T : h[y] \in Int
      OBVIOUS
    <3>. QED  BY <1>2, <2>1, <3>1, SumAdd, Zenon
  <2>5. SumFunctionOnSet(f, T) \in Int /\ SumFunctionOnSet(g, T) \in Int
    BY <2>1, SumTake, Zenon
  <2>6. f[x] \in Int /\ g[x] \in Int /\ h[x] = f[x] + g[x]
    BY <1>2, Zenon
  <2>7. SumFunctionOnSet(h, T) = SumFunctionOnSet(f, T) + SumFunctionOnSet(g, T)
    BY <1>2, Zenon
  <2>8. SumFunctionOnSet(h, T \cup {x})
          = SumFunctionOnSet(f, T \cup {x}) + SumFunctionOnSet(g, T \cup {x})
    BY <2>2, <2>3, <2>4, <2>5, <2>6, <2>7
  <2>. QED  BY <1>2, <2>8, Zenon
<1>3. S \in G
  <2>. HIDE DEF G
  <2>. QED  BY <1>1, <1>2, FiniteInduction, Zenon
<1>. QED  BY <1>3, Zenon

\* The sum over a disjoint union.
LEMMA SumUnion ==
  ASSUME NEW f, NEW S, NEW U, IsFiniteSet(S), IsFiniteSet(U), S \cap U = {},
         \A x \in S \cup U : f[x] \in Int
  PROVE  SumFunctionOnSet(f, S \cup U) = SumFunctionOnSet(f, S) + SumFunctionOnSet(f, U)
<1>. DEFINE G == {T \in SUBSET U :
              SumFunctionOnSet(f, S \cup T) = SumFunctionOnSet(f, S) + SumFunctionOnSet(f, T)}
<1>1. SumFunctionOnSet(f, S) \in Int
  BY SumTake, Zenon
<1>2. {} \in G
  <2>1. S \cup {} = S
    BY Zenon
  <2>2. SumFunctionOnSet(f, S) = SumFunctionOnSet(f, S) + SumFunctionOnSet(f, {})
    BY <1>1, SumEmpty
  <2>. QED  BY <2>1, <2>2, Zenon
<1>3. ASSUME NEW T \in G, NEW x \in U, x \notin T PROVE T \cup {x} \in G
  <2>1. IsFiniteSet(T) /\ IsFiniteSet(S \cup T)
    BY FS_Subset, FS_Union, Zenon
  <2>2. SumFunctionOnSet(f, T \cup {x}) = SumFunctionOnSet(f, T) + f[x]
    BY <1>3, <2>1, SumAdd, Zenon
  <2>3. SumFunctionOnSet(f, (S \cup T) \cup {x}) = SumFunctionOnSet(f, S \cup T) + f[x]
    <3>1. x \notin S \cup T /\ f[x] \in Int /\ \A y \in S \cup T : f[y] \in Int
      BY <1>3, Zenon
    <3>. QED  BY <2>1, <3>1, SumAdd, Zenon
  <2>4. SumFunctionOnSet(f, T) \in Int
    BY <2>1, SumTake, Zenon
  <2>5. S \cup (T \cup {x}) = (S \cup T) \cup {x}
    BY Zenon
  <2>6. SumFunctionOnSet(f, S \cup T) = SumFunctionOnSet(f, S) + SumFunctionOnSet(f, T)
    BY <1>3, Zenon
  <2>7. f[x] \in Int
    BY <1>3, Zenon
  <2>8. SumFunctionOnSet(f, (S \cup T) \cup {x})
          = SumFunctionOnSet(f, S) + SumFunctionOnSet(f, T \cup {x})
    BY <1>1, <2>2, <2>3, <2>4, <2>6, <2>7
  <2>. QED  BY <1>3, <2>5, <2>8, Zenon
<1>4. U \in G
  <2>. HIDE DEF G
  <2>. QED  BY <1>2, <1>3, FiniteInduction, Zenon
<1>. QED  BY <1>4, Zenon

\* A sum of natural numbers is one.
LEMMA SumNat ==
  ASSUME NEW f, NEW S, IsFiniteSet(S), \A x \in S : f[x] \in Nat
  PROVE  SumFunctionOnSet(f, S) \in Nat
<1>. DEFINE z == [x \in S |-> 0]
<1>1. SumFunctionOnSet(z, S) = 0 * Cardinality(S)
  BY SumConst
<1>2. SumFunctionOnSet(z, S) <= SumFunctionOnSet(f, S)
  BY SumLe
<1>3. SumFunctionOnSet(f, S) \in Int /\ Cardinality(S) \in Nat
  BY SumTake, FS_CardinalityType
<1>. QED  BY <1>1, <1>2, <1>3

\* A part of natural numbers sums up to no more than all of them.
LEMMA SumSubset ==
  ASSUME NEW f, NEW S, NEW T, T \subseteq S, IsFiniteSet(S), \A x \in S : f[x] \in Nat
  PROVE  SumFunctionOnSet(f, T) <= SumFunctionOnSet(f, S)
<1>1. IsFiniteSet(T) /\ IsFiniteSet(S \ T) /\ S = T \cup (S \ T) /\ T \cap (S \ T) = {}
  BY FS_Subset, Zenon
<1>2. SumFunctionOnSet(f, T \cup (S \ T))
        = SumFunctionOnSet(f, T) + SumFunctionOnSet(f, S \ T)
  <2>1. \A x \in T \cup (S \ T) : f[x] \in Int
    OBVIOUS
  <2>. QED  BY <1>1, <2>1, SumUnion, Zenon
<1>3. SumFunctionOnSet(f, T) \in Nat /\ SumFunctionOnSet(f, S \ T) \in Nat
  BY <1>1, SumNat, Zenon
<1>4. SumFunctionOnSet(f, S) = SumFunctionOnSet(f, T) + SumFunctionOnSet(f, S \ T)
  BY <1>1, <1>2, Zenon
<1>. QED  BY <1>3, <1>4
\* A nonempty finite set of numbers has a largest one.
LEMMA Largest ==
  ASSUME NEW U, U \subseteq Nat, U # {}, IsFiniteSet(U)
  PROVE  \E b \in U : \A c \in U : c <= b
<1>. DEFINE G == {T \in SUBSET U : T = {} \/ \E b \in T : \A c \in T : c <= b}
<1>1. {} \in G
  BY Zenon
<1>2. ASSUME NEW T \in G, NEW x \in U, x \notin T PROVE T \cup {x} \in G
  <2>1. CASE T = {}
    <3>1. x <= x /\ \A c \in T \cup {x} : c = x
      BY <2>1
    <3>. QED  BY <3>1, Zenon
  <2>2. ASSUME NEW b \in T, \A c \in T : c <= b PROVE T \cup {x} \in G
    <3>1. b \in Nat /\ x \in Nat /\ \A c \in T : c \in Nat
      BY Zenon
    <3>2. CASE x <= b
      <4>1. \A c \in T \cup {x} : c <= b
        BY <2>2, <3>2, Zenon
      <4>. QED  BY <4>1, Zenon
    <3>3. CASE b <= x
      <4>1. \A c \in T \cup {x} : c <= x
        BY <2>2, <3>1, <3>3
      <4>. QED  BY <4>1, Zenon
    <3>. QED  BY <3>1, <3>2, <3>3
  <2>. QED  BY <1>2, <2>1, <2>2, Zenon
<1>3. U \in G
  <2>. HIDE DEF G
  <2>. QED  BY <1>1, <1>2, FiniteInduction, Zenon
<1>. QED  BY <1>3, Zenon

\* The sum over groups of sums over a group is the sum over all of them; the
\* groups are disjoint, P gives them, and U is their union.
LEMMA SumNested ==
  ASSUME NEW f, NEW h, NEW P, NEW K, NEW U, IsFiniteSet(K),
         \A x : x \in U <=> \E s \in K : x \in P[s],
         \A s \in K : IsFiniteSet(P[s]) /\ \A x \in P[s] : f[x] \in Int,
         \A s, t \in K : s # t => P[s] \cap P[t] = {},
         \A s \in K : h[s] = SumFunctionOnSet(f, P[s])
  PROVE  SumFunctionOnSet(h, K) = SumFunctionOnSet(f, U)
<1>. DEFINE Of(T) == UNION {P[s] : s \in T}
            G == {T \in SUBSET K : /\ IsFiniteSet(Of(T))
                                   /\ SumFunctionOnSet(h, T) = SumFunctionOnSet(f, Of(T))}
<1>1. {} \in G
  <2>1. Of({}) = {}
    BY Zenon
  <2>2. SumFunctionOnSet(f, Of({})) = 0 /\ IsFiniteSet(Of({}))
    BY <2>1, SumEmpty, FS_EmptySet, Zenon
  <2>. QED  BY <2>2, SumEmpty, Zenon
<1>2. \A s \in K : h[s] \in Int
  BY SumTake
<1>3. ASSUME NEW T \in G, NEW s \in K, T \subseteq K, s \notin T
      PROVE  T \cup {s} \in G
  <2>1. IsFiniteSet(T) /\ IsFiniteSet(Of(T)) /\ IsFiniteSet(P[s])
    BY <1>3, FS_Subset, Zenon
  <2>2. Of(T \cup {s}) = Of(T) \cup P[s] /\ Of(T) \cap P[s] = {}
    BY <1>3
  <2>3. SumFunctionOnSet(h, T \cup {s}) = SumFunctionOnSet(h, T) + h[s]
    BY <1>2, <1>3, <2>1, SumAdd, Zenon
  <2>4. \A x \in Of(T) \cup P[s] : f[x] \in Int
    BY <1>3
  <2>5. IsFiniteSet(Of(T) \cup P[s])
    BY <2>1, FS_Union, Zenon
  <2>6. SumFunctionOnSet(h, T) = SumFunctionOnSet(f, Of(T)) /\ h[s] = SumFunctionOnSet(f, P[s])
    BY <1>3, Zenon
  <2>. HIDE DEF Of
  <2>7. SumFunctionOnSet(f, Of(T) \cup P[s])
          = SumFunctionOnSet(f, Of(T)) + SumFunctionOnSet(f, P[s])
    BY <2>1, <2>2, <2>4, SumUnion
  <2>8. /\ SumFunctionOnSet(f, Of(T \cup {s}))
             = SumFunctionOnSet(f, Of(T)) + SumFunctionOnSet(f, P[s])
        /\ IsFiniteSet(Of(T \cup {s}))
    BY <2>2, <2>5, <2>7, Zenon
  <2>9. SumFunctionOnSet(h, T \cup {s}) = SumFunctionOnSet(f, Of(T \cup {s}))
    BY <2>3, <2>6, <2>8, Zenon
  <2>. QED  BY <1>3, <2>8, <2>9, Zenon
<1>. HIDE DEF G
<1>4. K \in G
  BY <1>1, <1>3, FiniteInduction, Zenon
<1>5. Of(K) = U
  OBVIOUS
<1>6. SumFunctionOnSet(h, K) = SumFunctionOnSet(f, Of(K))
  BY <1>4, Zenon DEF G
<1>. QED  BY <1>5, <1>6, Zenon

--------------------------------------------------------------------------------
(* The elements of a set of numbers by rank: Below, Nth and Kept. *)

\* The elements below one of a set are finitely many, and fewer.
LEMMA BelowSize ==
  ASSUME NEW S, IsFiniteSet(S), NEW x
  PROVE  /\ IsFiniteSet(Below(S, x)) /\ Cardinality(Below(S, x)) \in Nat
         /\ Cardinality(Below(S, x)) <= Cardinality(S)
         /\ Cardinality(S) \in Nat
<1>1. Below(S, x) \in SUBSET S
  BY Zenon DEF Below
<1>. QED  BY <1>1, FS_Subset, FS_CardinalityType, Zenon

\* A larger element has more elements below it.
LEMMA BelowGrows ==
  ASSUME NEW S, S \subseteq Nat, IsFiniteSet(S), NEW x \in S, NEW y \in S, x < y
  PROVE  Cardinality(Below(S, x)) < Cardinality(Below(S, y))
<1>. DEFINE A == Below(S, x)
            B == Below(S, y)
<1>1. x \in B /\ x \notin A /\ A \subseteq B
  <2>1. x \in Nat /\ y \in Nat /\ \A z \in S : z \in Nat
    BY Zenon
  <2>2. ~(x < x) /\ \A z \in S : z < x => z < y
    BY <2>1
  <2>. QED  BY <2>2, Zenon DEF Below
<1>2. IsFiniteSet(A) /\ IsFiniteSet(B) /\ Cardinality(A) \in Nat /\ Cardinality(B) \in Nat
  BY BelowSize, Zenon
<1>. HIDE DEF A, B
<1>3. Cardinality(A) <= Cardinality(B) /\ (Cardinality(B) = Cardinality(A) => B = A)
  BY <1>1, <1>2, FS_Subset, Zenon
<1>4. B # A
  BY <1>1, Zenon
<1>5. Cardinality(A) < Cardinality(B)
  BY <1>2, <1>3, <1>4
<1>. QED  BY <1>5, Zenon DEF A, B

\* Elements with equally many below them are the same.
LEMMA BelowUnique ==
  ASSUME NEW S, S \subseteq Nat, IsFiniteSet(S), NEW x \in S, NEW y \in S,
         Cardinality(Below(S, x)) = Cardinality(Below(S, y))
  PROVE  x = y
<1>1. x \in Nat /\ y \in Nat
  BY Zenon
<1>2. Cardinality(Below(S, x)) \in Nat /\ Cardinality(Below(S, y)) \in Nat
  BY BelowSize, Zenon
<1>3. ~(x < y)
  <2>1. x < y => Cardinality(Below(S, x)) < Cardinality(Below(S, y))
    BY BelowGrows, Zenon
  <2>. QED  BY <1>2, <2>1
<1>4. ~(y < x)
  <2>1. y < x => Cardinality(Below(S, y)) < Cardinality(Below(S, x))
    BY BelowGrows, Zenon
  <2>. QED  BY <1>2, <2>1
<1>. QED  BY <1>1, <1>3, <1>4

\* There is an i-th element for every i up to the size of the set.
LEMMA NthExists ==
  ASSUME NEW S, S \subseteq Nat, IsFiniteSet(S), NEW i \in 1 .. Cardinality(S)
  PROVE  Nth(S, i) \in S /\ Cardinality(Below(S, Nth(S, i))) = i - 1
<1>. DEFINE upTo(x) == {y \in S : y <= x}
<1>1. ASSUME NEW x \in S
      PROVE  /\ IsFiniteSet(upTo(x)) /\ Cardinality(upTo(x)) = Cardinality(Below(S, x)) + 1
             /\ Cardinality(Below(S, x)) \in Nat
  <2>1. upTo(x) = Below(S, x) \cup {x}
    <3>1. x \in Nat /\ \A y \in S : y \in Nat
      BY Zenon
    <3>2. \A y \in S : (y <= x) <=> (y < x \/ y = x)
      BY <3>1
    <3>. QED  BY <3>2, Zenon DEF Below
  <2>2. x \notin Below(S, x) /\ IsFiniteSet(Below(S, x)) /\ Cardinality(Below(S, x)) \in Nat
    BY BelowSize DEF Below
  <2>. HIDE DEF upTo
  <2>. QED  BY <2>1, <2>2, FS_AddElement
<1>. DEFINE E == {x \in S : Cardinality(Below(S, x)) + 1 >= i}
<1>2. Cardinality(S) \in Nat /\ S # {}
  BY FS_CardinalityType, FS_EmptySet
<1>3. PICK m \in S : \A y \in S : y <= m
  BY <1>2, Largest, Zenon
<1>4. m \in E
  <2>1. upTo(m) = S
    BY <1>3, Zenon
  <2>. HIDE DEF upTo
  <2>. QED  BY <1>1, <1>2, <2>1
<1>5. E \in SUBSET Nat /\ E # {}
  BY <1>4, Zenon
<1>6. PICK x \in E : \A y \in E : x <= y
  BY <1>5, NatMin, Zenon
<1>7. x \in S /\ Cardinality(Below(S, x)) + 1 >= i /\ Cardinality(Below(S, x)) \in Nat
  BY <1>1, <1>6, Zenon
<1>8. Cardinality(Below(S, x)) <= i - 1
  <2>1. CASE Below(S, x) = {}
    BY <2>1, FS_EmptySet
  <2>2. CASE Below(S, x) # {}
    <3>1. PICK z \in Below(S, x) : \A y \in Below(S, x) : y <= z
      <4>1. Below(S, x) \subseteq Nat /\ IsFiniteSet(Below(S, x))
        BY BelowSize, Zenon DEF Below
      <4>. QED  BY <2>2, <4>1, Largest, Zenon
    <3>2. z \in S /\ z < x /\ z \in Nat /\ x \in Nat
      BY <1>7, <3>1, Zenon DEF Below
    <3>3. upTo(z) = Below(S, x)
      <4>1. ASSUME NEW y \in S PROVE (y <= z) <=> (y < x)
        <5>1. y \in Nat
          BY Zenon
        <5>2. y < x => y <= z
          BY <3>1, Zenon DEF Below
        <5>3. y <= z => y < x
          BY <3>2, <5>1
        <5>. QED  BY <5>2, <5>3, Zenon
      <4>. QED  BY <4>1, Zenon DEF Below
    <3>4. z \notin E
      BY <1>6, <3>2
    <3>5. ~(Cardinality(Below(S, z)) + 1 >= i)
      BY <3>2, <3>4, Zenon
    <3>6. Cardinality(Below(S, x)) = Cardinality(Below(S, z)) + 1 /\ Cardinality(Below(S, z)) \in Nat
      <4>. HIDE DEF upTo
      <4>. QED  BY <1>1, <3>2, <3>3, Zenon
    <3>. QED  BY <3>5, <3>6
  <2>. QED  BY <2>1, <2>2, Zenon
<1>9. Cardinality(Below(S, x)) = i - 1
  BY <1>7, <1>8
<1>. QED  BY <1>7, <1>9, Zenon DEF Nth

\* Every element has its place.
LEMMA NthOf ==
  ASSUME NEW S, S \subseteq Nat, IsFiniteSet(S), NEW x \in S
  PROVE  LET i == Cardinality(Below(S, x)) + 1
         IN  i \in 1 .. Cardinality(S) /\ Nth(S, i) = x
<1>. DEFINE n == Cardinality(Below(S, x))
            i == n + 1
<1>1. Below(S, x) \subseteq S \ {x}
  <2>1. x \in Nat
    BY Zenon
  <2>. QED  BY <2>1 DEF Below
<1>2. IsFiniteSet(S \ {x}) /\ Cardinality(S \ {x}) = Cardinality(S) - 1 /\ Cardinality(S) \in Nat
  BY FS_RemoveElement, FS_CardinalityType, Zenon
<1>3. n \in Nat /\ n <= Cardinality(S \ {x})
  BY <1>1, <1>2, FS_Subset, BelowSize, Zenon
<1>4. i \in 1 .. Cardinality(S) /\ i - 1 = n
  BY <1>2, <1>3
<1>5. Nth(S, i) \in S /\ Cardinality(Below(S, Nth(S, i))) = n
  BY <1>4, NthExists, Zenon
<1>6. Nth(S, i) = x
  BY <1>5, BelowUnique, Zenon
<1>. QED  BY <1>4, <1>6, Zenon

\* Places are in the order of the elements.
LEMMA NthOrder ==
  ASSUME NEW S, S \subseteq Nat, IsFiniteSet(S), NEW i \in 1 .. Cardinality(S),
         NEW j \in 1 .. Cardinality(S), i < j
  PROVE  Nth(S, i) < Nth(S, j)
<1>. DEFINE x == Nth(S, i)
            y == Nth(S, j)
<1>1. x \in S /\ y \in S /\ Cardinality(Below(S, x)) = i - 1 /\ Cardinality(Below(S, y)) = j - 1
  BY NthExists, Zenon
<1>2. x \in Nat /\ y \in Nat /\ Cardinality(S) \in Nat
  BY <1>1, FS_CardinalityType, Zenon
<1>. HIDE DEF x, y
<1>3. x # y
  BY <1>1, <1>2
<1>4. ~(y < x)
  <2>. SUFFICES ASSUME y < x PROVE FALSE
    BY Zenon
  <2>1. Cardinality(Below(S, y)) < Cardinality(Below(S, x))
    BY <1>1, BelowGrows, Zenon
  <2>. QED  BY <1>1, <1>2, <2>1
<1>5. x < y
  BY <1>2, <1>3, <1>4
<1>. QED  BY <1>5, Zenon DEF x, y

\* The elements kept are those at the positions.
LEMMA KeptIs ==
  ASSUME NEW X, NEW s \in Seq(X), NEW P, P \subseteq DOMAIN s
  PROVE  /\ Kept(s, P) \in Seq(X) /\ Len(Kept(s, P)) = Cardinality(P)
         /\ Cardinality(P) \in Nat
         /\ DOMAIN Kept(s, P) = 1 .. Cardinality(P)
         /\ P \subseteq Nat /\ IsFiniteSet(P)
         /\ \A j \in 1 .. Cardinality(P) : Nth(P, j) \in P /\ Kept(s, P)[j] = s[Nth(P, j)]
         /\ \A i \in P : \E j \in 1 .. Cardinality(P) : Nth(P, j) = i /\ Kept(s, P)[j] = s[i]
<1>. DEFINE n == Cardinality(P)
            t == Kept(s, P)
<1>1. DOMAIN s = 1 .. Len(s) /\ Len(s) \in Nat /\ \A i \in DOMAIN s : s[i] \in X
  OBVIOUS
<1>2. P \subseteq Nat /\ IsFiniteSet(P) /\ n \in Nat
  <2>1. IsFiniteSet(1 .. Len(s))
    BY <1>1, FS_Interval
  <2>. QED  BY <1>1, <2>1, FS_Subset, FS_CardinalityType
<1>3. \A j \in 1 .. n : Nth(P, j) \in P
  BY <1>2, NthExists, Zenon
<1>4. t = [j \in 1 .. n |-> s[Nth(P, j)]]
  BY Zenon DEF Kept
<1>5. t \in [1 .. n -> X]
  BY <1>1, <1>3, <1>4, Zenon
<1>. HIDE DEF t, n
<1>6. t \in Seq(X)
  BY <1>2, <1>5
<1>7. DOMAIN t = 1 .. n /\ DOMAIN t = 1 .. Len(t) /\ Len(t) \in Nat
  BY <1>5, <1>6
<1>8. Len(t) = n
  BY <1>2, <1>7
<1>9. \A i \in P : \E j \in 1 .. n : Nth(P, j) = i
  BY <1>2, NthOf, Zenon DEF n
<1>10. \A j \in 1 .. n : t[j] = s[Nth(P, j)]
  BY <1>4, Zenon
<1>11. \A i \in P : \E j \in 1 .. n : Nth(P, j) = i /\ t[j] = s[i]
  BY <1>9, <1>10, Zenon
<1>. QED  BY <1>2, <1>3, <1>6, <1>7, <1>8, <1>10, <1>11, Zenon DEF t, n

--------------------------------------------------------------------------------
(* The indices of a TimedSizedMap. *)

\* A bucket: keys of entries with its expiry, each once.
IsBucket(q, t, es, K) ==
  /\ q \in Seq(K) /\ q # << >> /\ IsInjective(q)
  /\ \A i \in DOMAIN q : q[i] \in DOMAIN es /\ es[q[i]].expiresAt = t

\* The two indices hold the same keys: entries is a map, every bucket has keys of entries
\* with its expiry, and every entry is in its bucket.
Agree(m, K) ==
  /\ m = [entries |-> m.entries, by_expiry |-> m.by_expiry]
  /\ m.entries = [k \in DOMAIN m.entries |-> m.entries[k]]
  /\ m.by_expiry = [t \in DOMAIN m.by_expiry |-> m.by_expiry[t]]
  /\ DOMAIN m.entries \subseteq K
  /\ \A t \in DOMAIN m.by_expiry : IsBucket(m.by_expiry[t], t, m.entries, K)
  /\ \A k \in DOMAIN m.entries :
       /\ m.entries[k].expiresAt \in DOMAIN m.by_expiry
       /\ \E i \in DOMAIN m.by_expiry[m.entries[k].expiresAt] :
            m.by_expiry[m.entries[k].expiresAt][i] = k

\* Agreement of the indices f and g of a map.
LEMMA AgreeOf ==
  ASSUME NEW f, NEW g, NEW K, NEW m, m = [entries |-> f, by_expiry |-> g],
         f = [k \in DOMAIN f |-> f[k]], g = [t \in DOMAIN g |-> g[t]],
         DOMAIN f \subseteq K,
         \A t \in DOMAIN g : IsBucket(g[t], t, f, K),
         \A k \in DOMAIN f : /\ f[k].expiresAt \in DOMAIN g
                             /\ \E i \in DOMAIN g[f[k].expiresAt] : g[f[k].expiresAt][i] = k
  PROVE  Agree(m, K)
<1>1. m.entries = f /\ m.by_expiry = g
  BY Zenon
<1>. QED  BY <1>1, Zenon DEF Agree

\* An empty map.
LEMMA EmptyAgrees ==
  ASSUME NEW K
  PROVE  Agree(Empty, K) /\ DOMAIN Empty.entries = {}
<1>. DEFINE f == << >>
<1>1. DOMAIN f = {} /\ f = [x \in DOMAIN f |-> f[x]]
  OBVIOUS
<1>2. Empty = [entries |-> f, by_expiry |-> f]
  BY Zenon DEF Empty
<1>. HIDE DEF f
<1>. QED  BY <1>1, <1>2, AgreeOf, Zenon

\* evict_expired takes away exactly the expired entries, and both indices agree about it.
LEMMA EvictAgrees ==
  ASSUME NEW K, NEW m, Agree(m, K), NEW time, NEW n, n = Evict(m, time)
  PROVE  /\ Agree(n, K)
         /\ DOMAIN n.entries = {k \in DOMAIN m.entries : ~IsExpired(m.entries[k].expiresAt, time)}
         /\ \A k \in DOMAIN n.entries : n.entries[k] = m.entries[k]
<1>. DEFINE e == m.entries
            b == m.by_expiry
            due == {t \in DOMAIN b : IsExpired(t, time)}
            keys == UNION {Range(b[t]) : t \in due}
            f == [k \in DOMAIN e \ keys |-> e[k]]
            g == [t \in DOMAIN b \ due |-> b[t]]
<1>1. n = [entries |-> f, by_expiry |-> g]
  BY Zenon DEF Evict, Restrict
<1>2. /\ DOMAIN e \subseteq K
      /\ \A t \in DOMAIN b : IsBucket(b[t], t, e, K)
      /\ \A k \in DOMAIN e : e[k].expiresAt \in DOMAIN b
      /\ \A k \in DOMAIN e : \E i \in DOMAIN b[e[k].expiresAt] : b[e[k].expiresAt][i] = k
  BY Zenon DEF Agree
<1>. HIDE DEF e, b
<1>3. \A k : k \in keys <=> \E t \in due : \E i \in DOMAIN b[t] : b[t][i] = k
  BY DEF Range
<1>4. ASSUME NEW k \in DOMAIN e PROVE k \in keys <=> IsExpired(e[k].expiresAt, time)
  <2>1. ASSUME k \in keys PROVE IsExpired(e[k].expiresAt, time)
    <3>1. PICK t \in due : \E i \in DOMAIN b[t] : b[t][i] = k
      BY <1>3, <2>1, Zenon
    <3>2. e[k].expiresAt = t
      BY <1>2, <3>1 DEF IsBucket
    <3>. QED  BY <3>1, <3>2, Zenon
  <2>2. ASSUME IsExpired(e[k].expiresAt, time) PROVE k \in keys
    <3>1. e[k].expiresAt \in due
      BY <1>2, <2>2, Zenon
    <3>. QED  BY <1>2, <1>3, <3>1, Zenon
  <2>. QED  BY <2>1, <2>2, Zenon
<1>. HIDE DEF keys
<1>5. DOMAIN f = {k \in DOMAIN e : ~IsExpired(e[k].expiresAt, time)}
  BY <1>4, Zenon
<1>6. \A t \in DOMAIN g : IsBucket(g[t], t, f, K)
  <2>. SUFFICES ASSUME NEW t \in DOMAIN g PROVE IsBucket(g[t], t, f, K)
    BY Zenon
  <2>1. t \in DOMAIN b /\ ~IsExpired(t, time) /\ g[t] = b[t] /\ IsBucket(b[t], t, e, K)
    BY <1>2, Zenon
  <2>. DEFINE q == b[t]
  <2>. HIDE DEF q, f, g
  <2>2. q \in Seq(K) /\ q # << >> /\ IsInjective(q)
    BY <2>1, Zenon DEF IsBucket, q
  <2>3. \A i \in DOMAIN q : q[i] \in DOMAIN e /\ e[q[i]].expiresAt = t
    BY <2>1, Zenon DEF IsBucket, q
  <2>4. \A i \in DOMAIN q : q[i] \in DOMAIN f /\ f[q[i]].expiresAt = t
    BY <1>5, <2>1, <2>3, Zenon DEF f
  <2>5. IsBucket(q, t, f, K)
    BY <2>2, <2>4, Zenon DEF IsBucket
  <2>. QED  BY <2>1, <2>5, Zenon DEF q
<1>7. \A k \in DOMAIN f : /\ f[k].expiresAt \in DOMAIN g
                          /\ \E i \in DOMAIN g[f[k].expiresAt] : g[f[k].expiresAt][i] = k
  <2>. SUFFICES ASSUME NEW k \in DOMAIN f
                PROVE  /\ f[k].expiresAt \in DOMAIN g
                       /\ \E i \in DOMAIN g[f[k].expiresAt] : g[f[k].expiresAt][i] = k
    BY Zenon
  <2>1. k \in DOMAIN e /\ f[k] = e[k] /\ ~IsExpired(e[k].expiresAt, time)
    BY <1>5, Zenon
  <2>2. e[k].expiresAt \in DOMAIN b \ due
    BY <1>2, <2>1, Zenon
  <2>3. g[e[k].expiresAt] = b[e[k].expiresAt]
    BY <2>2, Zenon
  <2>. QED  BY <1>2, <2>1, <2>2, <2>3, Zenon
<1>8. /\ f = [k \in DOMAIN f |-> f[k]] /\ g = [t \in DOMAIN g |-> g[t]]
      /\ DOMAIN f \subseteq K /\ \A k \in DOMAIN f : f[k] = e[k]
  BY <1>2, Zenon
<1>9. n.entries = f
  BY <1>1
<1>. HIDE DEF f, g
<1>10. Agree(n, K)
  BY <1>1, <1>6, <1>7, <1>8, AgreeOf
<1>11. DOMAIN n.entries = {k \in DOMAIN e : ~IsExpired(e[k].expiresAt, time)}
  BY <1>5, <1>9, Zenon
<1>12. \A k \in DOMAIN n.entries : n.entries[k] = e[k]
  BY <1>8, <1>9, Zenon
<1>. QED  BY <1>10, <1>11, <1>12, Zenon DEF e

\* enqueue_by_expiry of a key that is not there yet.
LEMMA EnqueueAgrees ==
  ASSUME NEW K, NEW m, Agree(m, K), NEW k \in K, k \notin DOMAIN m.entries, NEW v,
         NEW n, n = Enqueue(m, k, v)
  PROVE  /\ Agree(n, K)
         /\ n.entries = [x \in DOMAIN m.entries \cup {k} |-> IF x = k THEN v ELSE m.entries[x]]
<1>. DEFINE e == m.entries
            b == m.by_expiry
            at == v.expiresAt
            old == Bucket(m, at)
            new == Append(old, k)
            f == [x \in DOMAIN e \cup {k} |-> IF x = k THEN v ELSE e[x]]
            g == [t \in DOMAIN b \cup {at} |-> IF t = at THEN new ELSE b[t]]
<1>1. n = [entries |-> f, by_expiry |-> g]
  BY Zenon DEF Enqueue, With
<1>2. /\ DOMAIN e \subseteq K
      /\ \A t \in DOMAIN b : IsBucket(b[t], t, e, K)
      /\ \A x \in DOMAIN e : e[x].expiresAt \in DOMAIN b
      /\ \A x \in DOMAIN e : \E i \in DOMAIN b[e[x].expiresAt] : b[e[x].expiresAt][i] = x
  BY Zenon DEF Agree
<1>3. old = IF at \in DOMAIN b THEN b[at] ELSE << >>
  BY Zenon DEF Bucket
<1>. HIDE DEF e, b, at, old
<1>4. /\ old \in Seq(K) /\ IsInjective(old)
      /\ \A i \in DOMAIN old : old[i] \in DOMAIN e /\ e[old[i]].expiresAt = at
  <2>1. CASE at \in DOMAIN b
    <3>1. old = b[at] /\ IsBucket(b[at], at, e, K)
      BY <1>2, <1>3, <2>1, Zenon
    <3>2. IsBucket(old, at, e, K)
      BY <3>1, Zenon
    <3>. QED  BY <3>2, Zenon DEF IsBucket
  <2>2. CASE at \notin DOMAIN b
    <3>1. old = << >>
      BY <1>3, <2>2, Zenon
    <3>2. old \in Seq(K) /\ DOMAIN old = {}
      BY <3>1
    <3>. QED  BY <3>2, Zenon DEF IsInjective
  <2>. QED  BY <2>1, <2>2, Zenon
<1>5. k \notin DOMAIN e
  BY Zenon DEF e
<1>6. /\ DOMAIN f = DOMAIN e \cup {k} /\ f[k] = v
      /\ \A x \in DOMAIN e : f[x] = e[x]
      /\ DOMAIN g = DOMAIN b \cup {at} /\ g[at] = new
      /\ \A t \in DOMAIN b : t # at => g[t] = b[t]
      /\ f = [x \in DOMAIN f |-> f[x]] /\ g = [t \in DOMAIN g |-> g[t]]
  BY <1>5, Zenon
<1>7. /\ new \in Seq(K) /\ DOMAIN new = 1 .. Len(old) + 1 /\ Len(old) \in Nat
      /\ DOMAIN old = 1 .. Len(old)
      /\ \A i \in 1 .. Len(old) : new[i] = old[i]
      /\ new[Len(old) + 1] = k
  <2>1. new \in Seq(K) /\ Len(new) = Len(old) + 1 /\ Len(old) \in Nat
        /\ \A i \in 1 .. Len(old) : new[i] = old[i]
        /\ new[Len(old) + 1] = k
    BY <1>4
  <2>2. DOMAIN new = 1 .. Len(new) /\ DOMAIN old = 1 .. Len(old)
    BY <1>4, <2>1
  <2>. QED  BY <2>1, <2>2
<1>. HIDE DEF f, g, new
<1>8. \A i \in DOMAIN new : i = Len(old) + 1 \/ i \in DOMAIN old
  BY <1>7
<1>9. IsBucket(new, at, f, K)
  <2>1. \A i \in DOMAIN new : new[i] \in DOMAIN f /\ f[new[i]].expiresAt = at
    <3>. SUFFICES ASSUME NEW i \in DOMAIN new
                  PROVE  new[i] \in DOMAIN f /\ f[new[i]].expiresAt = at
      BY Zenon
    <3>1. CASE i = Len(old) + 1
      BY <1>6, <1>7, <3>1, Zenon DEF at
    <3>2. CASE i \in DOMAIN old
      BY <1>4, <1>6, <1>7, <3>2
    <3>. QED  BY <1>8, <3>1, <3>2, Zenon
  <2>2. \A i \in DOMAIN old : new[i] = old[i] /\ new[i] # k
    BY <1>4, <1>5, <1>7, Zenon
  <2>3. IsInjective(new)
    <3>. SUFFICES ASSUME NEW i \in DOMAIN new, NEW j \in DOMAIN new, new[i] = new[j]
                  PROVE  i = j
      BY Zenon DEF IsInjective
    <3>1. CASE i \in DOMAIN old /\ j \in DOMAIN old
      BY <1>4, <2>2, <3>1, Zenon DEF IsInjective
    <3>2. CASE i = Len(old) + 1 \/ j = Len(old) + 1
      BY <1>7, <1>8, <2>2, <3>2, Zenon
    <3>. QED  BY <1>8, <3>1, <3>2, Zenon
  <2>4. new # << >>
    BY <1>7
  <2>. QED  BY <1>7, <2>1, <2>3, <2>4, Zenon DEF IsBucket
<1>10. \A t \in DOMAIN g : IsBucket(g[t], t, f, K)
  <2>. SUFFICES ASSUME NEW t \in DOMAIN g PROVE IsBucket(g[t], t, f, K)
    BY Zenon
  <2>1. CASE t = at
    BY <1>6, <1>9, <2>1, Zenon
  <2>2. CASE t # at
    <3>. DEFINE q == b[t]
    <3>1. t \in DOMAIN b /\ g[t] = q /\ IsBucket(q, t, e, K)
      BY <1>2, <1>6, <2>2, Zenon
    <3>. HIDE DEF q
    <3>2. q \in Seq(K) /\ q # << >> /\ IsInjective(q)
      BY <3>1, Zenon DEF IsBucket
    <3>3. \A i \in DOMAIN q : q[i] \in DOMAIN e /\ e[q[i]].expiresAt = t
      BY <3>1, Zenon DEF IsBucket
    <3>4. \A i \in DOMAIN q : q[i] \in DOMAIN f /\ f[q[i]].expiresAt = t
      BY <1>6, <3>3, Zenon
    <3>5. IsBucket(q, t, f, K)
      BY <3>2, <3>4, Zenon DEF IsBucket
    <3>. QED  BY <3>1, <3>5, Zenon
  <2>. QED  BY <2>1, <2>2, Zenon
<1>11. \A x \in DOMAIN f : /\ f[x].expiresAt \in DOMAIN g
                           /\ \E i \in DOMAIN g[f[x].expiresAt] : g[f[x].expiresAt][i] = x
  <2>. SUFFICES ASSUME NEW x \in DOMAIN f
                PROVE  /\ f[x].expiresAt \in DOMAIN g
                       /\ \E i \in DOMAIN g[f[x].expiresAt] : g[f[x].expiresAt][i] = x
    BY Zenon
  <2>1. CASE x = k
    <3>1. f[x].expiresAt = at /\ g[at] = new /\ Len(old) + 1 \in DOMAIN new
      BY <1>6, <1>7, <2>1 DEF at
    <3>. QED  BY <1>6, <1>7, <2>1, <3>1, Zenon
  <2>2. CASE x \in DOMAIN e
    <3>. DEFINE t == e[x].expiresAt
    <3>1. f[x].expiresAt = t /\ t \in DOMAIN b /\ \E i \in DOMAIN b[t] : b[t][i] = x
      BY <1>2, <1>6, <2>2, Zenon
    <3>. HIDE DEF t
    <3>2. CASE t = at
      <4>1. old = b[t]
        BY <1>3, <3>1, <3>2, Zenon
      <4>2. PICK i \in DOMAIN old : old[i] = x
        BY <3>1, <4>1, Zenon
      <4>3. i \in DOMAIN new /\ new[i] = x
        BY <1>7, <4>2
      <4>. QED  BY <1>6, <3>1, <3>2, <4>3, Zenon
    <3>3. CASE t # at
      BY <1>6, <3>1, <3>3, Zenon
    <3>. QED  BY <3>2, <3>3, Zenon
  <2>. QED  BY <1>6, <2>1, <2>2, Zenon
<1>12. DOMAIN f \subseteq K
  BY <1>2, <1>6, Zenon
<1>13. Agree(n, K)
  BY <1>1, <1>6, <1>10, <1>11, <1>12, AgreeOf
<1>14. n.entries = f
  BY <1>1
<1>. QED  BY <1>13, <1>14, Zenon DEF f, e

\* remove of a key that is there: it leaves its bucket, and an empty bucket is closed.
LEMMA DeleteAgrees ==
  ASSUME NEW K, NEW m, Agree(m, K), NEW k \in DOMAIN m.entries, NEW n, n = Delete(m, k)
  PROVE  /\ Agree(n, K)
         /\ n.entries = [x \in DOMAIN m.entries \ {k} |-> m.entries[x]]
<1>. DEFINE e == m.entries
            b == m.by_expiry
            at == e[k].expiresAt
            q == b[at]
            P == {i \in DOMAIN q : q[i] # k}
            r == Kept(q, P)
            f == [x \in DOMAIN e \ {k} |-> e[x]]
            g == IF r = << >> THEN [t \in DOMAIN b \ {at} |-> b[t]] ELSE [b EXCEPT ![at] = r]
<1>1. n = [entries |-> f, by_expiry |-> g]
  BY Zenon DEF Delete, Restrict
<1>2. /\ DOMAIN e \subseteq K
      /\ \A t \in DOMAIN b : IsBucket(b[t], t, e, K)
      /\ \A x \in DOMAIN e : e[x].expiresAt \in DOMAIN b
      /\ \A x \in DOMAIN e : \E i \in DOMAIN b[e[x].expiresAt] : b[e[x].expiresAt][i] = x
      /\ b = [t \in DOMAIN b |-> b[t]]
  BY Zenon DEF Agree
<1>3. k \in DOMAIN e
  BY Zenon
<1>. HIDE DEF e, b
<1>4. at \in DOMAIN b /\ IsBucket(q, at, e, K)
  BY <1>2, <1>3, Zenon
<1>. HIDE DEF at, q
<1>5. /\ q \in Seq(K) /\ IsInjective(q)
      /\ \A i \in DOMAIN q : q[i] \in DOMAIN e /\ e[q[i]].expiresAt = at
  BY <1>4, Zenon DEF IsBucket
<1>6. P \subseteq DOMAIN q
  BY Zenon
<1>7. /\ r \in Seq(K) /\ DOMAIN r = 1 .. Cardinality(P) /\ P \subseteq Nat /\ IsFiniteSet(P)
      /\ Cardinality(P) \in Nat
      /\ \A j \in DOMAIN r : Nth(P, j) \in P /\ r[j] = q[Nth(P, j)]
      /\ \A i \in P : \E j \in DOMAIN r : r[j] = q[i]
  <2>. HIDE DEF P
  <2>1. /\ r \in Seq(K) /\ DOMAIN r = 1 .. Cardinality(P) /\ P \subseteq Nat /\ IsFiniteSet(P)
        /\ \A j \in 1 .. Cardinality(P) : Nth(P, j) \in P /\ r[j] = q[Nth(P, j)]
        /\ \A i \in P : \E j \in 1 .. Cardinality(P) : Nth(P, j) = i /\ r[j] = q[i]
        /\ Cardinality(P) \in Nat
    BY <1>5, <1>6, KeptIs
  <2>. HIDE DEF r
  <2>. QED  BY <2>1, Zenon
<1>8. \A j \in DOMAIN r : r[j] \in DOMAIN e /\ r[j] # k /\ e[r[j]].expiresAt = at
  BY <1>5, <1>7
<1>9. IsInjective(r)
  <2>. SUFFICES ASSUME NEW i \in DOMAIN r, NEW j \in DOMAIN r, r[i] = r[j] PROVE i = j
    BY Zenon DEF IsInjective
  <2>1. Nth(P, i) \in DOMAIN q /\ Nth(P, j) \in DOMAIN q /\ q[Nth(P, i)] = q[Nth(P, j)]
    BY <1>7, Zenon
  <2>2. Nth(P, i) = Nth(P, j)
    BY <1>5, <2>1, Zenon DEF IsInjective
  <2>3. i \in Nat /\ j \in Nat /\ Nth(P, i) \in Nat
    <3>. HIDE DEF P, r
    <3>1. i \in 1 .. Cardinality(P) /\ j \in 1 .. Cardinality(P) /\ Cardinality(P) \in Nat
      BY <1>7, Zenon
    <3>2. Nth(P, i) \in P /\ \A x \in P : x \in Nat
      BY <1>7, Zenon
    <3>. QED  BY <3>1, <3>2
  <2>4. ~(i < j) /\ ~(j < i)
    <3>. HIDE DEF P, r
    <3>1. i < j => Nth(P, i) < Nth(P, j)
      BY <1>7, NthOrder, Zenon
    <3>2. j < i => Nth(P, j) < Nth(P, i)
      BY <1>7, NthOrder, Zenon
    <3>. QED  BY <2>2, <2>3, <3>1, <3>2
  <2>. QED  BY <2>3, <2>4
<1>10. \A x \in DOMAIN e : x # k /\ e[x].expiresAt = at => \E j \in DOMAIN r : r[j] = x
  <2>. SUFFICES ASSUME NEW x \in DOMAIN e, x # k, e[x].expiresAt = at
                PROVE  \E j \in DOMAIN r : r[j] = x
    BY Zenon
  <2>1. PICK i \in DOMAIN q : q[i] = x
    BY <1>2, Zenon DEF q
  <2>2. i \in P
    BY <2>1, Zenon
  <2>. QED  BY <1>7, <2>1, <2>2, Zenon
<1>11. DOMAIN f = DOMAIN e \ {k} /\ \A x \in DOMAIN f : f[x] = e[x]
  BY Zenon
<1>12. f = [x \in DOMAIN f |-> f[x]] /\ DOMAIN f \subseteq K
  BY <1>2, Zenon
<1>. HIDE DEF P, r, f
<1>13. /\ g = [t \in DOMAIN g |-> g[t]]
       /\ DOMAIN g = IF r = << >> THEN DOMAIN b \ {at} ELSE DOMAIN b
       /\ \A t \in DOMAIN g : t # at => g[t] = b[t]
       /\ at \in DOMAIN g => g[at] = r /\ r # << >>
  <2>1. CASE r = << >>
    <3>1. g = [t \in DOMAIN b \ {at} |-> b[t]]
      BY <2>1, Zenon
    <3>. QED  BY <2>1, <3>1, Zenon
  <2>2. CASE r # << >>
    <3>1. g = [b EXCEPT ![at] = r]
      BY <2>2, Zenon
    <3>2. g = [t \in DOMAIN b |-> IF t = at THEN r ELSE b[t]]
      BY <1>2, <3>1, Zenon
    <3>. QED  BY <1>4, <2>2, <3>2, Zenon
  <2>. QED  BY <2>1, <2>2, Zenon
<1>. HIDE DEF g
<1>14. \A t \in DOMAIN g : IsBucket(g[t], t, f, K)
  <2>. SUFFICES ASSUME NEW t \in DOMAIN g PROVE IsBucket(g[t], t, f, K)
    BY Zenon
  <2>1. CASE t = at
    <3>1. \A j \in DOMAIN r : r[j] \in DOMAIN f /\ f[r[j]].expiresAt = at
      BY <1>8, <1>11, Zenon
    <3>2. IsBucket(r, at, f, K)
      BY <1>7, <1>9, <1>13, <2>1, <3>1, Zenon DEF IsBucket
    <3>. QED  BY <1>13, <2>1, <3>2, Zenon
  <2>2. CASE t # at
    <3>. DEFINE p == b[t]
    <3>1. t \in DOMAIN b /\ g[t] = p /\ IsBucket(p, t, e, K)
      BY <1>2, <1>13, <2>2, Zenon
    <3>. HIDE DEF p
    <3>2. p \in Seq(K) /\ p # << >> /\ IsInjective(p)
      BY <3>1, Zenon DEF IsBucket
    <3>3. \A i \in DOMAIN p : p[i] \in DOMAIN e /\ e[p[i]].expiresAt = t
      BY <3>1, Zenon DEF IsBucket
    <3>4. e[k].expiresAt = at
      BY Zenon DEF at
    <3>5. \A i \in DOMAIN p : p[i] \in DOMAIN f /\ f[p[i]].expiresAt = t
      BY <1>11, <2>2, <3>3, <3>4, Zenon
    <3>6. IsBucket(p, t, f, K)
      BY <3>2, <3>5, Zenon DEF IsBucket
    <3>. QED  BY <3>1, <3>6, Zenon
  <2>. QED  BY <2>1, <2>2, Zenon
<1>15. \A x \in DOMAIN f : /\ f[x].expiresAt \in DOMAIN g
                           /\ \E i \in DOMAIN g[f[x].expiresAt] : g[f[x].expiresAt][i] = x
  <2>. SUFFICES ASSUME NEW x \in DOMAIN f
                PROVE  /\ f[x].expiresAt \in DOMAIN g
                       /\ \E i \in DOMAIN g[f[x].expiresAt] : g[f[x].expiresAt][i] = x
    BY Zenon
  <2>. DEFINE t == e[x].expiresAt
  <2>1. x \in DOMAIN e /\ x # k /\ f[x].expiresAt = t
    BY <1>11, Zenon
  <2>2. t \in DOMAIN b /\ \E i \in DOMAIN b[t] : b[t][i] = x
    BY <1>2, <2>1, Zenon
  <2>3. CASE t = at
    <3>1. PICK j \in DOMAIN r : r[j] = x
      BY <1>10, <2>1, <2>3, Zenon
    <3>2. r # << >>
      <4>1. r = << >> => DOMAIN r = {}
        OBVIOUS
      <4>. QED  BY <3>1, <4>1, Zenon
    <3>3. at \in DOMAIN g /\ g[at] = r
      BY <1>4, <1>13, <3>2, Zenon
    <3>. QED  BY <2>1, <2>3, <3>1, <3>3, Zenon
  <2>4. CASE t # at
    <3>. HIDE DEF t
    <3>1. t \in DOMAIN g /\ g[t] = b[t]
      BY <1>13, <2>2, <2>4, Zenon
    <3>. QED  BY <2>1, <2>2, <3>1, Zenon
  <2>. QED  BY <2>3, <2>4, Zenon
<1>16. Agree(n, K)
  BY <1>1, <1>12, <1>13, <1>14, <1>15, AgreeOf
<1>17. n.entries = f
  BY <1>1
<1>. QED  BY <1>16, <1>17, Zenon DEF f, e

\* Changing values leaves the agreement alone.
LEMMA ValueAgrees ==
  ASSUME NEW K, NEW m, Agree(m, K), NEW f, NEW n, n = [entries |-> f, by_expiry |-> m.by_expiry],
         f = [x \in DOMAIN f |-> f[x]], DOMAIN f = DOMAIN m.entries,
         \A x \in DOMAIN f : f[x].expiresAt = m.entries[x].expiresAt
  PROVE  Agree(n, K) /\ n.entries = f
<1>. DEFINE e == m.entries
            b == m.by_expiry
<1>1. /\ DOMAIN e \subseteq K
      /\ \A t \in DOMAIN b : IsBucket(b[t], t, e, K)
      /\ \A x \in DOMAIN e : e[x].expiresAt \in DOMAIN b
      /\ \A x \in DOMAIN e : \E i \in DOMAIN b[e[x].expiresAt] : b[e[x].expiresAt][i] = x
      /\ b = [t \in DOMAIN b |-> b[t]]
  BY Zenon DEF Agree
<1>2. DOMAIN f = DOMAIN e /\ \A x \in DOMAIN f : f[x].expiresAt = e[x].expiresAt
  BY Zenon
<1>3. n = [entries |-> f, by_expiry |-> b]
  BY Zenon
<1>. HIDE DEF e, b
<1>4. \A t \in DOMAIN b : IsBucket(b[t], t, f, K)
  <2>. SUFFICES ASSUME NEW t \in DOMAIN b PROVE IsBucket(b[t], t, f, K)
    BY Zenon
  <2>. DEFINE q == b[t]
  <2>1. IsBucket(q, t, e, K)
    BY <1>1, Zenon
  <2>. HIDE DEF q
  <2>2. q \in Seq(K) /\ q # << >> /\ IsInjective(q)
    BY <2>1, Zenon DEF IsBucket
  <2>3. \A i \in DOMAIN q : q[i] \in DOMAIN e /\ e[q[i]].expiresAt = t
    BY <2>1, Zenon DEF IsBucket
  <2>4. \A i \in DOMAIN q : q[i] \in DOMAIN f /\ f[q[i]].expiresAt = t
    BY <1>2, <2>3, Zenon
  <2>5. IsBucket(q, t, f, K)
    BY <2>2, <2>4, Zenon DEF IsBucket
  <2>. QED  BY <2>5, Zenon DEF q
<1>5. \A x \in DOMAIN f : /\ f[x].expiresAt \in DOMAIN b
                          /\ \E i \in DOMAIN b[f[x].expiresAt] : b[f[x].expiresAt][i] = x
  BY <1>1, <1>2, Zenon
<1>6. DOMAIN f \subseteq K
  BY <1>1, <1>2, Zenon
<1>7. Agree(n, K)
  BY <1>1, <1>3, <1>4, <1>5, <1>6, AgreeOf
<1>. QED  BY <1>3, <1>7

\* A value replaced through get_value_mut.
LEMMA SetValueAgrees ==
  ASSUME NEW K, NEW m, Agree(m, K), NEW k \in DOMAIN m.entries, NEW v, NEW n,
         n = SetValue(m, k, v),
         m.entries[k] = [value |-> m.entries[k].value, expiresAt |-> m.entries[k].expiresAt]
  PROVE  LET d == [value |-> v, expiresAt |-> m.entries[k].expiresAt]
         IN  /\ Agree(n, K)
             /\ n.entries = [x \in DOMAIN m.entries |-> IF x = k THEN d ELSE m.entries[x]]
<1>. DEFINE e == m.entries
            x0 == e[k]
            d == [value |-> v, expiresAt |-> x0.expiresAt]
            f == [x \in DOMAIN e |-> IF x = k THEN d ELSE e[x]]
<1>1. n = [m EXCEPT !.entries = [e EXCEPT ![k] = [x0 EXCEPT !.value = v]]]
  BY Zenon DEF SetValue
<1>2. /\ m = [entries |-> e, by_expiry |-> m.by_expiry]
      /\ e = [x \in DOMAIN e |-> e[x]] /\ k \in DOMAIN e
  BY Zenon DEF Agree
<1>3. x0 = [value |-> x0.value, expiresAt |-> x0.expiresAt]
  BY Zenon
<1>. HIDE DEF e, x0
<1>4. [x0 EXCEPT !.value = v] = d
  BY <1>3
<1>. HIDE DEF d
<1>5. [e EXCEPT ![k] = d] = f
  BY <1>2, Zenon
<1>6. n = [entries |-> f, by_expiry |-> m.by_expiry]
  <2>1. n = [m EXCEPT !.entries = f]
    BY <1>1, <1>4, <1>5, Zenon
  <2>. HIDE DEF f
  <2>. QED  BY <1>2, <2>1, Zenon
<1>7. f = [x \in DOMAIN f |-> f[x]] /\ DOMAIN f = DOMAIN e
  BY Zenon
<1>8. \A x \in DOMAIN f : f[x].expiresAt = e[x].expiresAt
  <2>1. d.expiresAt = e[k].expiresAt
    BY Zenon DEF d, x0
  <2>. QED  BY <2>1, Zenon
<1>. HIDE DEF f
<1>9. Agree(n, K) /\ n.entries = f
  BY <1>6, <1>7, <1>8, ValueAgrees DEF e
<1>. QED  BY <1>9, Zenon DEF f, d, x0, e

====
