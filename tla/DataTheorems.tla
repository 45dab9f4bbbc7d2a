----------------------------- MODULE DataTheorems -----------------------------
(* Induction as statements about sets, so that a proof can cite them with a    *)
(* set of numbers or of subsets in the place of a predicate, and what follows  *)
(* for functions that are defined by recursion and for the folds.              *)
EXTENDS MicroBatchCount, Functions, FiniteSetsExt, FiniteSetTheorems, SequenceTheorems,
        WellFoundedInduction, TLAPS

\* A set of numbers without a smallest one is empty.
LEMMA LessIsWellFounded ==
  IsWellFoundedOn({pair \in Nat \X Nat : pair[1] < pair[2]}, Nat)
  BY NatLessThanWellFounded DEF OpToRel

\* A set that has 0, and with a number the next, has every number.
LEMMA SetInduction ==
  ASSUME NEW T, 0 \in T, \A n \in Nat : n \in T => n + 1 \in T
  PROVE  \A n \in Nat : n \in T
  <1> DEFINE R == {pair \in Nat \X Nat : pair[1] < pair[2]}
             U == {n \in Nat : n \notin T}
  <1>1. SUFFICES ASSUME U # {} PROVE FALSE
    OBVIOUS
  <1>2. IsWellFoundedOn(R, Nat) /\ U \subseteq Nat
    BY LessIsWellFounded
  <1>3. PICK n \in U : \A m \in U : <<m, n>> \notin R
    <2> HIDE DEF R, U
    <2> QED
      BY <1>1, <1>2, WFMin
  <1>4. n - 1 \in U /\ <<n - 1, n>> \in R
    OBVIOUS
  <1> QED
    BY <1>3, <1>4

\* An element less.
LEMMA OneLess ==
  ASSUME NEW T, IsFiniteSet(T), NEW n \in Nat, Cardinality(T) = n + 1, NEW x \in T
  PROVE  Cardinality(T \ {x}) = n
  <1>1. Cardinality(T \ {x}) = Cardinality(T) - 1
    BY FS_RemoveElement
  <1> QED
    BY <1>1

\* A family of subsets that grows one element at a time reaches the whole set.
LEMMA SubsetInduction ==
  ASSUME NEW S, IsFiniteSet(S), NEW G, {} \in G,
         \A T \in SUBSET S : T \in G => \A x \in S \ T : T \cup {x} \in G
  PROVE  \A T \in SUBSET S : T \in G
  <1> DEFINE K == {n \in Nat : \A T \in SUBSET S : Cardinality(T) = n => T \in G}
  <1>1. \A T \in SUBSET S : IsFiniteSet(T) /\ Cardinality(T) \in Nat
    BY FS_Subset, FS_CardinalityType
  <1>2. 0 \in K
    BY <1>1, FS_EmptySet
  <1>3. ASSUME NEW n \in Nat, n \in K PROVE n + 1 \in K
    <2>1. SUFFICES ASSUME NEW T \in SUBSET S, Cardinality(T) = n + 1 PROVE T \in G
      OBVIOUS
    <2>2. PICK x \in T : TRUE
      <3>1. T # {}
        BY <2>1, FS_EmptySet
      <3> QED
        BY <3>1
    <2>3. Cardinality(T \ {x}) = n
      <3>1. IsFiniteSet(T) /\ x \in T
        BY <1>1, <2>2
      <3>2. Cardinality(T \ {x}) = Cardinality(T) - 1
        BY <3>1, FS_RemoveElement
      <3> QED
        BY <2>1, <3>2
    <2>4. T \ {x} \in G
      BY <1>3, <2>3
    <2>5. (T \ {x}) \cup {x} = T /\ x \in S \ (T \ {x})
      BY <2>2
    <2> QED
      BY <2>4, <2>5
  <1>4. \A n \in Nat : n \in K
    <2> HIDE DEF K
    <2> QED
      BY <1>2, <1>3, SetInduction
  <1> QED
    BY <1>1, <1>4

-----------------------------------------------------------------------------
(* Recursion over the subsets of a finite set, an element at a time.           *)

\* g takes the picked element off a set at each step.
TakesOff(g, S, base, pick, step) ==
  g = [s \in SUBSET S |-> IF s = {} THEN base ELSE step[pick[s], g[s \ {pick[s]}]]]

\* The recursion that takes one element off at a time has a solution.
LEMMA SubsetRecursion ==
  ASSUME NEW S, IsFiniteSet(S), NEW V, NEW base \in V,
         NEW pick, \A s \in SUBSET S : s # {} => pick[s] \in s,
         NEW step \in [S \X V -> V]
  PROVE  \E g \in [SUBSET S -> V] : TakesOff(g, S, base, pick, step)
  <1> DEFINE Small(n) == {s \in SUBSET S : Cardinality(s) <= n}
             Works(g, n) == \A s \in Small(n) :
               g[s] = IF s = {} THEN base ELSE step[pick[s], g[s \ {pick[s]}]]
             K == {n \in Nat : \E g \in [Small(n) -> V] : Works(g, n)}
  <1>1. \A T \in SUBSET S : IsFiniteSet(T) /\ Cardinality(T) \in Nat
    BY FS_Subset, FS_CardinalityType
  <1>2. \A T \in SUBSET S : T # {} =>
          /\ T \ {pick[T]} \in SUBSET S /\ Cardinality(T \ {pick[T]}) = Cardinality(T) - 1
          /\ pick[T] \in S
    <2> SUFFICES ASSUME NEW T \in SUBSET S, T # {}
                 PROVE  /\ T \ {pick[T]} \in SUBSET S /\ pick[T] \in S
                        /\ Cardinality(T \ {pick[T]}) = Cardinality(T) - 1
      OBVIOUS
    <2>1. pick[T] \in T /\ IsFiniteSet(T)
      BY <1>1
    <2>2. Cardinality(T \ {pick[T]}) = Cardinality(T) - 1
      BY <2>1, FS_RemoveElement
    <2> QED
      BY <2>1, <2>2
  <1>3. 0 \in K
    <2> DEFINE g == [s \in Small(0) |-> base]
    <2>1. \A s \in Small(0) : s = {}
      BY <1>1, FS_EmptySet
    <2>2. g \in [Small(0) -> V] /\ Works(g, 0)
      BY <2>1
    <2> HIDE DEF g, Works, Small
    <2> QED
      BY <2>2
  <1>4. ASSUME NEW n \in Nat, n \in K PROVE n + 1 \in K
    <2>1. PICK g \in [Small(n) -> V] : Works(g, n)
      BY <1>4
    <2> DEFINE h == [s \in Small(n + 1) |->
                       IF s = {} THEN base ELSE step[pick[s], g[s \ {pick[s]}]]]
    <2>2. \A s \in Small(n + 1) : s # {} => s \ {pick[s]} \in Small(n)
      BY <1>1, <1>2
    <2>3. h \in [Small(n + 1) -> V]
      BY <1>2, <2>2
    <2>4. \A s \in Small(n) : h[s] = g[s]
      <3> SUFFICES ASSUME NEW s \in Small(n) PROVE h[s] = g[s]
        OBVIOUS
      <3>1. s \in Small(n + 1)
        BY <1>1
      <3>2. g[s] = IF s = {} THEN base ELSE step[pick[s], g[s \ {pick[s]}]]
        BY <2>1
      <3> QED
        BY <3>1, <3>2
    <2>5. Works(h, n + 1)
      BY <2>2, <2>4
    <2> HIDE DEF h, Works, Small
    <2> QED
      BY <2>3, <2>5
  <1>5. \A n \in Nat : n \in K
    <2> HIDE DEF K
    <2> QED
      BY <1>3, <1>4, SetInduction
  <1>6. Small(Cardinality(S)) = SUBSET S
    BY <1>1, FS_Subset, FS_CardinalityType
  <1>7. PICK g \in [SUBSET S -> V] : Works(g, Cardinality(S))
    <2>1. Cardinality(S) \in K
      BY <1>5, FS_CardinalityType
    <2> HIDE DEF Works, Small
    <2> QED
      BY <1>6, <2>1
  <1>8. TakesOff(g, S, base, pick, step)
    BY <1>6, <1>7 DEF TakesOff
  <1> QED
    BY <1>8

AgreeOn(g, h, S) == \A s \in SUBSET S : g[s] = h[s]

\* Two functions that agree as soon as they agree on the smaller set are equal.
LEMMA SubsetsAgree ==
  ASSUME NEW S, IsFiniteSet(S),
         NEW pick, \A s \in SUBSET S : s # {} => pick[s] \in s,
         NEW g, NEW h, g[{}] = h[{}],
         \A s \in SUBSET S : s # {} /\ g[s \ {pick[s]}] = h[s \ {pick[s]}] => g[s] = h[s]
  PROVE  AgreeOn(g, h, S)
  <1> DEFINE K == {n \in Nat : \A s \in SUBSET S : Cardinality(s) = n => g[s] = h[s]}
  <1>1. \A T \in SUBSET S : IsFiniteSet(T) /\ Cardinality(T) \in Nat
    BY FS_Subset, FS_CardinalityType
  <1>2. 0 \in K
    <2>1. \A T \in SUBSET S : Cardinality(T) = 0 => T = {}
      BY <1>1, FS_EmptySet
    <2> QED
      BY <2>1
  <1>3. ASSUME NEW n \in Nat, n \in K PROVE n + 1 \in K
    <2>1. ASSUME NEW s \in SUBSET S, Cardinality(s) = n + 1 PROVE g[s] = h[s]
      <3>1. s # {}
        BY <2>1, FS_EmptySet
      <3>2. pick[s] \in s /\ IsFiniteSet(s)
        BY <1>1, <3>1
      <3>3. Cardinality(s \ {pick[s]}) = Cardinality(s) - 1
        BY <3>2, FS_RemoveElement
      <3>4. g[s \ {pick[s]}] = h[s \ {pick[s]}]
        BY <1>3, <2>1, <3>3
      <3> QED
        BY <3>1, <3>4
    <2> QED
      BY <2>1
  <1>4. \A n \in Nat : n \in K
    <2> HIDE DEF K
    <2> QED
      BY <1>2, <1>3, SetInduction
  <1> QED
    BY <1>1, <1>4 DEF AgreeOn

-----------------------------------------------------------------------------
(* Sums.                                                                       *)

\* A sum over the subsets of S, whichever element is taken first.
IsSum(g, f, S) ==
  /\ g \in [SUBSET S -> Int] /\ g[{}] = 0
  /\ \A s \in SUBSET S : \A x \in s : g[s] = g[s \ {x}] + f[x]

\* There is a function that sums f over every subset of S.
LEMMA SumExists ==
  ASSUME NEW S, IsFiniteSet(S), NEW f, \A x \in S : f[x] \in Int
  PROVE  \E g : IsSum(g, f, S) /\ SumFunctionOnSet(f, S) = g[S]
  <1> DEFINE pick == [s \in SUBSET S |-> CHOOSE x \in s : TRUE]
             step == [p \in S \X Int |-> f[p[1]] + p[2]]
             Rec(g) == g = [s \in SUBSET S |-> IF s = {} THEN 0
                              ELSE f[CHOOSE x \in s : TRUE] + g[s \ {CHOOSE x \in s : TRUE}]]
             sum == CHOOSE g : Rec(g)
  <1>1. \A s \in SUBSET S : s # {} => pick[s] \in s
    OBVIOUS
  <1>2. step \in [S \X Int -> Int] /\ 0 \in Int
    OBVIOUS
  <1>3. PICK g \in [SUBSET S -> Int] : TakesOff(g, S, 0, pick, step)
    <2> HIDE DEF pick, step
    <2> QED
      BY <1>1, <1>2, SubsetRecursion
  <1>4. \A s \in SUBSET S : s # {} => /\ pick[s] \in S /\ g[s \ {pick[s]}] \in Int
                                      /\ pick[s] = CHOOSE x \in s : TRUE
    BY <1>1, <1>3
  <1>5. g[{}] = 0 /\ \A s \in SUBSET S : s # {} => g[s] = f[pick[s]] + g[s \ {pick[s]}]
    BY <1>3, <1>4 DEF TakesOff
  <1>6. Rec(g)
    BY <1>3, <1>4 DEF TakesOff
  <1>7. Rec(sum)
    <2> HIDE DEF Rec
    <2> QED
      BY <1>6
  <1>8. sum[{}] = 0 /\ \A s \in SUBSET S : s # {} => sum[s] = f[pick[s]] + sum[s \ {pick[s]}]
    <2> HIDE DEF sum
    <2> QED
      BY <1>7
  <1>9. sum[S] = g[S]
    <2>1. \A s \in SUBSET S : s # {} /\ sum[s \ {pick[s]}] = g[s \ {pick[s]}] => sum[s] = g[s]
      <3> HIDE DEF sum, pick
      <3> QED
        BY <1>5, <1>8
    <2>2. sum[{}] = g[{}]
      BY <1>5, <1>8
    <2> HIDE DEF sum, pick
    <2>3. AgreeOn(sum, g, S)
      BY <1>1, <2>1, <2>2, SubsetsAgree
    <2> QED
      BY <2>3 DEF AgreeOn
  <1>10. SumFunctionOnSet(f, S) = sum[S]
    BY DEF SumFunctionOnSet, FoldFunctionOnSet, MapThenFoldSet
  <1>11. ASSUME NEW s \in SUBSET S, NEW x \in s PROVE g[s] = g[s \ {x}] + f[x]
    <2> DEFINE K == {n \in Nat : \A t \in SUBSET S : Cardinality(t) = n =>
                                  \A y \in t : g[t] = g[t \ {y}] + f[y]}
    <2>1. \A T \in SUBSET S : IsFiniteSet(T) /\ Cardinality(T) \in Nat
      BY FS_Subset, FS_CardinalityType
    <2>2. 0 \in K
      <3>1. \A T \in SUBSET S : Cardinality(T) = 0 => T = {}
        BY <2>1, FS_EmptySet
      <3> QED
        BY <3>1
    <2>3. ASSUME NEW n \in Nat, n \in K PROVE n + 1 \in K
      <3>1. ASSUME NEW t \in SUBSET S, Cardinality(t) = n + 1, NEW y \in t
            PROVE  g[t] = g[t \ {y}] + f[y]
        <4> DEFINE z == pick[t]
        <4>1. z \in t /\ g[t] = f[z] + g[t \ {z}] /\ IsFiniteSet(t)
          BY <1>1, <1>5, <2>1
        <4> HIDE DEF z
        <4>2. CASE y = z
          <5>1. f[z] \in Int /\ g[t \ {z}] \in Int
            BY <1>3, <4>1
          <5> QED
            BY <4>1, <4>2, <5>1
        <4>3. CASE y # z
          <5>1. Cardinality(t \ {z}) = n /\ Cardinality(t \ {y}) = n
            BY <3>1, <4>1, OneLess
          <5>2. (t \ {z}) \ {y} = (t \ {y}) \ {z} /\ z \in t \ {y} /\ y \in t \ {z}
            BY <4>1, <4>3
          <5>3. g[t \ {z}] = g[(t \ {z}) \ {y}] + f[y] /\ g[t \ {y}] = g[(t \ {y}) \ {z}] + f[z]
            BY <2>3, <5>1, <5>2
          <5>4. f[z] \in Int /\ f[y] \in Int /\ g[(t \ {z}) \ {y}] \in Int
            BY <1>3, <4>1
          <5>5. g[t] = f[z] + (g[(t \ {z}) \ {y}] + f[y])
            BY <4>1, <5>3
          <5>6. g[t \ {y}] = g[(t \ {z}) \ {y}] + f[z]
            BY <5>2, <5>3
          <5> QED
            BY <5>4, <5>5, <5>6
        <4> QED
          BY <4>2, <4>3
      <3> QED
        BY <3>1
    <2>4. \A n \in Nat : n \in K
      <3> HIDE DEF K
      <3> QED
        BY <2>2, <2>3, SetInduction
    <2> QED
      BY <2>1, <2>4
  <1> QED
    BY <1>3, <1>5, <1>9, <1>10, <1>11 DEF IsSum

\* There is only one sum.
LEMMA SumUnique ==
  ASSUME NEW S, IsFiniteSet(S), NEW f, NEW h, \A x \in S : f[x] = h[x],
         NEW g1, NEW g2, IsSum(g1, f, S), IsSum(g2, h, S)
  PROVE  \A s \in SUBSET S : g1[s] = g2[s]
  <1> DEFINE G == {s \in SUBSET S : g1[s] = g2[s]}
  <1>1. {} \in G
    BY DEF IsSum
  <1>2. ASSUME NEW T \in SUBSET S, T \in G, NEW x \in S \ T PROVE T \cup {x} \in G
    <2>1. (T \cup {x}) \ {x} = T /\ T \cup {x} \in SUBSET S /\ x \in T \cup {x}
      BY <1>2
    <2>2. g1[T \cup {x}] = g1[T] + f[x] /\ g2[T \cup {x}] = g2[T] + h[x]
      BY <2>1 DEF IsSum
    <2> QED
      BY <1>2, <2>1, <2>2
  <1>3. \A T \in SUBSET S : T \in G
    <2> HIDE DEF G
    <2> QED
      BY <1>1, <1>2, SubsetInduction
  <1> QED
    BY <1>3

\* The sum over a subset is the sum that the function of S gives it.
LEMMA SumPart ==
  ASSUME NEW S, IsFiniteSet(S), NEW f, NEW g, IsSum(g, f, S), NEW T \in SUBSET S,
         \A x \in S : f[x] \in Int
  PROVE  SumFunctionOnSet(f, T) = g[T]
  <1>1. IsFiniteSet(T) /\ \A x \in T : f[x] \in Int
    BY FS_Subset
  <1>2. PICK h : IsSum(h, f, T) /\ SumFunctionOnSet(f, T) = h[T]
    BY <1>1, SumExists
  <1> DEFINE p == [s \in SUBSET T |-> g[s]]
  <1>3. IsSum(p, f, T)
    <2>1. p \in [SUBSET T -> Int] /\ p[{}] = 0
      BY DEF IsSum
    <2>2. ASSUME NEW s \in SUBSET T, NEW x \in s PROVE p[s] = p[s \ {x}] + f[x]
      <3>1. s \in SUBSET S /\ s \ {x} \in SUBSET T
        OBVIOUS
      <3>2. g[s] = g[s \ {x}] + f[x]
        BY <3>1 DEF IsSum
      <3> QED
        BY <3>1, <3>2
    <2> QED
      BY <2>1, <2>2 DEF IsSum
  <1>4. \A s \in SUBSET T : h[s] = p[s]
    <2> HIDE DEF p
    <2> QED
      BY <1>1, <1>2, <1>3, SumUnique
  <1>5. h[T] = p[T]
    BY <1>4
  <1> QED
    BY <1>2, <1>5

\* The laws of a sum.
LEMMA SumLaws ==
  ASSUME NEW S, IsFiniteSet(S), NEW f, \A x \in S : f[x] \in Int
  PROVE  /\ \A T \in SUBSET S : SumFunctionOnSet(f, T) \in Int
         /\ SumFunctionOnSet(f, {}) = 0
         /\ \A T \in SUBSET S : \A x \in S \ T :
              SumFunctionOnSet(f, T \cup {x}) = SumFunctionOnSet(f, T) + f[x]
  <1>1. PICK g : IsSum(g, f, S)
    BY SumExists
  <1>2. ASSUME NEW T \in SUBSET S PROVE SumFunctionOnSet(f, T) = g[T] /\ g[T] \in Int
    <2>1. SumFunctionOnSet(f, T) = g[T]
      BY <1>1, SumPart
    <2>2. g[T] \in Int
      BY <1>1 DEF IsSum
    <2> QED
      BY <2>1, <2>2
  <1>3. ASSUME NEW T \in SUBSET S, NEW x \in S \ T
        PROVE  SumFunctionOnSet(f, T \cup {x}) = SumFunctionOnSet(f, T) + f[x]
    <2>1. (T \cup {x}) \ {x} = T /\ T \cup {x} \in SUBSET S /\ x \in T \cup {x}
      OBVIOUS
    <2>2. g[T \cup {x}] = g[T] + f[x]
      BY <1>1, <2>1 DEF IsSum
    <2> QED
      BY <1>2, <2>1, <2>2
  <1>4. SumFunctionOnSet(f, {}) = 0
    BY <1>1, <1>2 DEF IsSum
  <1> QED
    BY <1>2, <1>3, <1>4

\* Functions that agree on a set have the same sum over it.
LEMMA SumSame ==
  ASSUME NEW S, IsFiniteSet(S), NEW f, NEW h, \A x \in S : f[x] \in Int /\ h[x] = f[x]
  PROVE  SumFunctionOnSet(f, S) = SumFunctionOnSet(h, S)
  <1>1. PICK g1 : IsSum(g1, f, S) /\ SumFunctionOnSet(f, S) = g1[S]
    BY SumExists
  <1>2. PICK g2 : IsSum(g2, h, S) /\ SumFunctionOnSet(h, S) = g2[S]
    BY SumExists
  <1>3. \A s \in SUBSET S : g1[s] = g2[s]
    BY <1>1, <1>2, SumUnique
  <1> QED
    BY <1>1, <1>2, <1>3

\* Sums over disjoint sets add up.
LEMMA SumDisjoint ==
  ASSUME NEW S, IsFiniteSet(S), NEW f, \A x \in S : f[x] \in Int,
         NEW A \in SUBSET S, NEW B \in SUBSET S, A \cap B = {}
  PROVE  SumFunctionOnSet(f, A \cup B) = SumFunctionOnSet(f, A) + SumFunctionOnSet(f, B)
  <1> DEFINE G == {T \in SUBSET B : SumFunctionOnSet(f, A \cup T) =
                                    SumFunctionOnSet(f, A) + SumFunctionOnSet(f, T)}
  <1>0. IsFiniteSet(B)
    BY FS_Subset
  <1>1. {} \in G
    <2>1. A \cup {} = A
      OBVIOUS
    <2>2. SumFunctionOnSet(f, A) \in Int /\ SumFunctionOnSet(f, {}) = 0
      BY SumLaws
    <2> QED
      BY <2>1, <2>2
  <1>2. ASSUME NEW T \in SUBSET B, T \in G, NEW x \in B \ T PROVE T \cup {x} \in G
    <2> DEFINE AT == A \cup T
    <2>1. A \cup (T \cup {x}) = AT \cup {x} /\ AT \in SUBSET S /\ x \in S \ AT
      OBVIOUS
    <2>2. T \in SUBSET S /\ x \in S \ T /\ A \in SUBSET S
      OBVIOUS
    <2>3. SumFunctionOnSet(f, AT) = SumFunctionOnSet(f, A) + SumFunctionOnSet(f, T)
      BY <1>2
    <2>4. SumFunctionOnSet(f, AT \cup {x}) = SumFunctionOnSet(f, AT) + f[x]
      <3> HIDE DEF AT
      <3> QED
        BY <2>1, SumLaws
    <2>5. SumFunctionOnSet(f, T \cup {x}) = SumFunctionOnSet(f, T) + f[x]
      BY <2>2, SumLaws
    <2>6. SumFunctionOnSet(f, A) \in Int /\ SumFunctionOnSet(f, T) \in Int
      BY <2>2, SumLaws
    <2>7. f[x] \in Int
      BY <2>2
    <2>8. SumFunctionOnSet(f, AT \cup {x}) = SumFunctionOnSet(f, A) + SumFunctionOnSet(f, T \cup {x})
      <3> HIDE DEF AT
      <3> QED
        BY <2>3, <2>4, <2>5, <2>6, <2>7
    <2>9. SumFunctionOnSet(f, A \cup (T \cup {x})) = SumFunctionOnSet(f, AT \cup {x})
      BY <2>1
    <2>10. SumFunctionOnSet(f, A \cup (T \cup {x})) = SumFunctionOnSet(f, A) + SumFunctionOnSet(f, T \cup {x})
      <3> HIDE DEF AT
      <3> QED
        BY <2>8, <2>9
    <2>11. T \cup {x} \in SUBSET B
      OBVIOUS
    <2> QED
      BY <2>10, <2>11
  <1>3. \A T \in SUBSET B : T \in G
    <2> HIDE DEF G
    <2> QED
      BY <1>0, <1>1, <1>2, SubsetInduction
  <1> QED
    BY <1>3

\* A sum of equal terms.
LEMMA SumConstant ==
  ASSUME NEW S, IsFiniteSet(S), NEW f, NEW c \in Int, \A x \in S : f[x] = c
  PROVE  SumFunctionOnSet(f, S) = c * Cardinality(S)
  <1> DEFINE G == {T \in SUBSET S : SumFunctionOnSet(f, T) = c * Cardinality(T)}
  <1>1. {} \in G
    <2>1. SumFunctionOnSet(f, {}) = 0
      BY SumLaws
    <2> QED
      BY <2>1, FS_EmptySet
  <1>2. ASSUME NEW T \in SUBSET S, T \in G, NEW x \in S \ T PROVE T \cup {x} \in G
    <2>1. SumFunctionOnSet(f, T \cup {x}) = SumFunctionOnSet(f, T) + f[x]
      BY <1>2, SumLaws
    <2>2. IsFiniteSet(T)
      BY FS_Subset
    <2>3. Cardinality(T \cup {x}) = Cardinality(T) + 1 /\ Cardinality(T) \in Nat
      BY <2>2, FS_AddElement, FS_CardinalityType
    <2>4. c * (Cardinality(T) + 1) = c * Cardinality(T) + c
      BY <2>3
    <2> QED
      BY <1>2, <2>1, <2>3, <2>4
  <1>3. \A T \in SUBSET S : T \in G
    <2> HIDE DEF G
    <2> QED
      BY <1>1, <1>2, SubsetInduction
  <1> QED
    BY <1>3

\* The sum of m times the terms less a constant.
LEMMA SumScaled ==
  ASSUME NEW S, IsFiniteSet(S), NEW f, NEW h, NEW m \in Int, NEW c \in Int,
         \A x \in S : f[x] \in Int /\ h[x] = f[x] * m - c
  PROVE  SumFunctionOnSet(h, S) = SumFunctionOnSet(f, S) * m - c * Cardinality(S)
  <1> DEFINE G == {T \in SUBSET S : SumFunctionOnSet(h, T) = SumFunctionOnSet(f, T) * m - c * Cardinality(T)}
  <1>0. (\A x \in S : f[x] \in Int) /\ (\A x \in S : h[x] \in Int)
    OBVIOUS
  <1>1. {} \in G
    <2>1. SumFunctionOnSet(f, {}) = 0
      BY <1>0, SumLaws
    <2>2. SumFunctionOnSet(h, {}) = 0
      BY <1>0, SumLaws
    <2> QED
      BY <2>1, <2>2, FS_EmptySet
  <1>2. ASSUME NEW T \in SUBSET S, T \in G, NEW x \in S \ T PROVE T \cup {x} \in G
    <2>1. SumFunctionOnSet(f, T \cup {x}) = SumFunctionOnSet(f, T) + f[x]
      BY <1>0, <1>2, SumLaws
    <2>2. SumFunctionOnSet(h, T \cup {x}) = SumFunctionOnSet(h, T) + h[x]
      BY <1>0, <1>2, SumLaws
    <2>3. IsFiniteSet(T)
      BY FS_Subset
    <2>4. Cardinality(T \cup {x}) = Cardinality(T) + 1 /\ Cardinality(T) \in Nat
      BY <2>3, FS_AddElement, FS_CardinalityType
    <2>5. SumFunctionOnSet(f, T) \in Int
      BY <1>0, SumLaws
    <2> DEFINE s == SumFunctionOnSet(f, T)
               n == Cardinality(T)
    <2>6. h[x] = f[x] * m - c /\ f[x] \in Int /\ SumFunctionOnSet(h, T) = s * m - c * n
      BY <1>2
    <2>7. s \in Int /\ n \in Int
      BY <2>4, <2>5
    <2> HIDE DEF s, n
    <2>8. (s + f[x]) * m = s * m + f[x] * m /\ c * (n + 1) = c * n + c
      BY <2>6, <2>7
    <2>9. s * m \in Int /\ f[x] * m \in Int /\ c * n \in Int
      BY <2>6, <2>7
    <2>10. (s * m - c * n) + (f[x] * m - c) = (s + f[x]) * m - c * (n + 1)
      BY <2>8, <2>9
    <2>11. SumFunctionOnSet(h, T \cup {x}) = SumFunctionOnSet(f, T \cup {x}) * m - c * Cardinality(T \cup {x})
      BY <2>1, <2>2, <2>4, <2>6, <2>10 DEF s, n
    <2> QED
      BY <2>11
  <1>3. \A T \in SUBSET S : T \in G
    <2> HIDE DEF G
    <2> QED
      BY <1>1, <1>2, SubsetInduction
  <1> QED
    BY <1>3

-----------------------------------------------------------------------------
(* Concatenation.                                                              *)

\* h[i] is what the first i sequences make together, up to m.
IsConcatenation(h, seqs, V, m) ==
  /\ h \in [0 .. m -> Seq(V)] /\ h[0] = << >>
  /\ \A i \in 1 .. m : h[i] = h[i - 1] \o seqs[i]

\* One sequence more.
LEMMA ConcatenationStep ==
  ASSUME NEW V, NEW seqs \in Seq(Seq(V)), NEW m \in Nat, m + 1 <= Len(seqs),
         NEW g, IsConcatenation(g, seqs, V, m)
  PROVE  \E h : IsConcatenation(h, seqs, V, m + 1)
  <1> DEFINE next == g[m] \o seqs[m + 1]
             h == [i \in 0 .. m + 1 |-> IF i <= m THEN g[i] ELSE next]
  <1>1. seqs[m + 1] \in Seq(V) /\ g[m] \in Seq(V)
    BY DEF IsConcatenation
  <1>2. next \in Seq(V)
    BY <1>1
  <1>3. g \in [0 .. m -> Seq(V)] /\ g[0] = << >>
    BY DEF IsConcatenation
  <1>4. h \in [0 .. m + 1 -> Seq(V)] /\ h[0] = << >>
    <2> HIDE DEF next
    <2> QED
      BY <1>2, <1>3
  <1>5. ASSUME NEW i \in 1 .. m + 1 PROVE h[i] = h[i - 1] \o seqs[i]
    <2>1. CASE i <= m
      <3>1. i \in 1 .. m
        BY <2>1
      <3>2. h[i] = g[i] /\ h[i - 1] = g[i - 1]
        <4> HIDE DEF next
        <4> QED
          BY <3>1
      <3>3. g[i] = g[i - 1] \o seqs[i]
        BY <3>1 DEF IsConcatenation
      <3> HIDE DEF h
      <3> QED
        BY <3>2, <3>3
    <2>2. CASE i = m + 1
      <3>1. h[m + 1] = next /\ h[m] = g[m]
        <4> HIDE DEF next
        <4> QED
          OBVIOUS
      <3>2. i - 1 = m
        BY <2>2
      <3> HIDE DEF h
      <3> QED
        BY <2>2, <3>1, <3>2
    <2>3. i <= m \/ i = m + 1
      OBVIOUS
    <2> HIDE DEF h
    <2> QED
      BY <2>1, <2>2, <2>3
  <1>6. IsConcatenation(h, seqs, V, m + 1)
    <2> HIDE DEF h
    <2> QED
      BY <1>4, <1>5 DEF IsConcatenation
  <1> QED
    BY <1>6

\* Every sequence of sequences has its concatenations.
LEMMA ConcatenationExists ==
  ASSUME NEW V, NEW seqs \in Seq(Seq(V))
  PROVE  \E h : IsConcatenation(h, seqs, V, Len(seqs))
  <1> DEFINE K == {m \in Nat : m <= Len(seqs) => \E h : IsConcatenation(h, seqs, V, m)}
  <1>1. 0 \in K
    <2> DEFINE h == [i \in 0 .. 0 |-> << >>]
    <2>1. IsConcatenation(h, seqs, V, 0)
      BY DEF IsConcatenation
    <2> QED
      BY <2>1
  <1>2. ASSUME NEW m \in Nat, m \in K PROVE m + 1 \in K
    BY <1>2, ConcatenationStep
  <1>3. \A m \in Nat : m \in K
    <2> HIDE DEF K
    <2> QED
      BY <1>1, <1>2, SetInduction
  <1>4. Len(seqs) \in Nat
    OBVIOUS
  <1> QED
    BY <1>3, <1>4

\* FlattenSeq concatenates.
LEMMA FlattenIsConcatenation ==
  ASSUME NEW V, NEW seqs \in Seq(Seq(V)), NEW h, IsConcatenation(h, seqs, V, Len(seqs))
  PROVE  FlattenSeq(seqs) = h[Len(seqs)]
  <1> DEFINE N == Len(seqs)
  <1>0. N \in Nat
    OBVIOUS
  <1>a. h[0] = << >> /\ \A i \in 1 .. N : h[i] = h[i - 1] \o seqs[i]
    BY DEF IsConcatenation
  <1>b. \A i \in 1 .. N : seqs[i] \in Seq(V)
    OBVIOUS
  <1>1. CASE N = 0
    <2>1. FlattenSeq(seqs) = seqs /\ seqs = << >>
      BY <1>1 DEF FlattenSeq
    <2>2. h[0] = << >>
      BY DEF IsConcatenation
    <2> QED
      BY <1>1, <2>1, <2>2
  <1>2. CASE N # 0
    <2> DEFINE Rec(f) == f = [i \in 1 .. N |-> IF i = 1 THEN seqs[i] ELSE f[i - 1] \o seqs[i]]
               flatten == CHOOSE f : Rec(f)
               r == [i \in 1 .. N |-> h[i]]
    <2>0. /\ h[0] = << >>
          /\ \A i \in 1 .. N : seqs[i] \in Seq(V) /\ h[i] = h[i - 1] \o seqs[i]
      <3> HIDE DEF N
      <3> QED
        BY <1>a, <1>b
    <2>1. Rec(r)
      <3>1. ASSUME NEW i \in 1 .. N PROVE r[i] = IF i = 1 THEN seqs[i] ELSE r[i - 1] \o seqs[i]
        <4> HIDE DEF N
        <4>1. CASE i = 1
          <5>1. h[1] = h[1 - 1] \o seqs[1] /\ seqs[1] \in Seq(V)
            BY <2>0, <4>1
          <5>2. h[1 - 1] = << >>
            BY <2>0
          <5>3. << >> \o seqs[1] = seqs[1]
            BY <5>1
          <5>4. h[1] = seqs[1]
            BY <5>1, <5>2, <5>3
          <5> QED
            BY <4>1, <5>4
        <4>2. CASE i # 1
          <5>1. i - 1 \in 1 .. N
            BY <1>0, <4>2
          <5>2. r[i] = h[i] /\ r[i - 1] = h[i - 1]
            BY <5>1
          <5> HIDE DEF r
          <5> QED
            BY <2>0, <4>2, <5>2
        <4> QED
          BY <4>1, <4>2
      <3>2. r = [i \in 1 .. N |-> r[i]]
        OBVIOUS
      <3> HIDE DEF r, N
      <3> QED
        BY <3>1, <3>2
    <2>2. Rec(flatten)
      <3> HIDE DEF Rec, r
      <3> QED
        BY <2>1
    <2>3. \A i \in 1 .. N : flatten[i] = IF i = 1 THEN seqs[i] ELSE flatten[i - 1] \o seqs[i]
      <3> HIDE DEF flatten, N
      <3> QED
        BY <2>2
    <2>9. FlattenSeq(seqs) = flatten[N]
      BY <1>2 DEF FlattenSeq
    <2> HIDE DEF Rec, flatten
    <2> DEFINE L == {m \in Nat : m + 1 \in 1 .. N => flatten[m + 1] = h[m + 1]}
    <2>4. 0 \in L
      <3> HIDE DEF N
      <3> SUFFICES ASSUME 1 \in 1 .. N PROVE flatten[1] = h[1]
        OBVIOUS
      <3>1. flatten[1] = seqs[1]
        BY <2>3
      <3>2. h[1] = h[1 - 1] \o seqs[1] /\ seqs[1] \in Seq(V)
        BY <2>0
      <3>3. h[1 - 1] = << >>
        BY <2>0
      <3>4. << >> \o seqs[1] = seqs[1]
        BY <3>2
      <3> QED
        BY <3>1, <3>2, <3>3, <3>4
    <2>5. ASSUME NEW m \in Nat, m \in L PROVE m + 1 \in L
      <3> HIDE DEF N
      <3> SUFFICES ASSUME m + 2 \in 1 .. N PROVE flatten[m + 2] = h[m + 2]
        OBVIOUS
      <3>1. m + 1 \in 1 .. N /\ m + 2 # 1 /\ (m + 2) - 1 = m + 1
        BY <1>0
      <3>2. flatten[m + 2] = flatten[m + 1] \o seqs[m + 2]
        BY <2>3, <3>1
      <3>3. h[m + 2] = h[m + 1] \o seqs[m + 2]
        BY <2>0, <3>1
      <3>4. flatten[m + 1] = h[m + 1]
        BY <2>5, <3>1
      <3> QED
        BY <3>2, <3>3, <3>4
    <2>6. \A m \in Nat : m \in L
      <3> HIDE DEF L
      <3> QED
        BY <2>4, <2>5, SetInduction
    <2>7. N - 1 \in Nat /\ (N - 1) + 1 \in 1 .. N /\ (N - 1) + 1 = N
      BY <1>0, <1>2
    <2>8. flatten[N] = h[N]
      BY <2>6, <2>7
    <2> QED
      BY <2>8, <2>9
  <1> QED
    BY <1>1, <1>2

\* An element of a concatenation is one of the first or one of the second.
LEMMA ConcatenationElement ==
  ASSUME NEW V, NEW s \in Seq(V), NEW t \in Seq(V), NEW j \in 1 .. Len(s \o t)
  PROVE  \/ j \in 1 .. Len(s) /\ (s \o t)[j] = s[j]
         \/ j > Len(s) /\ j - Len(s) \in 1 .. Len(t) /\ (s \o t)[j] = t[j - Len(s)]
  OBVIOUS

\* Every element of s is one of the first m sequences.
Among(s, seqs, m) ==
  \A j \in 1 .. Len(s) : \E i \in 1 .. m : \E p \in 1 .. Len(seqs[i]) : s[j] = seqs[i][p]
OneToOne(s) == \A i, j \in 1 .. Len(s) : s[i] = s[j] => i = j
\* No element is there twice, in one sequence or in two.
AllDistinct(seqs) ==
  \A i, j \in 1 .. Len(seqs) : \A p \in 1 .. Len(seqs[i]) : \A q \in 1 .. Len(seqs[j]) :
    seqs[i][p] = seqs[j][q] => i = j /\ p = q

\* One sequence more.
LEMMA AmongStep ==
  ASSUME NEW V, NEW seqs \in Seq(Seq(V)), NEW m \in Nat, m + 1 <= Len(seqs),
         NEW s \in Seq(V), Among(s, seqs, m)
  PROVE  /\ Among(s \o seqs[m + 1], seqs, m + 1)
         /\ AllDistinct(seqs) /\ OneToOne(s) => OneToOne(s \o seqs[m + 1])
  <1> DEFINE t == seqs[m + 1]
             u == s \o t
  <1>0. t \in Seq(V) /\ u \in Seq(V)
    OBVIOUS
  <1>1. \A j \in 1 .. Len(u) :
          \/ j \in 1 .. Len(s) /\ u[j] = s[j]
          \/ j > Len(s) /\ j - Len(s) \in 1 .. Len(t) /\ u[j] = t[j - Len(s)]
    <2> HIDE DEF t
    <2> QED
      BY <1>0, ConcatenationElement
  <1>2. Among(u, seqs, m + 1)
    <2>1. ASSUME NEW j \in 1 .. Len(u)
          PROVE  \E i \in 1 .. m + 1 : \E p \in 1 .. Len(seqs[i]) : u[j] = seqs[i][p]
      <3> HIDE DEF u
      <3>1. CASE j \in 1 .. Len(s) /\ u[j] = s[j]
        <4>1. PICK i \in 1 .. m : \E p \in 1 .. Len(seqs[i]) : s[j] = seqs[i][p]
          BY <3>1 DEF Among
        <4>2. i \in 1 .. m + 1
          OBVIOUS
        <4> QED
          BY <3>1, <4>1, <4>2
      <3>2. CASE j > Len(s) /\ j - Len(s) \in 1 .. Len(t) /\ u[j] = t[j - Len(s)]
        <4>1. m + 1 \in 1 .. m + 1
          OBVIOUS
        <4> QED
          BY <3>2, <4>1
      <3> QED
        BY <1>1, <3>1, <3>2
    <2> HIDE DEF u
    <2> QED
      BY <2>1 DEF Among
  <1>3. ASSUME AllDistinct(seqs), OneToOne(s) PROVE OneToOne(u)
    <2>1. ASSUME NEW j \in 1 .. Len(u), NEW l \in 1 .. Len(u), u[j] = u[l] PROVE j = l
      <3> HIDE DEF u
      <3>0. m + 1 \in 1 .. Len(seqs) /\ Len(s) \in Nat /\ Len(u) \in Nat
        BY <1>0
      <3>1. ASSUME NEW a \in 1 .. Len(s), NEW b \in 1 .. Len(t), s[a] = t[b] PROVE FALSE
        <4>1. PICK i \in 1 .. m : \E p \in 1 .. Len(seqs[i]) : s[a] = seqs[i][p]
          BY DEF Among
        <4>2. PICK p \in 1 .. Len(seqs[i]) : s[a] = seqs[i][p]
          BY <4>1
        <4>3. i \in 1 .. Len(seqs) /\ i # m + 1
          BY <3>0
        <4>4. seqs[i][p] = seqs[m + 1][b]
          BY <3>1, <4>2
        <4>5. i = m + 1
          BY <1>3, <3>0, <4>3, <4>4 DEF AllDistinct
        <4> QED
          BY <4>3, <4>5
      <3>2. ASSUME NEW a \in 1 .. Len(t), NEW b \in 1 .. Len(t), t[a] = t[b] PROVE a = b
        BY <1>3, <3>0, <3>2 DEF AllDistinct
      <3>3. ASSUME NEW a \in 1 .. Len(s), NEW b \in 1 .. Len(s), s[a] = s[b] PROVE a = b
        BY <1>3, <3>3 DEF OneToOne
      <3>4. j \in 1 .. Len(s) /\ l \in 1 .. Len(s) => j = l
        <4> SUFFICES ASSUME j \in 1 .. Len(s), l \in 1 .. Len(s) PROVE j = l
          OBVIOUS
        <4>1. u[j] = s[j] /\ u[l] = s[l]
          BY <1>1, <3>0
        <4> QED
          BY <2>1, <3>3, <4>1
      <3>5. j > Len(s) /\ l > Len(s) => j = l
        <4> SUFFICES ASSUME j > Len(s), l > Len(s) PROVE j = l
          OBVIOUS
        <4>1. /\ j - Len(s) \in 1 .. Len(t) /\ u[j] = t[j - Len(s)]
              /\ l - Len(s) \in 1 .. Len(t) /\ u[l] = t[l - Len(s)]
          BY <1>1, <3>0
        <4>2. j - Len(s) = l - Len(s)
          BY <2>1, <3>2, <4>1
        <4> QED
          BY <3>0, <4>2
      <3>6. ~ (j \in 1 .. Len(s) /\ l > Len(s))
        <4> SUFFICES ASSUME j \in 1 .. Len(s), l > Len(s) PROVE FALSE
          OBVIOUS
        <4>1. u[j] = s[j] /\ l - Len(s) \in 1 .. Len(t) /\ u[l] = t[l - Len(s)]
          BY <1>1, <3>0
        <4> QED
          BY <2>1, <3>1, <4>1
      <3>7. ~ (l \in 1 .. Len(s) /\ j > Len(s))
        <4> SUFFICES ASSUME l \in 1 .. Len(s), j > Len(s) PROVE FALSE
          OBVIOUS
        <4>1. u[l] = s[l] /\ j - Len(s) \in 1 .. Len(t) /\ u[j] = t[j - Len(s)]
          BY <1>1, <3>0
        <4> QED
          BY <2>1, <3>1, <4>1
      <3> QED
        BY <3>0, <3>4, <3>5, <3>6, <3>7
    <2> HIDE DEF u
    <2> QED
      BY <2>1 DEF OneToOne
  <1> QED
    BY <1>2, <1>3

\* What the flattened sequence holds.
LEMMA FlattenElements ==
  ASSUME NEW V, NEW seqs \in Seq(Seq(V))
  PROVE  /\ FlattenSeq(seqs) \in Seq(V)
         /\ Among(FlattenSeq(seqs), seqs, Len(seqs))
         /\ AllDistinct(seqs) => OneToOne(FlattenSeq(seqs))
  <1>1. PICK h : IsConcatenation(h, seqs, V, Len(seqs))
    BY ConcatenationExists
  <1>2. FlattenSeq(seqs) = h[Len(seqs)]
    BY <1>1, FlattenIsConcatenation
  <1> DEFINE Good(m) == /\ h[m] \in Seq(V) /\ Among(h[m], seqs, m)
                        /\ AllDistinct(seqs) => OneToOne(h[m])
             K == {m \in Nat : m <= Len(seqs) => Good(m)}
  <1>3. 0 \in K
    <2>1. h[0] = << >>
      BY <1>1 DEF IsConcatenation
    <2>2. Among(<< >>, seqs, 0) /\ OneToOne(<< >>)
      BY DEF Among, OneToOne
    <2>3. << >> \in Seq(V)
      OBVIOUS
    <2> QED
      BY <2>1, <2>2, <2>3
  <1>4. ASSUME NEW m \in Nat, m \in K PROVE m + 1 \in K
    <2> SUFFICES ASSUME m + 1 <= Len(seqs) PROVE Good(m + 1)
      OBVIOUS
    <2>1. Good(m)
      BY <1>4
    <2>2. m + 1 \in 1 .. Len(seqs) /\ (m + 1) - 1 = m
      OBVIOUS
    <2>3. h[m + 1] = h[m] \o seqs[m + 1]
      BY <1>1, <2>2 DEF IsConcatenation
    <2>4. seqs[m + 1] \in Seq(V)
      BY <2>2
    <2> DEFINE s == h[m]
    <2>5. s \in Seq(V) /\ Among(s, seqs, m) /\ (AllDistinct(seqs) => OneToOne(s))
      BY <2>1
    <2> HIDE DEF s
    <2>6. /\ Among(s \o seqs[m + 1], seqs, m + 1)
          /\ AllDistinct(seqs) => OneToOne(s \o seqs[m + 1])
      BY <2>5, AmongStep
    <2>7. s \o seqs[m + 1] \in Seq(V)
      BY <2>4, <2>5
    <2> QED
      BY <2>3, <2>6, <2>7 DEF s
  <1>5. \A m \in Nat : m \in K
    <2> HIDE DEF K
    <2> QED
      BY <1>3, <1>4, SetInduction
  <1>6. Good(Len(seqs))
    <2>1. Len(seqs) \in Nat /\ Len(seqs) <= Len(seqs)
      OBVIOUS
    <2> QED
      BY <1>5, <2>1
  <1> QED
    BY <1>2, <1>6

-----------------------------------------------------------------------------
(* Division.                                                                   *)

\* Quotient and remainder.
LEMMA DivMod ==
  ASSUME NEW n \in Int, NEW d \in Nat \ {0}
  PROVE  /\ n \div d \in Int /\ n % d \in 0 .. d - 1
         /\ n = d * (n \div d) + (n % d)
  OBVIOUS

\* A larger factor makes at least one divisor more.
LEMMA MultBound ==
  ASSUME NEW d \in Nat \ {0}, NEW x \in Int, NEW y \in Int, x < y
  PROVE  d * x + d <= d * y
  <1>1. d * (y - x) >= d * 1
    OBVIOUS
  <1>2. d * (y - x) = d * y - d * x
    OBVIOUS
  <1> QED
    BY <1>1, <1>2

\* There is only one quotient and one remainder.
LEMMA DivUnique ==
  ASSUME NEW n \in Int, NEW d \in Nat \ {0}, NEW q \in Int, NEW r \in 0 .. d - 1, n = d * q + r
  PROVE  n \div d = q /\ n % d = r
  <1> DEFINE p == n \div d
             s == n % d
  <1>1. p \in Int /\ s \in 0 .. d - 1 /\ n = d * p + s
    BY DivMod
  <1> HIDE DEF p, s
  <1>2. d * p \in Int /\ d * q \in Int
    BY <1>1
  <1>3. ~ (p < q)
    <2>1. p < q => d * p + d <= d * q
      BY <1>1, MultBound
    <2> QED
      BY <1>1, <1>2, <2>1
  <1>4. ~ (q < p)
    <2>1. q < p => d * q + d <= d * p
      BY <1>1, MultBound
    <2> QED
      BY <1>1, <1>2, <2>1
  <1>5. p = q
    BY <1>1, <1>3, <1>4
  <1>6. s = r
    BY <1>1, <1>2, <1>5
  <1> QED
    BY <1>5, <1>6 DEF p, s

\* Two divisions are one by the product.
LEMMA NestedDiv ==
  ASSUME NEW n \in Int, NEW d \in Nat \ {0}, NEW e \in Nat \ {0}
  PROVE  (n \div d) \div e = n \div (d * e)
  <1> DEFINE q == n \div d
             r == n % d
             p == q \div e
             s == q % e
  <1>1. q \in Int /\ r \in 0 .. d - 1 /\ n = d * q + r
    BY DivMod
  <1>2. p \in Int /\ s \in 0 .. e - 1 /\ q = e * p + s
    <2> HIDE DEF q
    <2> QED
      BY <1>1, DivMod
  <1> HIDE DEF q, r, p, s
  <1>3. d * e \in Nat \ {0}
    OBVIOUS
  <1>4. d * q = (d * e) * p + d * s
    <2>1. d * (e * p + s) = d * (e * p) + d * s
      BY <1>2
    <2>2. d * (e * p) = (d * e) * p
      BY <1>2
    <2> QED
      BY <1>2, <2>1, <2>2
  <1>5. d * s + r \in 0 .. d * e - 1
    <2>1. s < e
      BY <1>2
    <2>2. d * s + d <= d * e
      BY <1>2, <2>1, MultBound
    <2>3. d * s >= 0
      BY <1>2
    <2>4. d * s \in Int /\ d * e \in Int
      BY <1>2
    <2> QED
      BY <1>1, <2>2, <2>3, <2>4
  <1>6. n = (d * e) * p + (d * s + r)
    <2>1. (d * e) * p \in Int /\ d * s \in Int
      BY <1>2
    <2> QED
      BY <1>1, <1>4, <2>1
  <1>7. n \div (d * e) = p
    <2> DEFINE m == d * e
               t == d * s + r
    <2>1. m \in Nat \ {0} /\ t \in 0 .. m - 1 /\ n = m * p + t
      BY <1>3, <1>5, <1>6
    <2> HIDE DEF m, t
    <2>2. n \div m = p
      BY <1>2, <2>1, DivUnique
    <2> QED
      BY <2>2 DEF m
  <1> QED
    BY <1>7 DEF p, q

\* A multiple has no remainder,
LEMMA Multiple ==
  ASSUME NEW d \in Nat \ {0}, NEW q \in Int
  PROVE  (d * q) % d = 0 /\ (d * q) \div d = q
  <1>1. d * q \in Int /\ d * q = d * q + 0 /\ 0 \in 0 .. d - 1
    OBVIOUS
  <1> QED
    BY <1>1, DivUnique

\* and what has none is a multiple.
LEMMA ExactDivision ==
  ASSUME NEW n \in Nat, NEW d \in Nat \ {0}, n % d = 0
  PROVE  /\ n \div d \in Nat /\ n = d * (n \div d)
         /\ n # 0 => n \div d # 0 /\ n >= d
  <1> DEFINE q == n \div d
  <1>1. q \in Int /\ n = d * q + (n % d)
    BY DivMod
  <1>2. n = d * q
    <2> HIDE DEF q
    <2> QED
      BY <1>1
  <1> HIDE DEF q
  <1>3. q >= 0
    <2> SUFFICES ASSUME q < 0 PROVE FALSE
      BY <1>1
    <2>1. d * q + d <= d * 0
      BY <1>1, MultBound
    <2> QED
      BY <1>2, <2>1
  <1>4. n # 0 => q # 0
    BY <1>2
  <1>5. q # 0 => n >= d
    <2> SUFFICES ASSUME 0 < q PROVE n >= d
      BY <1>1, <1>3
    <2>1. d * 0 + d <= d * q
      BY <1>1, MultBound
    <2> QED
      BY <1>2, <2>1
  <1> QED
    BY <1>1, <1>2, <1>3, <1>4, <1>5 DEF q

\* The whole part, which leaves less than a divisor.
LEMMA WholePart ==
  ASSUME NEW n \in Nat, NEW d \in Nat \ {0}
  PROVE  /\ n \div d \in Nat /\ d * (n \div d) \in Nat /\ d * (n \div d) <= n
         /\ n < d * (n \div d) + d
         /\ n >= d => n \div d # 0
  <1> DEFINE q == n \div d
  <1>1. q \in Int /\ n % d \in 0 .. d - 1 /\ n = d * q + (n % d)
    BY DivMod
  <1>2. \E r \in 0 .. d - 1 : n = d * q + r
    BY <1>1
  <1> HIDE DEF q
  <1>3. q >= 0
    <2> SUFFICES ASSUME q < 0 PROVE FALSE
      BY <1>1
    <2>1. d * q + d <= d * 0
      BY <1>1, MultBound
    <2>2. d * q \in Int
      BY <1>1
    <2> QED
      BY <1>2, <2>1, <2>2
  <1>4. d * q \in Nat
    BY <1>1, <1>3
  <1>5. n >= d => q # 0
    BY <1>2
  <1> QED
    BY <1>1, <1>2, <1>3, <1>4, <1>5 DEF q

\* Division keeps the order.
LEMMA DivMonotone ==
  ASSUME NEW d \in Nat \ {0}, NEW x \in Int, NEW y \in Int, x <= y
  PROVE  x \div d <= y \div d
  <1> DEFINE p == x \div d
             q == y \div d
  <1>1. /\ p \in Int /\ (\E r \in 0 .. d - 1 : x = d * p + r)
        /\ q \in Int /\ (\E r \in 0 .. d - 1 : y = d * q + r)
    BY DivMod
  <1> HIDE DEF p, q
  <1>2. SUFFICES ASSUME q < p PROVE FALSE
    BY <1>1 DEF p, q
  <1>3. d * q + d <= d * p
    BY <1>1, <1>2, MultBound
  <1>4. d * q \in Int /\ d * p \in Int
    BY <1>1
  <1> QED
    BY <1>1, <1>3, <1>4

\* A multiple of a multiple.
LEMMA MultipleOfBoth ==
  ASSUME NEW d \in Nat \ {0}, NEW size \in Nat \ {0}, size % d = 0, NEW q \in Nat
  PROVE  (q * size) % d = 0 /\ (q * size) % size = 0 /\ q * size \in Nat
  <1>1. size = d * (size \div d) /\ size \div d \in Nat
    BY ExactDivision
  <1> DEFINE e == size \div d
  <1>2. size = d * e /\ e \in Nat
    BY <1>1
  <1> HIDE DEF e
  <1>3. q * size = d * (q * e) /\ q * e \in Int
    <2>1. q * size = q * (d * e)
      BY <1>2
    <2>2. q * (d * e) = (q * d) * e
      BY <1>2
    <2>3. q * d = d * q
      OBVIOUS
    <2>4. (d * q) * e = d * (q * e)
      BY <1>2
    <2> QED
      BY <1>2, <2>1, <2>2, <2>3, <2>4
  <1>4. q * size = size * q
    OBVIOUS
  <1>5. (d * (q * e)) % d = 0
    BY <1>3, Multiple
  <1>6. (size * q) % size = 0
    BY Multiple
  <1> QED
    BY <1>3, <1>4, <1>5, <1>6

\* How many of the first n numbers have one remainder.
LEMMA StrideCount ==
  ASSUME NEW n \in Nat, NEW d \in Nat \ {0}, NEW r \in 0 .. d - 1
  PROVE  /\ IsFiniteSet({i \in 1 .. n : (i - 1) % d = r})
         /\ Cardinality({i \in 1 .. n : (i - 1) % d = r}) = (n + d - 1 - r) \div d
  <1> DEFINE I == {i \in 1 .. n : (i - 1) % d = r}
             c == (n + d - 1 - r) \div d
             f == [k \in 1 .. c |-> d * (k - 1) + r + 1]
  <1>1. c \in Int /\ \E s \in 0 .. d - 1 : n + d - 1 - r = d * c + s
    <2> DEFINE m == n + d - 1 - r
    <2>1. m \in Int
      OBVIOUS
    <2> HIDE DEF m
    <2>2. m \div d \in Int /\ m % d \in 0 .. d - 1 /\ m = d * (m \div d) + (m % d)
      BY <2>1, DivMod
    <2> QED
      BY <2>2 DEF m
  <1>2. c \in Nat
    <2>1. PICK s \in 0 .. d - 1 : n + d - 1 - r = d * c + s
      BY <1>1
    <2> HIDE DEF c
    <2>2. SUFFICES ASSUME c < 0 PROVE FALSE
      BY <1>1
    <2>3. d * c + d <= d * 0
      BY <1>1, <2>2, MultBound
    <2>4. d * c \in Int
      BY <1>1
    <2> QED
      BY <2>1, <2>3, <2>4
  <1>3. ASSUME NEW k \in 1 .. c PROVE d * (k - 1) + r + 1 \in I
    <2>1. PICK s \in 0 .. d - 1 : n + d - 1 - r = d * c + s
      BY <1>1
    <2> HIDE DEF c
    <2> DEFINE i == d * (k - 1) + r + 1
    <2>2. d * (k - 1) >= 0 /\ d * (k - 1) \in Int /\ d * c \in Int
      BY <1>2
    <2>3. d * (k - 1) + d <= d * c
      <3>1. k - 1 < c
        BY <1>2
      <3> QED
        BY <1>2, <3>1, MultBound
    <2>4. i \in 1 .. n
      BY <2>1, <2>2, <2>3
    <2>5. i - 1 = d * (k - 1) + r
      BY <2>2
    <2>6. (i - 1) % d = r
      <3>1. k - 1 \in Int /\ i - 1 \in Int
        BY <1>2, <2>4
      <3> HIDE DEF i
      <3> QED
        BY <2>5, <3>1, DivUnique
    <2> QED
      BY <2>4, <2>6
  <1>4. f \in [1 .. c -> I]
    <2> HIDE DEF I, c
    <2> QED
      BY <1>3
  <1>5. ASSUME NEW k \in 1 .. c, NEW l \in 1 .. c, f[k] = f[l] PROVE k = l
    <2> HIDE DEF c
    <2>1. d * (k - 1) = d * (l - 1)
      <3>1. d * (k - 1) \in Int /\ d * (l - 1) \in Int
        BY <1>2
      <3>2. d * (k - 1) + r + 1 = d * (l - 1) + r + 1
        BY <1>5
      <3> QED
        BY <3>1, <3>2
    <2>2. \A x, y \in Int : x < y => d * x + d <= d * y
      BY MultBound
    <2>3. k - 1 \in Int /\ l - 1 \in Int /\ d * (k - 1) \in Int /\ d * (l - 1) \in Int
      BY <1>2
    <2>4. ~ (k - 1 < l - 1) /\ ~ (l - 1 < k - 1)
      BY <2>1, <2>2, <2>3
    <2> QED
      BY <2>3, <2>4
  <1>6. ASSUME NEW i \in I PROVE \E k \in 1 .. c : f[k] = i
    <2> DEFINE q == (i - 1) \div d
    <2>1. q \in Int /\ i - 1 = d * q + r
      BY DivMod
    <2>2. q >= 0
      <3> HIDE DEF q
      <3> SUFFICES ASSUME q < 0 PROVE FALSE
        BY <2>1
      <3>1. d * q + d <= d * 0
        BY <2>1, MultBound
      <3>2. d * q \in Int
        BY <2>1
      <3> QED
        BY <2>1, <3>1, <3>2
    <2>3. q + 1 <= c
      <3>1. PICK s \in 0 .. d - 1 : n + d - 1 - r = d * c + s
        BY <1>1
      <3> HIDE DEF q, c
      <3> SUFFICES ASSUME c < q + 1 PROVE FALSE
        BY <1>2, <2>1
      <3>2. d * c + d <= d * (q + 1)
        BY <1>2, <2>1, MultBound
      <3>3. d * (q + 1) = d * q + d /\ d * q \in Int /\ d * c \in Int
        BY <1>2, <2>1
      <3> QED
        BY <2>1, <3>1, <3>2, <3>3
    <2>4. q + 1 \in 1 .. c /\ f[q + 1] = i
      <3> HIDE DEF q, c
      <3>1. q + 1 \in 1 .. c
        BY <1>2, <2>1, <2>2, <2>3
      <3>2. d * ((q + 1) - 1) = d * q /\ d * q \in Int
        BY <2>1
      <3> QED
        BY <2>1, <3>1, <3>2
    <2> QED
      BY <2>4
  <1>7. f \in Bijection(1 .. c, I)
    <2> HIDE DEF f, c, I
    <2>1. f \in Injection(1 .. c, I)
      BY <1>4, <1>5 DEF Injection, IsInjective
    <2>2. f \in Surjection(1 .. c, I)
      BY <1>4, <1>6 DEF Surjection
    <2> QED
      BY <2>1, <2>2 DEF Bijection
  <1>8. IsFiniteSet(1 .. c) /\ Cardinality(1 .. c) = c
    <2> HIDE DEF c
    <2> QED
      BY <1>2, FS_Interval
  <1>9. IsFiniteSet(I) /\ Cardinality(I) = c
    <2>1. ExistsBijection(1 .. c, I)
      BY <1>7 DEF ExistsBijection
    <2> HIDE DEF f, c, I
    <2> QED
      BY <1>8, <2>1, FS_Bijection
  <1> QED
    BY <1>9

-----------------------------------------------------------------------------
(* Counting.                                                                   *)

\* A subset that leaves something out is smaller.
LEMMA ProperSubset ==
  ASSUME NEW S, IsFiniteSet(S), NEW T \in SUBSET S, NEW x \in S, x \notin T
  PROVE  Cardinality(T) < Cardinality(S)
  <1>1. IsFiniteSet(T) /\ Cardinality(T) <= Cardinality(S) /\ (Cardinality(S) = Cardinality(T) => S = T)
    BY FS_Subset
  <1>2. Cardinality(T) \in Nat /\ Cardinality(S) \in Nat /\ S # T
    BY <1>1, FS_CardinalityType
  <1> QED
    BY <1>1, <1>2

\* An injection into as many numbers takes them all.
LEMMA InjectionTakesAll ==
  ASSUME NEW S, IsFiniteSet(S), NEW T, IsFiniteSet(T), Cardinality(T) = Cardinality(S),
         NEW f \in [S -> T], \A x, y \in S : f[x] = f[y] => x = y, NEW t \in T
  PROVE  \E x \in S : f[x] = t
  <1> SUFFICES ASSUME \A x \in S : f[x] # t PROVE FALSE
    OBVIOUS
  <1>1. IsFiniteSet(T \ {t}) /\ Cardinality(T \ {t}) = Cardinality(T) - 1
    BY FS_RemoveElement
  <1>2. Cardinality(T \ {t}) < Cardinality(S)
    BY <1>1, FS_CardinalityType
  <1>3. f \in [S -> T \ {t}]
    OBVIOUS
  <1> QED
    BY <1>1, <1>2, <1>3, FS_PigeonHole

\* Numbers up to n have a largest one.
LEMMA MaxExists ==
  ASSUME NEW n \in Nat, NEW S \in SUBSET (0 .. n), S # {}
  PROVE  Max(S) \in S /\ \A x \in S : x <= Max(S)
  <1> DEFINE R == {pair \in Nat \X Nat : pair[1] < pair[2]}
             U == {m \in 0 .. n : n - m \in S}
  <1>1. U # {} /\ U \subseteq Nat
    <2>1. PICK x \in S : TRUE
      OBVIOUS
    <2>2. x \in 0 .. n
      BY <2>1
    <2>3. n - x \in 0 .. n /\ n - (n - x) = x
      BY <2>2
    <2>4. n - x \in U
      BY <2>1, <2>3
    <2>5. U \subseteq Nat
      OBVIOUS
    <2> HIDE DEF U
    <2> QED
      BY <2>4, <2>5
  <1>2. IsWellFoundedOn(R, Nat)
    BY LessIsWellFounded
  <1>3. PICK m \in U : \A l \in U : <<l, m>> \notin R
    <2> HIDE DEF U, R
    <2> QED
      BY <1>1, <1>2, WFMin
  <1>4. n - m \in S
    OBVIOUS
  <1>5. ASSUME NEW x \in S PROVE x <= n - m
    <2>1. n - x \in U /\ n - x \in Nat /\ m \in Nat /\ x \in Int
      OBVIOUS
    <2>2. ~ (n - x < m)
      BY <1>3, <2>1
    <2> QED
      BY <2>1, <2>2
  <1> QED
    BY <1>4, <1>5 DEF Max

\* The place of x in the order of its set is the number of those before it.
Earlier(S, order, x) == {y \in S : <<y, x>> \in order}
IsTotalOrder(S, order) ==
  /\ \A x \in S : <<x, x>> \notin order
  /\ \A x, y \in S : x # y => <<x, y>> \in order \/ <<y, x>> \in order
  /\ \A x, y, z \in S : <<x, y>> \in order /\ <<y, z>> \in order => <<x, z>> \in order

\* What comes earlier in a total order has a smaller rank.
LEMMA RanksDiffer ==
  ASSUME NEW S, IsFiniteSet(S), NEW order, IsTotalOrder(S, order), NEW x \in S, NEW y \in S,
         <<x, y>> \in order
  PROVE  Cardinality(Earlier(S, order, x)) < Cardinality(Earlier(S, order, y))
  <1>1. Earlier(S, order, x) \subseteq Earlier(S, order, y)
    BY DEF IsTotalOrder, Earlier
  <1>2. x \in Earlier(S, order, y) /\ x \notin Earlier(S, order, x)
    BY DEF IsTotalOrder, Earlier
  <1>3. IsFiniteSet(Earlier(S, order, y))
    <2>1. Earlier(S, order, y) \in SUBSET S
      BY DEF Earlier
    <2> QED
      BY <2>1, FS_Subset
  <1> QED
    BY <1>1, <1>2, <1>3, ProperSubset

\* Every rank is taken.
LEMMA RanksExist ==
  ASSUME NEW S, IsFiniteSet(S), NEW order, IsTotalOrder(S, order), NEW m \in 0 .. Cardinality(S) - 1
  PROVE  \E x \in S : Cardinality(Earlier(S, order, x)) = m
  <1> DEFINE f == [x \in S |-> Cardinality(Earlier(S, order, x))]
             T == 0 .. Cardinality(S) - 1
  <1>1. \A x \in S : Cardinality(Earlier(S, order, x)) \in T
    <2> SUFFICES ASSUME NEW x \in S PROVE Cardinality(Earlier(S, order, x)) \in T
      OBVIOUS
    <2>1. Earlier(S, order, x) \in SUBSET S /\ x \notin Earlier(S, order, x)
      BY DEF Earlier, IsTotalOrder
    <2>2. Cardinality(Earlier(S, order, x)) < Cardinality(S)
      BY <2>1, ProperSubset
    <2>3. Cardinality(Earlier(S, order, x)) \in Nat /\ Cardinality(S) \in Nat
      BY <2>1, FS_Subset, FS_CardinalityType
    <2> QED
      BY <2>2, <2>3
  <1>2. Cardinality(S) \in Nat
    BY FS_CardinalityType
  <1>3. IsFiniteSet(T) /\ Cardinality(T) = Cardinality(S)
    <2>1. 0 \in Int /\ Cardinality(S) - 1 \in Int
      BY <1>2
    <2>2. IsFiniteSet(T) /\ Cardinality(T) = IF 0 > Cardinality(S) - 1 THEN 0 ELSE (Cardinality(S) - 1) - 0 + 1
      BY <2>1, FS_Interval
    <2> QED
      BY <1>2, <2>2
  <1>4. \A x, y \in S : f[x] = f[y] => x = y
    <2> SUFFICES ASSUME NEW x \in S, NEW y \in S, x # y PROVE f[x] # f[y]
      OBVIOUS
    <2>1. <<x, y>> \in order \/ <<y, x>> \in order
      BY DEF IsTotalOrder
    <2>2. f[x] \in Int /\ f[y] \in Int
      BY <1>1
    <2>3. f[x] < f[y] \/ f[y] < f[x]
      BY <2>1, RanksDiffer
    <2> QED
      BY <2>2, <2>3
  <1>5. f \in [S -> T]
    BY <1>1
  <1>6. \E x \in S : f[x] = m
    <2> HIDE DEF f, T
    <2>1. m \in T
      BY DEF T
    <2> QED
      BY <1>3, <1>4, <1>5, <2>1, InjectionTakesAll
  <1> QED
    BY <1>6

\* Every element of the first m sequences is one of s.
Covers(s, seqs, m) ==
  \A i \in 1 .. m : \A p \in 1 .. Len(seqs[i]) : \E j \in 1 .. Len(s) : s[j] = seqs[i][p]

\* One sequence more.
LEMMA CoversStep ==
  ASSUME NEW V, NEW seqs \in Seq(Seq(V)), NEW m \in Nat, m + 1 <= Len(seqs),
         NEW s \in Seq(V), Covers(s, seqs, m)
  PROVE  Covers(s \o seqs[m + 1], seqs, m + 1)
  <1> DEFINE t == seqs[m + 1]
             u == s \o t
  <1>0. t \in Seq(V)
    OBVIOUS
  <1>1. /\ \A j \in 1 .. Len(s) : j \in 1 .. Len(u) /\ u[j] = s[j]
        /\ \A j \in 1 .. Len(t) : Len(s) + j \in 1 .. Len(u) /\ u[Len(s) + j] = t[j]
    <2> HIDE DEF t
    <2> QED
      BY <1>0
  <1>2. ASSUME NEW i \in 1 .. m + 1, NEW p \in 1 .. Len(seqs[i])
        PROVE  \E j \in 1 .. Len(u) : u[j] = seqs[i][p]
    <2> HIDE DEF u
    <2>1. CASE i \in 1 .. m
      <3>1. PICK j \in 1 .. Len(s) : s[j] = seqs[i][p]
        BY <2>1 DEF Covers
      <3> QED
        BY <1>1, <3>1
    <2>2. CASE i = m + 1
      BY <1>1, <2>2
    <2> QED
      BY <2>1, <2>2
  <1> HIDE DEF u
  <1>3. Covers(u, seqs, m + 1)
    BY <1>2 DEF Covers
  <1> QED
    BY <1>3 DEF u

\* Nothing is lost by flattening.
LEMMA FlattenCovers ==
  ASSUME NEW V, NEW seqs \in Seq(Seq(V))
  PROVE  Covers(FlattenSeq(seqs), seqs, Len(seqs))
  <1>1. PICK h : IsConcatenation(h, seqs, V, Len(seqs))
    BY ConcatenationExists
  <1>2. FlattenSeq(seqs) = h[Len(seqs)]
    BY <1>1, FlattenIsConcatenation
  <1> DEFINE K == {m \in Nat : m <= Len(seqs) => Covers(h[m], seqs, m)}
  <1>3. 0 \in K
    BY DEF Covers
  <1>4. ASSUME NEW m \in Nat, m \in K PROVE m + 1 \in K
    <2> SUFFICES ASSUME m + 1 <= Len(seqs) PROVE Covers(h[m + 1], seqs, m + 1)
      OBVIOUS
    <2>1. m + 1 \in 1 .. Len(seqs) /\ (m + 1) - 1 = m /\ m \in 0 .. Len(seqs)
      OBVIOUS
    <2>2. h[m + 1] = h[m] \o seqs[m + 1] /\ h[m] \in Seq(V)
      BY <1>1, <2>1 DEF IsConcatenation
    <2> DEFINE s == h[m]
    <2>3. s \in Seq(V) /\ Covers(s, seqs, m)
      BY <1>4, <2>2
    <2> HIDE DEF s
    <2>4. Covers(s \o seqs[m + 1], seqs, m + 1)
      BY <2>3, CoversStep
    <2> QED
      BY <2>2, <2>4 DEF s
  <1>5. \A m \in Nat : m \in K
    <2> HIDE DEF K
    <2> QED
      BY <1>3, <1>4, SetInduction
  <1>6. Len(seqs) \in Nat /\ Len(seqs) <= Len(seqs)
    OBVIOUS
  <1> QED
    BY <1>2, <1>5, <1>6

\* A sequence without repetition has as many values as places.
LEMMA PlacesAndValues ==
  ASSUME NEW V, NEW s \in Seq(V), OneToOne(s), NEW I \in SUBSET (DOMAIN s)
  PROVE  /\ IsFiniteSet({s[i] : i \in I})
         /\ Cardinality({s[i] : i \in I}) = Cardinality(I)
  <1> DEFINE T == {s[i] : i \in I}
             f == [i \in I |-> s[i]]
  <1>1. DOMAIN s = 1 .. Len(s) /\ Len(s) \in Nat /\ IsFiniteSet(1 .. Len(s))
    BY FS_Interval
  <1>2. IsFiniteSet(I)
    BY <1>1, FS_Subset
  <1>3. f \in Injection(I, T) /\ f \in Surjection(I, T)
    <2>1. \A i, j \in I : s[i] = s[j] => i = j
      BY <1>1 DEF OneToOne
    <2> QED
      BY <2>1 DEF Injection, IsInjective, Surjection
  <1>4. ExistsBijection(I, T)
    BY <1>3 DEF ExistsBijection, Bijection
  <1> HIDE DEF T
  <1> QED
    BY <1>2, <1>4, FS_Bijection DEF T

-----------------------------------------------------------------------------
(* Sequences that are joined, and recursion along a sequence.                  *)

LEMMA FlattenNothing == FlattenSeq(<< >>) = << >>
  BY DEF FlattenSeq

LEMMA FlattenAppend ==
  ASSUME NEW V, NEW seqs \in Seq(Seq(V)), NEW x \in Seq(V)
  PROVE  /\ FlattenSeq(seqs) \in Seq(V)
         /\ FlattenSeq(Append(seqs, x)) = FlattenSeq(seqs) \o x
  <1> DEFINE n == Len(seqs)
             more == Append(seqs, x)
  <1>1. /\ n \in Nat /\ more \in Seq(Seq(V)) /\ Len(more) = n + 1 /\ more[n + 1] = x
        /\ \A i \in 1 .. n : more[i] = seqs[i]
    OBVIOUS
  <1>2. PICK h : IsConcatenation(h, more, V, Len(more))
    <2> HIDE DEF more
    <2> QED
      BY <1>1, ConcatenationExists
  <1> HIDE DEF more, n
  <1>3. /\ h \in [0 .. n + 1 -> Seq(V)] /\ h[0] = << >>
        /\ \A i \in 1 .. n + 1 : h[i] = h[i - 1] \o more[i]
    BY <1>1, <1>2 DEF IsConcatenation
  <1>4. FlattenSeq(more) = h[n + 1]
    BY <1>1, <1>2, FlattenIsConcatenation
  <1> DEFINE g == [i \in 0 .. n |-> h[i]]
  <1>5. IsConcatenation(g, seqs, V, n)
    <2>1. g \in [0 .. n -> Seq(V)] /\ g[0] = << >>
      BY <1>1, <1>3
    <2>2. ASSUME NEW i \in 1 .. n PROVE g[i] = g[i - 1] \o seqs[i]
      <3>1. i \in 1 .. n + 1 /\ i \in 0 .. n /\ i - 1 \in 0 .. n
        BY <1>1
      <3>2. g[i] = h[i] /\ g[i - 1] = h[i - 1]
        BY <3>1
      <3> HIDE DEF g
      <3> QED
        BY <1>1, <1>3, <3>1, <3>2
    <2> HIDE DEF g
    <2> QED
      BY <2>1, <2>2 DEF IsConcatenation
  <1>6. FlattenSeq(seqs) = g[n] /\ g[n] \in Seq(V)
    <2> HIDE DEF g
    <2>1. IsConcatenation(g, seqs, V, Len(seqs))
      BY <1>5 DEF n
    <2>2. g[n] \in Seq(V)
      BY <1>1, <1>5 DEF IsConcatenation
    <2> QED
      BY <2>1, <2>2, FlattenIsConcatenation DEF n
  <1>7. n + 1 \in 1 .. n + 1 /\ (n + 1) - 1 = n /\ g[n] = h[n]
    <2>1. n \in 0 .. n /\ n + 1 \in 1 .. n + 1 /\ (n + 1) - 1 = n
      <3>1. n \in Nat
        BY <1>1
      <3> QED
        BY <3>1
    <2>2. g[n] = h[n]
      BY <2>1
    <2> QED
      BY <2>1, <2>2
  <1> HIDE DEF g
  <1>8. h[n + 1] = h[n] \o x
    BY <1>1, <1>3, <1>7
  <1> QED
    BY <1>4, <1>6, <1>7, <1>8 DEF more

LEMMA AppendGives ==
  ASSUME NEW S, NEW s \in Seq(S), NEW e \in S
  PROVE  /\ Append(s, e) \in Seq(S) /\ Len(Append(s, e)) = Len(s) + 1
         /\ \A i \in 1 .. Len(s) : Append(s, e)[i] = s[i]
         /\ Append(s, e)[Len(s) + 1] = e
  OBVIOUS

LEMMA AppendToOne ==
  ASSUME NEW S, NEW x \in S, NEW y \in S
  PROVE  <<x>> \in Seq(S) /\ Append(<<x>>, y) = <<x, y>>
  <1> DEFINE one == <<x>>
             two == <<x, y>>
  <1>1. one \in Seq(S) /\ Len(one) = 1 /\ one[1] = x
    OBVIOUS
  <1>2. two \in Seq(S) /\ Len(two) = 2 /\ two[1] = x /\ two[2] = y
    OBVIOUS
  <1> HIDE DEF one, two
  <1>3. Append(one, y) \in Seq(S) /\ Len(Append(one, y)) = Len(one) + 1
    BY <1>1, AppendGives
  <1>4. \A i \in 1 .. Len(one) : Append(one, y)[i] = one[i]
    BY <1>1, AppendGives
  <1>5. Append(one, y)[Len(one) + 1] = y
    BY <1>1, AppendGives
  <1>6. Append(one, y)[1] = x /\ Append(one, y)[2] = y
    <2> DEFINE more == Append(one, y)
               n == Len(one)
    <2>1. n = 1 /\ one[1] = x /\ (\A i \in 1 .. n : more[i] = one[i]) /\ more[n + 1] = y
      BY <1>1, <1>4, <1>5
    <2> HIDE DEF more, n
    <2>2. more[1] = x /\ more[2] = y
      BY <2>1
    <2> QED
      BY <2>2 DEF more
  <1>7. \A i \in 1 .. Len(two) : two[i] = Append(one, y)[i]
    <2>1. \A i \in 1 .. 2 : i = 1 \/ i = 2
      OBVIOUS
    <2> QED
      BY <1>2, <1>6, <2>1
  <1>8. two = Append(one, y)
    BY <1>1, <1>2, <1>3, <1>7, SeqEqual
  <1> QED
    BY <1>1, <1>8 DEF one, two

LEMMA FlattenFew ==
  ASSUME NEW V, NEW x \in Seq(V), NEW y \in Seq(V)
  PROVE  FlattenSeq(<<x>>) = x /\ FlattenSeq(<<x, y>>) = x \o y
  <1>1. << >> \in Seq(Seq(V)) /\ Append(<< >>, x) = <<x>> /\ << >> \o x = x
    OBVIOUS
  <1>2. FlattenSeq(Append(<< >>, x)) = FlattenSeq(<< >>) \o x
    BY <1>1, FlattenAppend
  <1>3. FlattenSeq(<<x>>) = x
    BY <1>1, <1>2, FlattenNothing
  <1>4. <<x>> \in Seq(Seq(V)) /\ Append(<<x>>, y) = <<x, y>>
    BY AppendToOne
  <1>5. FlattenSeq(Append(<<x>>, y)) = FlattenSeq(<<x>>) \o y
    BY <1>4, FlattenAppend
  <1> QED
    BY <1>3, <1>4, <1>5

\* What a concatenation is, and what is one.
LEMMA JoinedIs ==
  ASSUME NEW S, NEW a \in Seq(S), NEW b \in Seq(S), NEW c \in Seq(S), Len(c) = Len(a) + Len(b),
         \A i \in 1 .. Len(a) : c[i] = a[i], \A i \in 1 .. Len(b) : c[Len(a) + i] = b[i]
  PROVE  c = a \o b
  <1>1. /\ a \o b \in Seq(S) /\ Len(a \o b) = Len(a) + Len(b) /\ Len(a) \in Nat /\ Len(b) \in Nat
        /\ \A i \in 1 .. Len(a) + Len(b) : (a \o b)[i] = IF i <= Len(a) THEN a[i] ELSE b[i - Len(a)]
    BY ConcatProperties
  <1>2. ASSUME NEW i \in 1 .. Len(c) PROVE c[i] = (a \o b)[i]
    <2>1. CASE i <= Len(a)
      BY <1>1, <2>1
    <2>2. CASE ~ (i <= Len(a))
      <3>1. i - Len(a) \in 1 .. Len(b) /\ Len(a) + (i - Len(a)) = i
        BY <1>1, <2>2
      <3>2. c[Len(a) + (i - Len(a))] = b[i - Len(a)]
        BY <3>1
      <3> QED
        BY <1>1, <2>2, <3>1, <3>2
    <2> QED
      BY <2>1, <2>2
  <1> QED
    BY <1>1, <1>2, SeqEqual

LEMMA AppendLater ==
  ASSUME NEW S, NEW s \in Seq(S), NEW f \in Seq(S), NEW x \in S
  PROVE  s \o Append(f, x) = Append(s \o f, x) /\ s \o f \in Seq(S)
  OBVIOUS

LEMMA FlattenTogether ==
  ASSUME NEW V, NEW s \in Seq(Seq(V)), NEW t \in Seq(Seq(V))
  PROVE  FlattenSeq(s \o t) = FlattenSeq(s) \o FlattenSeq(t)
  <1> DEFINE G == {n \in Nat : \A u \in Seq(Seq(V)) : Len(u) = n => FlattenSeq(s \o u) = FlattenSeq(s) \o FlattenSeq(u)}
  <1>1. 0 \in G
    <2> SUFFICES ASSUME NEW u \in Seq(Seq(V)), Len(u) = 0
                 PROVE  FlattenSeq(s \o u) = FlattenSeq(s) \o FlattenSeq(u)
      OBVIOUS
    <2>1. u = << >> /\ s \o << >> = s
      OBVIOUS
    <2>2. FlattenSeq(s) \in Seq(V)
      BY <2>1, FlattenAppend
    <2>3. FlattenSeq(s) \o << >> = FlattenSeq(s)
      BY <2>2
    <2> QED
      BY <2>1, <2>3, FlattenNothing
  <1>2. ASSUME NEW n \in Nat, n \in G PROVE n + 1 \in G
    <2> SUFFICES ASSUME NEW u \in Seq(Seq(V)), Len(u) = n + 1
                 PROVE  FlattenSeq(s \o u) = FlattenSeq(s) \o FlattenSeq(u)
      OBVIOUS
    <2> DEFINE f == SubSeq(u, 1, n)
               x == u[n + 1]
    <2>1. f \in Seq(Seq(V)) /\ Len(f) = n /\ x \in Seq(V) /\ u = Append(f, x)
      OBVIOUS
    <2>2. FlattenSeq(s \o f) = FlattenSeq(s) \o FlattenSeq(f)
      BY <1>2, <2>1
    <2> HIDE DEF f, x
    <2>3. s \o u = Append(s \o f, x) /\ s \o f \in Seq(Seq(V))
      <3> DEFINE S == Seq(V)
      <3>1. s \in Seq(S) /\ f \in Seq(S) /\ x \in S
        BY <2>1
      <3> HIDE DEF S
      <3>2. s \o Append(f, x) = Append(s \o f, x) /\ s \o f \in Seq(S)
        BY <3>1, AppendLater
      <3> QED
        BY <2>1, <3>2 DEF S
    <2>4. FlattenSeq(Append(s \o f, x)) = FlattenSeq(s \o f) \o x
      BY <2>1, <2>3, FlattenAppend
    <2>5. FlattenSeq(u) = FlattenSeq(f) \o x
      BY <2>1, FlattenAppend
    <2>6. FlattenSeq(s) \in Seq(V) /\ FlattenSeq(f) \in Seq(V)
      BY <2>1, FlattenAppend
    <2>7. (FlattenSeq(s) \o FlattenSeq(f)) \o x = FlattenSeq(s) \o (FlattenSeq(f) \o x)
      <3> DEFINE a == FlattenSeq(s)
                 b == FlattenSeq(f)
      <3>1. a \in Seq(V) /\ b \in Seq(V) /\ x \in Seq(V)
        BY <2>1, <2>6
      <3> HIDE DEF a, b
      <3>2. (a \o b) \o x = a \o (b \o x)
        BY <3>1, ConcatAssociative, SMTT(60)
      <3> QED
        BY <3>2 DEF a, b
    <2> QED
      BY <2>2, <2>3, <2>4, <2>5, <2>7
  <1>3. \A n \in Nat : n \in G
    <2> HIDE DEF G
    <2> QED
      BY <1>1, <1>2, SetInduction
  <1> QED
    BY <1>3

LEMMA FlattenNothings ==
  ASSUME NEW seqs \in Seq({<< >>})
  PROVE  FlattenSeq(seqs) = << >>
  <1>1. << >> \in Seq({}) /\ {<< >>} \subseteq Seq({})
    OBVIOUS
  <1>3. seqs \in Seq(Seq({}))
    <2> DEFINE S == Seq({})
    <2> HIDE DEF S
    <2>1. {<< >>} \subseteq S
      BY <1>1 DEF S
    <2>2. seqs \in Seq(S)
      BY <2>1, SeqMonotonic
    <2> QED
      BY <2>2 DEF S
  <1>2. FlattenSeq(seqs) \in Seq({})
    BY <1>1, <1>3, FlattenAppend
  <1> QED
    BY <1>2

\* Two parts of a sequence, one after the other.
LEMMA PartsOfOne ==
  ASSUME NEW S, NEW s \in Seq(S), NEW i \in 1 .. Len(s), NEW j \in 1 .. Len(s) + 2, j - 1 \in i .. Len(s)
  PROVE  SubSeq(s, i, j - 1) \o SubSeq(s, j, Len(s)) = SubSeq(s, i, Len(s))
  <1> DEFINE a == SubSeq(s, i, j - 1)
             b == SubSeq(s, j, Len(s))
             c == SubSeq(s, i, Len(s))
  <1>1. a \in Seq(S) /\ Len(a) = j - i /\ \A n \in 1 .. j - i : a[n] = s[i + n - 1]
    OBVIOUS
  <1>2. /\ b \in Seq(S) /\ Len(b) = (Len(s) + 1) - j
        /\ \A n \in 1 .. (Len(s) + 1) - j : b[n] = s[j + n - 1]
    OBVIOUS
  <1>3. /\ c \in Seq(S) /\ Len(c) = (Len(s) + 1) - i
        /\ \A n \in 1 .. (Len(s) + 1) - i : c[n] = s[i + n - 1]
    OBVIOUS
  <1> HIDE DEF a, b, c
  <1>4. \A n \in 1 .. Len(a) : c[n] = a[n]
    BY <1>1, <1>3
  <1>5. \A n \in 1 .. Len(b) : c[Len(a) + n] = b[n]
    <2> SUFFICES ASSUME NEW n \in 1 .. (Len(s) + 1) - j PROVE c[(j - i) + n] = b[n]
      BY <1>1, <1>2
    <2>1. (j - i) + n \in 1 .. (Len(s) + 1) - i /\ i + ((j - i) + n) - 1 = j + n - 1
      OBVIOUS
    <2> QED
      BY <1>2, <1>3, <2>1
  <1>6. Len(c) = Len(a) + Len(b)
    BY <1>1, <1>2, <1>3
  <1> HIDE DEF a, b, c
  <1>7. c = a \o b
    BY <1>1, <1>2, <1>3, <1>4, <1>5, <1>6, JoinedIs
  <1> QED
    BY <1>7 DEF a, b, c

LEMMA PrefixFacts ==
  ASSUME NEW S, NEW s \in Seq(S), NEW t \in Seq(S)
  PROVE  /\ IsPrefix(s, s \o t) /\ IsPrefix(s, s) /\ IsPrefix(<< >>, s)
         /\ SubSeq(s \o t, Len(s) + 1, Len(s \o t)) = t
         /\ SubSeq(s, 1, Len(s)) = s /\ SubSeq(s, Len(s) + 1, Len(s)) = << >>
         /\ s \o << >> = s
         /\ IsPrefix(s, t) /\ Len(s) = Len(t) => s = t
  <1>1. s \o t \in Seq(S) /\ Len(s \o t) = Len(s) + Len(t) /\ Len(s) \in Nat /\ Len(t) \in Nat
    OBVIOUS
  <1>2. SubSeq(s, 1, Len(s)) = s /\ SubSeq(t, 1, Len(t)) = t
    OBVIOUS
  <1>3. SubSeq(s \o t, 1, Len(s)) = s
    <2> DEFINE c == SubSeq(s \o t, 1, Len(s))
    <2>1. c \in Seq(S) /\ Len(c) = Len(s) /\ \A i \in 1 .. Len(s) : c[i] = s[i]
      BY <1>1
    <2> HIDE DEF c
    <2>2. c = s
      BY <2>1, SeqEqual
    <2> QED
      BY <2>2 DEF c
  <1>4. SubSeq(s \o t, Len(s) + 1, Len(s \o t)) = t
    <2> DEFINE c == SubSeq(s \o t, Len(s) + 1, Len(s) + Len(t))
    <2>1. c \in Seq(S) /\ Len(c) = Len(t) /\ \A i \in 1 .. Len(t) : c[i] = t[i]
      BY <1>1
    <2> HIDE DEF c
    <2>2. c = t
      BY <2>1, SeqEqual
    <2> QED
      BY <1>1, <2>2 DEF c
  <1>5. SubSeq(s, Len(s) + 1, Len(s)) = << >> /\ s \o << >> = s
    OBVIOUS
  <1>6. IsPrefix(s, s \o t) /\ IsPrefix(s, s)
    BY <1>1, <1>2, <1>3 DEF IsPrefix
  <1>7. IsPrefix(<< >>, s)
    <2>1. SubSeq(<< >>, 1, 0) = << >> /\ SubSeq(s, 1, 0) = << >> /\ Len(<< >>) = 0
      OBVIOUS
    <2> QED
      BY <1>1, <2>1 DEF IsPrefix
  <1>8. ASSUME IsPrefix(s, t), Len(s) = Len(t) PROVE s = t
    BY <1>2, <1>8 DEF IsPrefix
  <1> QED
    BY <1>2, <1>4, <1>5, <1>6, <1>7, <1>8

LEMMA PartsOfTwo ==
  ASSUME NEW S, NEW p \in S, NEW x \in S
  PROVE  /\ SubSeq(<<p>>, 1, 1) = <<p>> /\ SubSeq(<<p, x>>, 1, 1) = <<p>> /\ SubSeq(<<p, x>>, 1, 2) = <<p, x>>
         /\ IsPrefix(<<p>>, <<p, x>>)
  <1> DEFINE one == <<p>>
             two == <<p, x>>
  <1>1. one \in Seq(S) /\ Len(one) = 1 /\ one[1] = p
    OBVIOUS
  <1>2. two \in Seq(S) /\ Len(two) = 2 /\ two[1] = p /\ two[2] = x
    OBVIOUS
  <1> HIDE DEF one, two
  <1>3. SubSeq(one, 1, 1) = one /\ SubSeq(two, 1, 2) = two
    BY <1>1, <1>2, PrefixFacts
  <1>4. SubSeq(two, 1, 1) = one
    <2> DEFINE c == SubSeq(two, 1, 1)
    <2>1. c \in Seq(S) /\ Len(c) = 1 /\ c[1] = p
      BY <1>2
    <2> HIDE DEF c
    <2>2. \A i \in 1 .. Len(c) : c[i] = one[i]
      BY <1>1, <2>1
    <2>3. c = one
      BY <1>1, <2>1, <2>2, SeqEqual
    <2> QED
      BY <2>3 DEF c
  <1>5. IsPrefix(one, two)
    BY <1>1, <1>2, <1>3, <1>4 DEF IsPrefix
  <1> QED
    BY <1>3, <1>4, <1>5 DEF one, two

\* Two prefixes of one text: one begins with the other.
LEMMA PrefixesCompare ==
  ASSUME NEW S, NEW s \in Seq(S), NEW t \in Seq(S), NEW u \in Seq(S),
         IsPrefix(s, u), IsPrefix(t, u), Len(s) <= Len(t)
  PROVE  IsPrefix(s, t)
  <1>1. \A i \in 1 .. Len(s) : s[i] = u[i] /\ t[i] = u[i]
    <2>1. /\ SubSeq(s, 1, Len(s)) = SubSeq(u, 1, Len(s)) /\ SubSeq(t, 1, Len(t)) = SubSeq(u, 1, Len(t))
          /\ Len(s) <= Len(u) /\ Len(t) <= Len(u) /\ Len(s) \in Nat /\ Len(t) \in Nat /\ Len(u) \in Nat
      BY DEF IsPrefix
    <2>2. \A i \in 1 .. Len(s) : SubSeq(s, 1, Len(s))[i] = s[i] /\ SubSeq(u, 1, Len(s))[i] = u[i]
      BY <2>1
    <2>3. \A i \in 1 .. Len(t) : SubSeq(t, 1, Len(t))[i] = t[i] /\ SubSeq(u, 1, Len(t))[i] = u[i]
      BY <2>1
    <2> QED
      BY <2>1, <2>2, <2>3
  <1> DEFINE a == SubSeq(s, 1, Len(s))
             b == SubSeq(t, 1, Len(s))
  <1>2. /\ a \in Seq(S) /\ Len(a) = Len(s) /\ \A i \in 1 .. Len(s) : a[i] = s[i]
        /\ b \in Seq(S) /\ Len(b) = Len(s) /\ \A i \in 1 .. Len(s) : b[i] = t[i]
    OBVIOUS
  <1> HIDE DEF a, b
  <1>3. \A i \in 1 .. Len(a) : a[i] = b[i]
    BY <1>1, <1>2
  <1>4. a = b
    BY <1>2, <1>3, SeqEqual
  <1> QED
    BY <1>4 DEF a, b, IsPrefix

\* T goes through 1 .. N in strides, from the end.
Strides(T, N, base, next, step) ==
  \A i \in 1 .. N + 2 : T[i] = IF i > N THEN base ELSE step[<<i, T[next[i]]>>]

LEMMA StridesExist ==
  ASSUME NEW N \in Nat, NEW V, NEW base \in V,
         NEW next \in [1 .. N -> 1 .. N + 2], \A i \in 1 .. N : next[i] > i,
         NEW step \in [(1 .. N) \X V -> V]
  PROVE  \E T \in [1 .. N + 2 -> V] : Strides(T, N, base, next, step)
  <1> DEFINE From(T, m) == \A i \in 1 .. N + 2 :
               i > N - m => T[i] = IF i > N THEN base ELSE step[<<i, T[next[i]]>>]
             K == {m \in Nat : \E T \in [1 .. N + 2 -> V] : From(T, m)}
  <1>1. 0 \in K
    <2> DEFINE T == [i \in 1 .. N + 2 |-> base]
    <2>1. T \in [1 .. N + 2 -> V] /\ From(T, 0)
      OBVIOUS
    <2> HIDE DEF T, From
    <2> QED
      BY <2>1
  <1>2. ASSUME NEW m \in Nat, m \in K PROVE m + 1 \in K
    <2>1. PICK T \in [1 .. N + 2 -> V] : From(T, m)
      BY <1>2
    <2>2. CASE m >= N
      <3>1. From(T, m + 1)
        BY <2>1, <2>2
      <3> HIDE DEF From
      <3> QED
        BY <3>1
    <2>3. CASE m < N
      <3> DEFINE j == N - m
                 t == step[<<j, T[next[j]]>>]
                 U == [i \in 1 .. N + 2 |-> IF i = j THEN t ELSE T[i]]
      <3>1. j \in 1 .. N /\ j \in 1 .. N + 2 /\ next[j] \in 1 .. N + 2 /\ next[j] > j
        BY <2>3
      <3>2. t \in V
        <4>1. T[next[j]] \in V
          BY <3>1
        <4>2. <<j, T[next[j]]>> \in (1 .. N) \X V
          BY <3>1, <4>1
        <4> QED
          BY <4>2
      <3>3. U \in [1 .. N + 2 -> V]
        BY <3>2
      <3>4. ASSUME NEW i \in 1 .. N + 2, i > N - (m + 1)
            PROVE  U[i] = IF i > N THEN base ELSE step[<<i, U[next[i]]>>]
        <4>1. CASE i = j
          <5>1. U[i] = t /\ U[next[j]] = T[next[j]] /\ ~ (j > N)
            BY <3>1, <4>1
          <5> QED
            BY <4>1, <5>1
        <4>2. CASE i # j
          <5>1. i > N - m /\ U[i] = T[i]
            BY <3>4, <4>2
          <5>2. CASE i > N
            BY <2>1, <5>1, <5>2
          <5>3. CASE ~ (i > N)
            <6>1. i \in 1 .. N /\ next[i] \in 1 .. N + 2 /\ next[i] > i /\ next[i] # j
              BY <5>1, <5>3
            <6>2. U[next[i]] = T[next[i]]
              BY <6>1
            <6>3. T[i] = step[<<i, T[next[i]]>>]
              BY <2>1, <5>1, <5>3
            <6> QED
              BY <5>1, <5>3, <6>2, <6>3
          <5> QED
            BY <5>2, <5>3
        <4> QED
          BY <4>1, <4>2
      <3>5. From(U, m + 1)
        <4> HIDE DEF U
        <4> QED
          BY <3>4
      <3> HIDE DEF U, From
      <3> QED
        BY <3>3, <3>5
    <2> HIDE DEF K
    <2> QED
      BY <2>2, <2>3
  <1>3. \A m \in Nat : m \in K
    <2> HIDE DEF K
    <2> QED
      BY <1>1, <1>2, SetInduction
  <1>4. PICK T \in [1 .. N + 2 -> V] : From(T, N)
    <2>1. N \in K
      BY <1>3
    <2> HIDE DEF From
    <2> QED
      BY <2>1
  <1> QED
    BY <1>4 DEF Strides

-----------------------------------------------------------------------------
(* More about the largest number, sums and concatenations.                     *)

\* A finite set of numbers has a largest one.
LEMMA LargestExists ==
  ASSUME NEW S, IsFiniteSet(S), S # {}, S \subseteq Nat
  PROVE  Max(S) \in S /\ \A x \in S : x <= Max(S)
  <1> DEFINE G == {T \in SUBSET S : \E n \in Nat : \A x \in T : x <= n}
  <1>1. {} \in G
    <2>1. 0 \in Nat /\ {} \in SUBSET S
      OBVIOUS
    <2> QED
      BY <2>1
  <1>2. ASSUME NEW T \in SUBSET S, T \in G, NEW x \in S \ T PROVE T \cup {x} \in G
    <2>1. PICK n \in Nat : \A y \in T : y <= n
      BY <1>2
    <2> DEFINE b == IF x <= n THEN n ELSE x
    <2>2. b \in Nat /\ T \cup {x} \in SUBSET S /\ T \subseteq Nat /\ x \in Nat
      BY <2>1
    <2>3. \A y \in T \cup {x} : y <= b
      BY <2>1, <2>2
    <2> QED
      BY <2>2, <2>3
  <1>3. S \in G
    <2> HIDE DEF G
    <2>1. \A T \in SUBSET S : T \in G
      BY <1>1, <1>2, SubsetInduction
    <2> QED
      BY <2>1
  <1>4. PICK n \in Nat : \A x \in S : x <= n
    BY <1>3
  <1>5. S \in SUBSET (0 .. n)
    BY <1>4
  <1> QED
    BY <1>5, MaxExists

\* Terms that are not negative have such a sum.
LEMMA SumOfNaturals ==
  ASSUME NEW S, IsFiniteSet(S), NEW f, \A x \in S : f[x] \in Nat
  PROVE  \A T \in SUBSET S : SumFunctionOnSet(f, T) \in Nat
  <1> DEFINE G == {T \in SUBSET S : SumFunctionOnSet(f, T) \in Nat}
  <1>1. SumFunctionOnSet(f, {}) = 0
        /\ \A T \in SUBSET S : \A x \in S \ T : SumFunctionOnSet(f, T \cup {x}) = SumFunctionOnSet(f, T) + f[x]
    <2>1. \A x \in S : f[x] \in Int
      OBVIOUS
    <2> QED
      BY <2>1, SumLaws
  <1>2. {} \in G
    BY <1>1
  <1>3. ASSUME NEW T \in SUBSET S, T \in G, NEW x \in S \ T PROVE T \cup {x} \in G
    <2>1. SumFunctionOnSet(f, T \cup {x}) = SumFunctionOnSet(f, T) + f[x] /\ f[x] \in Nat
      BY <1>1, <1>3
    <2>2. SumFunctionOnSet(f, T) \in Nat /\ T \cup {x} \in SUBSET S
      BY <1>3
    <2> QED
      BY <2>1, <2>2
  <1>4. \A T \in SUBSET S : T \in G
    <2> HIDE DEF G
    <2> QED
      BY <1>2, <1>3, SubsetInduction
  <1> QED
    BY <1>4

\* The sum does not depend on what its terms are called.
LEMMA SumRenamed ==
  ASSUME NEW S, IsFiniteSet(S), NEW T, IsFiniteSet(T), NEW f, \A x \in S : f[x] \in Int,
         NEW name \in [T -> S], \A t, u \in T : name[t] = name[u] => t = u,
         \A x \in S : \E t \in T : name[t] = x,
         NEW h, \A t \in T : h[t] = f[name[t]]
  PROVE  SumFunctionOnSet(h, T) = SumFunctionOnSet(f, S)
  <1> DEFINE named(U) == {name[t] : t \in U}
             G == {U \in SUBSET T : SumFunctionOnSet(h, U) = SumFunctionOnSet(f, named(U))}
  <1>1. \A t \in T : h[t] \in Int
    OBVIOUS
  <1>2. /\ SumFunctionOnSet(h, {}) = 0 /\ SumFunctionOnSet(f, {}) = 0
        /\ \A U \in SUBSET T : \A t \in T \ U :
             SumFunctionOnSet(h, U \cup {t}) = SumFunctionOnSet(h, U) + h[t]
        /\ \A U \in SUBSET S : \A x \in S \ U :
             SumFunctionOnSet(f, U \cup {x}) = SumFunctionOnSet(f, U) + f[x]
    BY <1>1, SumLaws
  <1>3. {} \in G
    <2>1. named({}) = {}
      OBVIOUS
    <2> QED
      BY <1>2, <2>1
  <1>4. ASSUME NEW U \in SUBSET T, U \in G, NEW t \in T \ U PROVE U \cup {t} \in G
    <2>1. named(U \cup {t}) = named(U) \cup {name[t]} /\ named(U) \in SUBSET S
      OBVIOUS
    <2>2. name[t] \in S \ named(U)
      OBVIOUS
    <2>3. SumFunctionOnSet(h, U \cup {t}) = SumFunctionOnSet(h, U) + h[t]
      BY <1>2
    <2>4. SumFunctionOnSet(f, named(U) \cup {name[t]}) = SumFunctionOnSet(f, named(U)) + f[name[t]]
      <3> HIDE DEF named
      <3> QED
        BY <1>2, <2>1, <2>2
    <2>5. SumFunctionOnSet(h, U) = SumFunctionOnSet(f, named(U)) /\ U \cup {t} \in SUBSET T
      BY <1>4
    <2>6. h[t] = f[name[t]]
      OBVIOUS
    <2>7. SumFunctionOnSet(h, U \cup {t}) = SumFunctionOnSet(f, named(U \cup {t}))
      <3> HIDE DEF named
      <3> QED
        BY <2>1, <2>3, <2>4, <2>5, <2>6
    <2> QED
      BY <2>5, <2>7
  <1>5. T \in G
    <2>1. \A U \in SUBSET T : U \in G
      <3> HIDE DEF G
      <3> QED
        BY <1>3, <1>4, SubsetInduction
    <2> QED
      BY <2>1
  <1>6. named(T) = S
    OBVIOUS
  <1> QED
    BY <1>5, <1>6

\* Sums over the first numbers.
LEMMA SumUpTo ==
  ASSUME NEW n \in Nat, NEW size, \A i \in 1 .. n : size[i] \in Nat
  PROVE  /\ SumFunctionOnSet(size, 1 .. 0) = 0
         /\ \A i \in 0 .. n : SumFunctionOnSet(size, 1 .. i) \in Nat
         /\ \A i \in 1 .. n : SumFunctionOnSet(size, 1 .. i) = SumFunctionOnSet(size, 1 .. i - 1) + size[i]
  <1> DEFINE S == 1 .. n
  <1>1. IsFiniteSet(S)
    <2>1. 1 \in Int /\ n \in Int
      OBVIOUS
    <2> QED
      BY <2>1, FS_Interval
  <1>2. \A i \in S : size[i] \in Nat /\ size[i] \in Int
    OBVIOUS
  <1>3. 1 .. 0 = {} /\ \A i \in 0 .. n : 1 .. i \in SUBSET S
    OBVIOUS
  <1>4. \A i \in S : 1 .. i = (1 .. i - 1) \cup {i} /\ 1 .. i - 1 \in SUBSET S /\ i \in S \ (1 .. i - 1)
    OBVIOUS
  <1> HIDE DEF S
  <1>5. /\ SumFunctionOnSet(size, {}) = 0
        /\ \A T \in SUBSET S : \A x \in S \ T :
             SumFunctionOnSet(size, T \cup {x}) = SumFunctionOnSet(size, T) + size[x]
    BY <1>1, <1>2, SumLaws
  <1>6. \A T \in SUBSET S : SumFunctionOnSet(size, T) \in Nat
    BY <1>1, <1>2, SumOfNaturals
  <1>7. ASSUME NEW i \in S
        PROVE  SumFunctionOnSet(size, 1 .. i) = SumFunctionOnSet(size, 1 .. i - 1) + size[i]
    <2>1. 1 .. i = (1 .. i - 1) \cup {i} /\ 1 .. i - 1 \in SUBSET S /\ i \in S \ (1 .. i - 1)
      BY <1>4
    <2> DEFINE T == 1 .. i - 1
    <2>2. T \in SUBSET S /\ i \in S \ T /\ 1 .. i = T \cup {i}
      BY <2>1
    <2> HIDE DEF T
    <2>3. SumFunctionOnSet(size, T \cup {i}) = SumFunctionOnSet(size, T) + size[i]
      BY <1>5, <2>2
    <2> QED
      BY <2>2, <2>3 DEF T
  <1> QED
    BY <1>3, <1>5, <1>6, <1>7 DEF S

\* What a concatenation holds.
LEMMA JoinGives ==
  ASSUME NEW V, NEW s \in Seq(V), NEW t \in Seq(V)
  PROVE  /\ s \o t \in Seq(V) /\ Len(s) \in Nat /\ Len(t) \in Nat /\ Len(s \o t) = Len(s) + Len(t)
         /\ \A j \in 1 .. Len(s) : (s \o t)[j] = s[j]
         /\ \A j \in 1 .. Len(t) : (s \o t)[Len(s) + j] = t[j]
  OBVIOUS

\* The first m sequences make s, where the i-th of them begins after at[i - 1].
Placed(s, seqs, at, m) ==
  /\ Len(s) = at[m]
  /\ \A i \in 1 .. m :
       /\ at[i - 1] \in Nat /\ at[i] = at[i - 1] + Len(seqs[i]) /\ at[i] <= at[m]
       /\ \A p \in 1 .. Len(seqs[i]) : s[at[i - 1] + p] = seqs[i][p]

\* One sequence more.
LEMMA PlacedStep ==
  ASSUME NEW V, NEW seqs, NEW m \in Nat, NEW s \in Seq(V), NEW t \in Seq(V), t = seqs[m + 1],
         \A i \in 1 .. m : Len(seqs[i]) \in Nat,
         NEW at, at[m] \in Nat, at[m + 1] = at[m] + Len(t), Placed(s, seqs, at, m)
  PROVE  Placed(s \o t, seqs, at, m + 1)
  <1> DEFINE u == s \o t
  <1>1. /\ Len(s) \in Nat /\ Len(t) \in Nat /\ Len(u) = Len(s) + Len(t)
        /\ \A j \in 1 .. Len(s) : u[j] = s[j]
        /\ \A j \in 1 .. Len(t) : u[Len(s) + j] = t[j]
    BY JoinGives
  <1> HIDE DEF u
  <1>2. Len(s) = at[m]
    BY DEF Placed
  <1>3. ASSUME NEW i \in 1 .. m + 1
        PROVE  /\ at[i - 1] \in Nat /\ at[i] = at[i - 1] + Len(seqs[i]) /\ at[i] <= at[m + 1]
               /\ \A p \in 1 .. Len(seqs[i]) : u[at[i - 1] + p] = seqs[i][p]
    <2>1. CASE i \in 1 .. m
      <3>1. /\ at[i - 1] \in Nat /\ at[i] = at[i - 1] + Len(seqs[i]) /\ at[i] <= at[m]
            /\ \A p \in 1 .. Len(seqs[i]) : s[at[i - 1] + p] = seqs[i][p]
        BY <2>1 DEF Placed
      <3>2. Len(seqs[i]) \in Nat
        BY <2>1
      <3> DEFINE a == at[i - 1]
                 b == at[i]
                 x == seqs[i]
      <3>3. a \in Nat /\ b = a + Len(x) /\ b <= Len(s) /\ Len(x) \in Nat /\ at[m + 1] = Len(s) + Len(t)
            /\ \A p \in 1 .. Len(x) : s[a + p] = x[p]
        BY <1>2, <3>1, <3>2
      <3> HIDE DEF a, b, x
      <3>4. b <= at[m + 1]
        BY <1>1, <3>3
      <3>5. \A p \in 1 .. Len(x) : a + p \in 1 .. Len(s)
        BY <1>1, <3>3
      <3>6. \A p \in 1 .. Len(x) : u[a + p] = x[p]
        BY <1>1, <3>3, <3>5
      <3> QED
        BY <3>3, <3>4, <3>6 DEF a, b, x
    <2>2. CASE i = m + 1
      <3>1. i - 1 = m /\ seqs[i] = t /\ at[i - 1] = Len(s) /\ at[i] = at[m + 1] /\ at[m + 1] = Len(s) + Len(t)
        BY <1>2, <2>2
      <3>2. at[m + 1] \in Nat /\ at[m + 1] <= at[m + 1]
        BY <1>1, <3>1
      <3> QED
        BY <1>1, <3>1, <3>2
    <2> QED
      BY <2>1, <2>2
  <1>4. Len(u) = at[m + 1]
    BY <1>1, <1>2
  <1> QED
    BY <1>3, <1>4 DEF Placed, u

\* Where the elements of the i-th sequence are in the whole.
LEMMA FlattenPlaces ==
  ASSUME NEW V, NEW seqs \in Seq(Seq(V)),
         NEW size, \A i \in 1 .. Len(seqs) : size[i] = Len(seqs[i])
  PROVE  /\ Len(FlattenSeq(seqs)) = SumFunctionOnSet(size, 1 .. Len(seqs))
         /\ \A i \in 1 .. Len(seqs) :
              /\ SumFunctionOnSet(size, 1 .. i) <= Len(FlattenSeq(seqs))
              /\ \A p \in 1 .. Len(seqs[i]) :
                   FlattenSeq(seqs)[SumFunctionOnSet(size, 1 .. i - 1) + p] = seqs[i][p]
  <1> DEFINE S == Seq(V)
             n == Len(seqs)
             at == [i \in 0 .. n |-> SumFunctionOnSet(size, 1 .. i)]
  <1>1. n \in Nat /\ seqs \in [1 .. n -> S]
    <2> HIDE DEF S
    <2> QED
      BY DEF S
  <1>2. PICK h : IsConcatenation(h, seqs, V, n)
    BY ConcatenationExists
  <1>3. FlattenSeq(seqs) = h[n]
    BY <1>2, FlattenIsConcatenation
  <1>4. h \in [0 .. n -> S] /\ h[0] = << >> /\ \A i \in 1 .. n : h[i] = h[i - 1] \o seqs[i]
    BY <1>2 DEF IsConcatenation
  <1>5. \A i \in 1 .. n : size[i] \in Nat
    <2>1. \A i \in 1 .. n : seqs[i] \in S
      <3> HIDE DEF S, n
      <3> QED
        BY <1>1
    <2>2. \A x \in S : Len(x) \in Nat
      OBVIOUS
    <2> HIDE DEF S
    <2> QED
      BY <2>1, <2>2
  <1>6. \A i \in 1 .. n : size[i] = Len(seqs[i])
    OBVIOUS
  <1> HIDE DEF n
  <1>7. /\ SumFunctionOnSet(size, 1 .. 0) = 0
        /\ \A i \in 0 .. n : SumFunctionOnSet(size, 1 .. i) \in Nat
        /\ \A i \in 1 .. n : SumFunctionOnSet(size, 1 .. i) = SumFunctionOnSet(size, 1 .. i - 1) + size[i]
    BY <1>1, <1>5, SumUpTo
  <1>8. \A i \in 1 .. n : i \in 0 .. n /\ i - 1 \in 0 .. n /\ n \in i .. n
    BY <1>1
  <1>9. /\ at[0] = 0 /\ n \in 0 .. n /\ \A i \in 0 .. n : at[i] = SumFunctionOnSet(size, 1 .. i) /\ at[i] \in Nat
        /\ \A i \in 1 .. n : at[i] = at[i - 1] + Len(seqs[i])
    <2>1. 0 \in 0 .. n /\ n \in 0 .. n
      BY <1>1
    <2> QED
      BY <1>6, <1>7, <1>8, <2>1
  <1> HIDE DEF at
  <1>10. \A i \in 1 .. n : seqs[i] \in S /\ Len(seqs[i]) \in Nat
    <2> HIDE DEF S
    <2> QED
      BY <1>1, <1>5, <1>6
  <1> DEFINE K == {m \in Nat : m <= n => Placed(h[m], seqs, at, m)}
  <1>11. 0 \in K
    <2>1. Len(h[0]) = 0
      BY <1>4
    <2> QED
      BY <1>9, <2>1 DEF Placed
  <1>12. ASSUME NEW m \in Nat, m \in K PROVE m + 1 \in K
    <2> SUFFICES ASSUME m + 1 <= n PROVE Placed(h[m + 1], seqs, at, m + 1)
      OBVIOUS
    <2>1. m + 1 \in 1 .. n /\ (m + 1) - 1 = m /\ m \in 0 .. n /\ \A i \in 1 .. m : i \in 1 .. n
      BY <1>1
    <2> DEFINE s == h[m]
               t == seqs[m + 1]
    <2>2. s \in Seq(V) /\ t \in Seq(V) /\ h[m + 1] = s \o t
      BY <1>4, <1>10, <2>1
    <2>3. Placed(s, seqs, at, m)
      BY <1>1, <1>12, <2>1
    <2>4. at[m] \in Nat /\ at[m + 1] = at[m] + Len(t)
      BY <1>9, <2>1
    <2>5. \A i \in 1 .. m : Len(seqs[i]) \in Nat
      BY <1>10, <2>1
    <2>6. t = seqs[m + 1]
      OBVIOUS
    <2> HIDE DEF s, t
    <2>7. Placed(s \o t, seqs, at, m + 1)
      BY <2>2, <2>3, <2>4, <2>5, <2>6, PlacedStep
    <2> QED
      BY <2>2, <2>7
  <1>13. Placed(h[n], seqs, at, n)
    <2>1. \A m \in Nat : m \in K
      <3> HIDE DEF K
      <3> QED
        BY <1>11, <1>12, SetInduction
    <2>2. n <= n
      BY <1>1
    <2> QED
      BY <1>1, <2>1, <2>2
  <1>14. /\ Len(h[n]) = at[n]
         /\ \A i \in 1 .. n : at[i] <= at[n] /\ \A p \in 1 .. Len(seqs[i]) : h[n][at[i - 1] + p] = seqs[i][p]
    BY <1>13 DEF Placed
  <1> QED
    BY <1>3, <1>8, <1>9, <1>14 DEF n

\* A part from the beginning, and the element after it.
LEMMA SubSeqGrows ==
  ASSUME NEW V, NEW s \in Seq(V), NEW n \in Nat, n + 1 <= Len(s)
  PROVE  SubSeq(s, 1, n) \in Seq(V) /\ SubSeq(s, 1, n + 1) = Append(SubSeq(s, 1, n), s[n + 1])
  <1> DEFINE t == SubSeq(s, 1, n)
             u == SubSeq(s, 1, n + 1)
  <1>1. /\ \A i \in 1 .. n + 1 : s[i] \in V
        /\ n + 1 \in 1 .. Len(s)
    OBVIOUS
  <1>2. t \in Seq(V) /\ Len(t) = n /\ \A i \in 1 .. n : t[i] = s[i]
    OBVIOUS
  <1>3. u \in Seq(V) /\ Len(u) = n + 1 /\ \A i \in 1 .. n + 1 : u[i] = s[i]
    OBVIOUS
  <1> HIDE DEF t, u
  <1>4. Append(t, s[n + 1]) \in Seq(V) /\ Len(Append(t, s[n + 1])) = n + 1
        /\ (\A i \in 1 .. n : Append(t, s[n + 1])[i] = t[i]) /\ Append(t, s[n + 1])[n + 1] = s[n + 1]
    BY <1>1, <1>2, AppendGives
  <1>5. \A i \in 1 .. n + 1 : u[i] = Append(t, s[n + 1])[i]
    BY <1>2, <1>3, <1>4
  <1>6. u = Append(t, s[n + 1])
    BY <1>3, <1>4, <1>5, SeqEqual
  <1> QED
    BY <1>2, <1>6 DEF t, u

\* What f makes of each element goes together as the elements do.
Through(f, s) == [j \in DOMAIN s |-> f[s[j]]]
LEMMA MappedTogether ==
  ASSUME NEW V, NEW s \in Seq(V), NEW t \in Seq(V), NEW f
  PROVE  s \o t \in Seq(V) /\ Through(f, s \o t) = Through(f, s) \o Through(f, t)
  <1> DEFINE a == [j \in DOMAIN s |-> f[s[j]]]
             b == [j \in DOMAIN t |-> f[t[j]]]
             u == s \o t
             c == [j \in DOMAIN u |-> f[u[j]]]
             W == {f[x] : x \in V}
  <1>1. /\ u \in Seq(V) /\ Len(u) = Len(s) + Len(t) /\ Len(s) \in Nat /\ Len(t) \in Nat
        /\ \A j \in 1 .. Len(s) : u[j] = s[j]
        /\ \A j \in 1 .. Len(t) : u[Len(s) + j] = t[j]
    OBVIOUS
  <1>2. DOMAIN s = 1 .. Len(s) /\ DOMAIN t = 1 .. Len(t) /\ DOMAIN u = 1 .. Len(u)
        /\ (\A j \in DOMAIN s : s[j] \in V) /\ (\A j \in DOMAIN t : t[j] \in V) /\ \A j \in DOMAIN u : u[j] \in V
    BY <1>1
  <1> HIDE DEF u
  <1>3. a \in Seq(W) /\ Len(a) = Len(s) /\ b \in Seq(W) /\ Len(b) = Len(t) /\ c \in Seq(W) /\ Len(c) = Len(u)
    BY <1>1, <1>2
  <1>4. (\A j \in 1 .. Len(a) : c[j] = a[j]) /\ \A j \in 1 .. Len(b) : c[Len(a) + j] = b[j]
    BY <1>1, <1>2, <1>3
  <1>5. Len(c) = Len(a) + Len(b)
    BY <1>1, <1>3
  <1> HIDE DEF a, b, c
  <1>6. /\ a \o b \in Seq(W) /\ Len(a \o b) = Len(a) + Len(b) /\ Len(a) \in Nat /\ Len(b) \in Nat
        /\ \A j \in 1 .. Len(a) : (a \o b)[j] = a[j]
        /\ \A j \in 1 .. Len(b) : (a \o b)[Len(a) + j] = b[j]
    <2>1. a \in Seq(W)
      BY <1>3
    <2>2. b \in Seq(W)
      BY <1>3
    <2> QED
      BY <2>1, <2>2, JoinGives
  <1>7. ASSUME NEW j \in 1 .. Len(c) PROVE c[j] = (a \o b)[j]
    <2>1. CASE j <= Len(a)
      <3>1. j \in 1 .. Len(a)
        BY <1>5, <1>6, <2>1
      <3> QED
        BY <1>4, <1>6, <3>1
    <2>2. CASE ~ (j <= Len(a))
      <3>1. j - Len(a) \in 1 .. Len(b) /\ Len(a) + (j - Len(a)) = j
        BY <1>5, <1>6, <2>2
      <3>2. c[Len(a) + (j - Len(a))] = b[j - Len(a)] /\ (a \o b)[Len(a) + (j - Len(a))] = b[j - Len(a)]
        BY <1>4, <1>6, <3>1
      <3> QED
        BY <3>1, <3>2
    <2> QED
      BY <2>1, <2>2
  <1>8. c \in Seq(W) /\ Len(c) = Len(a \o b)
    BY <1>3, <1>5, <1>6
  <1>9. c = a \o b
    BY <1>6, <1>7, <1>8, SeqEqual
  <1> QED
    BY <1>1, <1>9 DEF a, b, c, u, Through

-----------------------------------------------------------------------------
(* The count of micro-batches.                                                 *)

\* A step of one sample at least has one micro-batch at least.
LEMMA FirstFitIsPositive ==
  ASSUME NEW n \in Nat \ {0}, NEW lengths \in [1 .. n -> Nat], NEW cap \in Nat
  PROVE  FirstFit(lengths, cap) \in Nat \ {0}
  <1> DEFINE room(b, x) == {i \in DOMAIN b : b[i] + x <= cap}
             Put(b, x) == IF room(b, x) = {} THEN Append(b, x) ELSE [b EXCEPT ![Min(room(b, x))] = @ + x]
             pick == [s \in SUBSET (1 .. n) |-> Max(s)]
             step == [p \in (1 .. n) \X Seq(Nat) |-> Put(p[2], lengths[p[1]])]
             Rec(g) == g = [s \in SUBSET (1 .. n) |-> IF s = {} THEN << >>
                                                      ELSE Put(g[s \ {Max(s)}], lengths[Max(s)])]
             fold == CHOOSE g : Rec(g)
  <1>1. DOMAIN lengths = 1 .. n /\ IsFiniteSet(1 .. n) /\ 1 .. n # {}
    <2>1. 1 \in Int /\ n \in Int /\ 1 \in 1 .. n
      OBVIOUS
    <2> QED
      BY <2>1, FS_Interval
  <1>2. ASSUME NEW b \in Seq(Nat), NEW x \in Nat
        PROVE  Put(b, x) \in Seq(Nat) /\ Len(Put(b, x)) \in Nat \ {0}
    <2>1. CASE room(b, x) = {}
      BY <2>1
    <2>2. CASE room(b, x) # {}
      <3> DEFINE i == Min(room(b, x))
      <3>1. Put(b, x) = [b EXCEPT ![i] = b[i] + x]
        BY <2>2
      <3>2. PICK l \in DOMAIN b : TRUE
        BY <2>2
      <3>3. i \in DOMAIN b => b[i] + x \in Nat
        BY <1>2
      <3> HIDE DEF i, room
      <3>4. [b EXCEPT ![i] = b[i] + x] \in Seq(Nat) /\ Len([b EXCEPT ![i] = b[i] + x]) = Len(b)
        <4>1. b \in [1 .. Len(b) -> Nat] /\ Len(b) \in Nat
          BY <1>2
        <4>2. [b EXCEPT ![i] = b[i] + x] \in [1 .. Len(b) -> Nat]
          BY <3>3, <4>1
        <4> QED
          BY <4>1, <4>2
      <3>5. Len(b) \in Nat \ {0}
        BY <3>2
      <3> HIDE DEF Put
      <3> QED
        BY <3>1, <3>4, <3>5
    <2> QED
      BY <2>1, <2>2
  <1>3. \A s \in SUBSET (1 .. n) : s # {} => pick[s] \in s
    <2> SUFFICES ASSUME NEW s \in SUBSET (1 .. n), s # {} PROVE Max(s) \in s
      OBVIOUS
    <2>1. s \in SUBSET (0 .. n) /\ n \in Nat
      OBVIOUS
    <2> QED
      BY <2>1, MaxExists
  <1>4. step \in [(1 .. n) \X Seq(Nat) -> Seq(Nat)] /\ << >> \in Seq(Nat)
    <2>1. \A i \in 1 .. n, b \in Seq(Nat) : Put(b, lengths[i]) \in Seq(Nat)
      <3> HIDE DEF Put
      <3> QED
        BY <1>2
    <2> HIDE DEF Put
    <2> QED
      BY <2>1
  <1> HIDE DEF Put
  <1>5. PICK g \in [SUBSET (1 .. n) -> Seq(Nat)] : TakesOff(g, 1 .. n, << >>, pick, step)
    <2> HIDE DEF pick, step
    <2> QED
      BY <1>1, <1>3, <1>4, SubsetRecursion
  <1>6. Rec(g)
    <2>1. g = [s \in SUBSET (1 .. n) |-> IF s = {} THEN << >> ELSE step[pick[s], g[s \ {pick[s]}]]]
      BY <1>5 DEF TakesOff
    <2>2. ASSUME NEW s \in SUBSET (1 .. n), s # {}
          PROVE  step[pick[s], g[s \ {pick[s]}]] = Put(g[s \ {Max(s)}], lengths[Max(s)])
      <3>1. pick[s] = Max(s) /\ pick[s] \in 1 .. n /\ g[s \ {Max(s)}] \in Seq(Nat)
        BY <1>3, <1>5, <2>2
      <3> HIDE DEF pick
      <3> QED
        BY <3>1
    <2> HIDE DEF step, pick
    <2> QED
      BY <2>1, <2>2
  <1>7. Rec(fold)
    <2> HIDE DEF Rec
    <2> QED
      BY <1>6
  <1>8. fold[1 .. n] = Put(fold[(1 .. n) \ {Max(1 .. n)}], lengths[Max(1 .. n)])
    <2> HIDE DEF fold
    <2> QED
      BY <1>1, <1>7
  <1>9. fold = g
    <2>1. \A s \in SUBSET (1 .. n) : s # {} /\ fold[s \ {pick[s]}] = g[s \ {pick[s]}] => fold[s] = g[s]
      <3> SUFFICES ASSUME NEW s \in SUBSET (1 .. n), s # {}, fold[s \ {pick[s]}] = g[s \ {pick[s]}]
                   PROVE  fold[s] = g[s]
        OBVIOUS
      <3>1. pick[s] = Max(s)
        OBVIOUS
      <3> HIDE DEF fold, pick
      <3>2. fold[s] = Put(fold[s \ {Max(s)}], lengths[Max(s)])
        BY <1>7
      <3>3. g[s] = Put(g[s \ {Max(s)}], lengths[Max(s)])
        BY <1>6
      <3> QED
        BY <3>1, <3>2, <3>3
    <2>2. fold[{}] = g[{}]
      <3> HIDE DEF fold
      <3> QED
        BY <1>6, <1>7
    <2>3. AgreeOn(fold, g, 1 .. n)
      <3> HIDE DEF fold, pick
      <3> QED
        BY <1>1, <1>3, <2>1, <2>2, SubsetsAgree
    <2>4. DOMAIN fold = SUBSET (1 .. n) /\ fold = [s \in SUBSET (1 .. n) |-> fold[s]]
      <3> HIDE DEF fold
      <3> QED
        BY <1>7
    <2> HIDE DEF fold
    <2> QED
      BY <1>5, <2>3, <2>4 DEF AgreeOn
  <1>10. fold[1 .. n] \in Seq(Nat) /\ Len(fold[1 .. n]) \in Nat \ {0}
    <2>1. Max(1 .. n) \in 1 .. n
      BY <1>1, <1>3
    <2>2. fold[(1 .. n) \ {Max(1 .. n)}] \in Seq(Nat) /\ lengths[Max(1 .. n)] \in Nat
      <3> HIDE DEF fold
      <3> QED
        BY <1>5, <1>9, <2>1
    <2> HIDE DEF fold
    <2> QED
      BY <1>2, <1>8, <2>2
  <1>11. FirstFit(lengths, cap) = Len(fold[1 .. n])
    BY <1>1 DEF FirstFit, FoldLeft, MapThenFoldSet, Put
  <1> QED
    BY <1>10, <1>11
=============================================================================
