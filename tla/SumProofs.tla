----------------------------- MODULE SumProofs -----------------------------
(***************************************************************************)
(* Facts about MapThenSumSet, the sum over a finite set that the tables'   *)
(* totals are stated with. The community modules define it by recursion    *)
(* over subsets with an unspecified choice of the next element. Induction  *)
(* is by the least counterexample, because the provers cannot instantiate  *)
(* the induction theorems of the library, which have an operator for a     *)
(* parameter. For the same reason the values to add up are a function F    *)
(* here, and every user of a sum shows that its own one is a SumOver.      *)
(* SumFunction, the sum of a table's rows, is such a sum over its keys.    *)
(***************************************************************************)
EXTENDS Integers, FiniteSets, FiniteSetsExt, Functions, FiniteSetTheorems, WellFoundedInduction,
        NaturalsInduction, TLAPS

SumOver(F, S) == MapThenSumSet(LAMBDA x : F[x], S)

\* The recursion that MapThenSumSet stands for: g has the sums of all subsets of S.
Picked(s) == CHOOSE x \in s : TRUE
SumFrom(F, s, g) == IF s = {} THEN 0 ELSE F[Picked(s)] + g[s \ {Picked(s)}]
Summed(F, S, g) == g = [s \in SUBSET S |-> SumFrom(F, s, g)]

\* A set of natural numbers has a least element.
LEMMA LeastNumber ==
  ASSUME NEW T, T \subseteq Nat, T # {}
  PROVE  \E n \in T : \A m \in T : n =< m
  <1> DEFINE R == {ss \in Nat \X Nat : ss[1] < ss[2]}
  <1>1. IsWellFoundedOn(R, Nat)
    BY NatLessThanWellFounded DEF OpToRel
  <1> HIDE DEF R
  <1>2. PICK x \in T : \A y \in T : ~ (<<y, x>> \in R)
    BY <1>1, WFMin
  <1>3. ASSUME NEW y \in Nat, y < x PROVE <<y, x>> \in R
    BY <1>3 DEF R
  <1>4. x \in Nat /\ \A y \in T : y \in Nat
    OBVIOUS
  <1>5. \A y \in T : ~ (y < x)
    BY <1>2, <1>3, <1>4
  <1>6. QED
    BY <1>4, <1>5

LEMMA PickedIn == ASSUME NEW s, s # {} PROVE Picked(s) \in s
  BY DEF Picked

LEMMA Smaller ==
  ASSUME NEW S, IsFiniteSet(S), NEW s \in SUBSET S, NEW x \in s
  PROVE  /\ IsFiniteSet(s) /\ s \ {x} \in SUBSET S /\ Cardinality(s \ {x}) = Cardinality(s) - 1
         /\ Cardinality(s) \in Nat /\ Cardinality(s \ {x}) \in Nat
  <1>1. IsFiniteSet(s)
    BY FS_Subset
  <1>2. QED
    BY <1>1, FS_RemoveElement, FS_CardinalityType

\* The recursion has a solution, of integers.
LEMMA SumExists ==
  ASSUME NEW S, IsFiniteSet(S), NEW F, \A x \in S : F[x] \in Int
  PROVE  \E g \in [SUBSET S -> Int] : Summed(F, S, g)
  <1> DEFINE Good(g, n) == \A s \in SUBSET S : Cardinality(s) =< n => g[s] = SumFrom(F, s, g)
             Bad == {n \in Nat : ~ \E g \in [SUBSET S -> Int] : Good(g, n)}
  <1>1. \A s \in SUBSET S : IsFiniteSet(s) /\ Cardinality(s) \in Nat /\ (Cardinality(s) = 0 <=> s = {})
    BY FS_Subset, FS_CardinalityType, FS_EmptySet
  <1>2. Bad = {}
    <2> SUFFICES ASSUME Bad # {} PROVE FALSE
      OBVIOUS
    <2>1. PICK n \in Bad : \A m \in Bad : n =< m
      <3> HIDE DEF Bad
      <3>1. Bad \subseteq Nat
        BY DEF Bad
      <3>2. QED
        BY <3>1, LeastNumber
    <2>2. n # 0
      <3> DEFINE z == [s \in SUBSET S |-> 0]
      <3>1. z \in [SUBSET S -> Int] /\ Good(z, 0)
        BY <1>1 DEF SumFrom
      <3>2. QED
        BY <3>1
    <2>3. PICK g \in [SUBSET S -> Int] : Good(g, n - 1)
      <3>1. n \in Nat /\ n - 1 \in Nat
        BY <2>1, <2>2
      <3>2. n - 1 \notin Bad
        <4> HIDE DEF Bad
        <4>1. QED
          BY <2>1, <3>1
      <3>3. QED
        BY <3>1, <3>2
    <2> DEFINE h == [s \in SUBSET S |-> IF Cardinality(s) = n THEN SumFrom(F, s, g) ELSE g[s]]
    <2>4. ASSUME NEW s \in SUBSET S, s # {}
          PROVE  /\ Picked(s) \in s /\ F[Picked(s)] \in Int /\ s \ {Picked(s)} \in SUBSET S
                 /\ Cardinality(s \ {Picked(s)}) = Cardinality(s) - 1
      BY <2>4, PickedIn, Smaller
    <2>5. h \in [SUBSET S -> Int]
      BY <2>4 DEF SumFrom
    <2>6. ASSUME NEW s \in SUBSET S, Cardinality(s) =< n PROVE h[s] = SumFrom(F, s, h)
      <3>1. CASE s = {}
        BY <1>1, <2>2, <2>3, <3>1 DEF SumFrom
      <3>2. CASE s # {}
        <4>1. h[s \ {Picked(s)}] = g[s \ {Picked(s)}]
          BY <1>1, <2>4, <2>6, <3>2
        <4>2. SumFrom(F, s, h) = SumFrom(F, s, g)
          BY <3>2, <4>1 DEF SumFrom
        <4>3. h[s] = SumFrom(F, s, g)
          BY <1>1, <2>1, <2>3, <2>6
        <4>4. QED
          BY <4>2, <4>3
      <3>3. QED
        BY <3>1, <3>2
    <2>7. QED
      BY <2>1, <2>5, <2>6
  <1>3. PICK g \in [SUBSET S -> Int] : Good(g, Cardinality(S))
    BY <1>1, <1>2
  <1>4. \A s \in SUBSET S : g[s] = SumFrom(F, s, g)
    BY <1>1, <1>3, FS_Subset
  <1>5. QED
    BY <1>4 DEF Summed
\* Two solutions agree where both are defined, if their functions do.
LEMMA SumUnique ==
  ASSUME NEW S, IsFiniteSet(S), NEW F, NEW G, NEW T, NEW g, NEW h, Summed(F, S, g), Summed(G, T, h),
         NEW U, U \subseteq S, U \subseteq T, \A x \in U : F[x] = G[x]
  PROVE  g[U] = h[U]
  <1> DEFINE Bad == {n \in Nat : \E s \in SUBSET U : Cardinality(s) = n /\ g[s] # h[s]}
  <1>1. IsFiniteSet(U)
    BY FS_Subset
  <1>2. \A s \in SUBSET U : g[s] = SumFrom(F, s, g) /\ h[s] = SumFrom(G, s, h)
    BY DEF Summed
  <1>3. Bad = {}
    <2> SUFFICES ASSUME Bad # {} PROVE FALSE
      OBVIOUS
    <2>1. PICK n \in Bad : \A m \in Bad : n =< m
      <3> HIDE DEF Bad
      <3>1. Bad \subseteq Nat
        BY DEF Bad
      <3>2. QED
        BY <3>1, LeastNumber
    <2>2. PICK s \in SUBSET U : Cardinality(s) = n /\ g[s] # h[s]
      BY <2>1
    <2>3. s # {}
      BY <1>2, <2>2 DEF SumFrom
    <2>4. Picked(s) \in s
      BY <2>3, PickedIn
    <2> DEFINE r == s \ {Picked(s)}
    <2>5. r \in SUBSET U /\ Cardinality(r) = n - 1 /\ Cardinality(r) \in Nat /\ n \in Nat
      BY <1>1, <2>2, <2>4, Smaller
    <2>6. Cardinality(r) \notin Bad
      <3> HIDE DEF Bad, r
      <3>1. QED
        BY <2>1, <2>5
    <2>7. g[r] = h[r]
      <3> HIDE DEF r
      <3>1. QED
        BY <2>5, <2>6
    <2>8. QED
      BY <1>2, <2>2, <2>3, <2>4, <2>7 DEF SumFrom
  <1>4. Cardinality(U) \in Nat
    BY <1>1, FS_CardinalityType
  <1>5. QED
    BY <1>3, <1>4

\* What MapThenSumSet is: the value at S of any solution on a set with all of S.
LEMMA TotalIs ==
  ASSUME NEW T, IsFiniteSet(T), NEW F, NEW g, Summed(F, T, g), NEW S \in SUBSET T
  PROVE  SumOver(F, S) = g[S]
  <1> DEFINE h == CHOOSE it : it = [s \in SUBSET S |->
                    IF s = {} THEN 0 ELSE F[CHOOSE x \in s : TRUE] + it[s \ {CHOOSE x \in s : TRUE}]]
             k == [s \in SUBSET S |-> g[s]]
  <1>1. Summed(F, S, k)
    <2>1. \A s \in SUBSET S : s \ {Picked(s)} \in SUBSET S
      OBVIOUS
    <2>2. \A s \in SUBSET S : g[s] = SumFrom(F, s, g)
      BY DEF Summed
    <2>3. \A s \in SUBSET S : k[s] = SumFrom(F, s, k)
      BY <2>1, <2>2 DEF SumFrom
    <2>4. QED
      BY <2>3 DEF Summed
  <1>2. Summed(F, S, h)
    <2> DEFINE Solves(it) == it = [s \in SUBSET S |->
                    IF s = {} THEN 0 ELSE F[CHOOSE x \in s : TRUE] + it[s \ {CHOOSE x \in s : TRUE}]]
    <2>1. \A it : Solves(it) <=> Summed(F, S, it)
      BY DEF Summed, SumFrom, Picked
    <2>2. Solves(k)
      <3> HIDE DEF Solves, k
      <3>1. QED
        BY <1>1, <2>1
    <2>3. h = CHOOSE it : Solves(it)
      OBVIOUS
    <2>4. Solves(h)
      <3> HIDE DEF Solves, k, h
      <3>1. QED
        BY <2>2, <2>3
    <2>5. QED
      <3> HIDE DEF Solves, h
      <3>1. QED
        BY <2>1, <2>4
  <1>3. SumOver(F, S) = h[S]
    BY DEF SumOver, MapThenSumSet, MapThenFoldSet
  <1>4. QED
    <2> HIDE DEF h
    <2>1. h[S] = g[S]
      BY <1>2, SumUnique, FS_Subset
    <2>2. QED
      BY <1>3, <2>1

\* The sum does not depend on the order: any element can be the first one.
AnyFirst(F, S, g) == \A s \in SUBSET S : \A a \in s : g[s] = F[a] + g[s \ {a}]

LEMMA SumOfRest ==
  ASSUME NEW S, IsFiniteSet(S), NEW F, \A x \in S : F[x] \in Int,
         NEW g, g \in [SUBSET S -> Int], Summed(F, S, g)
  PROVE  AnyFirst(F, S, g)
  <1> DEFINE Bad == {n \in Nat : \E s \in SUBSET S : Cardinality(s) = n
                                     /\ \E a \in s : g[s] # F[a] + g[s \ {a}]}
  <1>1. \A s \in SUBSET S : g[s] = SumFrom(F, s, g)
    BY DEF Summed
  <1>2. Bad = {}
    <2> SUFFICES ASSUME Bad # {} PROVE FALSE
      OBVIOUS
    <2>1. PICK n \in Bad : \A m \in Bad : n =< m
      <3> HIDE DEF Bad
      <3>1. Bad \subseteq Nat
        BY DEF Bad
      <3>2. QED
        BY <3>1, LeastNumber
    <2>1a. PICK s \in SUBSET S : Cardinality(s) = n /\ \E a \in s : g[s] # F[a] + g[s \ {a}]
      BY <2>1
    <2>2. PICK a \in s : Cardinality(s) = n /\ g[s] # F[a] + g[s \ {a}]
      BY <2>1a
    <2> DEFINE c == Picked(s)
    <2>3. c \in s /\ g[s] = F[c] + g[s \ {c}]
      BY <1>1, <2>2, PickedIn DEF SumFrom
    <2> HIDE DEF c
    <2>4. a # c
      BY <2>2, <2>3
    <2> DEFINE r == s \ {c}
               t == s \ {a}
    <2>5. /\ r \in SUBSET S /\ Cardinality(r) = n - 1 /\ n \in Nat /\ n - 1 \in Nat
          /\ t \in SUBSET S /\ Cardinality(t) = n - 1 /\ a \in r /\ c \in t
      BY <2>2, <2>3, <2>4, Smaller
    <2>6. n - 1 \notin Bad
      <3> HIDE DEF Bad, r, t
      <3>1. QED
        BY <2>1, <2>5
    <2>7. g[r] = F[a] + g[r \ {a}] /\ g[t] = F[c] + g[t \ {c}]
      <3> HIDE DEF r, t
      <3>1. QED
        BY <2>5, <2>6
    <2>8. r \ {a} = t \ {c} /\ r \ {a} \in SUBSET S /\ g[r \ {a}] \in Int /\ F[a] \in Int /\ F[c] \in Int
      BY <2>2, <2>3
    <2>9. g[s] = F[c] + (F[a] + g[r \ {a}]) /\ g[t] = F[c] + g[r \ {a}]
      BY <2>3, <2>7, <2>8
    <2>10. g[s] = F[a] + g[t]
      <3> HIDE DEF r, t
      <3>1. QED
        BY <2>8, <2>9
    <2>11. QED
      BY <2>2, <2>10
  <1>3. QED
    BY <1>2, FS_Subset, FS_CardinalityType DEF AnyFirst
-----------------------------------------------------------------------------
(* What the proofs about the tables use *)

\* Nothing adds up to zero.
LEMMA TotalEmpty == ASSUME NEW F PROVE SumOver(F, {}) = 0
  <1> DEFINE g == [s \in SUBSET {} |-> 0]
  <1>1. Summed(F, {}, g)
    <2>1. \A s \in SUBSET {} : g[s] = SumFrom(F, s, g)
      BY DEF SumFrom
    <2>2. QED
      BY <2>1 DEF Summed
  <1>2. SumOver(F, {}) = g[{}]
    <2> HIDE DEF g
    <2>1. QED
      BY <1>1, TotalIs, FS_EmptySet
  <1>3. QED
    BY <1>2

\* Integers add up to an integer.
LEMMA TotalType ==
  ASSUME NEW S, IsFiniteSet(S), NEW F, \A x \in S : F[x] \in Int
  PROVE  SumOver(F, S) \in Int
  <1>1. PICK g \in [SUBSET S -> Int] : Summed(F, S, g)
    BY SumExists
  <1>2. SumOver(F, S) = g[S]
    BY <1>1, TotalIs
  <1>3. QED
    BY <1>2

\* One element less takes its value away.
LEMMA TotalRest ==
  ASSUME NEW S, IsFiniteSet(S), NEW F, \A x \in S : F[x] \in Int, NEW a \in S
  PROVE  SumOver(F, S) = SumOver(F, S \ {a}) + F[a]
  <1>1. PICK g \in [SUBSET S -> Int] : Summed(F, S, g)
    BY SumExists
  <1>2. AnyFirst(F, S, g)
    BY <1>1, SumOfRest
  <1>3. g[S] = F[a] + g[S \ {a}]
    BY <1>2 DEF AnyFirst
  <1>4. SumOver(F, S) = g[S] /\ SumOver(F, S \ {a}) = g[S \ {a}]
    BY <1>1, TotalIs
  <1>5. g[S \ {a}] \in Int /\ F[a] \in Int
    OBVIOUS
  <1>6. QED
    BY <1>3, <1>4, <1>5

\* One element more adds its value.
LEMMA TotalAdd ==
  ASSUME NEW S, IsFiniteSet(S), NEW a, a \notin S, NEW F, \A x \in S \cup {a} : F[x] \in Int
  PROVE  SumOver(F, S \cup {a}) = SumOver(F, S) + F[a]
  <1>1. IsFiniteSet(S \cup {a}) /\ a \in S \cup {a} /\ (S \cup {a}) \ {a} = S
    BY FS_AddElement
  <1>2. QED
    BY <1>1, TotalRest

\* The sum depends only on the values that are added.
LEMMA TotalSame ==
  ASSUME NEW S, IsFiniteSet(S), NEW F, NEW G, \A x \in S : F[x] \in Int /\ F[x] = G[x]
  PROVE  SumOver(F, S) = SumOver(G, S)
  <1>1. PICK g \in [SUBSET S -> Int] : Summed(F, S, g)
    BY SumExists
  <1>2. PICK h \in [SUBSET S -> Int] : Summed(G, S, h)
    <2>1. \A x \in S : G[x] \in Int
      OBVIOUS
    <2>2. QED
      BY <2>1, SumExists
  <1>3. g[S] = h[S]
    BY <1>1, <1>2, SumUnique
  <1>4. QED
    BY <1>1, <1>2, <1>3, TotalIs

\* A sum of nothing but zeros.
LEMMA TotalZero ==
  ASSUME NEW S, IsFiniteSet(S), NEW F, \A x \in S : F[x] = 0
  PROVE  SumOver(F, S) = 0
  <1> DEFINE g == [s \in SUBSET S |-> 0]
  <1>1. ASSUME NEW s \in SUBSET S PROVE SumFrom(F, s, g) = 0
    <2>1. CASE s = {}
      BY <2>1 DEF SumFrom
    <2>2. CASE s # {}
      <3>1. Picked(s) \in s
        BY <2>2, PickedIn
      <3>2. g[s \ {Picked(s)}] = 0 /\ F[Picked(s)] = 0
        BY <3>1
      <3>3. QED
        BY <2>2, <3>2 DEF SumFrom
    <2>3. QED
      BY <2>1, <2>2
  <1>2. g = [s \in SUBSET S |-> SumFrom(F, s, g)]
    BY <1>1
  <1>3. Summed(F, S, g)
    BY <1>2 DEF Summed
  <1>4. SumOver(F, S) = g[S]
    <2> HIDE DEF g
    <2>1. S \in SUBSET S
      OBVIOUS
    <2>2. QED
      BY <1>3, <2>1, TotalIs
  <1>5. QED
    BY <1>4

\* Another value for one element.
LEMMA TotalReplace ==
  ASSUME NEW S, IsFiniteSet(S), NEW a \in S, NEW F, NEW G, \A x \in S : F[x] \in Int /\ G[x] \in Int,
         \A x \in S \ {a} : F[x] = G[x]
  PROVE  SumOver(G, S) = SumOver(F, S) - F[a] + G[a]
  <1> DEFINE R == S \ {a}
  <1>1. IsFiniteSet(R) /\ \A x \in R : F[x] \in Int /\ F[x] = G[x]
    BY FS_Subset
  <1>2. \A x \in S : F[x] \in Int
    OBVIOUS
  <1>3. \A x \in S : G[x] \in Int
    OBVIOUS
  <1>4. SumOver(F, S) = SumOver(F, R) + F[a] /\ SumOver(G, S) = SumOver(G, R) + G[a]
    BY <1>2, <1>3, TotalRest
  <1> HIDE DEF R
  <1>5. SumOver(F, R) = SumOver(G, R)
    BY <1>1, TotalSame
  <1>6. SumOver(F, R) \in Int
    BY <1>1, TotalType
  <1>7. QED
    BY <1>4, <1>5, <1>6

\* The sum of a function's values is one, too.
LEMMA FunctionSum == ASSUME NEW f PROVE SumFunction(f) = SumOver(f, DOMAIN f)
  BY DEF SumFunction, SumFunctionOnSet, FoldFunctionOnSet, SumOver, MapThenSumSet
LEMMA FoldIsSum == ASSUME NEW f, NEW S PROVE FoldFunctionOnSet(+, 0, f, S) = SumOver(f, S)
  BY DEF FoldFunctionOnSet, SumOver, MapThenSumSet

\* More elements add no less, and as much if what they have to add is zero.
LEMMA TotalSubset ==
  ASSUME NEW T, IsFiniteSet(T), NEW S \in SUBSET T, NEW F, \A x \in T : F[x] \in Nat
  PROVE  /\ SumOver(F, S) =< SumOver(F, T)
         /\ (\A x \in T \ S : F[x] = 0) => SumOver(F, T) = SumOver(F, S)
  <1> DEFINE Fits(U) == /\ SumOver(F, S) =< SumOver(F, U)
                        /\ (\A x \in T \ S : F[x] = 0) => SumOver(F, U) = SumOver(F, S)
             Bad == {n \in Nat : \E U \in SUBSET T : S \subseteq U /\ Cardinality(U) = n /\ ~Fits(U)}
  <1>1. ASSUME NEW U \in SUBSET T
        PROVE  IsFiniteSet(U) /\ SumOver(F, U) \in Int /\ Cardinality(U) \in Nat
    <2>1. IsFiniteSet(U)
      BY FS_Subset
    <2>2. \A x \in U : F[x] \in Int
      OBVIOUS
    <2>3. QED
      BY <2>1, <2>2, TotalType, FS_CardinalityType
  <1>2. Bad = {}
    <2> SUFFICES ASSUME Bad # {} PROVE FALSE
      OBVIOUS
    <2>1. PICK n \in Bad : \A m \in Bad : n =< m
      <3>1. Bad \subseteq Nat
        OBVIOUS
      <3> HIDE DEF Bad
      <3>2. QED
        BY <3>1, LeastNumber
    <2>2. PICK U \in SUBSET T : S \subseteq U /\ Cardinality(U) = n /\ ~Fits(U)
      OBVIOUS
    <2>3. Fits(S)
      BY <1>1
    <2>4. PICK a \in U : a \notin S
      BY <2>2, <2>3
    <2>5. IsFiniteSet(U) /\ Cardinality(U \ {a}) = n - 1 /\ Cardinality(U \ {a}) \in Nat
      BY <1>1, <2>2, FS_RemoveElement, FS_CardinalityType
    <2>6. S \subseteq U \ {a} /\ U \ {a} \in SUBSET T
      BY <2>2, <2>4
    <2>7. Fits(U \ {a})
      <3> SUFFICES ASSUME ~Fits(U \ {a}) PROVE FALSE
        OBVIOUS
      <3>1. n - 1 \in Bad
        BY <2>5, <2>6
      <3>2. n =< n - 1 /\ n \in Nat
        BY <2>1, <3>1
      <3>3. QED
        BY <3>2
    <2>8. SumOver(F, U) = SumOver(F, U \ {a}) + F[a]
      <3>1. \A x \in U : F[x] \in Int
        OBVIOUS
      <3>2. QED
        BY <2>5, <3>1, TotalRest
    <2>9. F[a] \in Nat /\ ((\A x \in T \ S : F[x] = 0) => F[a] = 0)
      BY <2>2, <2>4
    <2>10. SumOver(F, S) \in Int /\ SumOver(F, U) \in Int /\ SumOver(F, U \ {a}) \in Int
      BY <1>1, <2>6
    <2>11. Fits(U)
      BY <2>7, <2>8, <2>9, <2>10
    <2>12. QED
      BY <2>2, <2>11
  <1>3. Fits(T)
    <2>1. Cardinality(T) \in Nat
      BY FS_CardinalityType
    <2>2. Cardinality(T) \notin Bad
      BY <1>2
    <2>3. QED
      BY <2>1, <2>2
  <1>4. QED
    BY <1>3

\* Natural numbers of which none exceeds c.
LEMMA TotalBelow ==
  ASSUME NEW T, IsFiniteSet(T), NEW F, NEW c \in Nat, \A x \in T : F[x] \in Nat /\ F[x] =< c
  PROVE  SumOver(F, T) \in Nat /\ SumOver(F, T) =< c * Cardinality(T)
  <1> DEFINE Fits(U) == SumOver(F, U) \in Nat /\ SumOver(F, U) =< c * Cardinality(U)
             Bad == {n \in Nat : \E U \in SUBSET T : Cardinality(U) = n /\ ~Fits(U)}
  <1>1. ASSUME NEW U \in SUBSET T PROVE IsFiniteSet(U) /\ Cardinality(U) \in Nat
    BY FS_Subset, FS_CardinalityType
  <1>2. Bad = {}
    <2> SUFFICES ASSUME Bad # {} PROVE FALSE
      OBVIOUS
    <2>1. PICK n \in Bad : \A m \in Bad : n =< m
      <3>1. Bad \subseteq Nat
        OBVIOUS
      <3> HIDE DEF Bad
      <3>2. QED
        BY <3>1, LeastNumber
    <2>2. PICK U \in SUBSET T : Cardinality(U) = n /\ ~Fits(U)
      OBVIOUS
    <2>3. U # {}
      <3> SUFFICES ASSUME U = {} PROVE FALSE
        OBVIOUS
      <3>1. SumOver(F, U) = 0 /\ Cardinality(U) = 0
        BY TotalEmpty, FS_EmptySet
      <3>2. QED
        BY <2>2, <3>1
    <2>4. PICK a \in U : TRUE
      BY <2>3
    <2>5. IsFiniteSet(U) /\ Cardinality(U \ {a}) = n - 1 /\ Cardinality(U \ {a}) \in Nat /\ U \ {a} \in SUBSET T
      BY <1>1, <2>2, FS_RemoveElement, FS_CardinalityType
    <2>6. Fits(U \ {a})
      <3> SUFFICES ASSUME ~Fits(U \ {a}) PROVE FALSE
        OBVIOUS
      <3>1. n - 1 \in Bad
        BY <2>5
      <3>2. n =< n - 1 /\ n \in Nat
        BY <2>1, <3>1
      <3>3. QED
        BY <3>2
    <2>7. SumOver(F, U) = SumOver(F, U \ {a}) + F[a]
      <3>1. \A x \in U : F[x] \in Int
        OBVIOUS
      <3>2. QED
        BY <2>5, <3>1, TotalRest
    <2>8. F[a] \in Nat /\ F[a] =< c
      OBVIOUS
    <2>9. c * n = c * (n - 1) + c /\ c * (n - 1) \in Int /\ n \in Int
      OBVIOUS
    <2>10. SumOver(F, U \ {a}) \in Nat /\ SumOver(F, U \ {a}) =< c * (n - 1)
      BY <2>5, <2>6
    <2>11. SumOver(F, U) \in Nat /\ SumOver(F, U) =< c * n
      BY <2>7, <2>8, <2>9, <2>10
    <2>12. QED
      BY <2>2, <2>11
  <1>3. Fits(T)
    <2>1. Cardinality(T) \in Nat
      BY FS_CardinalityType
    <2>2. Cardinality(T) \notin Bad
      BY <1>2
    <2>3. QED
      BY <2>1, <2>2
  <1>4. QED
    BY <1>3

\* A sum is the sum of its parts, by the value of a key.
PartsOf(F, K, Keys, U) == [k \in Keys |-> SumOver(F, {x \in U : K[x] = k})]

LEMMA TotalOfParts ==
  ASSUME NEW S, IsFiniteSet(S), NEW F, \A x \in S : F[x] \in Int,
         NEW Keys, IsFiniteSet(Keys), NEW K, \A x \in S : K[x] \in Keys
  PROVE  SumOver(F, S) = SumOver(PartsOf(F, K, Keys, S), Keys)
  <1> DEFINE P(U) == PartsOf(F, K, Keys, U)
             Fits(U) == SumOver(F, U) = SumOver(P(U), Keys)
             Bad == {n \in Nat : \E U \in SUBSET S : Cardinality(U) = n /\ ~Fits(U)}
  <1>1. ASSUME NEW U \in SUBSET S
        PROVE  IsFiniteSet(U) /\ Cardinality(U) \in Nat /\ SumOver(F, U) \in Int
    <2>1. IsFiniteSet(U)
      BY FS_Subset
    <2>2. \A x \in U : F[x] \in Int
      OBVIOUS
    <2>3. QED
      BY <2>1, <2>2, TotalType, FS_CardinalityType
  <1>2. ASSUME NEW U \in SUBSET S PROVE \A k \in Keys : P(U)[k] \in Int
    <2>1. \A k \in Keys : {x \in U : K[x] = k} \in SUBSET S
      OBVIOUS
    <2>2. QED
      BY <1>1, <2>1 DEF PartsOf
  <1>3. Bad = {}
    <2> SUFFICES ASSUME Bad # {} PROVE FALSE
      OBVIOUS
    <2>1. PICK n \in Bad : \A m \in Bad : n =< m
      <3>1. Bad \subseteq Nat
        OBVIOUS
      <3> HIDE DEF Bad
      <3>2. QED
        BY <3>1, LeastNumber
    <2>2. PICK U \in SUBSET S : Cardinality(U) = n /\ ~Fits(U)
      OBVIOUS
    <2>3. U # {}
      <3> SUFFICES ASSUME U = {} PROVE FALSE
        OBVIOUS
      <3>1. \A k \in Keys : {x \in U : K[x] = k} = {}
        OBVIOUS
      <3>2. \A k \in Keys : P(U)[k] = 0
        BY <3>1, TotalEmpty DEF PartsOf
      <3>3. SumOver(P(U), Keys) = 0
        <4> HIDE DEF P
        <4>1. QED
          BY <3>2, TotalZero
      <3>4. SumOver(F, U) = 0
        BY TotalEmpty
      <3>5. QED
        BY <2>2, <3>3, <3>4
    <2>4. PICK a \in U : TRUE
      BY <2>3
    <2> DEFINE R == U \ {a}
    <2>5. IsFiniteSet(U) /\ Cardinality(R) = n - 1 /\ Cardinality(R) \in Nat /\ R \in SUBSET S
      BY <1>1, <2>2, FS_RemoveElement, FS_CardinalityType
    <2>6. Fits(R)
      <3> SUFFICES ASSUME ~Fits(R) PROVE FALSE
        OBVIOUS
      <3>1. n - 1 \in Bad
        BY <2>5
      <3>2. n =< n - 1 /\ n \in Nat
        BY <2>1, <3>1
      <3>3. QED
        BY <3>2
    <2>7. SumOver(F, U) = SumOver(F, R) + F[a]
      <3>1. \A x \in U : F[x] \in Int
        OBVIOUS
      <3>2. QED
        BY <2>5, <3>1, TotalRest
    <2>8. ASSUME NEW k \in Keys, k # K[a] PROVE P(R)[k] = P(U)[k]
      <3>1. {x \in R : K[x] = k} = {x \in U : K[x] = k}
        BY <2>8
      <3>2. QED
        BY <3>1 DEF PartsOf
    <2>9. K[a] \in Keys /\ P(U)[K[a]] = P(R)[K[a]] + F[a]
      <3> DEFINE Q == {x \in U : K[x] = K[a]}
      <3>1. Q \in SUBSET S /\ IsFiniteSet(Q) /\ a \in Q /\ \A x \in Q : F[x] \in Int
        BY <1>1
      <3>2. {x \in R : K[x] = K[a]} = Q \ {a}
        OBVIOUS
      <3>3. SumOver(F, Q) = SumOver(F, Q \ {a}) + F[a]
        <4> HIDE DEF Q
        <4>1. QED
          BY <3>1, TotalRest
      <3>4. QED
        BY <3>2, <3>3 DEF PartsOf
    <2>10. \A k \in Keys : P(R)[k] \in Int /\ P(U)[k] \in Int
      BY <1>2, <2>5
    <2>11. SumOver(P(U), Keys) = SumOver(P(R), Keys) - P(R)[K[a]] + P(U)[K[a]]
      <3> HIDE DEF P, R
      <3>1. QED
        BY <2>8, <2>9, <2>10, TotalReplace
    <2>12. SumOver(P(R), Keys) \in Int
      <3> HIDE DEF P, R
      <3>1. QED
        BY <2>10, TotalType
    <2>13. F[a] \in Int /\ P(R)[K[a]] \in Int
      BY <2>9, <2>10
    <2>14. Fits(U)
      <3> HIDE DEF P, R
      <3>1. QED
        BY <2>6, <2>7, <2>9, <2>11, <2>12, <2>13
    <2>15. QED
      BY <2>2, <2>14
  <1>4. Fits(S)
    <2>1. Cardinality(S) \in Nat
      BY FS_CardinalityType
    <2>2. Cardinality(S) \notin Bad
      BY <1>3
    <2>3. QED
      BY <2>1, <2>2
  <1>5. QED
    BY <1>4

\* The same for a table: a function whose rows are the parts.
LEMMA TableAddsUp ==
  ASSUME NEW S, IsFiniteSet(S), NEW F, \A x \in S : F[x] \in Int,
         NEW f, IsFiniteSet(DOMAIN f), NEW K, \A x \in S : K[x] \in DOMAIN f,
         \A k \in DOMAIN f : f[k] = SumOver(F, {x \in S : K[x] = k})
  PROVE  SumFunction(f) = SumOver(F, S)
  <1> DEFINE P == PartsOf(F, K, DOMAIN f, S)
  <1>1. SumOver(F, S) = SumOver(P, DOMAIN f)
    BY TotalOfParts
  <1>2. ASSUME NEW k \in DOMAIN f PROVE f[k] \in Int /\ f[k] = P[k]
    <2> DEFINE Q == {x \in S : K[x] = k}
    <2>1. IsFiniteSet(Q) /\ \A x \in Q : F[x] \in Int
      BY FS_Subset
    <2>2. SumOver(F, Q) \in Int
      <3> HIDE DEF Q
      <3>1. QED
        BY <2>1, TotalType
    <2>3. QED
      BY <2>2 DEF PartsOf
  <1> HIDE DEF P
  <1>3. SumOver(f, DOMAIN f) = SumOver(P, DOMAIN f)
    BY <1>2, TotalSame
  <1>4. QED
    BY <1>1, <1>3, FunctionSum

\* Two parts.
LEMMA TotalUnion ==
  ASSUME NEW S, IsFiniteSet(S), NEW T, IsFiniteSet(T), S \cap T = {},
         NEW F, \A x \in S \cup T : F[x] \in Int
  PROVE  SumOver(F, S \cup T) = SumOver(F, S) + SumOver(F, T)
  <1> DEFINE K == [x \in S \cup T |-> IF x \in S THEN 1 ELSE 2]
             P == PartsOf(F, K, {1, 2}, S \cup T)
  <1>1. IsFiniteSet(S \cup T) /\ IsFiniteSet({1, 2}) /\ \A x \in S \cup T : K[x] \in {1, 2}
    <2>1. IsFiniteSet({1} \cup {2})
      BY FS_Singleton, FS_Union
    <2>2. {1} \cup {2} = {1, 2}
      OBVIOUS
    <2>3. QED
      BY <2>1, <2>2, FS_Union
  <1>2. {x \in S \cup T : K[x] = 1} = S /\ {x \in S \cup T : K[x] = 2} = T
    OBVIOUS
  <1>3. P[1] = SumOver(F, S) /\ P[2] = SumOver(F, T)
    BY <1>2 DEF PartsOf
  <1> HIDE DEF K
  <1>4. SumOver(F, S \cup T) = SumOver(P, {1, 2})
    BY <1>1, TotalOfParts
  <1>5. SumOver(F, S) \in Int /\ SumOver(F, T) \in Int
    <2>1. (\A x \in S : F[x] \in Int) /\ (\A x \in T : F[x] \in Int)
      OBVIOUS
    <2>2. QED
      BY <2>1, TotalType
  <1> HIDE DEF P
  <1>6. SumOver(P, {1, 2}) = SumOver(P, {1, 2} \ {1}) + P[1]
    BY <1>1, <1>3, <1>5, TotalRest
  <1>7. {1, 2} \ {1} = {} \cup {2}
    OBVIOUS
  <1>8. SumOver(P, {} \cup {2}) = SumOver(P, {}) + P[2]
    BY <1>3, <1>5, TotalAdd, FS_EmptySet
  <1>9. SumOver(P, {}) = 0
    BY TotalEmpty
  <1>10. SumOver(P, {1, 2} \ {1}) = SumOver(P, {} \cup {2})
    BY <1>7, Zenon
  <1>11. QED
    BY <1>3, <1>4, <1>5, <1>6, <1>8, <1>9, <1>10

\* As many times one value.
LEMMA TotalConstant ==
  ASSUME NEW T, IsFiniteSet(T), NEW F, NEW c \in Int, \A x \in T : F[x] = c
  PROVE  SumOver(F, T) = c * Cardinality(T)
  <1> DEFINE Fits(U) == SumOver(F, U) = c * Cardinality(U)
             Bad == {n \in Nat : \E U \in SUBSET T : Cardinality(U) = n /\ ~Fits(U)}
  <1>1. ASSUME NEW U \in SUBSET T PROVE IsFiniteSet(U) /\ Cardinality(U) \in Nat
    BY FS_Subset, FS_CardinalityType
  <1>2. Bad = {}
    <2> SUFFICES ASSUME Bad # {} PROVE FALSE
      OBVIOUS
    <2>1. PICK n \in Bad : \A m \in Bad : n =< m
      <3>1. Bad \subseteq Nat
        OBVIOUS
      <3> HIDE DEF Bad
      <3>2. QED
        BY <3>1, LeastNumber
    <2>2. PICK U \in SUBSET T : Cardinality(U) = n /\ ~Fits(U)
      OBVIOUS
    <2>3. U # {}
      <3> SUFFICES ASSUME U = {} PROVE FALSE
        OBVIOUS
      <3>1. SumOver(F, U) = 0 /\ Cardinality(U) = 0 /\ c * 0 = 0
        BY TotalEmpty, FS_EmptySet
      <3>2. QED
        BY <2>2, <3>1
    <2>4. PICK a \in U : TRUE
      BY <2>3
    <2>5. /\ IsFiniteSet(U) /\ Cardinality(U \ {a}) = n - 1 /\ Cardinality(U \ {a}) \in Nat
          /\ U \ {a} \in SUBSET T
      BY <1>1, <2>2, FS_RemoveElement, FS_CardinalityType
    <2>6. Fits(U \ {a})
      <3> SUFFICES ASSUME ~Fits(U \ {a}) PROVE FALSE
        OBVIOUS
      <3>1. n - 1 \in Bad
        BY <2>5
      <3>2. n =< n - 1 /\ n \in Nat
        BY <2>1, <3>1
      <3>3. QED
        BY <3>2
    <2>7. SumOver(F, U) = SumOver(F, U \ {a}) + F[a]
      <3>1. \A x \in U : F[x] \in Int
        OBVIOUS
      <3>2. QED
        BY <2>5, <3>1, TotalRest
    <2>8. F[a] = c
      OBVIOUS
    <2>9. n \in Int
      OBVIOUS
    <2>10. c * n = c * (n - 1) + c
      BY <2>9
    <2>11. SumOver(F, U \ {a}) = c * (n - 1)
      BY <2>5, <2>6
    <2>12. SumOver(F, U) = c * n
      BY <2>7, <2>8, <2>10, <2>11
    <2>13. QED
      BY <2>2, <2>12
  <1>3. Fits(T)
    <2>1. Cardinality(T) \in Nat
      BY FS_CardinalityType
    <2>2. Cardinality(T) \notin Bad
      BY <1>2
    <2>3. QED
      BY <2>1, <2>2
  <1>4. QED
    BY <1>3

\* A table of counts, each times one value.
LEMMA TableCounts ==
  ASSUME NEW S, IsFiniteSet(S), NEW f, IsFiniteSet(DOMAIN f), NEW K, \A x \in S : K[x] \in DOMAIN f,
         NEW c \in Int, \A k \in DOMAIN f : f[k] = c * Cardinality({x \in S : K[x] = k})
  PROVE  SumFunction(f) = c * Cardinality(S)
  <1> DEFINE F == [x \in S |-> c]
  <1>1. ASSUME NEW U \in SUBSET S PROVE SumOver(F, U) = c * Cardinality(U)
    <2>1. IsFiniteSet(U) /\ \A x \in U : F[x] = c
      BY FS_Subset
    <2> HIDE DEF F
    <2>2. QED
      BY <2>1, TotalConstant
  <1>2. \A k \in DOMAIN f : f[k] = SumOver(F, {x \in S : K[x] = k})
    <2> SUFFICES ASSUME NEW k \in DOMAIN f PROVE f[k] = SumOver(F, {x \in S : K[x] = k})
      OBVIOUS
    <2>1. {x \in S : K[x] = k} \in SUBSET S
      OBVIOUS
    <2> HIDE DEF F
    <2>2. QED
      BY <1>1, <2>1
  <1>3. \A x \in S : F[x] \in Int
    OBVIOUS
  <1> HIDE DEF F
  <1>4. SumFunction(f) = SumOver(F, S)
    BY <1>2, <1>3, TableAddsUp
  <1>5. QED
    BY <1>1, <1>4

\* The sum of a table whose rows are given by another function.
LEMMA TableIs ==
  ASSUME NEW f, IsFiniteSet(DOMAIN f), NEW F, \A x \in DOMAIN f : F[x] \in Int /\ f[x] = F[x]
  PROVE  SumFunction(f) = SumOver(F, DOMAIN f)
  <1>1. SumOver(F, DOMAIN f) = SumOver(f, DOMAIN f)
    BY TotalSame
  <1>2. QED
    BY <1>1, FunctionSum

\* A table that gathers the rows of another one.
LEMMA TableGathers ==
  ASSUME NEW D, IsFiniteSet(D), NEW g, DOMAIN g = D, \A d \in D : g[d] \in Int, NEW K,
         NEW f, DOMAIN f = {K[d] : d \in D}, IsFiniteSet(DOMAIN f),
         \A w \in DOMAIN f : f[w] = SumFunction([d \in {x \in D : K[x] = w} |-> g[d]])
  PROVE  SumFunction(f) = SumFunction(g)
  <1>1. \A d \in D : K[d] \in DOMAIN f
    OBVIOUS
  <1>2. ASSUME NEW w \in DOMAIN f PROVE f[w] = SumOver(g, {d \in D : K[d] = w})
    <2> DEFINE S == {x \in D : K[x] = w}
               h == [d \in S |-> g[d]]
    <2>1. IsFiniteSet(S) /\ \A d \in S : g[d] \in Int
      BY FS_Subset
    <2>2. DOMAIN h = S /\ \A d \in S : h[d] = g[d]
      OBVIOUS
    <2>3. f[w] = SumFunction(h)
      OBVIOUS
    <2> HIDE DEF S, h
    <2>4. SumFunction(h) = SumOver(g, S)
      BY <2>1, <2>2, TableIs
    <2>5. QED
      BY <2>3, <2>4 DEF S
  <1>3. SumFunction(f) = SumOver(g, D)
    BY <1>1, <1>2, TableAddsUp
  <1>4. QED
    BY <1>3, FunctionSum

\* Natural numbers of which one is not zero add up to more than zero.
LEMMA TotalPositive ==
  ASSUME NEW S, IsFiniteSet(S), NEW F, \A x \in S : F[x] \in Nat, NEW a \in S, F[a] > 0
  PROVE  SumOver(F, S) > 0
  <1>1. SumOver(F, S) = SumOver(F, S \ {a}) + F[a]
    BY TotalRest
  <1>2. SumOver(F, {}) =< SumOver(F, S \ {a}) /\ SumOver(F, S \ {a}) \in Int
    <2>1. IsFiniteSet(S \ {a}) /\ (\A x \in S \ {a} : F[x] \in Nat) /\ {} \in SUBSET (S \ {a})
      BY FS_Subset
    <2>2. SumOver(F, {}) =< SumOver(F, S \ {a})
      BY <2>1, TotalSubset
    <2>3. SumOver(F, S \ {a}) \in Int
      BY <2>1, TotalType
    <2>4. QED
      BY <2>2, <2>3
  <1>3. SumOver(F, {}) = 0
    BY TotalEmpty
  <1>4. F[a] \in Nat
    OBVIOUS
  <1>5. QED
    BY <1>1, <1>2, <1>3, <1>4

\* The values of a key are finitely many.
LEMMA KeysFinite ==
  ASSUME NEW S, IsFiniteSet(S), NEW K, NEW T, T = {K[x] : x \in S}
  PROVE  IsFiniteSet(T)
  <1> DEFINE f == [x \in S |-> K[x]]
  <1>1. f \in Surjection(S, T)
    BY DEF Surjection
  <1>2. QED
    BY <1>1, FS_Surjection

\* The greatest and the least number of a finite set.
LEMMA GreatestIs ==
  ASSUME NEW n \in Nat, NEW S \in SUBSET (0..n), S # {}
  PROVE  Max(S) \in S /\ \A x \in S : x =< Max(S)
  <1> DEFINE T == {n - x : x \in S}
  <1>1. T \subseteq Nat /\ T # {}
    <2>1. \A x \in S : n - x \in Nat /\ n - x \in T
      OBVIOUS
    <2>2. PICK x \in S : TRUE
      OBVIOUS
    <2>3. T # {}
      BY <2>1, <2>2
    <2>4. QED
      BY <2>1, <2>3
  <1>2. PICK m \in T : \A k \in T : m =< k
    <2> HIDE DEF T
    <2>1. QED
      BY <1>1, LeastNumber
  <1>3. PICK a \in S : m = n - a
    OBVIOUS
  <1>4. ASSUME NEW x \in S PROVE x =< a
    <2>1. n - x \in T
      OBVIOUS
    <2>2. n - a =< n - x
      BY <1>2, <1>3, <2>1
    <2>3. QED
      BY <2>2
  <1>5. QED
    BY <1>4 DEF Max

LEMMA GreaterOfTwo ==
  ASSUME NEW a \in Int, NEW b \in Int
  PROVE  Max({a, b}) = (IF a >= b THEN a ELSE b) /\ Min({a, b}) = (IF a >= b THEN b ELSE a)
  <1>1. CASE a >= b
    <2>1. a \in {a, b} /\ b \in {a, b} /\ (\A x \in {a, b} : a >= x) /\ (\A x \in {a, b} : b =< x)
      BY <1>1
    <2>2. \A y \in {a, b} : ((\A x \in {a, b} : y >= x) => y = a) /\ ((\A x \in {a, b} : y =< x) => y = b)
      BY <1>1
    <2>3. QED
      BY <1>1, <2>1, <2>2 DEF Max, Min
  <1>2. CASE ~(a >= b)
    <2>1. a \in {a, b} /\ b \in {a, b} /\ (\A x \in {a, b} : b >= x) /\ (\A x \in {a, b} : a =< x)
      BY <1>2
    <2>2. \A y \in {a, b} : ((\A x \in {a, b} : y >= x) => y = b) /\ ((\A x \in {a, b} : y =< x) => y = a)
      BY <1>2
    <2>3. QED
      BY <1>2, <2>1, <2>2 DEF Max, Min
  <1>3. QED
    BY <1>1, <1>2

\* Counts of a finite set by a key, in a table.
LEMMA CountsByKey ==
  ASSUME NEW S, IsFiniteSet(S), NEW f, IsFiniteSet(DOMAIN f), NEW K, \A x \in S : K[x] \in DOMAIN f,
         \A k \in DOMAIN f : f[k] = Cardinality({x \in S : K[x] = k})
  PROVE  SumFunction(f) = Cardinality(S) /\ Cardinality(S) \in Nat
  <1>1. ASSUME NEW k \in DOMAIN f PROVE f[k] = 1 * Cardinality({x \in S : K[x] = k})
    <2> DEFINE c == Cardinality({x \in S : K[x] = k})
    <2>1. c \in Nat
      BY FS_Subset, FS_CardinalityType
    <2>2. f[k] = c
      OBVIOUS
    <2> HIDE DEF c
    <2>3. f[k] = 1 * c
      BY <2>1, <2>2
    <2>4. QED
      BY <2>3 DEF c
  <1>2. SumFunction(f) = 1 * Cardinality(S)
    BY <1>1, TableCounts
  <1>3. Cardinality(S) \in Nat
    BY FS_CardinalityType
  <1>4. QED
    BY <1>2, <1>3

\* As many ones.
LEMMA TotalOnes ==
  ASSUME NEW T, IsFiniteSet(T), NEW F, \A x \in T : F[x] = 1
  PROVE  SumOver(F, T) = Cardinality(T)
  <1>1. Cardinality(T) \in Nat
    BY FS_CardinalityType
  <1>2. 1 \in Int
    OBVIOUS
  <1>3. SumOver(F, T) = 1 * Cardinality(T)
    <2> DEFINE c == 1
    <2>1. c \in Int /\ \A x \in T : F[x] = c
      OBVIOUS
    <2> HIDE DEF c
    <2>2. SumOver(F, T) = c * Cardinality(T)
      BY <2>1, TotalConstant
    <2>3. QED
      BY <2>2 DEF c
  <1>4. QED
    BY <1>1, <1>3
=============================================================================
