----------------------------- MODULE FiniteSums -----------------------------
(***************************************************************************)
(* Induction over the subsets of a finite set, from the well-founded order *)
(* of strict inclusion, and what follows from it for finite sets of        *)
(* numbers.                                                                *)
(***************************************************************************)
EXTENDS Integers, FiniteSetsExt, FiniteSetTheorems, TLAPS

\* A set of subsets of the finite set S to which a subset belongs whenever all
\* its strict subsets do has all the subsets of S.
LEMMA SubsetInduction ==
  ASSUME NEW S, IsFiniteSet(S), NEW G,
         \A T \in SUBSET S : (\A U \in SUBSET T : U # T => U \in G) => T \in G
  PROVE  \A T \in SUBSET S : T \in G
<1> DEFINE bad == { T \in SUBSET S : T \notin G }
<1>1. SUFFICES ASSUME bad # {} PROVE FALSE
  OBVIOUS
<1>2. IsWellFoundedOn(StrictSubsetOrdering(S), SUBSET S)
  BY FS_StrictSubsetOrderingWellFounded, FS_FiniteSubsetsOfFinite
<1>3. PICK T \in bad : \A U \in bad : <<U, T>> \notin StrictSubsetOrdering(S)
  <2>1. bad \subseteq SUBSET S
    OBVIOUS
  <2> HIDE DEF bad
  <2> QED
    BY <1>1, <1>2, <2>1, WFMin
<1>4. ASSUME NEW U \in SUBSET T, U # T PROVE U \in G
  BY <1>3, <1>4 DEF StrictSubsetOrdering
<1> QED
  BY <1>3, <1>4

\* Every finite set of numbers that is not empty has a least one.
LEMMA LeastNumber ==
  ASSUME NEW S \in SUBSET Int, IsFiniteSet(S), S # {}
  PROVE  \E n \in S : \A m \in S : n <= m
<1> DEFINE G == { T \in SUBSET S : T # {} => \E n \in T : \A m \in T : n <= m }
<1>1. ASSUME NEW T \in SUBSET S, \A U \in SUBSET T : U # T => U \in G
      PROVE  T \in G
  <2>1. CASE T = {}
    BY <2>1
  <2>2. ASSUME NEW x \in T PROVE \E n \in T : \A m \in T : n <= m
    <3>1. T \ {x} \in G
      BY <1>1
    <3>2. CASE T \ {x} = {}
      BY <3>2
    <3>3. CASE T \ {x} # {}
      <4>1. PICK n \in T \ {x} : \A m \in T \ {x} : n <= m
        BY <3>1, <3>3
      <4>2. \A m \in T : (IF n <= x THEN n ELSE x) <= m
        BY <4>1
      <4> QED
        BY <4>1, <4>2
    <3> QED
      BY <3>2, <3>3
  <2> QED
    BY <2>1, <2>2
<1>2. \A T \in SUBSET S : T \in G
  <2> HIDE DEF G
  <2> QED
    BY <1>1, SubsetInduction
<1> QED
  BY <1>2

\* R orders S: of any two elements one comes before the other.
Orders(R, S) ==
  /\ \A x, y \in S : x = y \/ <<x, y>> \in R \/ <<y, x>> \in R
  /\ \A x, y, z \in S : <<x, y>> \in R /\ <<y, z>> \in R => <<x, z>> \in R

\* So has every finite set in some order.
LEMMA LeastOf ==
  ASSUME NEW S, IsFiniteSet(S), S # {}, NEW R, Orders(R, S)
  PROVE  \E n \in S : \A m \in S \ {n} : <<n, m>> \in R
<1> DEFINE L(T, n) == \A m \in T \ {n} : <<n, m>> \in R
           G == { T \in SUBSET S : T # {} => \E n \in T : L(T, n) }
<1>1. ASSUME NEW T \in SUBSET S, \A U \in SUBSET T : U # T => U \in G
      PROVE  T \in G
  <2>1. ASSUME NEW x \in T PROVE \E n \in T : L(T, n)
    <3>1. T \ {x} \in G
      BY <1>1
    <3>2. CASE T \ {x} = {}
      BY <3>2
    <3>3. CASE T \ {x} # {}
      <4>1. PICK n \in T \ {x} : L(T \ {x}, n)
        BY <3>1, <3>3
      <4>2. CASE <<n, x>> \in R
        BY <4>1, <4>2
      <4>3. CASE <<x, n>> \in R
        <5>1. L(T, x)
          BY <4>1, <4>3 DEF Orders
        <5> QED
          BY <5>1
      <4> QED
        BY <4>1, <4>2, <4>3 DEF Orders
    <3> QED
      BY <3>2, <3>3
  <2> QED
    BY <2>1
<1>2. \A T \in SUBSET S : T \in G
  <2> HIDE DEF G
  <2> QED
    BY <1>1, SubsetInduction
<1> QED
  BY <1>2

----------------------------------------------------------------------------
(* Sums.                                                                   *)

SumOf(f, S) == MapThenSumSet(LAMBDA x : f[x], S)

Pick(T) == CHOOSE x \in T : TRUE

\* h gives every subset of T the sum of f over it.
Sums(f, h, T) ==
  /\ h \in [SUBSET T -> Int]
  /\ \A U \in SUBSET T : h[U] = IF U = {} THEN 0 ELSE f[Pick(U)] + h[U \ {Pick(U)}]

LEMMA PickIn ==
  ASSUME NEW T, T # {}
  PROVE  Pick(T) \in T
BY DEF Pick

LEMMA SumsShrink ==
  ASSUME NEW f, NEW T, NEW U \in SUBSET T, NEW h, Sums(f, h, T)
  PROVE  \E k : Sums(f, k, U) /\ k[U] = h[U]
<1> DEFINE k == [V \in SUBSET U |-> h[V]]
<1>1. \A V \in SUBSET U : V \in SUBSET T
  OBVIOUS
<1>2. \A V \in SUBSET U : V \ {Pick(V)} \in SUBSET U
  OBVIOUS
<1>3. k \in [SUBSET U -> Int] /\ k[U] = h[U]
  BY <1>1 DEF Sums
<1>4. Sums(f, k, U)
  BY <1>1, <1>2, <1>3 DEF Sums
<1> HIDE DEF k
<1> QED
  BY <1>3, <1>4

LEMMA SumsExist ==
  ASSUME NEW S, IsFiniteSet(S), NEW f \in [S -> Int]
  PROVE  \E h : Sums(f, h, S)
<1> DEFINE
     Same(T) == \A h, g : Sums(f, h, T) /\ Sums(f, g, T) => h = g
     Some(T) == \E h : Sums(f, h, T)
     G == { T \in SUBSET S : Same(T) /\ Some(T) }
<1>1. ASSUME NEW T \in SUBSET S, \A U \in SUBSET T : U # T => U \in G
      PROVE  T \in G
  <2>1. ASSUME NEW h, NEW g, Sums(f, h, T), Sums(f, g, T)
        PROVE  h = g
    <3>1. ASSUME NEW U \in SUBSET T, U # T
          PROVE  h[U] = g[U]
      <4>1. Same(U)
        BY <1>1, <3>1
      <4>2. PICK hU : Sums(f, hU, U) /\ hU[U] = h[U]
        BY <2>1, <3>1, SumsShrink
      <4>3. PICK gU : Sums(f, gU, U) /\ gU[U] = g[U]
        BY <2>1, <3>1, SumsShrink
      <4> QED
        BY <4>1, <4>2, <4>3
    <3>2. h[T] = g[T]
      <4>1. CASE T = {}
        BY <2>1, <4>1 DEF Sums
      <4>2. CASE T # {}
        <5>1. T \ {Pick(T)} \in SUBSET T /\ T \ {Pick(T)} # T /\ T \in SUBSET T
          BY <4>2, PickIn
        <5> QED
          BY <2>1, <3>1, <4>2, <5>1 DEF Sums
      <4> QED
        BY <4>1, <4>2
    <3>3. \A U \in SUBSET T : h[U] = g[U]
      BY <3>1, <3>2
    <3> QED
      BY <2>1, <3>3 DEF Sums
  <2>2. Some(T)
    <3> DEFINE H(U) == CHOOSE h : Sums(f, h, U)
               less == T \ {Pick(T)}
               g == [U \in SUBSET T |-> IF U # T THEN H(U)[U]
                                        ELSE IF T = {} THEN 0 ELSE f[Pick(T)] + H(less)[less]]
    <3>1. ASSUME NEW U \in SUBSET T, U # T
          PROVE  Sums(f, H(U), U)
      <4>1. Some(U)
        BY <1>1, <3>1
      <4> QED
        BY <4>1
    <3>2. \A U \in SUBSET T : U # T => H(U)[U] \in Int
      BY <3>1 DEF Sums
    <3>3. T # {} => less \in SUBSET T /\ less # T /\ f[Pick(T)] \in Int
      BY PickIn
    <3>4. ASSUME NEW U \in SUBSET T, U # T, U # {}
          PROVE  H(U)[U] = f[Pick(U)] + H(U \ {Pick(U)})[U \ {Pick(U)}]
      <4> DEFINE V == U \ {Pick(U)}
      <4>1. Sums(f, H(U), U)
        BY <3>1, <3>4
      <4>2. V \in SUBSET U /\ V \in SUBSET T /\ V # T
        BY <3>4, PickIn
      <4>3. H(U)[U] = f[Pick(U)] + H(U)[V]
        BY <3>4, <4>1 DEF Sums
      <4>4. Sums(f, H(V), V)
        <5> HIDE DEF V, H
        <5> QED
          BY <3>1, <4>2
      <4>5. Same(V)
        <5> HIDE DEF V
        <5> QED
          BY <1>1, <4>2
      <4> HIDE DEF V, H
      <4>6. PICK hV : Sums(f, hV, V) /\ hV[V] = H(U)[V]
        BY <4>1, <4>2, SumsShrink
      <4>8. H(V) = hV
        BY <4>4, <4>5, <4>6
      <4>9. H(U)[U] = f[Pick(U)] + H(V)[V]
        BY <4>3, <4>6, <4>8
      <4> QED
        BY <4>9 DEF V
    <3> HIDE DEF H
    <3>5. g \in [SUBSET T -> Int]
      <4>1. ASSUME T # {} PROVE H(less)[less] \in Int
        <5> HIDE DEF less
        <5> QED
          BY <3>2, <3>3, <4>1
      <4>2. T # {} => f[Pick(T)] + H(less)[less] \in Int
        BY <3>3, <4>1
      <4> HIDE DEF less
      <4> QED
        BY <3>2, <4>2
    <3>6. ASSUME NEW U \in SUBSET T
          PROVE  g[U] = IF U = {} THEN 0 ELSE f[Pick(U)] + g[U \ {Pick(U)}]
      <4>1. CASE U # T /\ U = {}
        <5>1. {} \in SUBSET {} 
          OBVIOUS
        <5>2. Sums(f, H({}), {})
          BY <3>1, <4>1
        <5> QED
          BY <4>1, <5>1, <5>2 DEF Sums
      <4>2. CASE U # {}
        <5> DEFINE V == U \ {Pick(U)}
        <5>1. V \in SUBSET T /\ V # T
          BY <4>2, PickIn
        <5>2. g[V] = H(V)[V]
          <6> HIDE DEF V, less
          <6> QED
            BY <5>1
        <5>3. g[U] = f[Pick(U)] + H(V)[V]
          BY <3>4, <4>2
        <5> HIDE DEF g
        <5> QED
          BY <4>2, <5>2, <5>3
      <4> QED
        BY <4>1, <4>2
    <3> HIDE DEF g
    <3>7. Sums(f, g, T)
      BY <3>5, <3>6 DEF Sums
    <3> QED
      BY <3>7
  <2> QED
    BY <2>1, <2>2
<1>2. \A T \in SUBSET S : T \in G
  <2> HIDE DEF G
  <2> QED
    BY <1>1, SubsetInduction
<1>3. S \in G
  BY <1>2
<1> QED
  BY <1>3

LEMMA SumIs ==
  ASSUME NEW S, IsFiniteSet(S), NEW f \in [S -> Int]
  PROVE  \E h : Sums(f, h, S) /\ SumOf(f, S) = h[S]
<1> DEFINE Eq(h) == h = [U \in SUBSET S |->
                           IF U = {} THEN 0
                           ELSE f[CHOOSE x \in U : TRUE] + h[U \ {CHOOSE x \in U : TRUE}]]
           g == CHOOSE h : Eq(h)
<1>1. PICK h : Sums(f, h, S)
  BY SumsExist
<1>2. Eq(h)
  BY <1>1 DEF Sums, Pick
<1>3. Eq(g)
  BY <1>2
<1>4. SumOf(f, S) = g[S]
  BY DEF SumOf, MapThenSumSet, MapThenFoldSet
<1>5. \A U \in SUBSET S : g[U] = IF U = {} THEN 0 ELSE f[Pick(U)] + g[U \ {Pick(U)}]
  BY <1>3 DEF Pick
<1> HIDE DEF g
<1> DEFINE G == { T \in SUBSET S : g[T] = h[T] }
<1>6. ASSUME NEW T \in SUBSET S, \A U \in SUBSET T : U # T => U \in G
      PROVE  T \in G
  <2>1. T # {} => T \ {Pick(T)} \in SUBSET T /\ T \ {Pick(T)} # T
    BY PickIn
  <2>2. h[T] = IF T = {} THEN 0 ELSE f[Pick(T)] + h[T \ {Pick(T)}]
    BY <1>1 DEF Sums
  <2> QED
    BY <1>5, <1>6, <2>1, <2>2
<1>7. \A T \in SUBSET S : T \in G
  <2> HIDE DEF G
  <2> QED
    BY <1>6, SubsetInduction
<1> QED
  BY <1>1, <1>4, <1>7

\* When one of the numbers changes the sum changes by as much.
LEMMA SumChanges ==
  ASSUME NEW S, IsFiniteSet(S), NEW f \in [S -> Int], NEW x \in S, NEW v \in Int
  PROVE  SumOf([f EXCEPT ![x] = v], S) = SumOf(f, S) + (v - f[x])
<1> DEFINE e == [f EXCEPT ![x] = v]
<1>1. e \in [S -> Int] /\ \A y \in S : e[y] = IF y = x THEN v ELSE f[y]
  OBVIOUS
<1> HIDE DEF e
<1>2. PICK h : Sums(f, h, S) /\ SumOf(f, S) = h[S]
  BY SumIs
<1>3. PICK k : Sums(e, k, S) /\ SumOf(e, S) = k[S]
  BY <1>1, SumIs
<1> DEFINE G == { T \in SUBSET S : k[T] = IF x \in T THEN h[T] + (v - f[x]) ELSE h[T] }
<1>4. ASSUME NEW T \in SUBSET S, \A U \in SUBSET T : U # T => U \in G
      PROVE  T \in G
  <2>1. CASE T = {}
    <3>1. k[T] = 0 /\ h[T] = 0
      BY <1>2, <1>3, <2>1 DEF Sums
    <3> QED
      BY <2>1, <3>1
  <2>2. CASE T # {}
    <3> DEFINE p == Pick(T)
               U == T \ {p}
    <3>1. p \in T /\ p \in S /\ U \in SUBSET T /\ U # T
      BY <2>2, PickIn
    <3>2. k[T] = e[p] + k[U] /\ h[T] = f[p] + h[U]
      BY <1>2, <1>3, <2>2 DEF Sums
    <3>3. x \in U <=> x \in T /\ x # p
      OBVIOUS
    <3> HIDE DEF p, U
    <3>4. k[U] = IF x \in U THEN h[U] + (v - f[x]) ELSE h[U]
      BY <1>4, <3>1
    <3>5. h[U] \in Int /\ f[p] \in Int /\ f[x] \in Int
      BY <1>2, <3>1 DEF Sums
    <3> QED
      BY <1>1, <3>1, <3>2, <3>3, <3>4, <3>5
  <2> QED
    BY <2>1, <2>2
<1>5. \A T \in SUBSET S : T \in G
  <2> HIDE DEF G
  <2> QED
    BY <1>4, SubsetInduction
<1>6. k[S] = h[S] + (v - f[x])
  BY <1>5
<1> QED
  BY <1>2, <1>3, <1>6 DEF e

LEMMA SumType ==
  ASSUME NEW S, IsFiniteSet(S), NEW f \in [S -> Int]
  PROVE  SumOf(f, S) \in Int
<1>1. PICK h : Sums(f, h, S) /\ SumOf(f, S) = h[S]
  BY SumIs
<1> QED
  BY <1>1 DEF Sums

LEMMA SumOfZeros ==
  ASSUME NEW S, IsFiniteSet(S)
  PROVE  SumOf([x \in S |-> 0], S) = 0
<1> DEFINE f == [x \in S |-> 0]
<1>1. f \in [S -> Int] /\ \A x \in S : f[x] = 0
  OBVIOUS
<1> HIDE DEF f
<1>2. PICK h : Sums(f, h, S) /\ SumOf(f, S) = h[S]
  BY <1>1, SumIs
<1> DEFINE G == { T \in SUBSET S : h[T] = 0 }
<1>3. ASSUME NEW T \in SUBSET S, \A U \in SUBSET T : U # T => U \in G
      PROVE  T \in G
  <2>1. T # {} => T \ {Pick(T)} \in SUBSET T /\ T \ {Pick(T)} # T /\ f[Pick(T)] = 0
    BY <1>1, PickIn
  <2>2. h[T] = IF T = {} THEN 0 ELSE f[Pick(T)] + h[T \ {Pick(T)}]
    BY <1>2 DEF Sums
  <2>3. T # {} => h[T \ {Pick(T)}] = 0
    BY <1>3, <2>1
  <2> QED
    BY <2>1, <2>2, <2>3
<1>4. \A T \in SUBSET S : T \in G
  <2> HIDE DEF G
  <2> QED
    BY <1>3, SubsetInduction
<1>5. h[S] = 0
  BY <1>4
<1> QED
  BY <1>2, <1>5 DEF f

\* Every member of R is counted where f sends it.
LEMMA SumOfFibres ==
  ASSUME NEW S, IsFiniteSet(S), NEW R, IsFiniteSet(R), NEW f \in [R -> S]
  PROVE  /\ [x \in S |-> Cardinality({ r \in R : f[r] = x })] \in [S -> Int]
         /\ SumOf([x \in S |-> Cardinality({ r \in R : f[r] = x })], S) = Cardinality(R)
<1> DEFINE over(T) == { r \in R : f[r] \in T }
           at(x) == { r \in R : f[r] = x }
           n == [x \in S |-> Cardinality(at(x))]
<1>1. /\ \A T : IsFiniteSet(over(T)) /\ Cardinality(over(T)) \in Nat
      /\ \A x : IsFiniteSet(at(x)) /\ Cardinality(at(x)) \in Nat
  BY FS_Subset, FS_CardinalityType
<1>2. over(S) = R /\ over({}) = {}
  OBVIOUS
<1>3. ASSUME NEW T \in SUBSET S, NEW x \in T
      PROVE  /\ over(T) = at(x) \cup over(T \ {x})
             /\ at(x) \cap over(T \ {x}) = {}
  BY <1>3
<1> HIDE DEF over, at
<1>4. n \in [S -> Int] /\ \A x \in S : n[x] = Cardinality(at(x))
  BY <1>1
<1> HIDE DEF n
<1>5. PICK h : Sums(n, h, S) /\ SumOf(n, S) = h[S]
  BY <1>4, SumIs
<1> DEFINE G == { T \in SUBSET S : h[T] = Cardinality(over(T)) }
<1>6. ASSUME NEW T \in SUBSET S, \A U \in SUBSET T : U # T => U \in G
      PROVE  T \in G
  <2>1. h[T] = IF T = {} THEN 0 ELSE n[Pick(T)] + h[T \ {Pick(T)}]
    BY <1>5 DEF Sums
  <2>2. CASE T = {}
    BY <1>2, <2>1, <2>2, FS_EmptySet
  <2>3. CASE T # {}
    <3>1. PICK x \in T : x = Pick(T)
      BY <2>3, PickIn
    <3> DEFINE U == T \ {x}
    <3>2. U \in SUBSET T /\ U # T /\ n[x] = Cardinality(at(x))
      BY <1>4, <3>1
    <3>3. h[U] = Cardinality(over(U)) /\ h[T] = n[x] + h[U]
      BY <1>6, <2>1, <2>3, <3>1, <3>2
    <3>4. over(T) = at(x) \cup over(U) /\ at(x) \cap over(U) = {}
      BY <1>3
    <3> HIDE DEF U
    <3>5. Cardinality(over(T)) =
            Cardinality(at(x)) + Cardinality(over(U)) - Cardinality(at(x) \cap over(U))
      BY <1>1, <3>4, FS_Union
    <3>6. Cardinality(at(x) \cap over(U)) = 0
      BY <3>4, FS_EmptySet
    <3>7. h[T] = Cardinality(over(T))
      BY <1>1, <3>2, <3>3, <3>5, <3>6
    <3> QED
      BY <3>7
  <2> QED
    BY <2>2, <2>3
<1>7. \A T \in SUBSET S : T \in G
  <2> HIDE DEF G
  <2> QED
    BY <1>6, SubsetInduction
<1>8. SumOf(n, S) = Cardinality(R)
  BY <1>2, <1>5, <1>7
<1> QED
  BY <1>4, <1>8 DEF n, at

----------------------------------------------------------------------------
(* Numbers modulo m.                                                       *)

\* a and b differ by a multiple of m.
Congruent(a, b, m) == \E q \in Int : a = b + q * m

LEMMA CongruentSym ==
  ASSUME NEW a \in Int, NEW b \in Int, NEW m \in Nat, Congruent(a, b, m)
  PROVE  Congruent(b, a, m)
<1>1. PICK q \in Int : a = b + q * m
  BY DEF Congruent
<1>2. b = a + (-q) * m /\ -q \in Int
  BY <1>1
<1> QED
  BY <1>2 DEF Congruent

LEMMA Division ==
  ASSUME NEW a \in Int, NEW m \in Int, m > 0
  PROVE  a % m \in 0 .. m - 1 /\ \E q \in Int : a = m * q + (a % m)
<1> DEFINE q == a \div m
           r == a % m
<1>1. r \in 0 .. m - 1
  OBVIOUS
<1>2. a = m * q + r
  BY Z3
<1>3. q \in Int
  OBVIOUS
<1> HIDE DEF q, r
<1>4. \E p \in Int : a = m * p + r
  BY <1>2, <1>3
<1> QED
  BY <1>1, <1>4 DEF r

LEMMA ModCongruent ==
  ASSUME NEW a \in Int, NEW m \in Nat \ {0}
  PROVE  a % m \in 0 .. m - 1 /\ Congruent(a % m, a, m)
<1> DEFINE r == a % m
<1>1. m \in Int /\ m > 0
  OBVIOUS
<1>2. r \in 0 .. m - 1 /\ \E q \in Int : a = m * q + r
  BY <1>1, Division
<1> HIDE DEF r
<1>3. PICK q \in Int : a = m * q + r
  BY <1>2
<1>4. r \in Int
  BY <1>2
<1>5. a = r + q * m
  BY <1>3, <1>4
<1> QED
  BY <1>2, <1>4, <1>5, CongruentSym DEF Congruent, r

LEMMA SmallMultiple ==
  ASSUME NEW q \in Int, NEW m \in Nat \ {0}, q * m < m, q * m > -m
  PROVE  q * m = 0
<1>1. CASE q >= 1
  <2>1. q * m >= m
    BY <1>1
  <2> QED
    BY <2>1
<1>2. CASE q <= -1
  <2>1. q * m <= -m
    BY <1>2
  <2> QED
    BY <2>1
<1>3. CASE q = 0
  BY <1>3
<1> QED
  BY <1>1, <1>2, <1>3

LEMMA CongruentTrans ==
  ASSUME NEW a \in Int, NEW b \in Int, NEW c \in Int, NEW m \in Nat,
         Congruent(a, b, m), Congruent(b, c, m)
  PROVE  Congruent(a, c, m)
<1>1. PICK q \in Int : a = b + q * m
  BY DEF Congruent
<1>2. PICK r \in Int : b = c + r * m
  BY DEF Congruent
<1>3. a = c + (q + r) * m /\ q + r \in Int
  BY <1>1, <1>2
<1> QED
  BY <1>3 DEF Congruent

LEMMA CongruentPlus ==
  ASSUME NEW a \in Int, NEW b \in Int, NEW c \in Int, NEW m \in Nat, Congruent(a, b, m)
  PROVE  Congruent(a + c, b + c, m)
BY DEF Congruent

LEMMA CongruentAdd ==
  ASSUME NEW a \in Int, NEW b \in Int, NEW c \in Int, NEW d \in Int, NEW m \in Nat,
         Congruent(a, b, m), Congruent(c, d, m)
  PROVE  Congruent(a + c, b + d, m)
<1>1. Congruent(a + c, b + c, m)
  BY CongruentPlus
<1>2. Congruent(c + b, d + b, m)
  BY CongruentPlus
<1>3. c + b = b + c /\ d + b = b + d /\ a + c \in Int /\ b + c \in Int /\ b + d \in Int
  OBVIOUS
<1>4. Congruent(b + c, b + d, m)
  BY <1>2, <1>3
<1> QED
  BY <1>1, <1>3, <1>4, CongruentTrans

\* Numbers that change by what goes and what comes have a sum that does.
LEMMA SumsAreCongruent ==
  ASSUME NEW S, IsFiniteSet(S), NEW m \in Nat,
         NEW f \in [S -> Int], NEW goes \in [S -> Int], NEW comes \in [S -> Int],
         NEW e \in [S -> Int],
         \A x \in S : Congruent(e[x], f[x] - goes[x] + comes[x], m)
  PROVE  Congruent(SumOf(e, S), SumOf(f, S) - SumOf(goes, S) + SumOf(comes, S), m)
<1>1. PICK hf : Sums(f, hf, S) /\ SumOf(f, S) = hf[S]
  BY SumIs
<1>2. PICK hg : Sums(goes, hg, S) /\ SumOf(goes, S) = hg[S]
  BY SumIs
<1>3. PICK hc : Sums(comes, hc, S) /\ SumOf(comes, S) = hc[S]
  BY SumIs
<1>4. PICK he : Sums(e, he, S) /\ SumOf(e, S) = he[S]
  BY SumIs
<1> DEFINE OK(T) == /\ hf[T] \in Int /\ hg[T] \in Int /\ hc[T] \in Int /\ he[T] \in Int
                    /\ Congruent(he[T], hf[T] - hg[T] + hc[T], m)
           G == { T \in SUBSET S : OK(T) }
<1>5. ASSUME NEW T \in SUBSET S, \A U \in SUBSET T : U # T => U \in G
      PROVE  T \in G
  <2>1. /\ hf[T] = IF T = {} THEN 0 ELSE f[Pick(T)] + hf[T \ {Pick(T)}]
        /\ hg[T] = IF T = {} THEN 0 ELSE goes[Pick(T)] + hg[T \ {Pick(T)}]
        /\ hc[T] = IF T = {} THEN 0 ELSE comes[Pick(T)] + hc[T \ {Pick(T)}]
        /\ he[T] = IF T = {} THEN 0 ELSE e[Pick(T)] + he[T \ {Pick(T)}]
    BY <1>1, <1>2, <1>3, <1>4 DEF Sums
  <2>2. CASE T = {}
    <3>1. Congruent(0, 0, m)
      <4>1. 0 = 0 + 0 * m
        BY SMT
      <4> QED
        BY ONLY <4>1 DEF Congruent
    <3>2. hf[T] = 0 /\ hg[T] = 0 /\ hc[T] = 0 /\ he[T] = 0
      BY <2>1, <2>2
    <3>3. 0 - 0 + 0 = 0
      OBVIOUS
    <3> QED
      <4>1. hf[T] - hg[T] + hc[T] = 0
        BY <3>2, <3>3
      <4>2. Congruent(he[T], hf[T] - hg[T] + hc[T], m)
        BY ONLY <3>1, <3>2, <4>1
      <4>3. hf[T] \in Int /\ hg[T] \in Int /\ hc[T] \in Int /\ he[T] \in Int
        BY ONLY <3>2
      <4> QED
        BY ONLY <4>2, <4>3, T \in SUBSET S
  <2>3. CASE T # {}
    <3>1. PICK x \in T : x = Pick(T)
      BY <2>3, PickIn
    <3>2. PICK U : U = T \ {x}
      OBVIOUS
    <3>3. U \in SUBSET T /\ U # T
      BY <3>2
    <3>4. OK(U)
      BY <1>5, <3>3
    <3>5. /\ hf[T] = f[x] + hf[U] /\ hg[T] = goes[x] + hg[U]
          /\ hc[T] = comes[x] + hc[U] /\ he[T] = e[x] + he[U]
      BY <2>1, <2>3, <3>1, <3>2
    <3>6. f[x] \in Int /\ goes[x] \in Int /\ comes[x] \in Int /\ e[x] \in Int
      OBVIOUS
    <3>7. PICK a \in Int : a = f[x] - goes[x] + comes[x]
      BY <3>6
    <3>8. PICK b \in Int : b = hf[U] - hg[U] + hc[U]
      BY <3>4
    <3>9. Congruent(e[x], a, m) /\ Congruent(he[U], b, m) /\ he[U] \in Int
      BY <3>4, <3>7, <3>8
    <3>10. Congruent(e[x] + he[U], a + b, m)
      BY <3>6, <3>9, CongruentAdd
    <3>11. hf[T] - hg[T] + hc[T] = a + b
      BY <3>4, <3>5, <3>6, <3>7, <3>8
    <3>12. hf[T] \in Int /\ hg[T] \in Int /\ hc[T] \in Int /\ he[T] \in Int
      BY <3>4, <3>5, <3>6
    <3> QED
      BY <3>5, <3>10, <3>11, <3>12
  <2> QED
    BY <2>2, <2>3
<1>6. \A T \in SUBSET S : T \in G
  <2> HIDE DEF G
  <2> QED
    BY <1>5, SubsetInduction
<1>7. OK(S)
  BY <1>6
<1> QED
  BY <1>1, <1>2, <1>3, <1>4, <1>7

LEMMA SameModulo ==
  ASSUME NEW a \in Int, NEW b \in Int, NEW m \in Nat \ {0}
  PROVE  a % m = b % m <=> Congruent(a, b, m)
<1> DEFINE r == a % m
           s == b % m
<1>1. r \in 0 .. m - 1 /\ Congruent(r, a, m) /\ s \in 0 .. m - 1 /\ Congruent(s, b, m)
  BY ModCongruent
<1> HIDE DEF r, s
<1>2. r \in Int /\ s \in Int
  BY <1>1
<1>3. ASSUME Congruent(a, b, m) PROVE r = s
  <2>1. Congruent(r, b, m) /\ Congruent(b, s, m)
    BY <1>1, <1>2, <1>3, CongruentTrans, CongruentSym
  <2>2. Congruent(r, s, m)
    BY <1>2, <2>1, CongruentTrans
  <2>3. PICK q \in Int : r = s + q * m
    BY <2>2 DEF Congruent
  <2> DEFINE p == q * m
  <2>4. p \in Int /\ r = s + p
    BY <2>3
  <2> HIDE DEF p
  <2>5. p < m /\ p > -m
    BY <1>1, <2>4
  <2>6. p = 0
    BY <2>5, SmallMultiple DEF p
  <2> QED
    BY <1>2, <2>4, <2>6
<1>4. ASSUME r = s PROVE Congruent(a, b, m)
  <2>1. Congruent(a, r, m)
    BY <1>1, <1>2, CongruentSym
  <2> QED
    BY <1>1, <1>2, <1>4, <2>1, CongruentTrans
<1> QED
  BY <1>3, <1>4 DEF r, s
=============================================================================
