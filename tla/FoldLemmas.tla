--------------------------------- MODULE FoldLemmas ---------------------------------
(***************************************************************************)
(* What the proofs need of sets of numbers, of folds over finite sets, of  *)
(* sums, of ranks in an order, of quotients and of sequences, none of      *)
(* which the provers know.  Most are inductions over a set that is written *)
(* out, because the theorems of the library that say it for every formula  *)
(* cannot be used.                                                         *)
(***************************************************************************)
EXTENDS SequencesExt, SequenceTheorems, FiniteSetTheorems, WellFoundedInduction, TLAPS

-----------------------------------------------------------------------------
(* Finite sets. *)

\* A nonempty set of natural numbers has a smallest one: what is false of some is
\* false of a first one.
LEMMA SmallestExists ==
  ASSUME NEW S \in SUBSET Nat, S # {}
  PROVE  \E x \in S : \A y \in S : x <= y
<1> DEFINE Below == {ss \in Nat \X Nat : ss[1] < ss[2]}
<1>1. OpToRel(<, Nat) = Below
  BY DEF OpToRel
<1>2. IsWellFoundedOn(Below, Nat)
  BY <1>1, NatLessThanWellFounded
<1>3. \A x, y \in Nat : <<x, y>> \in Below <=> x < y
  OBVIOUS
<1> HIDE DEF Below
<1>4. PICK x \in S : \A y \in S : ~(<<y, x>> \in Below)
  BY <1>2, WFMin
<1>5. \A y \in S : x <= y
  <2> TAKE y \in S
  <2>1. ~(y < x)
    BY <1>3, <1>4
  <2>2. QED
    BY <2>1
<1>6. QED
  BY <1>5


\* The smallest of a set of natural numbers.
LEMMA MinIsSmallest ==
  ASSUME NEW I \in SUBSET Nat, I # {}
  PROVE  Min(I) \in I /\ \A k \in I : Min(I) <= k
<1>1. \E x \in I : \A y \in I : x <= y
  BY SmallestExists
<1>2. QED
  BY <1>1 DEF Min

\* What holds of 0 and is handed on to the next number holds of all.
LEMMA SetOfAllNumbers ==
  ASSUME NEW G \in SUBSET Nat, 0 \in G, \A n \in G : n + 1 \in G
  PROVE  G = Nat
<1> SUFFICES ASSUME Nat \ G # {} PROVE FALSE
  OBVIOUS
<1>1. PICK n \in Nat \ G : \A m \in Nat \ G : n <= m
  <2> DEFINE R == Nat \ G
  <2>1. R \in SUBSET Nat /\ R # {}
    OBVIOUS
  <2> HIDE DEF R
  <2>2. \E x \in R : \A y \in R : x <= y
    BY <2>1, SmallestExists
  <2>3. QED
    BY <2>2 DEF R
<1>2. n # 0 /\ n - 1 \in Nat
  OBVIOUS
<1>3. n - 1 \in G
  BY <1>1, <1>2
<1>4. n - 1 + 1 \in G
  BY <1>3
<1>5. QED
  BY <1>4

\* What holds of the empty set, and of each set from which any element can be
\* taken to leave one it holds of, holds of every subset of a finite set.
LEMMA SetOfAllSubsets ==
  ASSUME NEW S, IsFiniteSet(S), NEW G \in SUBSET SUBSET S, {} \in G,
         \A s \in SUBSET S : s # {} /\ (\A x \in s : s \ {x} \in G) => s \in G
  PROVE  G = SUBSET S
<1> DEFINE Sized == {n \in Nat : \A s \in SUBSET S : Cardinality(s) = n => s \in G}
<1>1. \A s \in SUBSET S : IsFiniteSet(s) /\ Cardinality(s) \in Nat
  BY FS_Subset, FS_CardinalityType
<1>2. 0 \in Sized
  BY <1>1, FS_EmptySet
<1>3. ASSUME NEW n \in Sized PROVE n + 1 \in Sized
  <2>1. n + 1 \in Nat /\ n \in Nat
    OBVIOUS
  <2> SUFFICES ASSUME NEW s \in SUBSET S, Cardinality(s) = n + 1 PROVE s \in G
    BY <2>1
  <2>2. s # {}
    BY FS_EmptySet
  <2>3. ASSUME NEW x \in s PROVE s \ {x} \in G
    <3>1. Cardinality(s \ {x}) = Cardinality(s) - 1
      BY <1>1, FS_RemoveElement
    <3>2. Cardinality(s \ {x}) = n /\ s \ {x} \in SUBSET S
      BY <2>1, <3>1
    <3>3. QED
      BY <3>2
  <2>4. QED
    BY <2>2, <2>3
<1>4. Sized \in SUBSET Nat
  OBVIOUS
<1> HIDE DEF Sized
<1>5. Sized = Nat
  BY <1>2, <1>3, <1>4, SetOfAllNumbers
<1>6. QED
  BY <1>1, <1>5 DEF Sized

\* A finite set ordered by R has a last element.
LEMMA LastExists ==
  ASSUME NEW S, IsFiniteSet(S), S # {}, NEW R,
         \A x, y \in S : x # y => <<x, y>> \in R \/ <<y, x>> \in R,
         \A x, y, z \in S : <<x, y>> \in R /\ <<y, z>> \in R => <<x, z>> \in R
  PROVE  \E x \in S : \A y \in S \ {x} : <<y, x>> \in R
<1> DEFINE G == {s \in SUBSET S : s # {} => \E x \in s : \A y \in s \ {x} : <<y, x>> \in R}
<1>1. G \in SUBSET SUBSET S /\ {} \in G
  OBVIOUS
<1>2. ASSUME NEW s \in SUBSET S, s # {}, \A x \in s : s \ {x} \in G
      PROVE  s \in G
  <2>1. PICK e \in s : TRUE
    BY <1>2
  <2>2. CASE s \ {e} = {}
    BY <2>2
  <2>3. CASE s \ {e} # {}
    <3>1. PICK x \in s \ {e} : \A y \in (s \ {e}) \ {x} : <<y, x>> \in R
      BY <1>2, <2>3
    <3>2. CASE <<e, x>> \in R
      <4>1. \A y \in s \ {x} : <<y, x>> \in R
        BY <3>1, <3>2
      <4>2. QED
        BY <4>1
    <3>3. CASE <<x, e>> \in R
      <4>1. \A y \in s \ {e} : <<y, e>> \in R
        BY <3>1, <3>3
      <4>2. QED
        BY <4>1
    <3>4. QED
      BY <3>2, <3>3
  <2>4. QED
    BY <2>2, <2>3
<1> HIDE DEF G
<1>3. G = SUBSET S
  BY <1>1, <1>2, SetOfAllSubsets
<1>4. QED
  BY <1>3 DEF G

\* The largest of a finite set of integers is one of them and none is larger.
LEMMA MaxIsLargest ==
  ASSUME NEW S \in SUBSET Int, IsFiniteSet(S), S # {}
  PROVE  Max(S) \in S /\ \A x \in S : Max(S) >= x
<1> DEFINE R == {p \in Int \X Int : p[1] < p[2]}
<1>1. \A x, y \in Int : <<x, y>> \in R <=> x < y
  OBVIOUS
<1>2. \A x, y \in S : x # y => <<x, y>> \in R \/ <<y, x>> \in R
  BY <1>1
<1>3. \A x, y, z \in S : <<x, y>> \in R /\ <<y, z>> \in R => <<x, z>> \in R
  BY <1>1
<1> HIDE DEF R
<1>4. PICK x \in S : \A y \in S \ {x} : <<y, x>> \in R
  BY <1>2, <1>3, LastExists
<1>5. ASSUME NEW y \in S PROVE x >= y
  <2>1. x \in Int /\ y \in Int
    OBVIOUS
  <2>2. x = y \/ <<y, x>> \in R
    BY <1>4
  <2>3. QED
    BY <1>1, <2>1, <2>2
<1>6. QED
  BY <1>5 DEF Max

-----------------------------------------------------------------------------
(* Ranks.  Order is a set of pairs that orders the elements of S strictly.   *)

OrderedBy(S, Order) ==
  /\ \A x \in S : <<x, x>> \notin Order
  /\ \A x, y \in S : x # y => <<x, y>> \in Order \/ <<y, x>> \in Order
  /\ \A x, y, z \in S : <<x, y>> \in Order /\ <<y, z>> \in Order => <<x, z>> \in Order
Rank(S, Order, x) == Cardinality({y \in S : <<y, x>> \in Order})

\* Ranks agree with the order, are below the number of elements, and are different.
LEMMA RanksDiffer ==
  ASSUME NEW S, IsFiniteSet(S), NEW Order, OrderedBy(S, Order)
  PROVE  /\ Cardinality(S) \in Nat
         /\ \A x \in S : Rank(S, Order, x) \in 0..Cardinality(S) - 1
         /\ \A x, y \in S : <<x, y>> \in Order => Rank(S, Order, x) < Rank(S, Order, y)
         /\ \A x, y \in S : Rank(S, Order, x) = Rank(S, Order, y) => x = y
<1> DEFINE Before(x) == {y \in S : <<y, x>> \in Order}
<1>1. ASSUME NEW x \in S
      PROVE  /\ IsFiniteSet(Before(x)) /\ Cardinality(Before(x)) \in Nat
             /\ Cardinality(Before(x)) < Cardinality(S) /\ Cardinality(S) \in Nat
  <2>1. Before(x) \in SUBSET (S \ {x})
    BY DEF OrderedBy
  <2>2. /\ IsFiniteSet(S \ {x}) /\ Cardinality(S \ {x}) = Cardinality(S) - 1
        /\ Cardinality(S) \in Nat
    BY FS_RemoveElement, FS_CardinalityType
  <2> DEFINE b == Before(x)
             r == S \ {x}
  <2>3. b \in SUBSET r /\ IsFiniteSet(r)
    BY <2>1, <2>2
  <2> HIDE DEF b, r
  <2>4. IsFiniteSet(b) /\ Cardinality(b) <= Cardinality(r)
    BY <2>3, FS_Subset
  <2>5. Cardinality(b) \in Nat
    BY <2>4, FS_CardinalityType
  <2>6. QED
    BY <2>2, <2>4, <2>5 DEF b, r
<1>2. ASSUME NEW x \in S, NEW y \in S, <<x, y>> \in Order
      PROVE  Cardinality(Before(x)) < Cardinality(Before(y))
  <2>1. Before(x) \in SUBSET Before(y) /\ x \in Before(y) /\ x \notin Before(x)
    BY <1>2 DEF OrderedBy
  <2> DEFINE b == Before(x)
             r == Before(y)
  <2>2. b \in SUBSET r /\ IsFiniteSet(r) /\ b # r
    BY <1>1, <2>1
  <2>3. Cardinality(b) \in Nat /\ Cardinality(r) \in Nat
    BY <1>1
  <2> HIDE DEF b, r
  <2>4. Cardinality(b) <= Cardinality(r) /\ Cardinality(b) # Cardinality(r)
    BY <2>2, FS_Subset
  <2>5. Cardinality(b) < Cardinality(r)
    BY <2>3, <2>4
  <2>6. QED
    BY <2>5 DEF b, r
<1>3. \A x : Rank(S, Order, x) = Cardinality(Before(x))
  BY DEF Rank
<1> HIDE DEF Before
<1>4. \A x, y \in S : <<x, y>> \in Order => Rank(S, Order, x) < Rank(S, Order, y)
  BY <1>2, <1>3
<1>5. \A x \in S : Rank(S, Order, x) \in 0..Cardinality(S) - 1
  BY <1>1, <1>3
<1>6. ASSUME NEW x \in S, NEW y \in S, Rank(S, Order, x) = Rank(S, Order, y)
      PROVE  x = y
  <2> SUFFICES ASSUME x # y PROVE FALSE
    OBVIOUS
  <2>1. <<x, y>> \in Order \/ <<y, x>> \in Order
    BY DEF OrderedBy
  <2>2. Rank(S, Order, x) \in Int
    BY <1>5
  <2>3. QED
    BY <1>4, <1>6, <2>1, <2>2
<1>7. Cardinality(S) \in Nat
  BY FS_CardinalityType
<1>8. QED
  BY <1>4, <1>5, <1>6, <1>7

\* Every rank is taken.
LEMMA RanksAreTaken ==
  ASSUME NEW S, IsFiniteSet(S), NEW Order, OrderedBy(S, Order)
  PROVE  \A n \in 0..Cardinality(S) - 1 : \E x \in S : Rank(S, Order, x) = n
<1> DEFINE T == 0..Cardinality(S) - 1
           rank == [x \in S |-> Rank(S, Order, x)]
<1>1. /\ Cardinality(S) \in Nat
      /\ \A x \in S : Rank(S, Order, x) \in T
      /\ \A x, y \in S : Rank(S, Order, x) = Rank(S, Order, y) => x = y
  BY RanksDiffer
<1>2. rank \in Injection(S, T)
  BY <1>1 DEF Injection, IsInjective
<1>3. IsFiniteSet(T) /\ Cardinality(T) = Cardinality(S)
  BY <1>1, FS_Interval
<1> HIDE DEF T, rank
<1>4. rank \in Surjection(S, T)
  BY <1>2, <1>3, FS_Injection
<1>5. \A n \in T : \E x \in S : rank[x] = n
  BY <1>4 DEF Surjection
<1>6. QED
  BY <1>5 DEF T, rank

\* The first n ranks are those of n elements.
LEMMA FirstRanks ==
  ASSUME NEW S, IsFiniteSet(S), NEW Order, OrderedBy(S, Order), NEW n \in 0..Cardinality(S)
  PROVE  Cardinality({x \in S : Rank(S, Order, x) < n}) = n
<1> DEFINE A == {x \in S : Rank(S, Order, x) < n}
           T == 0..n - 1
           rank == [x \in A |-> Rank(S, Order, x)]
<1>1. /\ Cardinality(S) \in Nat
      /\ \A x \in S : Rank(S, Order, x) \in 0..Cardinality(S) - 1
      /\ \A x, y \in S : Rank(S, Order, x) = Rank(S, Order, y) => x = y
  BY RanksDiffer
<1>2. \A m \in 0..Cardinality(S) - 1 : \E x \in S : Rank(S, Order, x) = m
  BY RanksAreTaken
<1>3. n \in Nat /\ n <= Cardinality(S)
  BY <1>1
<1>4. \A x \in A : Rank(S, Order, x) \in T
  BY <1>1, <1>3
<1>5. rank \in Injection(A, T)
  BY <1>1, <1>4 DEF Injection, IsInjective
<1>6. ASSUME NEW m \in T PROVE \E x \in A : rank[x] = m
  <2>1. m \in 0..Cardinality(S) - 1 /\ m < n
    BY <1>1, <1>3
  <2>2. PICK x \in S : Rank(S, Order, x) = m
    BY <1>2, <2>1
  <2>3. x \in A
    BY <2>1, <2>2
  <2>4. QED
    BY <2>2, <2>3
<1>7. IsFiniteSet(T) /\ Cardinality(T) = n
  BY <1>3, FS_Interval
<1>8. rank \in [A -> T]
  BY <1>4
<1> HIDE DEF A, T, rank
<1>9. rank \in Surjection(A, T)
  BY <1>6, <1>8 DEF Surjection
<1>10. Cardinality(A) = Cardinality(T)
  BY <1>5, <1>7, <1>9, FS_Injection
<1>11. QED
  BY <1>7, <1>10 DEF A

-----------------------------------------------------------------------------
(* Folds.  it is the fold over the subsets of S of a step that is given the  *)
(* element pick names and the fold over the others.                          *)

Folds(it, S, base, pick, step) ==
  it = [s \in SUBSET S |-> IF s = {} THEN base ELSE step[<<pick[s], it[s \ {pick[s]}]>>]]

\* A fold over a finite set exists.
LEMMA FoldExists ==
  ASSUME NEW S, IsFiniteSet(S), NEW T, NEW base \in T, NEW step \in [S \X T -> T],
         NEW pick, \A s \in SUBSET S : s # {} => pick[s] \in s
  PROVE  \E it \in [SUBSET S -> T] : Folds(it, S, base, pick, step)
<1> DEFINE Small(n) == {s \in SUBSET S : Cardinality(s) <= n}
           Next1(it, s) == IF s = {} THEN base ELSE step[<<pick[s], it[s \ {pick[s]}]>>]
           Partial(it, n) == \A s \in Small(n) : it[s] \in T /\ it[s] = Next1(it, s)
           G == {n \in Nat : \E it : Partial(it, n)}
<1>1. \A s \in SUBSET S : IsFiniteSet(s) /\ Cardinality(s) \in Nat /\ Cardinality(s) <= Cardinality(S)
  BY FS_Subset, FS_CardinalityType
<1>2. ASSUME NEW s \in SUBSET S, s # {}
      PROVE  /\ pick[s] \in s /\ s \ {pick[s]} \in SUBSET S
             /\ Cardinality(s \ {pick[s]}) = Cardinality(s) - 1
  <2>1. pick[s] \in s /\ IsFiniteSet(s)
    BY <1>1, <1>2
  <2>2. QED
    BY <2>1, FS_RemoveElement
<1>3. 0 \in G
  <2>1. \A s \in Small(0) : s = {}
    BY <1>1, FS_EmptySet
  <2>2. Partial([s \in {{}} |-> base], 0)
    BY <2>1
  <2>3. QED
    BY <2>2
<1>4. ASSUME NEW n \in G PROVE n + 1 \in G
  <2>1. n \in Nat
    OBVIOUS
  <2>2. PICK it : Partial(it, n)
    OBVIOUS
  <2> DEFINE jt == [s \in SUBSET S |-> IF s \in Small(n) THEN it[s] ELSE Next1(it, s)]
  <2>3. ASSUME NEW s \in Small(n + 1), s # {}
        PROVE  s \ {pick[s]} \in Small(n)
    BY <1>1, <1>2, <2>1, <2>3
  <2>4. ASSUME NEW s \in Small(n)
        PROVE  jt[s] = it[s] /\ s \in SUBSET S /\ s \in Small(n + 1)
    <3>1. Cardinality(s) <= n + 1
      BY <1>1, <2>1
    <3>2. QED
      BY <3>1
  <2>5. ASSUME NEW s \in Small(n + 1)
        PROVE  jt[s] \in T /\ jt[s] = Next1(jt, s)
    <3>1. CASE s = {}
      <4>1. s \in Small(n)
        BY <2>1, <3>1, FS_EmptySet
      <4>2. QED
        BY <2>2, <2>4, <3>1, <4>1
    <3>2. CASE s # {}
      <4>1. s \ {pick[s]} \in Small(n)
        BY <2>3, <3>2
      <4>2. jt[s \ {pick[s]}] = it[s \ {pick[s]}] /\ it[s \ {pick[s]}] \in T
        BY <2>2, <2>4, <4>1
      <4>3. jt[s] = Next1(it, s)
        BY <2>2
      <4>4. Next1(jt, s) = Next1(it, s)
        BY <4>2
      <4>5. Next1(it, s) \in T
        BY <1>2, <3>2, <4>2
      <4>6. QED
        BY <4>3, <4>4, <4>5
    <3>3. QED
      BY <3>1, <3>2
  <2>6. Partial(jt, n + 1)
    BY <2>5
  <2>7. \E kt : Partial(kt, n + 1)
    <3> HIDE DEF jt, Partial
    <3>1. QED
      BY <2>6
  <2>8. QED
    <3> HIDE DEF Partial
    <3>1. QED
      BY <2>1, <2>7
<1>5. G \in SUBSET Nat
  OBVIOUS
<1>6. G = Nat
  <2> HIDE DEF G
  <2>1. QED
    BY <1>3, <1>4, <1>5, SetOfAllNumbers
<1>7. PICK it : Partial(it, Cardinality(S))
  BY <1>6, FS_CardinalityType
<1>8. Small(Cardinality(S)) = SUBSET S
  BY <1>1
<1> DEFINE jt == [s \in SUBSET S |-> it[s]]
<1>9. \A s \in SUBSET S : jt[s] \in T /\ jt[s] = Next1(jt, s)
  <2> TAKE s \in SUBSET S
  <2>1. it[s] \in T /\ it[s] = Next1(it, s)
    BY <1>7, <1>8
  <2>2. s # {} => jt[s \ {pick[s]}] = it[s \ {pick[s]}]
    OBVIOUS
  <2>3. QED
    BY <2>1, <2>2
<1>10. jt \in [SUBSET S -> T]
  BY <1>9
<1>11. Folds(jt, S, base, pick, step)
  <2>1. jt = [s \in SUBSET S |-> Next1(jt, s)]
    <3>1. jt = [s \in SUBSET S |-> jt[s]]
      OBVIOUS
    <3> HIDE DEF jt
    <3>2. QED
      BY <1>9, <3>1
  <2>2. QED
    BY <2>1 DEF Folds
<1>12. QED
  BY <1>10, <1>11


-----------------------------------------------------------------------------
(* Sums of a function's values. *)

SumsOf(it, f, S) ==
  /\ it[{}] = 0
  /\ \A s \in SUBSET S : SumFunctionOnSet(f, s) = it[s]
  /\ \A s \in SUBSET S : s # {} => \E x \in s : it[s] = f[x] + it[s \ {x}]

\* The library's sum over a set is that of some element and of the others'.
LEMMA SumUnfolds ==
  ASSUME NEW S, IsFiniteSet(S), NEW f, \A x \in S : f[x] \in Nat
  PROVE  \E it \in [SUBSET S -> Nat] : SumsOf(it, f, S)
<1> DEFINE pick == [s \in SUBSET S |-> CHOOSE x \in s : TRUE]
           step == [p \in S \X Nat |-> f[p[1]] + p[2]]
           Sum(it, A) == it = [s \in SUBSET A |-> IF s = {} THEN 0
                                 ELSE f[CHOOSE x \in s : TRUE] + it[s \ {CHOOSE x \in s : TRUE}]]
<1>1. \A s \in SUBSET S : s # {} => pick[s] \in s
  OBVIOUS
<1>2. step \in [S \X Nat -> Nat]
  OBVIOUS
<1>3. PICK it \in [SUBSET S -> Nat] : Folds(it, S, 0, pick, step)
  <2> HIDE DEF pick, step
  <2>1. QED
    BY <1>1, <1>2, FoldExists
<1>4. ASSUME NEW s \in SUBSET S
      PROVE  it[s] = IF s = {} THEN 0
                     ELSE f[CHOOSE x \in s : TRUE] + it[s \ {CHOOSE x \in s : TRUE}]
  <2>1. CASE s = {}
    BY <1>3, <2>1 DEF Folds
  <2>2. CASE s # {}
    <3>1. it[s] = step[<<pick[s], it[s \ {pick[s]}]>>]
      BY <1>3, <2>2 DEF Folds
    <3>2. pick[s] \in S /\ it[s \ {pick[s]}] \in Nat
      BY <1>1, <2>2
    <3>3. QED
      BY <2>2, <3>1, <3>2
  <2>3. QED
    BY <2>1, <2>2
<1>5. ASSUME NEW A \in SUBSET S
      PROVE  SumFunctionOnSet(f, A) = it[A]
  <2>1. SumFunctionOnSet(f, A) = (CHOOSE jt : Sum(jt, A))[A]
    BY DEF SumFunctionOnSet, FoldFunctionOnSet, MapThenFoldSet
  <2> DEFINE kt == [s \in SUBSET A |-> it[s]]
  <2>2. Sum(kt, A)
    <3>1. ASSUME NEW s \in SUBSET A
          PROVE  it[s] = IF s = {} THEN 0
                         ELSE f[CHOOSE x \in s : TRUE] + kt[s \ {CHOOSE x \in s : TRUE}]
      BY <1>4
    <3>2. kt = [s \in SUBSET A |-> IF s = {} THEN 0
                         ELSE f[CHOOSE x \in s : TRUE] + kt[s \ {CHOOSE x \in s : TRUE}]]
      BY <3>1
    <3>3. QED
      BY <3>2
  <2> DEFINE jt == CHOOSE jt : Sum(jt, A)
  <2>3. Sum(jt, A)
    <3> HIDE DEF kt
    <3>1. \E lt : Sum(lt, A)
      <4> HIDE DEF Sum
      <4>1. QED
        BY <2>2
    <3>2. QED
      <4> HIDE DEF Sum
      <4>1. QED
        BY <3>1
  <2>4. ASSUME NEW s \in SUBSET A
        PROVE  jt[s] = IF s = {} THEN 0
                       ELSE f[CHOOSE x \in s : TRUE] + jt[s \ {CHOOSE x \in s : TRUE}]
    <3> HIDE DEF jt
    <3>1. QED
      BY <2>3
  <2> DEFINE G == {s \in SUBSET A : jt[s] = it[s]}
  <2> HIDE DEF jt
  <2>5. {} \in G
    BY <1>4, <2>4
  <2>6. ASSUME NEW s \in SUBSET A, s # {}, \A x \in s : s \ {x} \in G
        PROVE  s \in G
    <3> DEFINE c == CHOOSE x \in s : TRUE
    <3>1. c \in s
      BY <2>6
    <3>2. jt[s \ {c}] = it[s \ {c}]
      BY <2>6, <3>1
    <3>3. jt[s] = f[c] + jt[s \ {c}]
      BY <2>4, <2>6
    <3>4. it[s] = f[c] + it[s \ {c}]
      BY <1>4, <2>6
    <3>5. QED
      BY <3>2, <3>3, <3>4
  <2>7. G \in SUBSET SUBSET A /\ IsFiniteSet(A)
    BY FS_Subset
  <2>8. G = SUBSET A
    <3> HIDE DEF G
    <3>1. QED
      BY <2>5, <2>6, <2>7, SetOfAllSubsets
  <2>9. jt[A] = it[A]
    BY <2>8
  <2>10. QED
    BY <2>1, <2>9 DEF jt
<1>6. it[{}] = 0
  BY <1>4
<1>7. ASSUME NEW s \in SUBSET S, s # {}
      PROVE  \E x \in s : it[s] = f[x] + it[s \ {x}]
  <2> DEFINE c == CHOOSE x \in s : TRUE
  <2>1. c \in s /\ it[s] = f[c] + it[s \ {c}]
    BY <1>4, <1>7
  <2> HIDE DEF c
  <2>2. QED
    BY <2>1
<1>8. SumsOf(it, f, S)
  BY <1>5, <1>6, <1>7 DEF SumsOf
<1>9. QED
  BY <1>8

\* A sum is a natural number, nothing sums up to 0, and any element may be the first.
LEMMA SumOf ==
  ASSUME NEW S, IsFiniteSet(S), NEW f, \A x \in S : f[x] \in Nat
  PROVE  /\ SumFunctionOnSet(f, S) \in Nat
         /\ SumFunctionOnSet(f, {}) = 0
         /\ \A x \in S : SumFunctionOnSet(f, S) = f[x] + SumFunctionOnSet(f, S \ {x})
<1>1. PICK it \in [SUBSET S -> Nat] : SumsOf(it, f, S)
  BY SumUnfolds
<1> DEFINE G == {s \in SUBSET S : \A x \in s : it[s] = f[x] + it[s \ {x}]}
<1>2. G \in SUBSET SUBSET S /\ {} \in G
  OBVIOUS
<1>3. ASSUME NEW s \in SUBSET S, s # {}, \A x \in s : s \ {x} \in G
      PROVE  s \in G
  <2> SUFFICES ASSUME NEW x \in s PROVE it[s] = f[x] + it[s \ {x}]
    OBVIOUS
  <2>1. PICK c \in s : it[s] = f[c] + it[s \ {c}]
    BY <1>1, <1>3 DEF SumsOf
  <2>2. CASE x = c
    BY <2>1, <2>2
  <2>3. CASE x # c
    <3>1. it[s \ {c}] = f[x] + it[(s \ {c}) \ {x}]
      BY <1>3, <2>1, <2>3
    <3>2. it[s \ {x}] = f[c] + it[(s \ {x}) \ {c}]
      BY <1>3, <2>1, <2>3
    <3>3. (s \ {c}) \ {x} = (s \ {x}) \ {c}
      OBVIOUS
    <3> DEFINE p == f[x]
               q == f[c]
               r == it[(s \ {x}) \ {c}]
    <3>4. p \in Nat /\ q \in Nat /\ r \in Nat
      BY <2>1
    <3>5. it[s] = q + (p + r) /\ it[s \ {x}] = q + r
      BY <2>1, <3>1, <3>2, <3>3
    <3>6. q + (p + r) = p + (q + r)
      <4> HIDE DEF p, q, r
      <4>1. QED
        BY <3>4
    <3>7. QED
      BY <3>5, <3>6
  <2>4. QED
    BY <2>2, <2>3
<1>4. G = SUBSET S
  <2> HIDE DEF G
  <2>1. QED
    BY <1>2, <1>3, SetOfAllSubsets
<1>5. SumFunctionOnSet(f, S) = it[S] /\ it[S] \in Nat
  BY <1>1 DEF SumsOf
<1>6. SumFunctionOnSet(f, {}) = 0
  BY <1>1 DEF SumsOf
<1>7. ASSUME NEW x \in S PROVE SumFunctionOnSet(f, S) = f[x] + SumFunctionOnSet(f, S \ {x})
  <2>1. SumFunctionOnSet(f, S \ {x}) = it[S \ {x}]
    BY <1>1 DEF SumsOf
  <2>2. S \in G
    BY <1>4
  <2>3. it[S] = f[x] + it[S \ {x}]
    BY <2>2
  <2>4. QED
    BY <1>5, <2>1, <2>3
<1>8. QED
  BY <1>5, <1>6, <1>7

\* Sums grow with the set and with the values.
LEMMA SumGrows ==
  ASSUME NEW S, IsFiniteSet(S), NEW f, NEW g, \A x \in S : f[x] \in Nat,
         NEW R \in SUBSET S, \A x \in R : g[x] \in Nat /\ g[x] <= f[x]
  PROVE  SumFunctionOnSet(g, R) <= SumFunctionOnSet(f, S)
<1> DEFINE G == {s \in SUBSET S : SumFunctionOnSet(g, s \cap R) <= SumFunctionOnSet(f, s)}
<1>1. \A s \in SUBSET S : IsFiniteSet(s) /\ IsFiniteSet(s \cap R)
  BY FS_Subset
<1>2. {} \in G
  <2>1. SumFunctionOnSet(f, {}) = 0
    BY SumOf
  <2>2. SumFunctionOnSet(g, {}) = 0
    BY FS_EmptySet, SumOf
  <2>3. {} \cap R = {}
    OBVIOUS
  <2>4. QED
    BY <2>1, <2>2, <2>3
<1>3. ASSUME NEW s \in SUBSET S, s # {}, \A x \in s : s \ {x} \in G
      PROVE  s \in G
  <2>1. PICK x \in s : TRUE
    BY <1>3
  <2>2. SumFunctionOnSet(g, (s \ {x}) \cap R) <= SumFunctionOnSet(f, s \ {x})
    BY <1>3
  <2>3. /\ SumFunctionOnSet(f, s) = f[x] + SumFunctionOnSet(f, s \ {x})
        /\ SumFunctionOnSet(f, s) \in Nat
    BY <1>1, SumOf
  <2>4. SumFunctionOnSet(f, s \ {x}) \in Nat /\ f[x] \in Nat
    <3>1. IsFiniteSet(s \ {x}) /\ \A y \in s \ {x} : f[y] \in Nat
      BY <1>1
    <3>2. QED
      BY <3>1, SumOf
  <2>5. SumFunctionOnSet(g, (s \ {x}) \cap R) \in Nat
    <3>1. IsFiniteSet((s \ {x}) \cap R) /\ \A y \in (s \ {x}) \cap R : g[y] \in Nat
      BY <1>1
    <3>2. QED
      BY <3>1, SumOf
  <2>6. CASE x \in R
    <3>1. SumFunctionOnSet(g, s \cap R) = g[x] + SumFunctionOnSet(g, (s \cap R) \ {x})
      <4>1. IsFiniteSet(s \cap R) /\ \A y \in s \cap R : g[y] \in Nat
        BY <1>1
      <4>2. QED
        BY <2>6, <4>1, SumOf
    <3>2. (s \cap R) \ {x} = (s \ {x}) \cap R
      OBVIOUS
    <3>3. g[x] \in Nat /\ g[x] <= f[x]
      BY <2>6
    <3> DEFINE p == SumFunctionOnSet(g, (s \ {x}) \cap R)
               q == SumFunctionOnSet(f, s \ {x})
    <3>4. g[x] + p <= f[x] + q
      <4>1. p \in Nat /\ q \in Nat /\ p <= q
        BY <2>2, <2>4, <2>5
      <4> HIDE DEF p, q
      <4>2. QED
        BY <2>4, <3>3, <4>1
    <3>5. SumFunctionOnSet(g, s \cap R) = g[x] + p /\ SumFunctionOnSet(f, s) = f[x] + q
      BY <2>3, <3>1, <3>2
    <3>6. QED
      BY <3>4, <3>5
  <2>7. CASE x \notin R
    <3>1. (s \ {x}) \cap R = s \cap R
      BY <2>7
    <3>2. QED
      BY <2>2, <2>3, <2>4, <2>5, <3>1
  <2>8. QED
    BY <2>6, <2>7
<1>4. G \in SUBSET SUBSET S
  OBVIOUS
<1>5. G = SUBSET S
  <2> HIDE DEF G
  <2>1. QED
    BY <1>2, <1>3, <1>4, SetOfAllSubsets
<1>6. S \cap R = R /\ S \in G
  BY <1>5
<1>7. QED
  BY <1>6

\* The sum over two sets with nothing in common.
LEMMA SumOfTwo ==
  ASSUME NEW A, NEW B, IsFiniteSet(A), IsFiniteSet(B), A \cap B = {},
         NEW f, \A x \in A \cup B : f[x] \in Nat
  PROVE  SumFunctionOnSet(f, A \cup B) = SumFunctionOnSet(f, A) + SumFunctionOnSet(f, B)
<1> DEFINE G == {s \in SUBSET B : SumFunctionOnSet(f, A \cup s)
                                    = SumFunctionOnSet(f, A) + SumFunctionOnSet(f, s)}
<1>1. ASSUME NEW s \in SUBSET B
      PROVE  /\ IsFiniteSet(s) /\ IsFiniteSet(A \cup s)
             /\ SumFunctionOnSet(f, s) \in Nat
             /\ SumFunctionOnSet(f, A \cup s) \in Nat
             /\ \A x \in s : SumFunctionOnSet(f, s) = f[x] + SumFunctionOnSet(f, s \ {x})
             /\ \A x \in A \cup s : SumFunctionOnSet(f, A \cup s)
                                       = f[x] + SumFunctionOnSet(f, (A \cup s) \ {x})
  <2>1. IsFiniteSet(s) /\ IsFiniteSet(A \cup s)
    BY FS_Subset, FS_Union
  <2>2. (\A x \in s : f[x] \in Nat) /\ (\A x \in A \cup s : f[x] \in Nat)
    OBVIOUS
  <2>3. SumFunctionOnSet(f, s) \in Nat
    /\ \A x \in s : SumFunctionOnSet(f, s) = f[x] + SumFunctionOnSet(f, s \ {x})
    BY <2>1, <2>2, SumOf
  <2> DEFINE u == A \cup s
  <2>4. IsFiniteSet(u) /\ \A x \in u : f[x] \in Nat
    BY <2>1, <2>2
  <2> HIDE DEF u
  <2>5. SumFunctionOnSet(f, u) \in Nat
    /\ \A x \in u : SumFunctionOnSet(f, u) = f[x] + SumFunctionOnSet(f, u \ {x})
    BY <2>4, SumOf
  <2>6. QED
    BY <2>1, <2>3, <2>5 DEF u
<1>2. SumFunctionOnSet(f, A) \in Nat
  <2>1. \A x \in A : f[x] \in Nat
    OBVIOUS
  <2>2. QED
    BY <2>1, SumOf
<1>3. {} \in G
  <2>1. SumFunctionOnSet(f, {}) = 0
    BY FS_EmptySet, SumOf
  <2>2. A \cup {} = A
    OBVIOUS
  <2>3. QED
    BY <1>2, <2>1, <2>2
<1>4. ASSUME NEW s \in SUBSET B, s # {}, \A x \in s : s \ {x} \in G
      PROVE  s \in G
  <2>1. PICK x \in s : TRUE
    BY <1>4
  <2>2. SumFunctionOnSet(f, A \cup (s \ {x})) = SumFunctionOnSet(f, A) + SumFunctionOnSet(f, s \ {x})
    BY <1>4
  <2>3. (A \cup s) \ {x} = A \cup (s \ {x})
    OBVIOUS
  <2>4. /\ SumFunctionOnSet(f, s) = f[x] + SumFunctionOnSet(f, s \ {x})
        /\ SumFunctionOnSet(f, A \cup s) = f[x] + SumFunctionOnSet(f, A \cup (s \ {x}))
    <3>1. SumFunctionOnSet(f, s) = f[x] + SumFunctionOnSet(f, s \ {x})
      BY <1>1
    <3>2. x \in A \cup s
      OBVIOUS
    <3>3. SumFunctionOnSet(f, A \cup s) = f[x] + SumFunctionOnSet(f, (A \cup s) \ {x})
      BY <1>1, <3>2
    <3>4. QED
      BY <2>3, <3>1, <3>3
  <2>5. f[x] \in Nat /\ SumFunctionOnSet(f, s \ {x}) \in Nat
    BY <1>1
  <2>6. QED
    BY <1>2, <2>2, <2>4, <2>5
<1>5. G \in SUBSET SUBSET B
  OBVIOUS
<1>6. G = SUBSET B
  <2> HIDE DEF G
  <2>1. QED
    BY <1>3, <1>4, <1>5, SetOfAllSubsets
<1>7. B \in G
  BY <1>6
<1>8. QED
  BY <1>7

AddsUp(it, f, S) ==
  /\ it[{}] = 0
  /\ \A s \in SUBSET S : s # {} => \E x \in s : it[s] = f[x] + it[s \ {x}]

\* What is 0 for no elements and grows by an element's value with each element is
\* the sum.
LEMMA SumIs ==
  ASSUME NEW S, IsFiniteSet(S), NEW f, \A x \in S : f[x] \in Nat, NEW it, AddsUp(it, f, S)
  PROVE  SumFunctionOnSet(f, S) = it[S]
<1> DEFINE G == {s \in SUBSET S : SumFunctionOnSet(f, s) = it[s]}
<1>1. \A s \in SUBSET S : IsFiniteSet(s) /\ \A x \in s : f[x] \in Nat
  BY FS_Subset
<1>2. {} \in G
  <2>1. SumFunctionOnSet(f, {}) = 0
    BY SumOf
  <2>2. QED
    BY <2>1 DEF AddsUp
<1>3. ASSUME NEW s \in SUBSET S, s # {}, \A x \in s : s \ {x} \in G
      PROVE  s \in G
  <2>1. PICK x \in s : it[s] = f[x] + it[s \ {x}]
    BY <1>3 DEF AddsUp
  <2>2. SumFunctionOnSet(f, s) = f[x] + SumFunctionOnSet(f, s \ {x})
    BY <1>1, SumOf
  <2>3. SumFunctionOnSet(f, s \ {x}) = it[s \ {x}]
    BY <1>3
  <2>4. QED
    BY <2>1, <2>2, <2>3
<1>4. G \in SUBSET SUBSET S
  OBVIOUS
<1>5. G = SUBSET S
  <2> HIDE DEF G
  <2>1. QED
    BY <1>2, <1>3, <1>4, SetOfAllSubsets
<1>6. S \in G
  BY <1>5
<1>7. QED
  BY <1>6

\* Sums of the same values are the same.
LEMMA SumSame ==
  ASSUME NEW S, IsFiniteSet(S), NEW f, NEW g, \A x \in S : f[x] \in Nat /\ g[x] = f[x]
  PROVE  SumFunctionOnSet(g, S) = SumFunctionOnSet(f, S)
<1>1. /\ SumFunctionOnSet(g, S) <= SumFunctionOnSet(f, S)
      /\ SumFunctionOnSet(f, S) <= SumFunctionOnSet(g, S)
  BY SumGrows
<1>2. SumFunctionOnSet(g, S) \in Nat /\ SumFunctionOnSet(f, S) \in Nat
  BY SumOf
<1>3. QED
  BY <1>1, <1>2

\* What has no value may be left out.
LEMMA SumOfSome ==
  ASSUME NEW S, IsFiniteSet(S), NEW f, \A x \in S : f[x] \in Nat,
         NEW A \in SUBSET S, \A x \in S \ A : f[x] = 0
  PROVE  SumFunctionOnSet(f, S) = SumFunctionOnSet(f, A)
<1> DEFINE B == S \ A
           it == [s \in SUBSET B |-> 0]
<1>1. IsFiniteSet(A) /\ IsFiniteSet(B) /\ A \cap B = {} /\ A \cup B = S
  BY FS_Subset
<1>2. \A x \in B : f[x] \in Nat
  OBVIOUS
<1>3. it[{}] = 0 /\ it[B] = 0
  OBVIOUS
<1>4. ASSUME NEW s \in SUBSET B, s # {}
      PROVE  \E x \in s : it[s] = f[x] + it[s \ {x}]
  <2>1. PICK x \in s : TRUE
    BY <1>4
  <2>2. f[x] = 0 /\ it[s] = 0 /\ it[s \ {x}] = 0
    BY <2>1
  <2>3. QED
    BY <2>2
<1>5. SumFunctionOnSet(f, B) = 0
  <2> HIDE DEF it, B
  <2>1. AddsUp(it, f, B)
    BY <1>3, <1>4 DEF AddsUp
  <2>2. SumFunctionOnSet(f, B) = it[B]
    BY <1>1, <1>2, <2>1, SumIs
  <2>3. QED
    BY <1>3, <2>2
<1>6. SumFunctionOnSet(f, A \cup B) = SumFunctionOnSet(f, A) + SumFunctionOnSet(f, B)
  <2>1. \A x \in A \cup B : f[x] \in Nat
    OBVIOUS
  <2> HIDE DEF B
  <2>2. QED
    BY <1>1, <2>1, SumOfTwo
<1>7. SumFunctionOnSet(f, A) \in Nat
  <2>1. \A x \in A : f[x] \in Nat
    OBVIOUS
  <2>2. QED
    BY <1>1, <2>1, SumOf
<1>8. SumFunctionOnSet(f, S) = SumFunctionOnSet(f, A \cup B)
  BY <1>1
<1> HIDE DEF B
<1>9. QED
  BY <1>5, <1>6, <1>7, <1>8

\* The values times a constant, added to those of another function.
LEMMA SumLinear ==
  ASSUME NEW S, IsFiniteSet(S), NEW f, NEW g, NEW h, NEW c \in Nat,
         \A x \in S : f[x] \in Nat /\ g[x] \in Nat /\ h[x] = c * f[x] + g[x]
  PROVE  SumFunctionOnSet(h, S) = c * SumFunctionOnSet(f, S) + SumFunctionOnSet(g, S)
<1> DEFINE it == [s \in SUBSET S |-> c * SumFunctionOnSet(f, s) + SumFunctionOnSet(g, s)]
<1>1. \A s \in SUBSET S : IsFiniteSet(s)
  BY FS_Subset
<1>2. \A x \in S : h[x] \in Nat
  OBVIOUS
<1>3. it[{}] = 0
  <2>1. SumFunctionOnSet(f, {}) = 0 /\ SumFunctionOnSet(g, {}) = 0
    BY FS_EmptySet, SumOf
  <2>2. it[{}] = c * 0 + 0
    BY <2>1
  <2>3. QED
    BY <2>2
<1>4. ASSUME NEW s \in SUBSET S, s # {}
      PROVE  \E x \in s : it[s] = h[x] + it[s \ {x}]
  <2>1. PICK x \in s : TRUE
    BY <1>4
  <2>2. \A y \in s : f[y] \in Nat /\ g[y] \in Nat
    OBVIOUS
  <2>3. /\ SumFunctionOnSet(f, s) = f[x] + SumFunctionOnSet(f, s \ {x})
        /\ SumFunctionOnSet(g, s) = g[x] + SumFunctionOnSet(g, s \ {x})
    BY <1>1, <2>2, SumOf
  <2>4. SumFunctionOnSet(f, s \ {x}) \in Nat /\ SumFunctionOnSet(g, s \ {x}) \in Nat
    <3>1. IsFiniteSet(s \ {x}) /\ \A y \in s \ {x} : f[y] \in Nat /\ g[y] \in Nat
      BY <1>1
    <3>2. QED
      BY <3>1, SumOf
  <2> DEFINE p == SumFunctionOnSet(f, s \ {x})
             q == SumFunctionOnSet(g, s \ {x})
  <2>5. it[s] = c * (f[x] + p) + (g[x] + q) /\ it[s \ {x}] = c * p + q
    BY <2>3
  <2>6. h[x] = c * f[x] + g[x] /\ f[x] \in Nat /\ g[x] \in Nat
    OBVIOUS
  <2> HIDE DEF p, q, it
  <2>7. p \in Nat /\ q \in Nat
    BY <2>4 DEF p, q
  <2>8. \A u, v \in Nat : c * (u + v) = c * u + c * v
    OBVIOUS
  <2>9. c * (f[x] + p) = c * f[x] + c * p
    BY <2>6, <2>7, <2>8
  <2>10. c * f[x] \in Nat /\ c * p \in Nat
    BY <2>6, <2>7
  <2>11. it[s] = h[x] + it[s \ {x}]
    BY <2>5, <2>6, <2>7, <2>9, <2>10
  <2>12. QED
    BY <2>11
<1>5. SumFunctionOnSet(h, S) = it[S]
  <2> HIDE DEF it
  <2>1. AddsUp(it, h, S)
    BY <1>3, <1>4 DEF AddsUp
  <2>2. QED
    BY <1>2, <2>1, SumIs
<1>6. QED
  BY <1>5

\* A sum of ones counts.
LEMMA SumCounts ==
  ASSUME NEW S, IsFiniteSet(S), NEW B \in SUBSET S, NEW f,
         \A x \in S : f[x] = IF x \in B THEN 1 ELSE 0
  PROVE  SumFunctionOnSet(f, S) = Cardinality(B)
<1> DEFINE it == [s \in SUBSET S |-> Cardinality(s \cap B)]
<1>1. \A s \in SUBSET S : IsFiniteSet(s \cap B) /\ Cardinality(s \cap B) \in Nat
  BY FS_Subset, FS_CardinalityType
<1>2. \A x \in S : f[x] \in Nat
  OBVIOUS
<1>3. it[{}] = 0
  BY FS_EmptySet
<1>4. ASSUME NEW s \in SUBSET S, s # {}
      PROVE  \E x \in s : it[s] = f[x] + it[s \ {x}]
  <2>1. PICK x \in s : TRUE
    BY <1>4
  <2> DEFINE t == s \cap B
  <2>2. (s \ {x}) \cap B = t \ {x} /\ (x \in t <=> x \in B) /\ IsFiniteSet(t)
    BY <1>1, <2>1
  <2>3. it[s \ {x}] = IF x \in B THEN Cardinality(s \cap B) - 1 ELSE Cardinality(s \cap B)
    <3>1. it[s \ {x}] = Cardinality(t \ {x})
      BY <2>2
    <3> HIDE DEF t, it
    <3>2. Cardinality(t \ {x}) = IF x \in t THEN Cardinality(t) - 1 ELSE Cardinality(t)
      BY <2>2, FS_RemoveElement
    <3>3. QED
      BY <2>2, <3>1, <3>2 DEF t
  <2>4. it[s] = Cardinality(s \cap B) /\ Cardinality(s \cap B) \in Nat
    BY <1>1
  <2>5. f[x] = IF x \in B THEN 1 ELSE 0
    OBVIOUS
  <2>6. it[s] = f[x] + it[s \ {x}]
    BY <2>3, <2>4, <2>5
  <2>7. QED
    BY <2>6
<1>5. it[S] = Cardinality(B)
  <2>1. S \cap B = B
    OBVIOUS
  <2>2. QED
    BY <2>1
<1>6. SumFunctionOnSet(f, S) = it[S]
  <2> HIDE DEF it
  <2>1. AddsUp(it, f, S)
    BY <1>3, <1>4 DEF AddsUp
  <2>2. QED
    BY <1>2, <2>1, SumIs
<1>7. QED
  BY <1>5, <1>6

KeyIs(I, key, k)   == {i \in I : key[i] = k}
KeyIsIn(I, key, K) == {i \in I : key[i] \in K}

\* Values that are grouped by their keys add up to the values of the keys.
LEMMA SumByKey ==
  ASSUME NEW I, IsFiniteSet(I), NEW f, \A i \in I : f[i] \in Nat, NEW key,
         NEW K, IsFiniteSet(K), NEW F,
         \A k \in K : F[k] = SumFunctionOnSet(f, KeyIs(I, key, k))
  PROVE  SumFunctionOnSet(F, K) = SumFunctionOnSet(f, KeyIsIn(I, key, K))
<1> USE DEF KeyIs, KeyIsIn
<1> DEFINE Of(k) == {i \in I : key[i] = k}
           Within(s) == {i \in I : key[i] \in s}
           it == [s \in SUBSET K |-> SumFunctionOnSet(f, Within(s))]
<1>1. \A k : IsFiniteSet(Of(k)) /\ \A i \in Of(k) : f[i] \in Nat
  BY FS_Subset
<1>2. \A s : IsFiniteSet(Within(s)) /\ \A i \in Within(s) : f[i] \in Nat
  BY FS_Subset
<1>3. \A k \in K : F[k] \in Nat /\ F[k] = SumFunctionOnSet(f, Of(k))
  <2> TAKE k \in K
  <2>1. F[k] = SumFunctionOnSet(f, Of(k))
    OBVIOUS
  <2> HIDE DEF Of
  <2>2. QED
    BY <1>1, <2>1, SumOf
<1>4. it[{}] = 0
  <2>1. Within({}) = {}
    OBVIOUS
  <2>2. SumFunctionOnSet(f, {}) = 0
    BY FS_EmptySet, SumOf
  <2>3. QED
    BY <2>1, <2>2
<1>5. ASSUME NEW s \in SUBSET K, s # {}
      PROVE  \E k \in s : it[s] = F[k] + it[s \ {k}]
  <2>1. PICK k \in s : TRUE
    BY <1>5
  <2>2. Within(s) = Of(k) \cup Within(s \ {k}) /\ Of(k) \cap Within(s \ {k}) = {}
    OBVIOUS
  <2>3. it[s] = SumFunctionOnSet(f, Within(s))
        /\ it[s \ {k}] = SumFunctionOnSet(f, Within(s \ {k}))
    OBVIOUS
  <2> DEFINE p == Of(k)
             q == Within(s \ {k})
  <2>4. /\ IsFiniteSet(p) /\ IsFiniteSet(q) /\ p \cap q = {} /\ Within(s) = p \cup q
        /\ \A i \in p \cup q : f[i] \in Nat
    BY <1>1, <1>2, <2>2
  <2>5. F[k] = SumFunctionOnSet(f, p)
    BY <1>3
  <2> HIDE DEF p
  <2>6. it[s \ {k}] = SumFunctionOnSet(f, q)
    BY <2>3
  <2> HIDE DEF q
  <2>7. SumFunctionOnSet(f, p \cup q) = SumFunctionOnSet(f, p) + SumFunctionOnSet(f, q)
    BY <2>4, SumOfTwo
  <2> HIDE DEF it, Within
  <2>8. QED
    BY <2>3, <2>4, <2>5, <2>6, <2>7
<1>6. it[K] = SumFunctionOnSet(f, Within(K))
  OBVIOUS
<1>7. SumFunctionOnSet(F, K) = it[K]
  <2> HIDE DEF it
  <2>1. AddsUp(it, F, K)
    BY <1>4, <1>5 DEF AddsUp
  <2>2. QED
    BY <1>3, <2>1, SumIs
<1>8. QED
  BY <1>6, <1>7

-----------------------------------------------------------------------------
(* Sequences. *)

\* A sequence without one of its elements.
LEMMA WithoutOne ==
  ASSUME NEW S, NEW s \in Seq(S), NEW n \in 1..Len(s)
  PROVE  /\ RemoveAt(s, n) \in Seq(S)
         /\ Len(RemoveAt(s, n)) = Len(s) - 1
         /\ \A k \in 1..Len(s) - 1 :
              RemoveAt(s, n)[k] = IF k < n THEN s[k] ELSE s[k + 1]
<1> DEFINE p == SubSeq(s, 1, n - 1)
           q == SubSeq(s, n + 1, Len(s))
<1>1. Len(s) \in Nat /\ n \in Nat /\ n >= 1 /\ n <= Len(s)
  OBVIOUS
<1>2. /\ p \in Seq(S) /\ Len(p) = n - 1
      /\ \A k \in 1..n - 1 : p[k] = s[k]
  <2>1. \A i \in 1..n - 1 : s[i] \in S
    BY <1>1
  <2>2. QED
    BY <1>1, <2>1, SubSeqProperties
<1>3. /\ q \in Seq(S) /\ Len(q) = Len(s) - n
      /\ \A k \in 1..Len(s) - n : q[k] = s[n + k]
  <2>1. \A i \in n + 1..Len(s) : s[i] \in S
    BY <1>1
  <2>2. /\ q \in Seq(S)
        /\ Len(q) = IF n + 1 <= Len(s) THEN Len(s) - (n + 1) + 1 ELSE 0
        /\ \A k \in 1..Len(s) - (n + 1) + 1 : q[k] = s[n + 1 + k - 1]
    BY <1>1, <2>1, SubSeqProperties
  <2> HIDE DEF q
  <2>3. \A k \in 1..Len(s) - n : k \in 1..Len(s) - (n + 1) + 1 /\ n + 1 + k - 1 = n + k
    BY <1>1
  <2>4. QED
    BY <1>1, <2>2, <2>3
<1>4. RemoveAt(s, n) = p \o q
  BY DEF RemoveAt
<1> HIDE DEF p, q
<1>5. /\ p \o q \in Seq(S)
      /\ Len(p \o q) = Len(p) + Len(q)
      /\ \A k \in 1..Len(p) + Len(q) : (p \o q)[k] = IF k <= Len(p) THEN p[k] ELSE q[k - Len(p)]
  BY <1>2, <1>3, ConcatProperties
<1>6. QED
  BY <1>1, <1>2, <1>3, <1>4, <1>5

-----------------------------------------------------------------------------
(* Quotients. *)

\* What a division by R leaves.
LEMMA DivisionIs ==
  ASSUME NEW a \in Nat, NEW R \in Nat, R > 0
  PROVE  /\ a \div R \in Nat
         /\ a % R \in Nat /\ a % R < R
         /\ a = R * (a \div R) + (a % R)
<1>1. a \div R \in Int /\ a \div R >= 0
  OBVIOUS
<1>2. a % R \in Int /\ a % R >= 0 /\ a % R < R
  OBVIOUS
<1>3. a = R * (a \div R) + (a % R)
  OBVIOUS
<1>4. QED
  BY <1>1, <1>2, <1>3

\* A factor can be taken away.
LEMMA FactorLess ==
  ASSUME NEW R \in Nat, R > 0, NEW x \in Int, NEW y \in Int
  PROVE  /\ R * x <= R * y => x <= y
         /\ R * x < R * y => x < y
         /\ x <= y => R * x <= R * y
<1>1. ASSUME x > y PROVE R * x > R * y
  BY <1>1
<1>2. ASSUME x <= y PROVE R * x <= R * y
  BY <1>2
<1>3. R * x \in Int /\ R * y \in Int
  OBVIOUS
<1>4. QED
  BY <1>1, <1>2, <1>3
=============================================================================
