----------------------------- MODULE DataLemmas -----------------------------
(***************************************************************************)
(* Facts about numbers, sums and sequences, of no component in particular, *)
(* on which the proofs about several of them rest.                         *)
(***************************************************************************)
EXTENDS Integers, Sequences, FiniteSetsExt, FiniteSetTheorems,
        SequenceTheorems, WellFoundedInduction, TLAPS

-----------------------------------------------------------------------------
(* Induction.  The library's theorems on it take an operator, which the    *)
(* provers cannot instantiate; these take a set.                           *)
Less == {p \in Nat \X Nat : p[1] < p[2]}

(* The natural numbers have no infinite descent.                           *)
LEMMA LessIsWellFounded == IsWellFoundedOn(Less, Nat)
  <1>1. Less = OpToRel(<, Nat)
    BY DEF Less, OpToRel
  <1> QED
    BY <1>1, NatLessThanWellFounded

(* A set of natural numbers that is not empty has a least one.             *)
LEMMA LeastNumber ==
  ASSUME NEW T, T \subseteq Nat, T # {}
  PROVE  \E x \in T : \A y \in T : x <= y
  <1>1. PICK x \in T : \A y \in T : <<y, x>> \notin Less
    BY LessIsWellFounded, WFMin
  <1>2. \A y \in T : ~ (y < x)
    BY <1>1 DEF Less
  <1> QED
    BY <1>2

(* A set that has 0, and with each number the next, has all of them.       *)
LEMMA SetInduction ==
  ASSUME NEW S, 0 \in S, \A n \in Nat : n \in S => n + 1 \in S
  PROVE  Nat \subseteq S
  <1> DEFINE T == Nat \ S
  <1> SUFFICES ASSUME T # {} PROVE FALSE
    OBVIOUS
  <1>1. T \subseteq Nat
    OBVIOUS
  <1> HIDE DEF T
  <1>2. PICK x \in T : \A y \in T : x <= y
    BY <1>1, LeastNumber
  <1> USE DEF T
  <1>3. x - 1 \in Nat
    BY <1>2
  <1>4. x - 1 \in S
    BY <1>2, <1>3
  <1>5. x - 1 + 1 \in S
    BY <1>3, <1>4
  <1> QED
    BY <1>2, <1>5

-----------------------------------------------------------------------------
(* Sums.  The sum of f over S counts its units: a set of pairs, whose      *)
(* cardinality the library's theorems are about.                           *)
Total(f, S) == MapThenSumSet(LAMBDA x : f[x], S)
Units(f, S) == {p \in S \X Nat : p[2] < f[p[1]]}

(* The n units of x from the m-th on.                                      *)
UnitsOf(x, m, n) == {x} \X (m .. m + n - 1)

(* The units of one element.                                               *)
LEMMA UnitsOfOne ==
  ASSUME NEW x, NEW m \in Nat, NEW n \in Nat
  PROVE  IsFiniteSet(UnitsOf(x, m, n)) /\ Cardinality(UnitsOf(x, m, n)) = n
  <1> DEFINE I == m .. m + n - 1
  <1>1. IsFiniteSet({x}) /\ Cardinality({x}) = 1
    BY FS_Singleton
  <1>2. IsFiniteSet(I) /\ Cardinality(I) = n
    BY FS_Interval
  <1> HIDE DEF I
  <1>3. /\ IsFiniteSet({x} \X I)
        /\ Cardinality({x} \X I) = Cardinality({x}) * Cardinality(I)
    BY <1>1, <1>2, FS_Product
  <1>4. Cardinality({x} \X I) = n
    BY <1>1, <1>2, <1>3
  <1> QED
    BY <1>3, <1>4 DEF I, UnitsOf

(* There are finitely many units.                                          *)
LEMMA UnitsFinite ==
  ASSUME NEW S, IsFiniteSet(S), NEW M \in Nat, NEW f \in [S -> 0 .. M],
         NEW s \in SUBSET S
  PROVE  IsFiniteSet(Units(f, s)) /\ Cardinality(Units(f, s)) \in Nat
  <1>1. IsFiniteSet(s)
    BY FS_Subset
  <1>2. IsFiniteSet(0 .. M)
    BY FS_Interval
  <1>3. IsFiniteSet(s \X (0 .. M))
    BY <1>1, <1>2, FS_Product
  <1>4. ASSUME NEW p \in Units(f, s) PROVE p \in s \X (0 .. M)
    <2>1. p \in s \X Nat /\ p[2] < f[p[1]]
      BY DEF Units
    <2>2. p[1] \in S /\ p[2] \in Nat /\ p = <<p[1], p[2]>>
      BY <2>1
    <2>3. f[p[1]] \in 0 .. M
      BY <2>2
    <2> QED
      BY <2>1, <2>2, <2>3
  <1>5. Units(f, s) \in SUBSET (s \X (0 .. M))
    BY <1>4
  <1> QED
    BY <1>3, <1>5, FS_Subset, FS_CardinalityType

(* The units of a set are those of any element and those of the others.    *)
LEMMA UnitsSplit ==
  ASSUME NEW S, IsFiniteSet(S), NEW M \in Nat, NEW f \in [S -> 0 .. M],
         NEW s \in SUBSET S, NEW x \in s
  PROVE  Cardinality(Units(f, s)) = f[x] + Cardinality(Units(f, s \ {x}))
  <1> DEFINE A == UnitsOf(x, 0, f[x])
             B == Units(f, s \ {x})
  <1>1. f[x] \in Nat
    OBVIOUS
  <1>2. IsFiniteSet(A) /\ Cardinality(A) = f[x]
    BY <1>1, UnitsOfOne
  <1>3. IsFiniteSet(B) /\ Cardinality(B) \in Nat
    <2>1. s \ {x} \in SUBSET S
      OBVIOUS
    <2> QED
      BY <2>1, UnitsFinite
  <1>4. A \cap B = {}
    BY DEF Units, UnitsOf
  <1>5. Units(f, s) = A \cup B
    <2>1. ASSUME NEW p \in Units(f, s) PROVE p \in A \cup B
      <3>1. p \in s \X Nat /\ p[2] < f[p[1]]
        BY DEF Units
      <3>2. CASE p[1] = x
        BY <1>1, <3>1, <3>2 DEF UnitsOf
      <3>3. CASE p[1] # x
        BY <3>1, <3>3 DEF Units
      <3> QED
        BY <3>2, <3>3
    <2>2. ASSUME NEW p \in A PROVE p \in Units(f, s)
      <3>1. p = <<x, p[2]>> /\ p[2] \in 0 .. 0 + f[x] - 1
        BY DEF UnitsOf
      <3> QED
        BY <1>1, <3>1 DEF Units
    <2>3. ASSUME NEW p \in B PROVE p \in Units(f, s)
      BY DEF Units
    <2> QED
      BY <2>1, <2>2, <2>3
  <1> HIDE DEF A, B
  <1>6. Cardinality(A \cup B) = f[x] + Cardinality(B) - Cardinality(A \cap B)
    BY <1>2, <1>3, FS_Union
  <1>7. Cardinality(A \cap B) = 0
    BY <1>4, FS_EmptySet
  <1>8. Cardinality(Units(f, s)) = f[x] + Cardinality(B)
    BY <1>1, <1>3, <1>5, <1>6, <1>7
  <1> QED
    BY <1>8 DEF B

(* The sum in the order in which the fold takes the elements.              *)
IsSum(g, f, S) ==
  g = [s \in SUBSET S |->
         IF s = {} THEN 0
         ELSE f[CHOOSE x \in s : TRUE] + g[s \ {CHOOSE x \in s : TRUE}]]

(* The fold of the community modules is such a sum.                        *)
LEMMA TotalUnfolds ==
  ASSUME NEW f, NEW S
  PROVE  Total(f, S) = (CHOOSE g : IsSum(g, f, S))[S]
  BY DEF Total, MapThenSumSet, MapThenFoldSet, IsSum

(* Counting units is such a sum.                                           *)
LEMMA CountsUnits ==
  ASSUME NEW S, IsFiniteSet(S), NEW M \in Nat, NEW f \in [S -> 0 .. M]
  PROVE  IsSum([s \in SUBSET S |-> Cardinality(Units(f, s))], f, S)
  <1> SUFFICES ASSUME NEW s \in SUBSET S
               PROVE  Cardinality(Units(f, s)) =
                        IF s = {} THEN 0
                        ELSE f[CHOOSE x \in s : TRUE]
                             + Cardinality(Units(f, s \ {CHOOSE x \in s : TRUE}))
    BY DEF IsSum
  <1>1. CASE s = {}
    <2>1. Units(f, s) = {}
      BY <1>1 DEF Units
    <2> QED
      BY <1>1, <2>1, FS_EmptySet
  <1>2. CASE s # {}
    <2>1. PICK x : x = CHOOSE y \in s : TRUE
      OBVIOUS
    <2>2. x \in s
      BY <1>2, <2>1
    <2>3. Cardinality(Units(f, s)) = f[x] + Cardinality(Units(f, s \ {x}))
      BY <2>2, UnitsSplit
    <2> QED
      BY <1>2, <2>1, <2>3
  <1> QED
    BY <1>1, <1>2

(* There is no other: two that differed would do so on a set with as few   *)
(* elements as any.                                                        *)
LEMMA SumIsUnique ==
  ASSUME NEW S, IsFiniteSet(S), NEW f, NEW g, NEW h,
         IsSum(g, f, S), IsSum(h, f, S)
  PROVE  g = h
  <1> DEFINE T == {n \in Nat : \E s \in SUBSET S :
                                 Cardinality(s) = n /\ g[s] # h[s]}
  <1>0. ASSUME NEW s \in SUBSET S
        PROVE  IsFiniteSet(s) /\ Cardinality(s) \in Nat
    BY FS_Subset, FS_CardinalityType
  <1>1. SUFFICES ASSUME T # {} PROVE FALSE
    <2> SUFFICES ASSUME NEW s \in SUBSET S PROVE g[s] = h[s]
      BY DEF IsSum
    <2> QED
      BY <1>0, <1>1
  <1>2. PICK n \in T : \A m \in T : n <= m
    <2>1. T \subseteq Nat
      OBVIOUS
    <2> HIDE DEF T
    <2> QED
      BY <1>1, <2>1, LeastNumber
  <1>3. PICK s \in SUBSET S : Cardinality(s) = n /\ g[s] # h[s]
    BY <1>2
  <1>4. s # {}
    BY <1>3 DEF IsSum
  <1>5. PICK x : x = CHOOSE y \in s : TRUE
    OBVIOUS
  <1>6. x \in s
    BY <1>4, <1>5
  <1>7. /\ s \ {x} \in SUBSET S
        /\ g[s] = f[x] + g[s \ {x}] /\ h[s] = f[x] + h[s \ {x}]
    BY <1>4, <1>5 DEF IsSum
  <1>8. g[s \ {x}] # h[s \ {x}]
    BY <1>3, <1>7
  <1>9. Cardinality(s \ {x}) = n - 1
    BY <1>0, <1>3, <1>6, FS_RemoveElement
  <1>10. n - 1 \in T
    BY <1>0, <1>7, <1>8, <1>9
  <1> QED
    BY <1>2, <1>10

(* So a sum counts its units.                                              *)
LEMMA TotalCounts ==
  ASSUME NEW S, IsFiniteSet(S), NEW M \in Nat, NEW f \in [S -> 0 .. M]
  PROVE  /\ Total(f, S) = Cardinality(Units(f, S))
         /\ IsFiniteSet(Units(f, S)) /\ Total(f, S) \in Nat
  <1> DEFINE h == [s \in SUBSET S |-> Cardinality(Units(f, s))]
             g == CHOOSE k : IsSum(k, f, S)
  <1>1. IsSum(h, f, S)
    BY CountsUnits
  <1> HIDE DEF h
  <1>2. IsSum(g, f, S)
    BY <1>1
  <1> HIDE DEF g
  <1>3. g = h
    BY <1>1, <1>2, SumIsUnique
  <1>4. Total(f, S) = h[S]
    BY <1>3, TotalUnfolds DEF g
  <1>5. S \in SUBSET S
    OBVIOUS
  <1> QED
    BY <1>4, <1>5, UnitsFinite DEF h

(* Nothing adds up to nothing.                                             *)
LEMMA TotalZero ==
  ASSUME NEW S, IsFiniteSet(S), NEW f \in [S -> {0}]
  PROVE  Total(f, S) = 0
  <1>1. f \in [S -> 0 .. 0] /\ Units(f, S) = {}
    BY DEF Units
  <1>2. Total(f, S) = Cardinality(Units(f, S))
    BY <1>1, TotalCounts
  <1> QED
    BY <1>1, <1>2, FS_EmptySet

(* What is added to one element is added to the sum.                       *)
LEMMA TotalAdded ==
  ASSUME NEW S, IsFiniteSet(S), NEW M \in Nat, NEW f \in [S -> 0 .. M],
         NEW x \in S, NEW k \in Nat, NEW g \in [S -> Nat],
         g[x] = f[x] + k, \A y \in S \ {x} : g[y] = f[y]
  PROVE  g \in [S -> 0 .. M + k] /\ Total(g, S) = Total(f, S) + k
  <1> DEFINE A == UnitsOf(x, f[x], k)
             F == Units(f, S)
             G == Units(g, S)
  <1>1. f[x] \in Nat
    OBVIOUS
  <1>2. ASSUME NEW y \in S PROVE g[y] \in 0 .. M + k
    <2>1. CASE y = x
      BY <2>1
    <2>2. CASE y # x
      BY <2>2
    <2> QED
      BY <2>1, <2>2
  <1>3. g \in [S -> 0 .. M + k]
    BY <1>2
  <1>4. IsFiniteSet(F) /\ Total(f, S) = Cardinality(F) /\ Cardinality(F) \in Nat
    BY TotalCounts
  <1>5. Total(g, S) = Cardinality(G)
    <2>1. M + k \in Nat
      OBVIOUS
    <2> QED
      BY <1>3, <2>1, TotalCounts
  <1>6. IsFiniteSet(A) /\ Cardinality(A) = k
    BY <1>1, UnitsOfOne
  <1>7. F \cap A = {}
    BY DEF Units, UnitsOf
  <1>8. G = F \cup A
    <2>1. ASSUME NEW p \in S \X Nat
          PROVE  p \in G <=> p \in F \/ p \in A
      <3>1. p = <<p[1], p[2]>> /\ p[1] \in S /\ p[2] \in Nat
        OBVIOUS
      <3>2. p \in A <=> p[1] = x /\ p[2] \in f[x] .. f[x] + k - 1
        BY <3>1 DEF UnitsOf
      <3>3. CASE p[1] = x
        <4>1. /\ p \in G <=> p[2] < f[x] + k
              /\ p \in F <=> p[2] < f[x]
          BY <3>1, <3>3 DEF Units
        <4> QED
          BY <1>1, <3>1, <3>2, <3>3, <4>1
      <3>4. CASE p[1] # x
        BY <3>1, <3>2, <3>4 DEF Units
      <3> QED
        BY <3>3, <3>4
    <2>2. G \subseteq S \X Nat /\ F \subseteq S \X Nat
      BY DEF Units
    <2>3. A \subseteq S \X Nat
      BY <1>1 DEF UnitsOf
    <2> HIDE DEF A, F, G
    <2> QED
      BY <2>1, <2>2, <2>3
  <1> HIDE DEF A, F, G
  <1>9. Cardinality(F \cup A) = Cardinality(F) + k - Cardinality(F \cap A)
    BY <1>4, <1>6, FS_Union
  <1>10. Cardinality(F \cap A) = 0
    BY <1>7, FS_EmptySet
  <1> QED
    BY <1>3, <1>4, <1>5, <1>8, <1>9, <1>10

(* A sum grows with what is added up.                                      *)
LEMMA TotalGrows ==
  ASSUME NEW S, IsFiniteSet(S), NEW M \in Nat, NEW f \in [S -> 0 .. M],
         NEW g \in [S -> 0 .. M], \A x \in S : f[x] <= g[x]
  PROVE  Total(f, S) <= Total(g, S)
  <1>1. /\ Total(f, S) = Cardinality(Units(f, S))
        /\ Total(g, S) = Cardinality(Units(g, S))
        /\ IsFiniteSet(Units(g, S))
    BY TotalCounts
  <1>2. Units(f, S) \subseteq Units(g, S)
    BY DEF Units
  <1> QED
    BY <1>1, <1>2, FS_Subset

(* No element has more than the sum.                                       *)
LEMMA PartOfTotal ==
  ASSUME NEW S, IsFiniteSet(S), NEW M \in Nat, NEW f \in [S -> 0 .. M],
         NEW x \in S
  PROVE  f[x] <= Total(f, S)
  <1>1. S \in SUBSET S /\ S \ {x} \in SUBSET S
    OBVIOUS
  <1>2. Cardinality(Units(f, S)) = f[x] + Cardinality(Units(f, S \ {x}))
    BY <1>1, UnitsSplit
  <1>3. Cardinality(Units(f, S \ {x})) \in Nat
    BY <1>1, UnitsFinite
  <1>4. Total(f, S) = Cardinality(Units(f, S))
    BY TotalCounts
  <1>5. f[x] \in Nat
    OBVIOUS
  <1> QED
    BY <1>2, <1>3, <1>4, <1>5

-----------------------------------------------------------------------------
(* Sequences in which nothing occurs twice.                                *)
LEMMA DistinctLength ==
  ASSUME NEW A, NEW s \in Seq(A), IsInjective(s)
  PROVE  IsFiniteSet(Range(s)) /\ Cardinality(Range(s)) = Len(s)
  <1>1. Len(s) \in Nat /\ DOMAIN s = 1 .. Len(s)
    OBVIOUS
  <1>2. s \in Bijection(1 .. Len(s), Range(s))
    BY <1>1 DEF Bijection, Injection, Surjection, IsInjective, Range
  <1>3. ExistsBijection(1 .. Len(s), Range(s))
    BY <1>2 DEF ExistsBijection
  <1>4. IsFiniteSet(1 .. Len(s)) /\ Cardinality(1 .. Len(s)) = Len(s)
    BY <1>1, FS_Interval
  <1> QED
    BY <1>3, <1>4, FS_Bijection

(* One more, that was not there.                                           *)
LEMMA DistinctAppend ==
  ASSUME NEW A, NEW s \in Seq(A), NEW x \in A
  PROVE  /\ Append(s, x) \in Seq(A)
         /\ Range(Append(s, x)) = Range(s) \cup {x}
         /\ IsInjective(s) /\ x \notin Range(s) => IsInjective(Append(s, x))
  <1> DEFINE t == Append(s, x)
  <1>1. /\ t \in Seq(A) /\ Len(t) = Len(s) + 1 /\ Len(s) \in Nat
        /\ DOMAIN s = 1 .. Len(s) /\ DOMAIN t = 1 .. Len(s) + 1
        /\ \A k \in 1 .. Len(s) : t[k] = s[k]
        /\ t[Len(s) + 1] = x
    OBVIOUS
  <1> HIDE DEF t
  <1>2. Range(t) = Range(s) \cup {x}
    BY <1>1 DEF Range
  <1>3. IsInjective(s) /\ x \notin Range(s) => IsInjective(t)
    BY <1>1 DEF IsInjective, Range
  <1> QED
    BY <1>1, <1>2, <1>3 DEF t

(* The first one less.                                                     *)
LEMMA DistinctTail ==
  ASSUME NEW A, NEW s \in Seq(A), s # <<>>, IsInjective(s)
  PROVE  /\ Tail(s) \in Seq(A) /\ Head(s) \in Range(s) /\ Head(s) \in A
         /\ Range(Tail(s)) = Range(s) \ {Head(s)}
         /\ IsInjective(Tail(s))
  <1> DEFINE t == Tail(s)
  <1>1. /\ t \in Seq(A) /\ Len(s) \in Nat \ {0}
        /\ DOMAIN s = 1 .. Len(s) /\ DOMAIN t = 1 .. Len(s) - 1
        /\ \A k \in 1 .. Len(s) - 1 : t[k] = s[k + 1]
        /\ Head(s) = s[1] /\ s[1] \in A
    OBVIOUS
  <1> HIDE DEF t
  <1>2. Head(s) \in Range(s)
    BY <1>1 DEF Range
  <1>3. ASSUME NEW k \in 1 .. Len(s) - 1
        PROVE  k + 1 \in 1 .. Len(s) /\ k + 1 # 1 /\ t[k] # s[1]
    BY <1>1 DEF IsInjective
  <1>4. Range(t) \subseteq Range(s) \ {Head(s)}
    BY <1>1, <1>3 DEF Range
  <1>5. ASSUME NEW x \in Range(s) \ {Head(s)} PROVE x \in Range(t)
    <2>1. PICK k \in 1 .. Len(s) : x = s[k]
      BY <1>1 DEF Range
    <2>2. k - 1 \in 1 .. Len(s) - 1 /\ t[k - 1] = x
      BY <1>1, <1>5, <2>1
    <2> QED
      BY <1>1, <2>2 DEF Range
  <1>6. IsInjective(t)
    <2> SUFFICES ASSUME NEW j \in 1 .. Len(s) - 1, NEW k \in 1 .. Len(s) - 1,
                        t[j] = t[k]
                 PROVE  j = k
      BY <1>1 DEF IsInjective
    <2>1. j + 1 = k + 1
      BY <1>1, <1>3 DEF IsInjective
    <2> QED
      BY <2>1
  <1>7. Range(t) = Range(s) \ {Head(s)}
    BY <1>4, <1>5
  <1> QED
    BY <1>1, <1>2, <1>6, <1>7 DEF t

-----------------------------------------------------------------------------
(* A ring buffer keeps the item with the number n in the slot n % size of  *)
(* an array d.  The n items from the number first on, as a sequence, and   *)
(* what adding one, taking one or writing behind them make of it: the      *)
(* lemmas on which the refinements of matrix/MPMC/rbuffer.c and of the     *)
(* rings in shared memory rest.                                            *)
Place(n, size) == n % size

(* The arrays of size entries from E.                                      *)
Rings(size, E) == [0 .. size - 1 -> E]

Segment(d, first, n, size) == [k \in 1 .. n |-> d[Place(first + k - 1, size)]]

-----------------------------------------------------------------------------
(* Every number has a slot.                                                *)
LEMMA PlaceBounds ==
  ASSUME NEW size \in Nat \ {0}, NEW n \in Int
  PROVE  Place(n, size) \in 0 .. size - 1
  BY DEF Place

(* Fewer than size places apart, two numbers have two slots.               *)
LEMMA PlacesApart ==
  ASSUME NEW size \in Nat \ {0}, NEW n \in Int, NEW k \in 1 .. size - 1
  PROVE  Place(n + k, size) # Place(n, size)
  <1> DEFINE d == n \div size
             e == (n + k) \div size
  <1> SUFFICES ASSUME (n + k) % size = n % size PROVE FALSE
    BY DEF Place
  <1>1. k \in Int /\ 0 < k /\ k < size
    OBVIOUS
  <1>2. d \in Int /\ n = size * d + (n % size)
    OBVIOUS
  <1>3. e \in Int /\ n + k = size * e + ((n + k) % size)
    BY <1>1
  <1>4. n % size \in Int
    OBVIOUS
  <1> HIDE DEF d, e
  <1>5. k = size * (e - d)
    BY <1>1, <1>2, <1>3, <1>4
  <1>6. e - d >= 1
    BY <1>1, <1>2, <1>3, <1>5
  <1>7. size * (e - d) >= size
    BY <1>1, <1>2, <1>3, <1>6
  <1> QED
    BY <1>1, <1>5, <1>7

(* A segment is a sequence of the array's entries.                         *)
LEMMA SegmentIsSeq ==
  ASSUME NEW size \in Nat \ {0}, NEW E, NEW d \in Rings(size, E),
         NEW first \in Int, NEW n \in Nat
  PROVE  /\ Segment(d, first, n, size) \in Seq(E)
         /\ Len(Segment(d, first, n, size)) = n
         /\ \A k \in 1 .. n :
              Segment(d, first, n, size)[k] = d[Place(first + k - 1, size)]
  <1>1. ASSUME NEW k \in 1 .. n
        PROVE  d[Place(first + k - 1, size)] \in E
    <2>1. Place(first + k - 1, size) \in 0 .. size - 1
      BY PlaceBounds
    <2> QED
      BY <2>1 DEF Rings
  <1> QED
    BY <1>1 DEF Segment

(* A segment that takes in the item behind it.                             *)
LEMMA SegmentAdded ==
  ASSUME NEW size \in Nat \ {0}, NEW E, NEW d \in Rings(size, E),
         NEW first \in Int, NEW n \in Nat
  PROVE  Segment(d, first, n + 1, size)
           = Append(Segment(d, first, n, size), d[Place(first + n, size)])
  <1> DEFINE s == Segment(d, first, n, size)
             e == d[Place(first + n, size)]
             t == Segment(d, first, n + 1, size)
  <1>1. /\ s \in Seq(E) /\ Len(s) = n
        /\ \A k \in 1 .. n : s[k] = d[Place(first + k - 1, size)]
    BY SegmentIsSeq
  <1>2. /\ t \in Seq(E) /\ Len(t) = n + 1
        /\ \A k \in 1 .. n + 1 : t[k] = d[Place(first + k - 1, size)]
    <2>1. n + 1 \in Nat
      OBVIOUS
    <2> QED
      BY <2>1, SegmentIsSeq
  <1>3. e \in E
    BY PlaceBounds DEF Rings
  <1>4. t[n + 1] = e
    <2>1. first + (n + 1) - 1 = first + n
      OBVIOUS
    <2>2. n + 1 \in 1 .. n + 1
      OBVIOUS
    <2>3. t[n + 1] = d[Place(first + (n + 1) - 1, size)]
      BY <1>2, <2>2
    <2> QED
      BY <2>1, <2>3
  <1> HIDE DEF s, e, t
  <1>5. /\ Append(s, e) \in Seq(E) /\ Len(Append(s, e)) = n + 1
        /\ \A k \in 1 .. n : Append(s, e)[k] = s[k]
        /\ Append(s, e)[n + 1] = e
    BY <1>1, <1>3
  <1>6. ASSUME NEW k \in 1 .. n + 1 PROVE t[k] = Append(s, e)[k]
    <2>1. CASE k = n + 1
      BY <1>4, <1>5, <2>1
    <2>2. CASE k # n + 1
      <3>1. k \in 1 .. n
        BY <2>2
      <3> QED
        BY <1>1, <1>2, <1>5, <3>1
    <2> QED
      BY <2>1, <2>2
  <1>7. t = Append(s, e)
    BY <1>2, <1>5, <1>6, SeqEqual
  <1> QED
    BY <1>7 DEF s, e, t

(* A segment that loses its oldest item.                                   *)
LEMMA SegmentTaken ==
  ASSUME NEW size \in Nat \ {0}, NEW E, NEW d \in Rings(size, E),
         NEW first \in Int, NEW n \in Nat, n > 0
  PROVE  /\ Segment(d, first, n, size) # <<>>
         /\ Head(Segment(d, first, n, size)) = d[Place(first, size)]
         /\ Tail(Segment(d, first, n, size)) = Segment(d, first + 1, n - 1, size)
  <1> DEFINE s == Segment(d, first, n, size)
             t == Segment(d, first + 1, n - 1, size)
  <1>1. /\ s \in Seq(E) /\ Len(s) = n
        /\ \A k \in 1 .. n : s[k] = d[Place(first + k - 1, size)]
    BY SegmentIsSeq
  <1>2. /\ t \in Seq(E) /\ Len(t) = n - 1
        /\ \A k \in 1 .. n - 1 : t[k] = d[Place((first + 1) + k - 1, size)]
    <2>1. n - 1 \in Nat /\ first + 1 \in Int
      OBVIOUS
    <2> QED
      BY <2>1, SegmentIsSeq
  <1>3. s[1] = d[Place(first, size)]
    <2>1. first + 1 - 1 = first
      OBVIOUS
    <2> QED
      BY <1>1, <2>1
  <1>4. ASSUME NEW k \in 1 .. n - 1 PROVE t[k] = s[k + 1]
    <2>1. (first + 1) + k - 1 = first + (k + 1) - 1
      OBVIOUS
    <2>2. t[k] = d[Place((first + 1) + k - 1, size)]
      BY <1>2
    <2>3. k + 1 \in 1 .. n
      OBVIOUS
    <2>4. s[k + 1] = d[Place(first + (k + 1) - 1, size)]
      BY <1>1, <2>3
    <2> QED
      BY <2>1, <2>2, <2>4
  <1> HIDE DEF s, t
  <1>5. s # <<>> /\ Head(s) = s[1]
    BY <1>1
  <1>6. /\ Tail(s) \in Seq(E) /\ Len(Tail(s)) = n - 1
        /\ \A k \in 1 .. n - 1 : Tail(s)[k] = s[k + 1]
    BY <1>1
  <1>7. Tail(s) = t
    BY <1>2, <1>4, <1>6, SeqEqual
  <1> QED
    BY <1>3, <1>5, <1>7 DEF s, t

(* In a ring that has room, the place behind a segment is none of its own. *)
LEMMA PlaceBehind ==
  ASSUME NEW size \in Nat \ {0}, NEW first \in Int, NEW n \in Nat, n < size,
         NEW k \in 1 .. n
  PROVE  Place(first + k - 1, size)
           \in (0 .. size - 1) \ {Place(first + n, size)}
  <1> DEFINE m == first + k - 1
  <1>1. m \in Int /\ first + n = m + (first + n - m)
    OBVIOUS
  <1>2. first + n - m \in 1 .. size - 1
    OBVIOUS
  <1>3. Place(first + n, size) # Place(m, size)
    BY <1>1, <1>2, PlacesApart
  <1>4. Place(m, size) \in 0 .. size - 1
    BY <1>1, PlaceBounds
  <1> QED
    BY <1>3, <1>4

(* A store behind a segment does not touch the segment.                    *)
LEMMA SegmentKept ==
  ASSUME NEW size \in Nat \ {0}, NEW d, NEW f,
         NEW first \in Int, NEW n \in Nat, n < size,
         \A m \in (0 .. size - 1) \ {Place(first + n, size)} : f[m] = d[m]
  PROVE  Segment(f, first, n, size) = Segment(d, first, n, size)
  <1>1. ASSUME NEW k \in 1 .. n
        PROVE  f[Place(first + k - 1, size)] = d[Place(first + k - 1, size)]
    BY PlaceBehind
  <1> QED
    BY <1>1 DEF Segment

(* The store and the counting in of an item.                               *)
LEMMA SegmentPushed ==
  ASSUME NEW size \in Nat \ {0}, NEW E, NEW d \in Rings(size, E),
         NEW f \in Rings(size, E), NEW first \in Int, NEW n \in Nat, n < size,
         \A m \in (0 .. size - 1) \ {Place(first + n, size)} : f[m] = d[m]
  PROVE  Segment(f, first, n + 1, size)
           = Append(Segment(d, first, n, size), f[Place(first + n, size)])
  <1>1. Segment(f, first, n, size) = Segment(d, first, n, size)
    BY SegmentKept
  <1> QED
    BY <1>1, SegmentAdded

=============================================================================
