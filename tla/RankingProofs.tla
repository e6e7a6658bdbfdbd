--------------------------- MODULE RankingProofs ---------------------------
(* What Ranked gives for any finite set in a strict total order.            *)
EXTENDS Ranking, Integers, Sequences, FiniteSetTheorems, TLAPS

\* Less below an element than below a greater one.
LEMMA RankGrows ==
  ASSUME NEW S, NEW less, IsFiniteSet(S), IsStrictOrder(S, less),
         NEW x \in S, NEW y \in S, <<x, y>> \in less
  PROVE  Cardinality(Below(S, less, x)) < Cardinality(Below(S, less, y))
<1> DEFINE X == Below(S, less, x)
           Y == Below(S, less, y)
<1>1. X \subseteq Y /\ x \in Y /\ x \notin X /\ X \in SUBSET Y /\ Y \in SUBSET S
  BY DEF IsStrictOrder, Below
<1>2. IsFiniteSet(X) /\ IsFiniteSet(Y)
  BY <1>1, FS_Subset
<1> HIDE DEF X, Y
<1>3. Cardinality(X) <= Cardinality(Y) /\ Cardinality(X) # Cardinality(Y)
  BY <1>1, <1>2, FS_Subset
<1>4. Cardinality(X) \in Nat /\ Cardinality(Y) \in Nat
  BY <1>2, FS_CardinalityType
<1> QED
  BY <1>3, <1>4 DEF X, Y

\* Every rank is that of one element.
LEMMA RanksOnto ==
  ASSUME NEW S, NEW less, IsFiniteSet(S), IsStrictOrder(S, less)
  PROVE  /\ \A x \in S : Cardinality(Below(S, less, x)) + 1 \in 1..Cardinality(S)
         /\ \A k \in 1..Cardinality(S) :
              \E x \in S : Cardinality(Below(S, less, x)) = k - 1
         /\ Cardinality(S) \in Nat
<1> DEFINE n == Cardinality(S)
           rank == [x \in S |-> Cardinality(Below(S, less, x)) + 1]
<1>1. n \in Nat
  BY FS_CardinalityType
<1>2. ASSUME NEW x \in S PROVE Cardinality(Below(S, less, x)) + 1 \in 1..n
  <2> DEFINE X == Below(S, less, x)
  <2>1. X \in SUBSET S /\ x \notin X
    BY DEF Below, IsStrictOrder
  <2>2. IsFiniteSet(X) /\ Cardinality(X) <= n /\ Cardinality(X) # n
    BY <2>1, FS_Subset
  <2>3. Cardinality(X) \in Nat
    BY <2>2, FS_CardinalityType
  <2> HIDE DEF X
  <2>4. Cardinality(X) + 1 \in 1..n
    BY <1>1, <2>2, <2>3
  <2> QED
    BY <2>4 DEF X
<1>3. rank \in [S -> 1..n]
  BY <1>2
<1>r. \A x \in S : /\ rank[x] = Cardinality(Below(S, less, x)) + 1
                   /\ Cardinality(Below(S, less, x)) \in Int
  <2> HIDE DEF rank
  <2>1. ASSUME NEW x \in S PROVE Cardinality(Below(S, less, x)) \in Nat
    <3>1. Below(S, less, x) \in SUBSET S
      BY DEF Below
    <3> QED
      BY <3>1, FS_Subset, FS_CardinalityType
  <2> QED
    BY <2>1 DEF rank
<1> HIDE DEF rank
<1>4. ASSUME NEW x \in S, NEW y \in S, x # y PROVE rank[x] # rank[y]
  <2>1. CASE <<x, y>> \in less
    <3>1. Cardinality(Below(S, less, x)) < Cardinality(Below(S, less, y))
      BY <2>1, RankGrows
    <3> QED
      BY <1>r, <3>1
  <2>2. CASE <<y, x>> \in less
    <3>1. Cardinality(Below(S, less, y)) < Cardinality(Below(S, less, x))
      BY <2>2, RankGrows
    <3> QED
      BY <1>r, <3>1
  <2> QED
    BY <1>4, <2>1, <2>2 DEF IsStrictOrder
<1>5. rank \in Injection(S, 1..n)
  BY <1>3, <1>4 DEF Injection, IsInjective
<1>6. IsFiniteSet(1..n) /\ Cardinality(1..n) = n
  BY <1>1, FS_Interval
<1>7. rank \in Surjection(S, 1..n)
  BY <1>5, <1>6, FS_Injection
<1>8. ASSUME NEW k \in 1..n PROVE \E x \in S : Cardinality(Below(S, less, x)) = k - 1
  <2>1. PICK x \in S : rank[x] = k
    BY <1>7 DEF Surjection
  <2>2. Cardinality(Below(S, less, x)) + 1 = k /\ Cardinality(Below(S, less, x)) \in Int
    BY <1>r, <2>1
  <2> HIDE DEF n
  <2>3. Cardinality(Below(S, less, x)) = k - 1
    BY <2>2
  <2> QED
    BY <2>3
<1> QED
  BY <1>1, <1>2, <1>8

\* Ranked puts each element of the set in its place.
LEMMA RankedSorts ==
  ASSUME NEW S, NEW less, IsFiniteSet(S), IsStrictOrder(S, less)
  PROVE  /\ Cardinality(S) \in Nat
         /\ Ranked(S, less) \in [1..Cardinality(S) -> S]
         /\ \A x \in S : \E k \in 1..Cardinality(S) : Ranked(S, less)[k] = x
         /\ \A i, j \in 1..Cardinality(S) :
              i < j => <<Ranked(S, less)[i], Ranked(S, less)[j]>> \in less
         /\ \A k \in 1..Cardinality(S) : Cardinality(Below(S, less, Ranked(S, less)[k])) = k - 1
<1> DEFINE r == Ranked(S, less)
           rank(x) == Cardinality(Below(S, less, x))
<1>1. Cardinality(S) \in Nat /\ \A x \in S : rank(x) + 1 \in 1..Cardinality(S)
  BY RanksOnto
<1>2. ASSUME NEW k \in 1..Cardinality(S) PROVE r[k] \in S /\ rank(r[k]) = k - 1
  <2>1. \E x \in S : rank(x) = k - 1
    BY RanksOnto
  <2>2. r[k] = CHOOSE x \in S : rank(x) = k - 1
    BY DEF Ranked
  <2> HIDE DEF rank, r
  <2> QED
    BY <2>1, <2>2
<1>3. r \in [1..Cardinality(S) -> S]
  BY <1>2 DEF Ranked
<1>4. ASSUME NEW x \in S PROVE \E k \in 1..Cardinality(S) : r[k] = x
  <2> DEFINE k == rank(x) + 1
  <2>1. k \in 1..Cardinality(S) /\ k \in Int /\ k - 1 = rank(x) /\ rank(x) \in Int
    <3>1. Below(S, less, x) \in SUBSET S
      BY DEF Below
    <3>2. Cardinality(Below(S, less, x)) \in Nat
      BY <3>1, FS_Subset, FS_CardinalityType
    <3> QED
      BY <1>1, <3>2
  <2>2. r[k] \in S /\ rank(r[k]) = rank(x)
    <3> HIDE DEF k, rank, r
    <3> QED
      BY <1>2, <2>1
  <2> DEFINE y == r[k]
  <2> HIDE DEF r, k
  <2>3. y \in S /\ Cardinality(Below(S, less, y)) = Cardinality(Below(S, less, x))
    BY <2>2
  <2> HIDE DEF y
  <2>5. Cardinality(Below(S, less, x)) \in Int /\ ~(Cardinality(Below(S, less, x)) < Cardinality(Below(S, less, y)))
                  /\ ~(Cardinality(Below(S, less, y)) < Cardinality(Below(S, less, x)))
    BY <2>3, <2>1
  <2>6. <<y, x>> \notin less /\ <<x, y>> \notin less
    BY <2>3, <2>5, RankGrows
  <2>7. y = x
    BY <2>3, <2>6 DEF IsStrictOrder
  <2>4. r[k] = x
    BY <2>7 DEF y
  <2> QED
    BY <2>1, <2>4
<1>5. ASSUME NEW i \in 1..Cardinality(S), NEW j \in 1..Cardinality(S), i < j
      PROVE  <<r[i], r[j]>> \in less
  <2>1. r[i] \in S /\ r[j] \in S /\ rank(r[i]) = i - 1 /\ rank(r[j]) = j - 1
    BY <1>2
  <2>2. r[i] # r[j] /\ ~(rank(r[j]) < rank(r[i]))
    BY <1>5, <2>1
  <2>3. <<r[j], r[i]>> \notin less
    BY <2>1, <2>2, RankGrows
  <2> QED
    BY <2>1, <2>2, <2>3 DEF IsStrictOrder
<1> QED
  BY <1>1, <1>2, <1>3, <1>4, <1>5

\* The numbers of a set, in a sequence.
LEMMA AscendingNumbers ==
  ASSUME NEW S \in SUBSET Int, IsFiniteSet(S)
  PROVE  /\ Cardinality(S) \in Nat
         /\ Ascending(S) \in [1..Cardinality(S) -> S]
         /\ \A x \in S : \E k \in 1..Cardinality(S) : Ascending(S)[k] = x
         /\ \A i, j \in 1..Cardinality(S) : i < j => Ascending(S)[i] < Ascending(S)[j]
<1> DEFINE less == {p \in S \X S : p[1] < p[2]}
<1>1. IsStrictOrder(S, less)
  BY DEF IsStrictOrder
<1>2. \A x, y : <<x, y>> \in less => x < y
  OBVIOUS
<1> HIDE DEF less
<1>3. /\ Cardinality(S) \in Nat
      /\ Ranked(S, less) \in [1..Cardinality(S) -> S]
      /\ \A x \in S : \E k \in 1..Cardinality(S) : Ranked(S, less)[k] = x
      /\ \A i, j \in 1..Cardinality(S) :
           i < j => <<Ranked(S, less)[i], Ranked(S, less)[j]>> \in less
  BY <1>1, RankedSorts
<1>4. Ascending(S) = Ranked(S, less)
  BY DEF Ascending, less
<1> QED
  BY <1>2, <1>3, <1>4

\* The first in ascending order is the least.
LEMMA LeastNumber ==
  ASSUME NEW S \in SUBSET Int, IsFiniteSet(S), S # {}
  PROVE  \E x \in S : \A y \in S : x <= y
<1>1. /\ Cardinality(S) \in Nat
      /\ Ascending(S) \in [1..Cardinality(S) -> S]
      /\ \A x \in S : \E k \in 1..Cardinality(S) : Ascending(S)[k] = x
      /\ \A i, j \in 1..Cardinality(S) : i < j => Ascending(S)[i] < Ascending(S)[j]
  BY AscendingNumbers
<1>2. 1 \in 1..Cardinality(S)
  <2>1. PICK x \in S : TRUE
    OBVIOUS
  <2>2. PICK k \in 1..Cardinality(S) : Ascending(S)[k] = x
    BY <1>1
  <2>3. 1 <= k /\ k <= Cardinality(S)
    BY <1>1
  <2> QED
    BY <1>1, <2>3
<1>3. ASSUME NEW y \in S PROVE Ascending(S)[1] <= y
  <2>1. PICK k \in 1..Cardinality(S) : Ascending(S)[k] = y
    BY <1>1
  <2>2. k = 1 \/ 1 < k
    OBVIOUS
  <2>3. Ascending(S)[1] \in Int /\ y \in Int
    BY <1>1, <1>2
  <2> QED
    BY <1>1, <1>2, <2>1, <2>2, <2>3
<1> QED
  BY <1>1, <1>2, <1>3

\* A sequence is the function of its places.
LEMMA SequenceAsFunction ==
  ASSUME NEW S, NEW s \in Seq(S)
  PROVE  s = [k \in 1..Len(s) |-> s[k]]
OBVIOUS

\* A new greatest element comes last.
LEMMA RankedAppend ==
  ASSUME NEW S, NEW less, NEW more, NEW x, x \notin S, IsFiniteSet(S),
         IsStrictOrder(S, less), IsStrictOrder(S \cup {x}, more),
         \A y, z \in S : <<y, z>> \in less <=> <<y, z>> \in more,
         \A y \in S : <<y, x>> \in more
  PROVE  /\ Ranked(S, less) \in Seq(S)
         /\ Ranked(S \cup {x}, more) = Append(Ranked(S, less), x)
<1> DEFINE T == S \cup {x}
           n == Cardinality(S)
           r == Ranked(S, less)
           q == Ranked(T, more)
<1>1. IsFiniteSet(T) /\ Cardinality(T) = n + 1 /\ n \in Nat
  BY FS_AddElement, FS_CardinalityType
<1>2. /\ r \in [1..n -> S]
      /\ \A k \in 1..n : Cardinality(Below(S, less, r[k])) = k - 1
  BY RankedSorts
<1> HIDE DEF T
<1>3. /\ q \in [1..n + 1 -> T]
      /\ \A k \in 1..n + 1 : Cardinality(Below(T, more, q[k])) = k - 1
  BY <1>1, RankedSorts DEF T
<1> HIDE DEF n, r, q
<1>4. ASSUME NEW y \in S PROVE Below(T, more, y) = Below(S, less, y)
  <2>1. <<x, y>> \notin more
    BY DEF IsStrictOrder, T
  <2> QED
    BY <2>1 DEF Below, T
<1>5. Below(T, more, x) = S
  BY DEF Below, T, IsStrictOrder
<1>6. ASSUME NEW k \in 1..n + 1, NEW y \in T, Cardinality(Below(T, more, y)) = k - 1
      PROVE  q[k] = y
  <2> DEFINE z == q[k]
  <2>1. z \in T /\ Cardinality(Below(T, more, z)) = k - 1 /\ k - 1 \in Int /\ ~(k - 1 < k - 1)
    BY <1>1, <1>3
  <2> HIDE DEF z
  <2>2. <<z, y>> \notin more /\ <<y, z>> \notin more
    BY <1>1, <1>6, <2>1, RankGrows DEF T
  <2>3. z = y
    BY <2>1, <2>2 DEF IsStrictOrder, T
  <2> QED
    BY <2>3 DEF z
<1>7. ASSUME NEW k \in 1..n PROVE q[k] = r[k]
  <2>1. k \in 1..n + 1 /\ r[k] \in S /\ r[k] \in T
    BY <1>1, <1>2 DEF T
  <2>2. Cardinality(Below(T, more, r[k])) = k - 1
    BY <1>2, <1>4, <2>1
  <2> QED
    BY <1>6, <2>1, <2>2
<1>8. q[n + 1] = x
  <2>1. n + 1 \in 1..n + 1 /\ (n + 1) - 1 = n
    BY <1>1
  <2>2. x \in T /\ Cardinality(Below(T, more, x)) = (n + 1) - 1
    BY <1>5, <2>1 DEF T, n
  <2> QED
    BY <1>6, <2>1, <2>2
<1>9. r \in Seq(S) /\ Len(r) = n
  BY <1>1, <1>2
<1>10. q = Append(r, x)
  <2> DEFINE t == Append(r, x)
  <2>1. /\ t = [k \in 1..Len(t) |-> t[k]] /\ Len(t) = n + 1
        /\ \A k \in 1..n : t[k] = r[k]
        /\ t[n + 1] = x
    <3>1. r \in Seq(T) /\ x \in T
      BY <1>2, <1>9 DEF T
    <3>2. t \in Seq(T)
      BY <3>1
    <3>3. Len(t) = n + 1 /\ (\A k \in 1..n : t[k] = r[k]) /\ t[n + 1] = x
      BY <1>1, <1>9, <3>1
    <3> QED
      BY <3>2, <3>3, SequenceAsFunction
  <2> HIDE DEF t
  <2>2. \A k \in 1..n + 1 : k \in 1..n \/ k = n + 1
    BY <1>1
  <2>3. \A k \in 1..n + 1 : q[k] = t[k]
    BY <1>7, <1>8, <2>1, <2>2
  <2>4. q = [k \in 1..n + 1 |-> q[k]]
    BY <1>3
  <2>5. q = t
    BY <2>1, <2>3, <2>4
  <2> QED
    BY <2>5 DEF t
<1> QED
  BY <1>9, <1>10 DEF r, q, T

\* Without its first element the others move up.
LEMMA RankedTail ==
  ASSUME NEW S, NEW less, NEW more, NEW x \in S, IsFiniteSet(S),
         IsStrictOrder(S, more), IsStrictOrder(S \ {x}, less),
         \A y, z \in S \ {x} : <<y, z>> \in less <=> <<y, z>> \in more,
         \A y \in S \ {x} : <<x, y>> \in more
  PROVE  /\ Ranked(S, more) \in Seq(S) /\ Ranked(S, more) # <<>>
         /\ Ranked(S \ {x}, less) = Tail(Ranked(S, more))
<1> DEFINE T == S \ {x}
           n == Cardinality(T)
           r == Ranked(S, more)
           q == Ranked(T, less)
<1>1. IsFiniteSet(T) /\ Cardinality(S) = n + 1 /\ n \in Nat
  <2>1. IsFiniteSet(T) /\ n \in Nat
    BY FS_RemoveElement, FS_CardinalityType
  <2>2. S = T \cup {x} /\ x \notin T
    OBVIOUS
  <2> HIDE DEF T
  <2>3. Cardinality(T \cup {x}) = n + 1
    BY <2>1, <2>2, FS_AddElement
  <2> QED
    BY <2>1, <2>2, <2>3
<1>2. /\ r \in [1..n + 1 -> S]
      /\ \A k \in 1..n + 1 : Cardinality(Below(S, more, r[k])) = k - 1
  BY <1>1, RankedSorts
<1> HIDE DEF T
<1>3. /\ q \in [1..n -> T]
      /\ \A k \in 1..n : Cardinality(Below(T, less, q[k])) = k - 1
  BY <1>1, RankedSorts DEF T
<1> HIDE DEF n, r, q
<1>4. ASSUME NEW y \in T
      PROVE  Cardinality(Below(S, more, y)) = Cardinality(Below(T, less, y)) + 1
  <2> DEFINE B == Below(T, less, y)
  <2>1. Below(S, more, y) = B \cup {x} /\ x \notin B /\ B \in SUBSET T
    BY DEF Below, T
  <2> HIDE DEF B
  <2>2. IsFiniteSet(B)
    BY <1>1, <2>1, FS_Subset
  <2>3. Cardinality(B \cup {x}) = Cardinality(B) + 1
    BY <2>1, <2>2, FS_AddElement
  <2> QED
    BY <2>1, <2>3 DEF B
<1>5. ASSUME NEW k \in 1..n PROVE r[k + 1] = q[k]
  <2> DEFINE y == q[k]
             z == r[k + 1]
  <2>1. k + 1 \in 1..n + 1 /\ (k - 1) + 1 = k /\ (k + 1) - 1 = k /\ k \in Int /\ ~(k < k)
    BY <1>1
  <2>2. y \in T /\ Cardinality(Below(T, less, y)) = k - 1
    BY <1>3
  <2>3. z \in S /\ Cardinality(Below(S, more, z)) = k
    BY <1>2, <2>1
  <2> HIDE DEF y, z
  <2>4. Cardinality(Below(S, more, y)) = k /\ y \in S
    BY <1>4, <2>1, <2>2 DEF T
  <2>5. <<y, z>> \notin more /\ <<z, y>> \notin more
    BY <2>1, <2>3, <2>4, RankGrows
  <2>6. y = z
    BY <2>3, <2>4, <2>5 DEF IsStrictOrder
  <2> QED
    BY <2>6 DEF y, z
<1>6. r \in Seq(S) /\ Len(r) = n + 1 /\ r # <<>>
  BY <1>1, <1>2
<1>7. /\ Tail(r) \in Seq(S) /\ Len(Tail(r)) = n
      /\ \A k \in 1..n : Tail(r)[k] = r[k + 1]
  BY <1>1, <1>6
<1>8. q = Tail(r)
  <2> DEFINE t == Tail(r)
  <2>1. t = [k \in 1..Len(t) |-> t[k]] /\ Len(t) = n /\ \A k \in 1..n : t[k] = q[k]
    BY <1>5, <1>7, SequenceAsFunction
  <2> HIDE DEF t
  <2>2. q = [k \in 1..n |-> q[k]]
    BY <1>3
  <2>3. q = t
    BY <2>1, <2>2
  <2> QED
    BY <2>3 DEF t
<1> QED
  BY <1>6, <1>8 DEF r, q, T
=============================================================================
