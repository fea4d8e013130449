--------------------------- MODULE DiffSplit_proofs ---------------------------
(***************************************************************************)
(* Proofs about DiffSplit: its type invariant, with the fact that the      *)
(* tree's diff is always one that git would show; that the patches of new  *)
(* annotations apply again and restore the file (NewAnnotationsReturn);    *)
(* that any patches that all apply again restore it, if no line is there   *)
(* twice (RoundTrip), and what makes one fail (RefusedHasCause).           *)
(*                                                                         *)
(* The patches are of the parsed script, whose lines are stripped.  As the *)
(* positions of what they show are those of the saved one, most lemmas are *)
(* about any script, and the parsed one is brought in at the end.          *)
(*                                                                         *)
(* The first part is about counting: InOrder lists a finite set of         *)
(* positions, and is the only list that does.  What is defined by          *)
(* recursion (Shown) is handled by an induction over a set of numbers.     *)
(***************************************************************************)
EXTENDS DiffSplit, SequenceTheorems, FiniteSetTheorems, WellFoundedInduction, TLAPS

-----------------------------------------------------------------------------
(* Numbers. *)

Below == OpToRel(<, Nat)

LEMMA InBelow == \A m, n \in Nat : m < n => <<m, n>> \in Below
<1> TAKE m, n \in Nat
<1> HAVE m < n
<1> DEFINE p == <<m, n>>
<1>1. p \in Nat \X Nat /\ p[1] < p[2]
  OBVIOUS
<1> HIDE DEF p
<1>2. p \in {r \in Nat \X Nat : r[1] < r[2]}
  BY <1>1
<1>3. Below = {r \in Nat \X Nat : r[1] < r[2]}
  BY Zenon DEF Below, OpToRel
<1> QED BY <1>2, <1>3, Zenon DEF p

\* A set of natural numbers has a least element.
LEMMA Least == ASSUME NEW T \in SUBSET Nat, T # {}
               PROVE  \E x \in T : \A y \in T : x <= y
<1>1. IsWellFoundedOn(Below, Nat)
  BY NatLessThanWellFounded, Zenon DEF Below
<1> HIDE DEF Below
<1>2. \E x \in T : \A y \in T : ~ (<<y, x>> \in Below)
  BY <1>1, WFMin, Zenon
<1>3. PICK x \in T : \A y \in T : ~ (<<y, x>> \in Below)
  BY <1>2
<1>4. ASSUME NEW y \in T PROVE x <= y
  <2>1. ~ (<<y, x>> \in Below)
    BY <1>3
  <2>2. x \in Nat /\ y \in Nat /\ ~ (y < x)
    BY <2>1, InBelow
  <2> QED BY <2>2
<1> QED BY <1>4

\* A bounded one has a greatest one.
LEMMA Greatest == ASSUME NEW T \in SUBSET Nat, T # {}, NEW b \in Nat, \A x \in T : x <= b
                  PROVE  \E x \in T : \A y \in T : y <= x
<1> DEFINE U == {u \in Nat : \E x \in T : u + x = b}
<1>1. PICK x \in T : TRUE
  OBVIOUS
<1>2. b - x \in U
  BY <1>1
<1>3. PICK u \in U : \A v \in U : u <= v
  <2>1. U \in SUBSET Nat /\ U # {}
    BY <1>2
  <2> HIDE DEF U
  <2> QED BY <2>1, Least
<1>4. PICK z \in T : u + z = b
  OBVIOUS
<1>5. ASSUME NEW y \in T PROVE y <= z
  <2>1. b - y \in U /\ u \in Nat /\ y \in Nat /\ z \in Nat
    BY <1>5
  <2>2. u <= b - y
    BY <2>1, <1>3
  <2> HIDE DEF U
  <2> QED BY <2>1, <2>2, <1>4
<1> QED BY <1>4, <1>5

\* Induction, for a set.
LEMMA ByInduction == ASSUME NEW T, 0 \in T, \A n \in Nat : n \in T => n + 1 \in T
                     PROVE  \A n \in Nat : n \in T
<1> DEFINE U == {n \in Nat : n \notin T}
<1> SUFFICES ASSUME U # {} PROVE FALSE
  OBVIOUS
<1>1. PICK x \in U : \A y \in U : x <= y
  <2>1. U \in SUBSET Nat
    OBVIOUS
  <2> HIDE DEF U
  <2> QED BY <2>1, Least
<1>2. x # 0 /\ x - 1 \in Nat /\ x - 1 \notin U
  BY <1>1
<1> QED BY <1>1, <1>2

-----------------------------------------------------------------------------
(* Listing a set. *)

\* q lists the N members of K in the order of their keys.
IsList(q, N, K, key) ==
  /\ N \in Nat /\ key \in [K -> Int] /\ q \in [1 .. N -> K]
  /\ \A m, n \in 1 .. N : m < n => key[q[m]] < key[q[n]]
  /\ \A i \in K : \E n \in 1 .. N : q[n] = i

\* Arranged lists a finite set in the order of its keys.
LEMMA ArrangedIsList ==
  ASSUME NEW K, IsFiniteSet(K), NEW key \in [K -> Int],
         \A i, j \in K : key[i] = key[j] => i = j
  PROVE  IsList(Arranged(K, key), Cardinality(K), K, key)
<1> DEFINE N == Cardinality(K)
           upto(i) == {j \in K : key[j] <= key[i]}
           rank == [i \in K |-> Cardinality(upto(i))]
           q == Arranged(K, key)
<1>1. N \in Nat
  BY FS_CardinalityType
<1>2. ASSUME NEW i \in K
      PROVE  /\ IsFiniteSet(upto(i)) /\ i \in upto(i) /\ upto(i) \in SUBSET K
             /\ Cardinality(upto(i)) \in 1 .. N
  <2>1. i \in upto(i) /\ upto(i) \in SUBSET K
    OBVIOUS
  <2>2. IsFiniteSet(upto(i)) /\ Cardinality(upto(i)) <= N
    BY <2>1, FS_Subset
  <2>3. Cardinality(upto(i)) \in Nat /\ Cardinality(upto(i)) # 0
    BY <2>1, <2>2, FS_CardinalityType, FS_EmptySet
  <2> QED BY <2>1, <2>2, <2>3, <1>1
<1>3. ASSUME NEW i \in K, NEW j \in K, key[i] < key[j]
      PROVE  Cardinality(upto(i)) < Cardinality(upto(j))
  <2>1. upto(i) \in SUBSET upto(j) /\ j \notin upto(i)
    BY <1>3
  <2>2. /\ IsFiniteSet(upto(j)) /\ j \in upto(j)
        /\ Cardinality(upto(i)) \in 1 .. N /\ Cardinality(upto(j)) \in 1 .. N
    BY <1>2
  <2> HIDE DEF upto
  <2>3. Cardinality(upto(i)) <= Cardinality(upto(j)) /\ Cardinality(upto(i)) # Cardinality(upto(j))
    BY <2>1, <2>2, FS_Subset
  <2> QED BY <2>2, <2>3, <1>1
<1>4. rank \in [K -> 1 .. N]
  BY <1>2
<1>5. \A i, j \in K : rank[i] = rank[j] => i = j
  <2> SUFFICES ASSUME NEW i \in K, NEW j \in K, i # j PROVE rank[i] # rank[j]
    OBVIOUS
  <2>1. key[i] \in Int /\ key[j] \in Int /\ key[i] # key[j]
    OBVIOUS
  <2>2. rank[i] \in Nat /\ rank[j] \in Nat
    BY <1>1, <1>4
  <2>3. key[i] < key[j] => rank[i] < rank[j]
    BY <1>3
  <2>4. key[j] < key[i] => rank[j] < rank[i]
    BY <1>3
  <2> HIDE DEF rank
  <2> QED BY <2>1, <2>2, <2>3, <2>4
<1>6. \A n \in 1 .. N : \E i \in K : rank[i] = n
  <2>1. IsFiniteSet(1 .. N) /\ Cardinality(1 .. N) = N
    BY <1>1, FS_Interval
  <2>2. rank \in Injection(K, 1 .. N)
    BY <1>4, <1>5 DEF Injection, IsInjective
  <2>3. rank \in Surjection(K, 1 .. N)
    BY <2>1, <2>2, FS_Injection
  <2> QED BY <2>3 DEF Surjection
<1>7. ASSUME NEW n \in 1 .. N
      PROVE  q[n] \in K /\ rank[q[n]] = n
  <2>1. q[n] = CHOOSE i \in K : Cardinality(upto(i)) = n
    BY DEF Arranged
  <2>2. \E i \in K : Cardinality(upto(i)) = n
    BY <1>6
  <2> QED BY <2>1, <2>2
<1>8. q \in [1 .. N -> K]
  BY <1>7 DEF Arranged
<1>9. ASSUME NEW m \in 1 .. N, NEW n \in 1 .. N, m < n
      PROVE  key[q[m]] < key[q[n]]
  <2>1. q[m] \in K /\ q[n] \in K /\ rank[q[m]] = m /\ rank[q[n]] = n
    BY <1>7
  <2>2. key[q[m]] \in Int /\ key[q[n]] \in Int /\ key[q[m]] # key[q[n]]
    BY <2>1, <1>9, <1>1
  <2>3. ~ (key[q[n]] < key[q[m]])
    <3> SUFFICES ASSUME key[q[n]] < key[q[m]] PROVE FALSE
      OBVIOUS
    <3>1. Cardinality(upto(q[n])) < Cardinality(upto(q[m]))
      BY <1>3, <2>1
    <3>2. Cardinality(upto(q[n])) = n /\ Cardinality(upto(q[m])) = m
      BY <2>1
    <3>3. n < m
      BY <3>1, <3>2
    <3> QED BY <1>1, <1>9, <3>3
  <2> QED BY <2>2, <2>3
<1>10. ASSUME NEW i \in K PROVE \E n \in 1 .. N : q[n] = i
  <2>1. rank[i] \in 1 .. N
    BY <1>4
  <2>2. q[rank[i]] \in K /\ rank[q[rank[i]]] = rank[i]
    BY <2>1, <1>7
  <2> QED BY <2>1, <2>2, <1>5
<1> HIDE DEF q, rank
<1> QED BY <1>1, <1>8, <1>9, <1>10 DEF IsList, q

\* No member is listed twice.
LEMMA ListedOnce ==
  ASSUME NEW K, NEW key, NEW m, NEW f, IsList(f, m, K, key),
         NEW x \in 1 .. m, NEW y \in 1 .. m, f[x] = f[y]
  PROVE  x = y
<1> USE DEF IsList
<1>1. key[f[x]] \in Int
  OBVIOUS
<1>2. ~ (x < y) /\ ~ (y < x)
  BY <1>1
<1> QED BY <1>2

\* The place of a member in a list is how many there are up to it.
LEMMA ListCounts ==
  ASSUME NEW K, NEW key, NEW m, NEW f, IsList(f, m, K, key), NEW n \in 1 .. m
  PROVE  Cardinality({j \in K : key[j] <= key[f[n]]}) = n
<1> DEFINE U == {j \in K : key[j] <= key[f[n]]}
           g == [x \in 1 .. n |-> f[x]]
<1>0. \A x, y \in 1 .. m : f[x] = f[y] => x = y
  BY ListedOnce
<1> USE DEF IsList
<1>1. ASSUME NEW x \in 1 .. m PROVE f[x] \in U <=> x <= n
  <2>1. f[x] \in K /\ f[n] \in K /\ key[f[x]] \in Int /\ key[f[n]] \in Int
    OBVIOUS
  <2>2. x < n => key[f[x]] <= key[f[n]]
    BY <2>1
  <2>3. n < x => ~ (key[f[x]] <= key[f[n]])
    BY <2>1
  <2> QED BY <2>1, <2>2, <2>3
<1>2. g \in [1 .. n -> U]
  BY <1>1
<1>3. \A x, y \in 1 .. n : g[x] = g[y] => x = y
  BY <1>0
<1>4. \A j \in U : \E x \in 1 .. n : g[x] = j
  <2> TAKE j \in U
  <2>1. PICK x \in 1 .. m : f[x] = j
    OBVIOUS
  <2>2. x \in 1 .. n /\ g[x] = j
    BY <2>1, <1>1
  <2> QED BY <2>2
<1> HIDE DEF g, U
<1>5. g \in Bijection(1 .. n, U)
  BY <1>2, <1>3, <1>4 DEF Bijection, Injection, IsInjective, Surjection
<1>6. ExistsBijection(1 .. n, U) /\ n \in Nat
  BY <1>5 DEF ExistsBijection
<1> QED BY <1>6, FS_CountingElements DEF U

\* It is the only list in that order.
LEMMA OnlyList ==
  ASSUME NEW K, NEW key, NEW m, NEW f, IsList(f, m, K, key)
  PROVE  /\ IsFiniteSet(K) /\ Cardinality(K) = m
         /\ Arranged(K, key) = f
<1> DEFINE upto(i) == {j \in K : key[j] <= key[i]}
           q == Arranged(K, key)
<1>1. \A x, y \in 1 .. m : f[x] = f[y] => x = y
  BY ListedOnce
<1>3. ASSUME NEW n \in 1 .. m PROVE Cardinality(upto(f[n])) = n
  BY ListCounts
<1> USE DEF IsList
<1>2. IsFiniteSet(K) /\ Cardinality(K) = m
  <2>1. f \in Bijection(1 .. m, K)
    BY <1>1 DEF Bijection, Injection, IsInjective, Surjection
  <2>2. ExistsBijection(1 .. m, K)
    BY <2>1 DEF ExistsBijection
  <2> QED BY <2>2, FS_NatBijection, FS_CountingElements
<1>4. ASSUME NEW n \in 1 .. m PROVE q[n] = f[n]
  <2>1. q[n] = CHOOSE i \in K : Cardinality(upto(i)) = n
    BY <1>2 DEF Arranged
  <2>2. f[n] \in K /\ Cardinality(upto(f[n])) = n
    BY <1>3
  <2>3. q[n] \in K /\ Cardinality(upto(q[n])) = n
    BY <2>1, <2>2
  <2>4. PICK x \in 1 .. m : f[x] = q[n]
    BY <2>3
  <2>5. Cardinality(upto(f[x])) = x
    BY <1>3
  <2> HIDE DEF upto, q
  <2> QED BY <2>3, <2>4, <2>5
<1>5. q \in [1 .. m -> K]
  <2> DEFINE e(n) == CHOOSE i \in K : Cardinality(upto(i)) = n
  <2>1. q = [n \in 1 .. m |-> e(n)]
    BY <1>2 DEF Arranged
  <2>2. \A n \in 1 .. m : e(n) \in K
    BY <1>3
  <2> HIDE DEF e
  <2> QED BY <2>1, <2>2
<1> HIDE DEF q
<1> QED BY <1>2, <1>4, <1>5 DEF q

\* The two lemmas for numbers in their own order.
LEMMA InOrderIsList ==
  ASSUME NEW K \in SUBSET Int, IsFiniteSet(K)
  PROVE  /\ Cardinality(K) \in Nat
         /\ InOrder(K) \in [1 .. Cardinality(K) -> K]
         /\ \A m, n \in 1 .. Cardinality(K) : m < n => InOrder(K)[m] < InOrder(K)[n]
         /\ \A i \in K : \E n \in 1 .. Cardinality(K) : InOrder(K)[n] = i
<1> DEFINE key == [i \in K |-> i]
<1>1. key \in [K -> Int] /\ \A i, j \in K : key[i] = key[j] => i = j
  OBVIOUS
<1>2. IsList(InOrder(K), Cardinality(K), K, key)
  <2> HIDE DEF key
  <2>1. IsList(Arranged(K, key), Cardinality(K), K, key)
    BY <1>1, ArrangedIsList
  <2> QED BY <2>1 DEF InOrder, key
<1> QED BY <1>2 DEF IsList

LEMMA OnlyInOrder ==
  ASSUME NEW K \in SUBSET Int, NEW m \in Nat, NEW f \in [1 .. m -> K],
         \A x, y \in 1 .. m : x < y => f[x] < f[y],
         \A i \in K : \E n \in 1 .. m : f[n] = i
  PROVE  IsFiniteSet(K) /\ Cardinality(K) = m /\ InOrder(K) = f
<1>1. PICK key : key = [i \in K |-> i]
  OBVIOUS
<1>2. IsList(f, m, K, key)
  BY <1>1 DEF IsList
<1>3. IsFiniteSet(K) /\ Cardinality(K) = m /\ Arranged(K, key) = f
  BY <1>2, OnlyList, Zenon
<1> QED BY <1>1, <1>3 DEF InOrder

-----------------------------------------------------------------------------
(* What git shows: the order of a block. *)

Marked == [mark : {"both", "old", "new"}, line : Lines]

Spaces(s, i) == {k \in 1 .. i : s[k].mark = "both"}
RankIn(s, i) == 3 * Cardinality(Spaces(s, i))
                  + (CASE s[i].mark = "both" -> 0 [] s[i].mark = "old" -> 1 [] s[i].mark = "new" -> 2)
KeyIn(s) == [i \in DOMAIN s |-> RankIn(s, i) * Len(s) + i]

LEMMA ReorderedAs ==
  ASSUME NEW s
  PROVE  Reordered(s) = [n \in DOMAIN s |-> s[Arranged(DOMAIN s, KeyIn(s))[n]]]
  BY Zenon DEF Reordered, KeyIn, RankIn, Spaces

\* Ranks come before positions.
LEMMA RankFirst ==
  ASSUME NEW N \in Nat, NEW a \in Nat, NEW b \in Nat, a < b,
         NEW i \in 1 .. N, NEW j \in 1 .. N
  PROVE  a * N + i < b * N + j
<1>1. PICK d \in Nat : b = a + 1 + d
  <2>1. b - a - 1 \in Nat /\ b = a + 1 + (b - a - 1)
    OBVIOUS
  <2> QED BY <2>1
<1>2. b * N = a * N + N + d * N
  BY <1>1
<1>3. d * N \in Nat /\ a * N \in Nat
  OBVIOUS
<1> QED BY <1>2, <1>3

\* A script is a function of its positions.
LEMMA ScriptFacts ==
  ASSUME NEW s \in Seq(Marked)
  PROVE  /\ Len(s) \in Nat /\ DOMAIN s = 1 .. Len(s) /\ s \in [1 .. Len(s) -> Marked]
         /\ \A i \in 1 .. Len(s) : /\ s[i] \in Marked /\ s[i].mark \in {"both", "old", "new"}
                                   /\ s[i].line \in Lines /\ s[i] = Mark(s[i].mark, s[i].line)
<1>1. Len(s) \in Nat /\ DOMAIN s = 1 .. Len(s) /\ s \in [1 .. Len(s) -> Marked]
  BY LenProperties
<1>2. ASSUME NEW i \in 1 .. Len(s) PROVE s[i] \in Marked
  BY <1>1
<1> QED BY <1>1, <1>2 DEF Marked, Mark

LEMMA SpacesFinite ==
  ASSUME NEW s, NEW j \in Nat
  PROVE  /\ IsFiniteSet(Spaces(s, j)) /\ Cardinality(Spaces(s, j)) \in Nat
<1>1. Spaces(s, j) \in SUBSET (1 .. j)
  BY DEF Spaces
<1>2. IsFiniteSet(1 .. j)
  BY FS_Interval
<1>3. IsFiniteSet(Spaces(s, j))
  BY <1>1, <1>2, FS_Subset
<1>4. Cardinality(Spaces(s, j)) \in Nat
  BY <1>3, FS_CardinalityType
<1> QED BY <1>3, <1>4

LEMMA SpacesGrow ==
  ASSUME NEW s, NEW i \in Nat, NEW j \in Nat, i <= j
  PROVE  /\ Cardinality(Spaces(s, i)) <= Cardinality(Spaces(s, j))
         /\ i < j /\ s[j].mark = "both" => Cardinality(Spaces(s, i)) < Cardinality(Spaces(s, j))
<1>1. \A k \in 1 .. i : k \in 1 .. j
  OBVIOUS
<1>2. Spaces(s, i) \in SUBSET Spaces(s, j)
  BY <1>1, Zenon DEF Spaces
<1>3. ASSUME i < j, s[j].mark = "both"
      PROVE  Spaces(s, i) # Spaces(s, j)
  <2>1. j \in 1 .. j /\ j \notin 1 .. i
    BY <1>3
  <2>2. j \in Spaces(s, j) /\ j \notin Spaces(s, i)
    BY <1>3, <2>1 DEF Spaces
  <2> QED BY <2>2
<1>4. /\ IsFiniteSet(Spaces(s, j))
      /\ Cardinality(Spaces(s, i)) \in Nat /\ Cardinality(Spaces(s, j)) \in Nat
  BY SpacesFinite
<1>5. /\ Cardinality(Spaces(s, i)) <= Cardinality(Spaces(s, j))
      /\ Cardinality(Spaces(s, j)) = Cardinality(Spaces(s, i)) => Spaces(s, j) = Spaces(s, i)
  BY <1>2, <1>4, FS_Subset
<1>6. ASSUME i < j, s[j].mark = "both"
      PROVE  Cardinality(Spaces(s, i)) # Cardinality(Spaces(s, j))
  BY <1>3, <1>5, <1>6
<1> HIDE <1>3
<1> DEFINE a == Cardinality(Spaces(s, i))
           b == Cardinality(Spaces(s, j))
<1>7. a \in Nat /\ b \in Nat /\ a <= b
  BY <1>4, <1>5
<1> QED
  <2> SUFFICES ASSUME i < j, s[j].mark = "both" PROVE a < b
    BY <1>7
  <2>1. a # b
    BY <1>6
  <2> HIDE DEF a, b
  <2> QED BY <2>1, <1>7

LEMMA SpaceBetween ==
  ASSUME NEW s, NEW i \in Nat, NEW j \in Nat,
         Cardinality(Spaces(s, i)) < Cardinality(Spaces(s, j))
  PROVE  \E u \in 1 .. j : s[u].mark = "both" /\ i < u
<1>1. /\ IsFiniteSet(Spaces(s, i))
      /\ Cardinality(Spaces(s, i)) \in Nat /\ Cardinality(Spaces(s, j)) \in Nat
  BY SpacesFinite
<1>2. Spaces(s, j) \in SUBSET Spaces(s, i) => Cardinality(Spaces(s, j)) <= Cardinality(Spaces(s, i))
  BY <1>1, FS_Subset
<1>3. Spaces(s, j) \notin SUBSET Spaces(s, i)
  BY <1>1, <1>2
<1>4. PICK u \in Spaces(s, j) : u \notin Spaces(s, i)
  BY <1>3
<1>5. u \in 1 .. j /\ s[u].mark = "both"
  BY DEF Spaces
<1>6. ~ (u \in 1 .. i)
  BY <1>4, <1>5 DEF Spaces
<1>7. u \in Int /\ i < u
  BY <1>5, <1>6
<1> QED BY <1>5, <1>7

LEMMA RankFacts ==
  ASSUME NEW s \in Seq(Marked), NEW i \in 1 .. Len(s)
  PROVE  /\ RankIn(s, i) \in Nat /\ Cardinality(Spaces(s, i)) \in Nat
         /\ s[i].mark = "both" => RankIn(s, i) = 3 * Cardinality(Spaces(s, i))
         /\ s[i].mark = "old" => RankIn(s, i) = 3 * Cardinality(Spaces(s, i)) + 1
         /\ s[i].mark = "new" => RankIn(s, i) = 3 * Cardinality(Spaces(s, i)) + 2
<1>0. s[i].mark \in {"both", "old", "new"}
  BY ScriptFacts
<1>1. i \in Nat
  BY ScriptFacts
<1>2. Cardinality(Spaces(s, i)) \in Nat
  BY <1>1, SpacesFinite
<1> DEFINE c == Cardinality(Spaces(s, i))
<1>3. CASE s[i].mark = "both"
  <2>1. RankIn(s, i) = 3 * c + 0
    BY <1>3 DEF RankIn
  <2>2. RankIn(s, i) \in Nat
    BY <2>1, <1>2
  <2> QED BY <2>1, <2>2, <1>2, <1>3
<1>4. CASE s[i].mark = "old"
  <2>1. RankIn(s, i) = 3 * c + 1
    BY <1>4 DEF RankIn
  <2>2. RankIn(s, i) \in Nat
    BY <2>1, <1>2
  <2> QED BY <2>1, <2>2, <1>2, <1>4
<1>5. CASE s[i].mark = "new"
  <2>1. RankIn(s, i) = 3 * c + 2
    BY <1>5 DEF RankIn
  <2>2. RankIn(s, i) \in Nat
    BY <2>1, <1>2
  <2> QED BY <2>1, <2>2, <1>2, <1>5
<1> QED BY <1>0, <1>3, <1>4, <1>5

LEMMA Interval == ASSUME NEW N \in Nat PROVE IsFiniteSet(1 .. N) /\ Cardinality(1 .. N) = N
<1>1. IsFiniteSet(1 .. N) /\ Cardinality(1 .. N) = IF 1 > N THEN 0 ELSE N - 1 + 1
  BY FS_Interval
<1> QED BY <1>1

LEMMA Positions ==
  ASSUME NEW N \in Nat, NEW K \in SUBSET (1 .. N)
  PROVE  K \in SUBSET Int /\ IsFiniteSet(K) /\ Cardinality(K) \in Nat /\ Cardinality(K) <= N
<1>1. IsFiniteSet(1 .. N) /\ Cardinality(1 .. N) = N
  BY Interval
<1>2. IsFiniteSet(K) /\ Cardinality(K) <= N
  BY <1>1, FS_Subset
<1>3. Cardinality(K) \in Nat
  BY <1>2, FS_CardinalityType
<1> QED BY <1>2, <1>3

LEMMA KeyType ==
  ASSUME NEW s \in Seq(Marked), NEW i \in 1 .. Len(s)
  PROVE  KeyIn(s)[i] = RankIn(s, i) * Len(s) + i /\ KeyIn(s)[i] \in Int
<1>1. Len(s) \in Nat /\ DOMAIN s = 1 .. Len(s)
  BY ScriptFacts
<1>2. RankIn(s, i) \in Nat
  BY RankFacts
<1>3. KeyIn(s)[i] = RankIn(s, i) * Len(s) + i
  BY <1>1 DEF KeyIn
<1> QED BY <1>1, <1>2, <1>3

\* Keys follow the ranks, and for equal ranks the positions.
LEMMA KeyOrder ==
  ASSUME NEW s \in Seq(Marked), NEW i \in 1 .. Len(s), NEW j \in 1 .. Len(s)
  PROVE  /\ KeyIn(s)[i] < KeyIn(s)[j] => RankIn(s, i) <= RankIn(s, j)
         /\ RankIn(s, i) < RankIn(s, j) => KeyIn(s)[i] < KeyIn(s)[j]
         /\ RankIn(s, i) = RankIn(s, j) /\ i < j => KeyIn(s)[i] < KeyIn(s)[j]
         /\ KeyIn(s)[i] = KeyIn(s)[j] => i = j
<1> DEFINE a == RankIn(s, i)
           b == RankIn(s, j)
           L == Len(s)
<1>1. L \in Nat /\ i \in Int /\ j \in Int
  BY ScriptFacts
<1>2. a \in Nat /\ b \in Nat
  BY RankFacts
<1>3. KeyIn(s)[i] = a * L + i /\ KeyIn(s)[j] = b * L + j
  BY KeyType
<1>4. a < b => a * L + i < b * L + j
  BY <1>1, <1>2, RankFirst
<1>5. b < a => b * L + j < a * L + i
  BY <1>1, <1>2, RankFirst
<1>6. a * L \in Int /\ b * L \in Int /\ (a = b => a * L = b * L)
  BY <1>1, <1>2
<1> HIDE DEF a, b, L
<1>7. /\ a * L + i < b * L + j => a <= b
      /\ a < b => a * L + i < b * L + j
      /\ a = b /\ i < j => a * L + i < b * L + j
      /\ a * L + i = b * L + j => i = j
  BY <1>1, <1>2, <1>4, <1>5, <1>6
<1> QED BY <1>3, <1>7 DEF a, b

LEMMA KeysDiffer ==
  ASSUME NEW s \in Seq(Marked)
  PROVE  /\ KeyIn(s) \in [1 .. Len(s) -> Int]
         /\ \A i, j \in 1 .. Len(s) : KeyIn(s)[i] = KeyIn(s)[j] => i = j
<1>1. \A i \in 1 .. Len(s) : KeyIn(s)[i] \in Int
  BY KeyType
<1>2. KeyIn(s) = [i \in 1 .. Len(s) |-> KeyIn(s)[i]]
  BY ScriptFacts, KeyType DEF KeyIn
<1>3. \A i, j \in 1 .. Len(s) : KeyIn(s)[i] = KeyIn(s)[j] => i = j
  BY KeyOrder
<1> QED BY <1>1, <1>2, <1>3

\* Reordered puts deletions first, and loses or adds nothing.
LEMMA ReorderedOK ==
  ASSUME NEW s \in Seq(Marked)
  PROVE  /\ Reordered(s) \in Seq(Marked) /\ Len(Reordered(s)) = Len(s)
         /\ Ordered(Reordered(s))
<1> DEFINE N == Len(s)
           order == Arranged(1 .. N, KeyIn(s))
           t == Reordered(s)
<1>1. N \in Nat /\ DOMAIN s = 1 .. N /\ \A i \in 1 .. N : s[i] \in Marked
  BY ScriptFacts
<1>2. IsList(order, N, 1 .. N, KeyIn(s))
  <2>1. IsFiniteSet(1 .. N) /\ Cardinality(1 .. N) = N
    BY <1>1, Interval
  <2>2. /\ KeyIn(s) \in [1 .. N -> Int]
        /\ \A i, j \in 1 .. N : KeyIn(s)[i] = KeyIn(s)[j] => i = j
    BY KeysDiffer
  <2> QED BY <2>1, <2>2, ArrangedIsList
<1>3. t = [n \in 1 .. N |-> s[order[n]]]
  BY <1>1, ReorderedAs
<1> HIDE DEF order, t
<1>4. ASSUME NEW n \in 1 .. N PROVE order[n] \in 1 .. N
  BY <1>2 DEF IsList
<1>5. t \in [1 .. N -> Marked]
  BY <1>1, <1>3, <1>4
<1>6. t \in Seq(Marked) /\ Len(t) = N
  BY <1>1, <1>5
<1>7. ASSUME NEW i \in 1 .. N, NEW j \in 1 .. N, i < j
      PROVE  RankIn(s, order[i]) <= RankIn(s, order[j])
  <2>1. KeyIn(s)[order[i]] < KeyIn(s)[order[j]]
    BY <1>2, <1>7 DEF IsList
  <2>2. order[i] \in 1 .. N /\ order[j] \in 1 .. N
    BY <1>4
  <2> QED BY <2>1, <2>2, KeyOrder
<1>8. Ordered(t)
  <2> SUFFICES ASSUME NEW i \in Changed(t), NEW j \in Changed(t), Together(t, i, j),
                      t[i].mark = "new", t[j].mark = "old"
               PROVE  FALSE
    BY DEF Ordered
  <2> DEFINE a == order[i]
             b == order[j]
  <2>1. i \in 1 .. N /\ j \in 1 .. N /\ i < j
    BY <1>5 DEF Changed, Together
  <2>2. a \in 1 .. N /\ b \in 1 .. N /\ s[a].mark = "new" /\ s[b].mark = "old"
    BY <2>1, <1>3, <1>4
  <2>3. RankIn(s, a) <= RankIn(s, b)
    BY <2>1, <1>7
  <2> HIDE DEF a, b
  <2>4. /\ RankIn(s, a) = 3 * Cardinality(Spaces(s, a)) + 2 /\ Cardinality(Spaces(s, a)) \in Nat
        /\ RankIn(s, b) = 3 * Cardinality(Spaces(s, b)) + 1 /\ Cardinality(Spaces(s, b)) \in Nat
    BY <2>2, RankFacts
  <2>5. Cardinality(Spaces(s, a)) < Cardinality(Spaces(s, b))
    BY <2>3, <2>4
  <2>6. PICK u \in 1 .. b : s[u].mark = "both" /\ a < u
    BY <2>2, <2>5, SpaceBetween
  <2>7. u \in 1 .. N /\ a < u /\ u <= b
    BY <2>2, <2>6, <1>1
  <2>8. /\ Cardinality(Spaces(s, a)) < Cardinality(Spaces(s, u))
        /\ Cardinality(Spaces(s, u)) <= Cardinality(Spaces(s, b))
    BY <2>2, <2>6, <2>7, SpacesGrow
  <2>9. RankIn(s, u) = 3 * Cardinality(Spaces(s, u)) /\ Cardinality(Spaces(s, u)) \in Nat
    BY <2>6, <2>7, RankFacts
  <2>10. RankIn(s, a) < RankIn(s, u) /\ RankIn(s, u) < RankIn(s, b)
    BY <2>4, <2>8, <2>9
  <2>11. PICK x \in 1 .. N : order[x] = u
    BY <2>7, <1>2 DEF IsList
  <2>12. ~ (x <= i)
    <3>1. x < i => RankIn(s, u) <= RankIn(s, a)
      BY <2>1, <2>11, <1>7 DEF a
    <3>2. x # i
      BY <2>10, <2>11, <2>4, <2>9 DEF a
    <3> QED BY <3>1, <3>2, <2>1, <2>4, <2>9, <2>10
  <2>13. ~ (j <= x)
    <3>1. j < x => RankIn(s, b) <= RankIn(s, u)
      BY <2>1, <2>11, <1>7 DEF b
    <3>2. x # j
      BY <2>10, <2>11, <2>4, <2>9 DEF b
    <3> QED BY <3>1, <3>2, <2>1, <2>4, <2>9, <2>10
  <2>14. x \in i .. j
    BY <2>1, <2>12, <2>13
  <2>15. t[x].mark # "both"
    BY <2>14 DEF Together, Changed
  <2>16. t[x].mark = "both"
    BY <2>11, <2>6, <1>3
  <2> QED BY <2>15, <2>16
<1> QED BY <1>6, <1>8 DEF t

\* Without deletions there is nothing to reorder.
NoneDeleted(s) == \A i \in 1 .. Len(s) : s[i].mark # "old"

LEMMA ReorderedSame ==
  ASSUME NEW s \in Seq(Marked), NoneDeleted(s)
  PROVE  Reordered(s) = s
<1> DEFINE N == Len(s)
<1>1. N \in Nat /\ DOMAIN s = 1 .. N /\ s \in [1 .. N -> Marked]
  BY ScriptFacts
<1>2. PICK f : f = [i \in 1 .. N |-> i]
  OBVIOUS
<1>3. ASSUME NEW i \in 1 .. N, NEW j \in 1 .. N, i < j
      PROVE  KeyIn(s)[i] < KeyIn(s)[j]
  <2> DEFINE a == Cardinality(Spaces(s, i))
             b == Cardinality(Spaces(s, j))
  <2>1. i \in Nat /\ j \in Nat
    BY <1>1
  <2>2. a <= b /\ (s[j].mark = "both" => a < b)
    BY <2>1, <1>3, SpacesGrow
  <2>3. /\ s[i].mark \in {"both", "new"} /\ s[j].mark \in {"both", "new"}
    BY ScriptFacts DEF NoneDeleted
  <2>4. /\ a \in Nat /\ b \in Nat /\ RankIn(s, i) \in Nat /\ RankIn(s, j) \in Nat
        /\ s[i].mark = "both" => RankIn(s, i) = 3 * a
        /\ s[i].mark = "new" => RankIn(s, i) = 3 * a + 2
        /\ s[j].mark = "both" => RankIn(s, j) = 3 * b
        /\ s[j].mark = "new" => RankIn(s, j) = 3 * b + 2
    BY RankFacts
  <2> HIDE DEF a, b
  <2>5. RankIn(s, i) <= RankIn(s, j)
    BY <2>2, <2>3, <2>4
  <2>6. RankIn(s, i) < RankIn(s, j) \/ RankIn(s, i) = RankIn(s, j)
    BY <2>4, <2>5
  <2> QED BY <2>6, <1>3, KeyOrder
<1>4. IsList(f, N, 1 .. N, KeyIn(s))
  <2>1. KeyIn(s) \in [1 .. N -> Int]
    BY KeysDiffer
  <2>2. f \in [1 .. N -> 1 .. N]
    BY <1>2
  <2>3. \A m, n \in 1 .. N : m < n => KeyIn(s)[f[m]] < KeyIn(s)[f[n]]
    BY <1>2, <1>3
  <2>4. \A i \in 1 .. N : \E n \in 1 .. N : f[n] = i
    BY <1>2
  <2> QED BY <1>1, <2>1, <2>2, <2>3, <2>4 DEF IsList
<1>5. Arranged(1 .. N, KeyIn(s)) = f
  BY <1>4, OnlyList, Zenon
<1>6. Reordered(s) = [n \in 1 .. N |-> s[f[n]]]
  BY <1>1, <1>5, ReorderedAs
<1> QED BY <1>1, <1>2, <1>6

-----------------------------------------------------------------------------
(* What git shows: a line that is deleted and added is unchanged. *)

\* Pieces of scripts.
LEMMA PieceOf ==
  ASSUME NEW s \in Seq(Marked), NEW m \in Int, NEW n \in Int, 1 <= m, m <= n + 1, n <= Len(s)
  PROVE  /\ SubSeq(s, m, n) \in Seq(Marked) /\ Len(SubSeq(s, m, n)) = n - m + 1
         /\ \A i \in 1 .. n - m + 1 : SubSeq(s, m, n)[i] = s[m + i - 1]
<1>1. Len(s) \in Nat
  BY ScriptFacts
<1>2. \A i \in m .. n : i \in 1 .. Len(s)
  BY <1>1
<1>3. \A i \in m .. n : s[i] \in Marked
  BY <1>2, ScriptFacts
<1>4. /\ SubSeq(s, m, n) \in Seq(Marked)
      /\ Len(SubSeq(s, m, n)) = IF m <= n THEN n - m + 1 ELSE 0
      /\ \A i \in 1 .. n - m + 1 : SubSeq(s, m, n)[i] = s[m + i - 1]
  BY <1>3, SubSeqProperties
<1> QED BY <1>4

LEMMA Joined ==
  ASSUME NEW u \in Seq(Marked), NEW v \in Seq(Marked)
  PROVE  /\ u \o v \in Seq(Marked) /\ Len(u \o v) = Len(u) + Len(v)
         /\ \A i \in 1 .. Len(u) : (u \o v)[i] = u[i]
         /\ \A i \in 1 .. Len(v) : (u \o v)[Len(u) + i] = v[i]
<1>1. Len(u) \in Nat /\ Len(v) \in Nat
  BY ScriptFacts
<1>2. /\ u \o v \in Seq(Marked) /\ Len(u \o v) = Len(u) + Len(v)
      /\ \A i \in 1 .. Len(u) + Len(v) : (u \o v)[i] = IF i <= Len(u) THEN u[i] ELSE v[i - Len(u)]
  BY ConcatProperties
<1>3. \A i \in 1 .. Len(u) : (u \o v)[i] = u[i]
  BY <1>1, <1>2
<1>4. ASSUME NEW i \in 1 .. Len(v) PROVE (u \o v)[Len(u) + i] = v[i]
  <2>1. Len(u) + i \in 1 .. Len(u) + Len(v) /\ ~ (Len(u) + i <= Len(u)) /\ Len(u) + i - Len(u) = i
    BY <1>1
  <2> QED BY <2>1, <1>2
<1> QED BY <1>2, <1>3, <1>4

IsJoined(w, u, m, v, n) ==
  /\ w \in Seq(Marked) /\ Len(w) = m + n
  /\ \A i \in 1 .. m : w[i] = u[i]
  /\ \A i \in 1 .. n : w[m + i] = v[i]

LEMMA JoinedTo ==
  ASSUME NEW u \in Seq(Marked), NEW v \in Seq(Marked), NEW m, Len(u) = m, NEW n, Len(v) = n
  PROVE  IsJoined(u \o v, u, m, v, n)
  BY Joined DEF IsJoined

\* The deletion at a and the addition at b of the same line, between which are
\* deletions up to d and additions after it.
IsPair(s, a, d, b) ==
  /\ a \in 1 .. Len(s) /\ b \in 1 .. Len(s) /\ d \in a .. b - 1
  /\ s[a].line = s[b].line
  /\ \A i \in a .. d : s[i].mark = "old"
  /\ \A i \in d + 1 .. b : s[i].mark = "new"

Without(s, a, d, b) ==
  SubSeq(s, 1, a - 1) \o SubSeq(s, d + 1, b - 1) \o <<Mark("both", s[a].line)>>
    \o SubSeq(s, a + 1, d) \o SubSeq(s, b + 1, Len(s))

LEMMA PairedAs ==
  ASSUME NEW s \in Seq(Marked), Ordered(s), Pairs(s) # {}
  PROVE  \E a, d, b \in Nat : IsPair(s, a, d, b) /\ Paired(s) = Without(s, a, d, b)
<1> DEFINE p == CHOOSE p \in Pairs(s) : TRUE
           a == p[1]
           b == p[2]
           d == CHOOSE d \in p[1] .. p[2] : s[d].mark = "old" /\ s[d + 1].mark = "new"
<1>0. Len(s) \in Nat /\ DOMAIN s = 1 .. Len(s)
  BY ScriptFacts
<1>1. p \in Pairs(s)
  OBVIOUS
<1> HIDE DEF p
<1>2. /\ a \in Changed(s) /\ b \in Changed(s) /\ Together(s, a, b)
      /\ s[a].mark = "old" /\ s[b].mark = "new" /\ s[a].line = s[b].line
  BY <1>1 DEF Pairs
<1>3. /\ a \in 1 .. Len(s) /\ b \in 1 .. Len(s) /\ a < b
      /\ \A i \in a .. b : i \in 1 .. Len(s) /\ s[i].mark # "both"
  BY <1>0, <1>2 DEF Changed, Together
<1> HIDE DEF a, b
<1>4. \A i, j \in a .. b : i < j => ~ (s[i].mark = "new" /\ s[j].mark = "old")
  <2> SUFFICES ASSUME NEW i \in a .. b, NEW j \in a .. b, i < j, s[i].mark = "new", s[j].mark = "old"
               PROVE  FALSE
    OBVIOUS
  <2>1. \A k \in i .. j : k \in a .. b
    BY <1>3
  <2>2. i \in Changed(s) /\ j \in Changed(s) /\ Together(s, i, j)
    BY <1>0, <1>3, <2>1 DEF Changed, Together
  <2> QED BY <2>2 DEF Ordered
<1>5. \E k \in a .. b : s[k].mark = "old" /\ s[k + 1].mark = "new"
  <2> DEFINE O == {k \in a .. b : s[k].mark = "old"}
  <2>1. O \in SUBSET Nat /\ O # {} /\ b \in Nat /\ \A x \in O : x <= b
    BY <1>2, <1>3
  <2>2. PICK k \in O : \A y \in O : y <= k
    <3> HIDE DEF O
    <3> QED BY <2>1, Greatest
  <2>3. k \in a .. b /\ s[k].mark = "old" /\ k # b
    BY <1>2
  <2>4. k + 1 \in a .. b /\ ~ (k + 1 <= k)
    BY <2>3, <1>3
  <2>5. s[k + 1].mark # "old"
    BY <2>2, <2>4
  <2>6. s[k + 1].mark \in {"both", "old", "new"} /\ s[k + 1].mark # "both"
    BY <2>4, <1>3, ScriptFacts
  <2> QED BY <2>3, <2>5, <2>6
<1>6. d \in a .. b /\ s[d].mark = "old" /\ s[d + 1].mark = "new"
  BY <1>5 DEF a, b
<1> HIDE DEF d
<1>7. d \in a .. b - 1
  <2>1. d # b
    BY <1>2, <1>6
  <2> QED BY <2>1, <1>3, <1>6
<1>8. ASSUME NEW i \in a .. d PROVE s[i].mark = "old"
  <2>1. i \in a .. b /\ d + 1 \in a .. b /\ d \in a .. b /\ (i = d \/ i < d)
    BY <1>3, <1>7
  <2>2. s[i].mark # "new"
    BY <2>1, <1>4, <1>6
  <2>3. s[i].mark \in {"both", "old", "new"} /\ s[i].mark # "both"
    BY <2>1, <1>3, ScriptFacts
  <2> QED BY <2>2, <2>3
<1>9. ASSUME NEW i \in d + 1 .. b PROVE s[i].mark = "new"
  <2>1. i \in a .. b /\ d + 1 \in a .. b /\ (i = d + 1 \/ d + 1 < i)
    BY <1>3, <1>7
  <2>2. s[i].mark # "old"
    BY <2>1, <1>4, <1>6
  <2>3. s[i].mark \in {"both", "old", "new"} /\ s[i].mark # "both"
    BY <2>1, <1>3, ScriptFacts
  <2> QED BY <2>2, <2>3
<1>10. IsPair(s, a, d, b)
  BY <1>2, <1>3, <1>7, <1>8, <1>9 DEF IsPair
<1>11. Paired(s) = Without(s, a, d, b)
  BY Zenon DEF Paired, Without, p, a, b, d
<1>12. a \in Nat /\ d \in Nat /\ b \in Nat
  BY <1>3, <1>7
<1> QED BY <1>10, <1>11, <1>12

\* The lines of what is left, in terms of e, the number of lines before the
\* unchanged one.
LinesWithout(t, s, a, d, b, e) ==
  /\ t \in Seq(Marked) /\ Len(t) = Len(s) - 1
  /\ \A i \in 1 .. a - 1 : t[i] = s[i]
  /\ \A i \in a .. e : t[i] = s[i + d + 1 - a]
  /\ t[e + 1] = Mark("both", s[a].line)
  /\ \A i \in e + 2 .. b - 1 : t[i] = s[i + a - e - 1]
  /\ \A i \in b .. Len(s) - 1 : t[i] = s[i + 1]

LEMMA WithoutLines ==
  ASSUME NEW s \in Seq(Marked), NEW a \in Nat, NEW d \in Nat, NEW b \in Nat, IsPair(s, a, d, b),
         NEW e, e = a + b - d - 2
  PROVE  LinesWithout(Without(s, a, d, b), s, a, d, b, e)
<1> DEFINE A == SubSeq(s, 1, a - 1)
           B == SubSeq(s, d + 1, b - 1)
           C == <<Mark("both", s[a].line)>>
           D == SubSeq(s, a + 1, d)
           E == SubSeq(s, b + 1, Len(s))
           AB == A \o B
           ABC == AB \o C
           ABCD == ABC \o D
           t == ABCD \o E
<1>1. /\ Len(s) \in Nat /\ a \in 1 .. Len(s) /\ b \in 1 .. Len(s) /\ d \in a .. b - 1
  BY ScriptFacts DEF IsPair
<1>2. /\ A \in Seq(Marked) /\ Len(A) = a - 1
      /\ \A i \in 1 .. a - 1 : A[i] = s[1 + i - 1]
  <2>1. 1 \in Int /\ a - 1 \in Int /\ 1 <= 1 /\ 1 <= a - 1 + 1 /\ a - 1 <= Len(s) /\ a - 1 - 1 + 1 = a - 1
    BY <1>1
  <2> QED BY <2>1, PieceOf
<1>3. /\ B \in Seq(Marked) /\ Len(B) = b - 1 - d
      /\ \A i \in 1 .. b - 1 - d : B[i] = s[d + 1 + i - 1]
  <2>1. d + 1 \in Int /\ b - 1 \in Int /\ 1 <= d + 1 /\ d + 1 <= b - 1 + 1 /\ b - 1 <= Len(s)
        /\ b - 1 - (d + 1) + 1 = b - 1 - d
    BY <1>1
  <2> QED BY <2>1, PieceOf
<1>4. C \in Seq(Marked) /\ Len(C) = 1 /\ C[1] = Mark("both", s[a].line)
  <2>1. Mark("both", s[a].line) \in Marked
    BY <1>1, ScriptFacts DEF Marked, Mark
  <2> QED BY <2>1
<1>5. /\ D \in Seq(Marked) /\ Len(D) = d - a
      /\ \A i \in 1 .. d - a : D[i] = s[a + 1 + i - 1]
  <2>1. a + 1 \in Int /\ d \in Int /\ 1 <= a + 1 /\ a + 1 <= d + 1 /\ d <= Len(s)
        /\ d - (a + 1) + 1 = d - a
    BY <1>1
  <2> QED BY <2>1, PieceOf
<1>6. /\ E \in Seq(Marked) /\ Len(E) = Len(s) - b
      /\ \A i \in 1 .. Len(s) - b : E[i] = s[b + 1 + i - 1]
  <2> DEFINE N == Len(s)
  <2>1. b + 1 \in Int /\ N \in Int /\ 1 <= b + 1 /\ b + 1 <= N + 1 /\ N <= Len(s)
        /\ N - (b + 1) + 1 = N - b
    BY <1>1
  <2>2. E = SubSeq(s, b + 1, N)
    OBVIOUS
  <2> HIDE DEF N, E
  <2>3. /\ E \in Seq(Marked) /\ Len(E) = N - (b + 1) + 1
        /\ \A i \in 1 .. N - (b + 1) + 1 : E[i] = s[b + 1 + i - 1]
    BY <2>1, <2>2, PieceOf
  <2>4. /\ E \in Seq(Marked) /\ Len(E) = N - b
        /\ \A i \in 1 .. N - b : E[i] = s[b + 1 + i - 1]
    BY <2>1, <2>3
  <2> QED BY <2>4 DEF N
<1> HIDE DEF A, B, C, D, E
<1>7. /\ AB \in Seq(Marked) /\ Len(AB) = e
      /\ \A i \in 1 .. a - 1 : AB[i] = A[i]
      /\ \A i \in 1 .. b - 1 - d : AB[a - 1 + i] = B[i]
  <2>1. PICK m : m = a - 1
    OBVIOUS
  <2>2. PICK n : n = b - 1 - d
    OBVIOUS
  <2>3. A \in Seq(Marked) /\ Len(A) = m /\ B \in Seq(Marked) /\ Len(B) = n
    BY <1>2, <1>3, <2>1, <2>2
  <2>4. IsJoined(AB, A, m, B, n)
    BY <2>3, JoinedTo
  <2> HIDE DEF AB
  <2>5. m + n = e
    BY <1>1, <2>1, <2>2
  <2>6. AB \in Seq(Marked) /\ Len(AB) = e
    BY <2>4, <2>5 DEF IsJoined
  <2> QED BY <2>1, <2>2, <2>4, <2>6 DEF IsJoined
<1> HIDE DEF AB
<1>8. /\ ABC \in Seq(Marked) /\ Len(ABC) = e + 1
      /\ \A i \in 1 .. e : ABC[i] = AB[i]
      /\ \A i \in 1 .. 1 : ABC[e + i] = C[i]
  <2>1. PICK m : m = e
    OBVIOUS
  <2>2. PICK n : n = 1
    OBVIOUS
  <2>3. AB \in Seq(Marked) /\ Len(AB) = m /\ C \in Seq(Marked) /\ Len(C) = n
    BY <1>7, <1>4, <2>1, <2>2
  <2>4. IsJoined(ABC, AB, m, C, n)
    BY <2>3, JoinedTo
  <2> HIDE DEF ABC
  <2>5. m + n = e + 1
    BY <1>1, <2>1, <2>2
  <2>6. ABC \in Seq(Marked) /\ Len(ABC) = e + 1
    BY <2>4, <2>5 DEF IsJoined
  <2> QED BY <2>1, <2>2, <2>4, <2>6 DEF IsJoined
<1> HIDE DEF ABC
<1>9. /\ ABCD \in Seq(Marked) /\ Len(ABCD) = b - 1
      /\ \A i \in 1 .. e + 1 : ABCD[i] = ABC[i]
      /\ \A i \in 1 .. d - a : ABCD[e + 1 + i] = D[i]
  <2>1. PICK m : m = e + 1
    OBVIOUS
  <2>2. PICK n : n = d - a
    OBVIOUS
  <2>3. ABC \in Seq(Marked) /\ Len(ABC) = m /\ D \in Seq(Marked) /\ Len(D) = n
    BY <1>8, <1>5, <2>1, <2>2
  <2>4. IsJoined(ABCD, ABC, m, D, n)
    BY <2>3, JoinedTo
  <2> HIDE DEF ABCD
  <2>5. m + n = b - 1
    BY <1>1, <2>1, <2>2
  <2>6. ABCD \in Seq(Marked) /\ Len(ABCD) = b - 1
    BY <2>4, <2>5 DEF IsJoined
  <2> QED BY <2>1, <2>2, <2>4, <2>6 DEF IsJoined
<1> HIDE DEF ABCD
<1>10. /\ t \in Seq(Marked) /\ Len(t) = Len(s) - 1
       /\ \A i \in 1 .. b - 1 : t[i] = ABCD[i]
       /\ \A i \in 1 .. Len(s) - b : t[b - 1 + i] = E[i]
  <2>1. PICK m : m = b - 1
    OBVIOUS
  <2>2. PICK n : n = Len(s) - b
    OBVIOUS
  <2>3. ABCD \in Seq(Marked) /\ Len(ABCD) = m /\ E \in Seq(Marked) /\ Len(E) = n
    BY <1>9, <1>6, <2>1, <2>2
  <2>4. IsJoined(t, ABCD, m, E, n)
    BY <2>3, JoinedTo
  <2> HIDE DEF t
  <2>5. m + n = Len(s) - 1
    BY <1>1, <2>1, <2>2
  <2>6. t \in Seq(Marked) /\ Len(t) = Len(s) - 1
    BY <2>4, <2>5 DEF IsJoined
  <2> QED BY <2>1, <2>2, <2>4, <2>6 DEF IsJoined
<1> HIDE DEF t
<1>11. t = Without(s, a, d, b)
  BY DEF t, ABCD, ABC, AB, A, B, C, D, E, Without
<1>12. ASSUME NEW i \in 1 .. a - 1 PROVE t[i] = s[i]
  <2>1. i \in 1 .. b - 1 /\ i \in 1 .. e + 1 /\ i \in 1 .. e /\ 1 + i - 1 = i
    BY <1>1
  <2>2. t[i] = ABCD[i] /\ ABCD[i] = ABC[i] /\ ABC[i] = AB[i]
    BY <2>1, <1>8, <1>9, <1>10
  <2>3. AB[i] = A[i] /\ A[i] = s[1 + i - 1]
    BY <1>2, <1>7
  <2> QED BY <2>1, <2>2, <2>3
<1>13. ASSUME NEW i \in a .. e PROVE t[i] = s[i + d + 1 - a]
  <2>1. PICK x : x = i - (a - 1)
    OBVIOUS
  <2>2. /\ i \in 1 .. b - 1 /\ i \in 1 .. e + 1 /\ i \in 1 .. e
        /\ x \in 1 .. b - 1 - d /\ a - 1 + x = i /\ d + 1 + x - 1 = i + d + 1 - a
    BY <1>1, <2>1
  <2>3. t[i] = ABCD[i] /\ ABCD[i] = ABC[i] /\ ABC[i] = AB[i]
    BY <2>2, <1>8, <1>9, <1>10
  <2>4. AB[a - 1 + x] = B[x] /\ B[x] = s[d + 1 + x - 1]
    BY <2>2, <1>3, <1>7
  <2> QED BY <2>2, <2>3, <2>4
<1>14. t[e + 1] = Mark("both", s[a].line)
  <2>1. e + 1 \in 1 .. b - 1 /\ e + 1 \in 1 .. e + 1 /\ 1 \in 1 .. 1
    BY <1>1
  <2>2. t[e + 1] = ABCD[e + 1] /\ ABCD[e + 1] = ABC[e + 1]
    BY <2>1, <1>9, <1>10
  <2>3. ABC[e + 1] = C[1]
    BY <2>1, <1>8
  <2> QED BY <2>2, <2>3, <1>4
<1>15. ASSUME NEW i \in e + 2 .. b - 1 PROVE t[i] = s[i + a - e - 1]
  <2>1. PICK x : x = i - (e + 1)
    OBVIOUS
  <2>2. i \in 1 .. b - 1 /\ x \in 1 .. d - a /\ e + 1 + x = i /\ a + 1 + x - 1 = i + a - e - 1
    BY <1>1, <2>1
  <2>3. t[i] = ABCD[i]
    BY <2>2, <1>10
  <2>4. ABCD[e + 1 + x] = D[x] /\ D[x] = s[a + 1 + x - 1]
    BY <2>2, <1>5, <1>9
  <2> QED BY <2>2, <2>3, <2>4
<1>16. ASSUME NEW i \in b .. Len(s) - 1 PROVE t[i] = s[i + 1]
  <2>1. PICK x : x = i - (b - 1)
    OBVIOUS
  <2>2. x \in 1 .. Len(s) - b /\ b - 1 + x = i /\ b + 1 + x - 1 = i + 1
    BY <1>1, <2>1
  <2>3. t[b - 1 + x] = E[x]
    BY <2>2, <1>10
  <2>4. E[x] = s[b + 1 + x - 1]
    BY <2>2, <1>6, Zenon
  <2> QED BY <2>2, <2>3, <2>4
<1>17. LinesWithout(t, s, a, d, b, e)
  BY <1>10, <1>12, <1>13, <1>14, <1>15, <1>16 DEF LinesWithout
<1> QED BY <1>11, <1>17

LEMMA OrderedFails ==
  ASSUME NEW s \in Seq(Marked), Ordered(s), NEW i \in 1 .. Len(s), NEW j \in 1 .. Len(s), i < j,
         \A k \in i .. j : s[k].mark # "both", s[i].mark = "new", s[j].mark = "old"
  PROVE  FALSE
<1>1. Len(s) \in Nat /\ DOMAIN s = 1 .. Len(s)
  BY ScriptFacts
<1>2. i \in i .. j /\ j \in i .. j /\ i .. j \subseteq 1 .. Len(s)
  BY <1>1
<1>3. i .. j \subseteq Changed(s)
  BY <1>1, <1>2 DEF Changed
<1>4. i \in Changed(s) /\ j \in Changed(s) /\ Together(s, i, j)
  BY <1>2, <1>3 DEF Together
<1> QED BY <1>4 DEF Ordered

LEMMA WithoutOrdered ==
  ASSUME NEW s \in Seq(Marked), Ordered(s),
         NEW a \in Nat, NEW d \in Nat, NEW b \in Nat, IsPair(s, a, d, b),
         NEW e, e = a + b - d - 2, NEW t, LinesWithout(t, s, a, d, b, e)
  PROVE  Ordered(t)
<1>1. /\ Len(s) \in Nat /\ a \in 1 .. Len(s) /\ b \in 1 .. Len(s) /\ d \in a .. b - 1 /\ e \in Int
  BY ScriptFacts DEF IsPair
<1>2. t \in Seq(Marked) /\ Len(t) = Len(s) - 1
  BY DEF LinesWithout
<1> SUFFICES ASSUME NEW i \in Changed(t), NEW j \in Changed(t), Together(t, i, j),
                    t[i].mark = "new", t[j].mark = "old"
             PROVE  FALSE
  BY DEF Ordered
<1>3. i \in 1 .. Len(t) /\ j \in 1 .. Len(t) /\ i < j /\ \A k \in i .. j : t[k].mark # "both"
  <2>1. DOMAIN t = 1 .. Len(t)
    BY <1>2, ScriptFacts
  <2> QED BY <2>1 DEF Changed, Together
<1>4. ~ (e + 1 \in i .. j)
  <2>1. t[e + 1].mark = "both"
    BY DEF LinesWithout, Mark
  <2> QED BY <2>1, <1>3
<1>5. CASE j <= e
  <2>1. ~ (j \in a .. e)
    <3> SUFFICES ASSUME j \in a .. e PROVE FALSE
      OBVIOUS
    <3>1. t[j] = s[j + d + 1 - a]
      BY DEF LinesWithout
    <3>2. j + d + 1 - a \in d + 1 .. b
      BY <1>1
    <3>3. s[j + d + 1 - a].mark = "new"
      BY <3>2 DEF IsPair
    <3> QED BY <3>1, <3>3
  <2>2. i \in 1 .. Len(s) /\ j \in 1 .. Len(s) /\ \A k \in i .. j : k \in 1 .. a - 1
    BY <1>1, <1>2, <1>3, <1>5, <2>1
  <2>3. \A k \in i .. j : t[k] = s[k]
    BY <2>2 DEF LinesWithout
  <2>4. i \in i .. j /\ j \in i .. j
    BY <1>3
  <2> QED BY <1>3, <2>2, <2>3, <2>4, OrderedFails
<1>6. CASE e + 2 <= i
  <2>1. ~ (i \in e + 2 .. b - 1)
    <3> SUFFICES ASSUME i \in e + 2 .. b - 1 PROVE FALSE
      OBVIOUS
    <3>1. t[i] = s[i + a - e - 1]
      BY DEF LinesWithout
    <3>2. i + a - e - 1 \in a .. d
      BY <1>1
    <3>3. s[i + a - e - 1].mark = "old"
      BY <3>2 DEF IsPair
    <3> QED BY <3>1, <3>3
  <2>2. i + 1 \in 1 .. Len(s) /\ j + 1 \in 1 .. Len(s) /\ i + 1 < j + 1
        /\ \A k \in i .. j : k \in b .. Len(s) - 1
    BY <1>1, <1>2, <1>3, <1>6, <2>1
  <2>3. \A k \in i .. j : t[k] = s[k + 1]
    BY <2>2 DEF LinesWithout
  <2>4. i \in i .. j /\ j \in i .. j
    BY <1>3
  <2>5. ASSUME NEW k \in i + 1 .. j + 1 PROVE s[k].mark # "both"
    <3>1. k - 1 \in i .. j /\ k - 1 + 1 = k
      BY <1>3
    <3> QED BY <3>1, <2>3, <1>3
  <2>6. s[i + 1].mark = "new" /\ s[j + 1].mark = "old"
    BY <2>3, <2>4
  <2> QED BY <2>2, <2>5, <2>6, OrderedFails
<1> QED BY <1>1, <1>2, <1>3, <1>4, <1>5, <1>6

LEMMA PairedOK ==
  ASSUME NEW s \in Seq(Marked), Ordered(s), Pairs(s) # {}
  PROVE  /\ Paired(s) \in Seq(Marked) /\ Ordered(Paired(s))
         /\ Len(Paired(s)) \in Nat /\ Len(Paired(s)) = Len(s) - 1
<1>1. PICK a \in Nat, d \in Nat, b \in Nat : IsPair(s, a, d, b) /\ Paired(s) = Without(s, a, d, b)
  BY PairedAs
<1>2. PICK e : e = a + b - d - 2
  OBVIOUS
<1>3. LinesWithout(Paired(s), s, a, d, b, e)
  BY <1>1, <1>2, WithoutLines
<1>4. Ordered(Paired(s))
  BY <1>1, <1>2, <1>3, WithoutOrdered
<1>5. Paired(s) \in Seq(Marked) /\ Len(Paired(s)) = Len(s) - 1
  BY <1>3 DEF LinesWithout
<1>6. Len(Paired(s)) \in Nat
  BY <1>5, ScriptFacts
<1> QED BY <1>4, <1>5, <1>6

-----------------------------------------------------------------------------
(* Shown: Paired, until there is no pair left. *)

NextShown(t) == IF Pairs(t) = {} THEN t ELSE Paired(t)
IsShowing(s, f) ==
  f = [n \in 0 .. Len(s) |-> IF n = 0 THEN Reordered(s) ELSE NextShown(f[n - 1])]

\* There is the function that Shown is defined with.
LEMMA Showing ==
  ASSUME NEW s \in Seq(Marked)
  PROVE  \E f : IsShowing(s, f)
<1>1. Len(s) \in Nat
  BY ScriptFacts
<1> DEFINE Upto(m, f) ==
             f = [n \in 0 .. m |-> IF n = 0 THEN Reordered(s) ELSE NextShown(f[n - 1])]
           T == {m \in Nat : \E f : Upto(m, f)}
<1>2. 0 \in T
  <2> DEFINE f == [n \in 0 .. 0 |-> Reordered(s)]
  <2>1. \A n \in 0 .. 0 : n = 0
    OBVIOUS
  <2>2. f = [n \in 0 .. 0 |-> IF n = 0 THEN Reordered(s) ELSE NextShown(f[n - 1])]
    BY <2>1
  <2> QED BY <2>2
<1>3. ASSUME NEW m \in Nat, m \in T PROVE m + 1 \in T
  <2>1. PICK f : Upto(m, f)
    BY <1>3
  <2> DEFINE g == [n \in 0 .. m + 1 |-> IF n = m + 1 THEN NextShown(f[m]) ELSE f[n]]
  <2>2. ASSUME NEW n \in 0 .. m + 1
        PROVE  g[n] = IF n = 0 THEN Reordered(s) ELSE NextShown(g[n - 1])
    <3>1. CASE n = 0
      BY <3>1, <2>1
    <3>2. CASE n # 0 /\ n # m + 1
      <4>1. n \in 0 .. m /\ n - 1 \in 0 .. m + 1 /\ n - 1 # m + 1
        BY <3>2
      <4>2. g[n] = f[n] /\ g[n - 1] = f[n - 1]
        BY <3>2, <4>1
      <4>3. f[n] = NextShown(f[n - 1])
        BY <2>1, <4>1, <3>2
      <4> HIDE DEF g
      <4> QED BY <4>2, <4>3, <3>2
    <3>3. CASE n = m + 1
      <4>1. n # 0 /\ n - 1 = m /\ m \in 0 .. m + 1 /\ m # m + 1
        BY <3>3
      <4>2. g[n] = NextShown(f[m]) /\ g[m] = f[m]
        BY <3>3, <4>1
      <4> HIDE DEF g
      <4> QED BY <4>1, <4>2
    <3> QED BY <3>1, <3>2, <3>3
  <2>3. g = [n \in 0 .. m + 1 |-> g[n]]
    OBVIOUS
  <2> HIDE DEF g
  <2>4. Upto(m + 1, g)
    BY <2>2, <2>3
  <2> QED BY <2>4
<1>4. Len(s) \in T
  <2> HIDE DEF T
  <2> QED BY <1>1, <1>2, <1>3, ByInduction
<1> QED BY <1>4 DEF IsShowing

LEMMA ShownAs ==
  ASSUME NEW s \in Seq(Marked)
  PROVE  \E f : IsShowing(s, f) /\ Shown(s) = f[Len(s)]
<1> DEFINE F == CHOOSE f : f = [n \in 0 .. Len(s) |->
                  IF n = 0 THEN Reordered(s)
                  ELSE LET t == f[n - 1] IN IF Pairs(t) = {} THEN t ELSE Paired(t)]
<1>1. \E f : f = [n \in 0 .. Len(s) |->
                  IF n = 0 THEN Reordered(s)
                  ELSE LET t == f[n - 1] IN IF Pairs(t) = {} THEN t ELSE Paired(t)]
  BY Showing, Zenon DEF IsShowing, NextShown
<1>2. F = [n \in 0 .. Len(s) |->
                  IF n = 0 THEN Reordered(s)
                  ELSE LET t == F[n - 1] IN IF Pairs(t) = {} THEN t ELSE Paired(t)]
  BY <1>1, Zenon
<1>3. Shown(s) = F[Len(s)]
  BY Zenon DEF Shown
<1>4. IsShowing(s, F)
  <2> HIDE DEF F
  <2> QED BY <1>2, Zenon DEF IsShowing, NextShown
<1> QED BY <1>3, <1>4, Zenon

\* What git shows is a script again, and canonical.
LEMMA ShownOK ==
  ASSUME NEW s \in Seq(Marked)
  PROVE  Shown(s) \in Seq(Marked) /\ Canonical(Shown(s))
<1> DEFINE N == Len(s)
<1>1. N \in Nat
  BY ScriptFacts
<1>2. PICK f : IsShowing(s, f) /\ Shown(s) = f[N]
  BY ShownAs
<1> DEFINE OK(n) == /\ f[n] \in Seq(Marked) /\ Ordered(f[n])
                    /\ Pairs(f[n]) = {} \/ Len(f[n]) <= N - n
           T == {n \in Nat : n <= N => OK(n)}
<1>3. 0 \in T
  <2>1. f[0] = Reordered(s)
    BY <1>1, <1>2 DEF IsShowing
  <2>2. f[0] \in Seq(Marked) /\ Ordered(f[0]) /\ Len(f[0]) <= N - 0
    BY <1>1, <2>1, ReorderedOK
  <2> QED BY <2>2
<1>4. ASSUME NEW n \in Nat, n \in T PROVE n + 1 \in T
  <2> SUFFICES ASSUME n + 1 <= N PROVE OK(n + 1)
    OBVIOUS
  <2>1. OK(n)
    BY <1>1, <1>4
  <2>2. f[n + 1] = NextShown(f[n])
    <3>1. n + 1 \in 0 .. N /\ n + 1 # 0 /\ n + 1 - 1 = n
      BY <1>1
    <3> QED BY <3>1, <1>2 DEF IsShowing
  <2>3. CASE Pairs(f[n]) = {}
    <3>1. f[n + 1] = f[n]
      BY <2>2, <2>3 DEF NextShown
    <3> QED BY <2>1, <2>3, <3>1
  <2>4. CASE Pairs(f[n]) # {}
    <3>1. f[n + 1] = Paired(f[n])
      BY <2>2, <2>4 DEF NextShown
    <3>2. /\ f[n + 1] \in Seq(Marked) /\ Ordered(f[n + 1])
          /\ Len(f[n + 1]) \in Nat /\ Len(f[n + 1]) = Len(f[n]) - 1
      BY <2>1, <2>4, <3>1, PairedOK
    <3>3. Len(f[n]) <= N - n /\ Len(f[n]) \in Nat
      BY <2>1, <2>4, ScriptFacts
    <3>4. Len(f[n + 1]) <= N - (n + 1)
      BY <1>1, <3>2, <3>3
    <3> QED BY <3>2, <3>4
  <2> QED BY <2>3, <2>4
<1>5. N \in T
  <2> HIDE DEF T, N
  <2> QED BY <1>1, <1>3, <1>4, ByInduction
<1>6. OK(N)
  BY <1>1, <1>5
<1>7. Pairs(f[N]) = {}
  <2> SUFFICES ASSUME Len(f[N]) <= N - N PROVE Pairs(f[N]) = {}
    BY <1>6
  <2>1. f[N] \in Seq(Marked) /\ Len(f[N]) \in Nat /\ DOMAIN f[N] = 1 .. Len(f[N])
    BY <1>6, ScriptFacts
  <2>2. DOMAIN f[N] = {}
    BY <1>1, <2>1
  <2> QED BY <2>2 DEF Pairs, Changed
<1> QED BY <1>2, <1>6, <1>7 DEF Canonical

\* Without deletions it shows the script as it is.
LEMMA ShownSame ==
  ASSUME NEW s \in Seq(Marked), NoneDeleted(s)
  PROVE  Shown(s) = s
<1> DEFINE N == Len(s)
<1>1. N \in Nat /\ DOMAIN s = 1 .. N
  BY ScriptFacts
<1>2. PICK f : IsShowing(s, f) /\ Shown(s) = f[N]
  BY ShownAs
<1>3. Pairs(s) = {}
  BY <1>1 DEF Pairs, Changed, NoneDeleted
<1> DEFINE T == {n \in Nat : n <= N => f[n] = s}
<1>4. 0 \in T
  <2>1. f[0] = Reordered(s)
    BY <1>1, <1>2 DEF IsShowing
  <2> QED BY <2>1, ReorderedSame
<1>5. ASSUME NEW n \in Nat, n \in T PROVE n + 1 \in T
  <2> SUFFICES ASSUME n + 1 <= N PROVE f[n + 1] = s
    OBVIOUS
  <2>1. f[n] = s
    BY <1>1, <1>5
  <2>2. f[n + 1] = NextShown(f[n])
    <3>1. n + 1 \in 0 .. N /\ n + 1 # 0 /\ n + 1 - 1 = n
      BY <1>1
    <3> QED BY <3>1, <1>2 DEF IsShowing
  <2> QED BY <1>3, <2>1, <2>2 DEF NextShown
<1>6. N \in T
  <2> HIDE DEF T, N
  <2> QED BY <1>1, <1>4, <1>5, ByInduction
<1> QED BY <1>1, <1>2, <1>6

-----------------------------------------------------------------------------
(* Files, and the changes of one line. *)

LEMMA LinesAtOK ==
  ASSUME NEW s \in Seq(Marked), NEW K \in SUBSET (1 .. Len(s))
  PROVE  /\ IsFiniteSet(K) /\ Cardinality(K) \in Nat
         /\ LinesAt(s, K) \in Seq(Lines) /\ Len(LinesAt(s, K)) = Cardinality(K)
         /\ LinesAt(s, K) = [n \in 1 .. Cardinality(K) |-> s[InOrder(K)[n]].line]
<1> DEFINE m == Cardinality(K)
           q == LinesAt(s, K)
<1>1. Len(s) \in Nat
  BY ScriptFacts
<1>2. IsFiniteSet(K) /\ m \in Nat /\ K \in SUBSET Int
  <2>1. IsFiniteSet(1 .. Len(s))
    BY <1>1, Interval
  <2>2. IsFiniteSet(K)
    BY <2>1, FS_Subset
  <2>3. m \in Nat
    BY <2>2, FS_CardinalityType
  <2> QED BY <1>1, <2>2, <2>3
<1>3. InOrder(K) \in [1 .. m -> K]
  BY <1>2, InOrderIsList
<1>4. ASSUME NEW n \in 1 .. m PROVE s[InOrder(K)[n]].line \in Lines
  <2>1. InOrder(K)[n] \in 1 .. Len(s)
    BY <1>3
  <2> QED BY <2>1, ScriptFacts
<1>5. q = [n \in 1 .. m |-> s[InOrder(K)[n]].line]
  BY DEF LinesAt
<1>6. q \in [1 .. m -> Lines]
  <2> HIDE DEF m, q
  <2> QED BY <1>4, <1>5
<1>7. q \in Seq(Lines) /\ Len(q) = m
  <2> HIDE DEF m, q
  <2> QED BY <1>2, <1>6
<1> QED BY <1>2, <1>5, <1>7

\* An unchanged file.
LEMMA UnchangedOK ==
  ASSUME NEW file \in Seq(Lines)
  PROVE  /\ Unchanged(file) \in Seq(Marked) /\ Canonical(Unchanged(file))
         /\ Len(Unchanged(file)) = Len(file)
         /\ \A i \in 1 .. Len(file) : Unchanged(file)[i] = Mark("both", file[i])
<1> DEFINE N == Len(file)
           s == Unchanged(file)
<1>1. N \in Nat /\ DOMAIN file = 1 .. N /\ \A i \in 1 .. N : file[i] \in Lines
  BY LenProperties
<1>2. s = [i \in 1 .. N |-> Mark("both", file[i])]
  BY <1>1 DEF Unchanged
<1> HIDE DEF s, N
<1>3. \A i \in 1 .. N : Mark("both", file[i]) \in Marked
  BY <1>1 DEF Mark, Marked
<1>4. s \in [1 .. N -> Marked]
  BY <1>2, <1>3
<1>5. s \in Seq(Marked) /\ Len(s) = N /\ DOMAIN s = 1 .. N
  BY <1>1, <1>4
<1>6. \A i \in 1 .. N : s[i] = Mark("both", file[i]) /\ s[i].mark = "both"
  BY <1>2 DEF Mark
<1>7. Changed(s) = {}
  BY <1>5, <1>6 DEF Changed
<1>8. Canonical(s)
  BY <1>7 DEF Canonical, Ordered, Pairs
<1> QED BY <1>5, <1>6, <1>8 DEF s, N

\* A line x, put in after i lines.
HasInserted(v, s, i, x) ==
  /\ v \in Seq(Marked) /\ Len(v) = Len(s) + 1
  /\ \A j \in 1 .. i : v[j] = s[j]
  /\ v[i + 1] = x
  /\ \A j \in i + 1 .. Len(s) : v[j + 1] = s[j]

LEMMA InsertAtOK ==
  ASSUME NEW s \in Seq(Marked), NEW i \in 0 .. Len(s), NEW x \in Marked
  PROVE  HasInserted(InsertAt(s, i + 1, x), s, i, x)
<1> DEFINE A == SubSeq(s, 1, i)
           B == SubSeq(s, i + 1, Len(s))
           C == <<x>>
           AC == A \o C
           t == AC \o B
<1>1. Len(s) \in Nat
  BY ScriptFacts
<1>2. /\ A \in Seq(Marked) /\ Len(A) = i
      /\ \A j \in 1 .. i : A[j] = s[1 + j - 1]
  <2>1. 1 \in Int /\ i \in Int /\ 1 <= 1 /\ 1 <= i + 1 /\ i <= Len(s) /\ i - 1 + 1 = i
    BY <1>1
  <2> QED BY <2>1, PieceOf
<1>3. C \in Seq(Marked) /\ Len(C) = 1 /\ C[1] = x
  OBVIOUS
<1>4. /\ B \in Seq(Marked) /\ Len(B) = Len(s) - i
      /\ \A j \in 1 .. Len(s) - i : B[j] = s[i + 1 + j - 1]
  <2> DEFINE N == Len(s)
  <2>1. i + 1 \in Int /\ N \in Int /\ 1 <= i + 1 /\ i + 1 <= N + 1 /\ N <= Len(s)
        /\ N - (i + 1) + 1 = N - i
    BY <1>1
  <2>2. B = SubSeq(s, i + 1, N)
    OBVIOUS
  <2> HIDE DEF N, B
  <2>3. /\ B \in Seq(Marked) /\ Len(B) = N - (i + 1) + 1
        /\ \A j \in 1 .. N - (i + 1) + 1 : B[j] = s[i + 1 + j - 1]
    BY <2>1, <2>2, PieceOf
  <2>4. /\ B \in Seq(Marked) /\ Len(B) = N - i
        /\ \A j \in 1 .. N - i : B[j] = s[i + 1 + j - 1]
    BY <2>1, <2>3
  <2> QED BY <2>4 DEF N
<1> HIDE DEF A, B, C
<1>5. IsJoined(AC, A, i, C, 1)
  BY <1>2, <1>3, JoinedTo
<1>6. AC \in Seq(Marked) /\ Len(AC) = i + 1
  BY <1>5 DEF IsJoined
<1> HIDE DEF AC
<1>7. PICK m : m = Len(s) - i
  OBVIOUS
<1>8. IsJoined(t, AC, i + 1, B, m)
  BY <1>4, <1>6, <1>7, JoinedTo
<1> HIDE DEF t
<1>9. t \in Seq(Marked) /\ Len(t) = Len(s) + 1
  <2>1. i + 1 + m = Len(s) + 1
    BY <1>1, <1>7
  <2> QED BY <1>8, <2>1 DEF IsJoined
<1>10. ASSUME NEW j \in 1 .. i PROVE t[j] = s[j]
  <2>1. j \in 1 .. i + 1 /\ 1 + j - 1 = j
    OBVIOUS
  <2>2. t[j] = AC[j]
    BY <2>1, <1>8 DEF IsJoined
  <2>3. AC[j] = A[j]
    BY <1>5 DEF IsJoined
  <2> QED BY <1>2, <2>1, <2>2, <2>3
<1>11. t[i + 1] = x
  <2>1. i + 1 \in 1 .. i + 1 /\ 1 \in 1 .. 1
    OBVIOUS
  <2>2. t[i + 1] = AC[i + 1]
    BY <2>1, <1>8 DEF IsJoined
  <2>3. AC[i + 1] = C[1]
    BY <2>1, <1>5 DEF IsJoined
  <2> QED BY <1>3, <2>2, <2>3
<1>12. ASSUME NEW j \in i + 1 .. Len(s) PROVE t[j + 1] = s[j]
  <2>1. PICK y : y = j - i
    OBVIOUS
  <2>2. y \in 1 .. m /\ i + 1 + y = j + 1 /\ i + 1 + y - 1 = j
    BY <1>1, <1>7, <2>1
  <2>3. t[i + 1 + y] = B[y]
    BY <2>2, <1>8 DEF IsJoined
  <2>4. B[y] = s[i + 1 + y - 1]
    BY <2>2, <1>4, <1>7
  <2> QED BY <2>2, <2>3, <2>4
<1>13. t = InsertAt(s, i + 1, x)
  <2>1. (i + 1) - 1 = i
    OBVIOUS
  <2>2. InsertAt(s, i + 1, x) = SubSeq(s, 1, (i + 1) - 1) \o <<x>> \o SubSeq(s, i + 1, Len(s))
    BY DEF InsertAt
  <2>3. t = SubSeq(s, 1, i) \o <<x>> \o SubSeq(s, i + 1, Len(s))
    BY Zenon DEF t, AC, A, B, C
  <2> QED BY <2>1, <2>2, <2>3, Zenon
<1> QED BY <1>9, <1>10, <1>11, <1>12, <1>13 DEF HasInserted

LEMMA RemoveAtOK ==
  ASSUME NEW s \in Seq(Marked), NEW i \in 1 .. Len(s)
  PROVE  RemoveAt(s, i) \in Seq(Marked)
<1>1. Len(s) \in Nat
  BY ScriptFacts
<1>2. SubSeq(s, 1, i - 1) \in Seq(Marked) /\ SubSeq(s, i + 1, Len(s)) \in Seq(Marked)
  <2>1. /\ 1 \in Int /\ i - 1 \in Int /\ 1 <= 1 /\ 1 <= i - 1 + 1 /\ i - 1 <= Len(s)
        /\ i + 1 \in Int /\ Len(s) \in Int /\ 1 <= i + 1 /\ i + 1 <= Len(s) + 1 /\ Len(s) <= Len(s)
    BY <1>1
  <2> QED BY <2>1, PieceOf
<1> QED BY <1>2, Joined DEF RemoveAt

\* The lines of the tree, by their number.
LEMMA NewLineAt ==
  ASSUME NEW s \in Seq(Marked), NEW t \in 1 .. Len(New(s))
  PROVE  InOrder(NewLines(s))[t] \in NewLines(s) /\ InOrder(NewLines(s))[t] \in 1 .. Len(s)
<1> DEFINE K == NewLines(s)
<1>1. DOMAIN s = 1 .. Len(s) /\ Len(s) \in Nat
  BY ScriptFacts
<1>2. K \in SUBSET (1 .. Len(s)) /\ K \in SUBSET Int
  BY <1>1 DEF NewLines
<1>3. IsFiniteSet(K) /\ Len(New(s)) = Cardinality(K)
  BY <1>2, LinesAtOK DEF New
<1>4. InOrder(K) \in [1 .. Cardinality(K) -> K]
  <2> HIDE DEF K
  <2> QED BY <1>2, <1>3, InOrderIsList
<1> QED BY <1>2, <1>3, <1>4

LEMMA AddedOK ==
  ASSUME NEW s \in Seq(Marked), NEW t \in 0 .. Len(New(s)), NEW l \in Lines
  PROVE  Added(s, t, l) \in Seq(Marked) /\ Canonical(Added(s, t, l))
<1> DEFINE i == IF t = 0 THEN 0 ELSE InOrder(NewLines(s))[t]
<1>1. Len(s) \in Nat
  BY ScriptFacts
<1>2. i \in 0 .. Len(s)
  <2>1. CASE t = 0
    BY <1>1, <2>1
  <2>2. CASE t # 0
    <3>1. t \in 1 .. Len(New(s))
      BY <2>2
    <3>2. InOrder(NewLines(s))[t] \in 1 .. Len(s)
      BY <3>1, NewLineAt
    <3> QED BY <1>1, <2>2, <3>2
  <2> QED BY <2>1, <2>2
<1>3. Mark("new", l) \in Marked
  BY DEF Mark, Marked
<1> HIDE DEF i
<1>4. InsertAt(s, i + 1, Mark("new", l)) \in Seq(Marked)
  BY <1>2, <1>3, InsertAtOK DEF HasInserted
<1>5. Added(s, t, l) = Shown(InsertAt(s, i + 1, Mark("new", l)))
  BY Zenon DEF Added, i
<1> QED BY <1>4, <1>5, ShownOK

LEMMA DeletedOK ==
  ASSUME NEW s \in Seq(Marked), NEW t \in 1 .. Len(New(s))
  PROVE  Deleted(s, t) \in Seq(Marked) /\ Canonical(Deleted(s, t))
<1> DEFINE i == InOrder(NewLines(s))[t]
           x == IF s[i].mark = "new" THEN RemoveAt(s, i) ELSE [s EXCEPT ![i].mark = "old"]
<1>1. i \in 1 .. Len(s)
  BY NewLineAt
<1>2. Deleted(s, t) = Shown(x)
  BY Zenon DEF Deleted
<1> HIDE DEF i
<1>3. x \in Seq(Marked)
  <2>1. CASE s[i].mark = "new"
    BY <1>1, <2>1, RemoveAtOK
  <2>2. CASE s[i].mark # "new"
    <3> DEFINE y == [s EXCEPT ![i].mark = "old"]
    <3>1. Len(s) \in Nat /\ s \in [1 .. Len(s) -> Marked]
      BY ScriptFacts
    <3>2. y \in [1 .. Len(s) -> Marked]
      BY <3>1 DEF Marked
    <3>3. y \in Seq(Marked)
      <4> HIDE DEF y
      <4> QED BY <3>1, <3>2
    <3> QED BY <2>2, <3>3
  <2> QED BY <2>1, <2>2
<1> HIDE DEF x
<1> QED BY <1>2, <1>3, ShownOK

-----------------------------------------------------------------------------
(* Hunks. *)

\* A hunk is a stretch of the file around its change, that begins with an
\* unchanged line, and after one, unless it begins with the file, and ends with
\* one unless it ends with it.
IsHunk(H, s, k, lo, hi) ==
  /\ H = lo .. hi /\ lo \in 1 .. k /\ hi \in k .. Len(s)
  /\ lo = 1 \/ (s[lo - 1].mark = "both" /\ s[lo].mark = "both")
  /\ hi = Len(s) \/ s[hi].mark = "both"

LEMMA HunkAs ==
  ASSUME NEW s \in Seq(Marked), NEW k \in Changed(s)
  PROVE  \E lo, hi \in Nat : IsHunk(Hunk(s, k), s, k, lo, hi)
<1> DEFINE N == Len(s)
           X == Changed(s)
           S == {c \in X : StartsHunk(s, c) /\ c <= k}
           Sep(c, d) == \A e \in X : StartsHunk(s, e) => e <= c \/ (k < e /\ d < e)
<1>1. N \in Nat /\ DOMAIN s = 1 .. N
  BY ScriptFacts
<1>2. X \in SUBSET (1 .. N) /\ X \in SUBSET Nat /\ k \in Nat /\ k \in X
  BY <1>1 DEF Changed
<1>3. Context \in Nat /\ Context >= 1
  BY DiffAssumption
<1>4. \A i \in 1 .. N : i \notin X => s[i].mark = "both"
  BY <1>1 DEF Changed
<1>5. ASSUME NEW c \in X, NEW d \in X, StartsHunk(s, c), d < c
      PROVE  c - d > 2 * Context + 1
  BY <1>5 DEF StartsHunk
<1> HIDE DEF X
<1>6. S # {}
  <2>1. PICK c \in X : \A d \in X : c <= d
    BY <1>2, Least
  <2>2. \A d \in X : ~ (d < c)
    BY <1>2, <2>1
  <2>3. StartsHunk(s, c)
    BY <2>1, <2>2 DEF StartsHunk, X
  <2>4. c <= k
    BY <1>2, <2>1
  <2> QED BY <2>3, <2>4
<1>7. PICK c \in S : \A d \in S : d <= c
  <2>1. S \in SUBSET Nat /\ \A x \in S : x <= k
    BY <1>2
  <2> HIDE DEF S
  <2> QED BY <1>2, <1>6, <2>1, Greatest
<1>8. c \in X /\ StartsHunk(s, c) /\ c <= k /\ c \in 1 .. N
  BY <1>2
<1> DEFINE D == {d \in X : c <= d /\ Sep(c, d)}
<1>9. k \in D
  <2> SUFFICES ASSUME NEW e \in X, StartsHunk(s, e), ~ (e <= c) PROVE k < e
    BY <1>2, <1>8
  <2>1. e \notin S
    BY <1>7
  <2> QED BY <1>2, <2>1
<1>10. PICK d \in D : \A x \in D : x <= d
  <2>1. D \in SUBSET Nat /\ \A x \in D : x <= N
    <3> HIDE DEF Sep, S
    <3>1. \A x \in D : x \in X
      OBVIOUS
    <3> HIDE DEF D, N
    <3>2. \A x \in X : x \in Nat /\ x <= N
      BY <1>1, <1>2
    <3> QED BY <3>1, <3>2
  <2> HIDE DEF D
  <2> QED BY <1>1, <1>9, <2>1, Greatest
<1>11. d \in X /\ d \in 1 .. N /\ c <= d /\ Sep(c, d) /\ k <= d
  BY <1>2, <1>9, <1>10
\* There is only one first change of the hunk.
<1>12. ASSUME NEW x \in X, StartsHunk(s, x), x <= k,
              \A e \in X : StartsHunk(s, e) => e <= x \/ k < e
       PROVE  x = c
  <2>1. x <= c
    BY <1>7, <1>12
  <2>2. c <= x
    BY <1>8, <1>12, <1>2
  <2> QED BY <2>1, <2>2, <1>2, <1>8
<1>13. Hunk(s, k) = {i \in 1 .. N : c - Context <= i /\ i <= d + Context}
  <2>1. ASSUME NEW i \in Hunk(s, k)
        PROVE  i \in 1 .. N /\ c - Context <= i /\ i <= d + Context
    <3>1. i \in 1 .. N
      BY <1>1 DEF Hunk
    <3>2. PICK x, y \in X : /\ x - Context <= i /\ i <= y + Context
                            /\ StartsHunk(s, x) /\ x <= k /\ x <= y
                            /\ \A e \in X : StartsHunk(s, e) => e <= x \/ (k < e /\ y < e)
      BY DEF Hunk, X
    <3>3. x = c
      <4>1. \A e \in X : StartsHunk(s, e) => e <= x \/ k < e
        BY <3>2
      <4> QED BY <3>2, <4>1, <1>12
    <3>4. y \in D
      BY <3>2, <3>3
    <3>5. y <= d /\ y \in Nat /\ d \in Nat
      BY <3>4, <1>10, <1>11, <1>2
    <3> HIDE DEF D
    <3> QED BY <3>1, <3>2, <3>3, <3>5, <1>3
  <2>2. ASSUME NEW i \in 1 .. N, c - Context <= i, i <= d + Context
        PROVE  i \in Hunk(s, k)
    <3>1. i \in DOMAIN s
      BY <1>1
    <3>2. c \in Changed(s) /\ d \in Changed(s)
      BY <1>8, <1>11 DEF X
    <3>3. \A e \in Changed(s) : StartsHunk(s, e) => e <= c \/ (k < e /\ d < e)
      BY <1>11 DEF X
    <3> HIDE DEF S, D
    <3> QED BY <3>1, <3>2, <3>3, <2>2, <1>8, <1>11 DEF Hunk
  <2> HIDE DEF S, D, N
  <2> QED BY <2>1, <2>2
<1> DEFINE lo == IF c - Context < 1 THEN 1 ELSE c - Context
           hi == IF d + Context > N THEN N ELSE d + Context
<1>14. /\ lo \in 1 .. k /\ hi \in k .. N
       /\ \A i \in Int : i \in 1 .. N /\ c - Context <= i /\ i <= d + Context <=> lo <= i /\ i <= hi
  <2> HIDE DEF N, S, D
  <2> QED BY <1>1, <1>2, <1>3, <1>8, <1>11
<1>15. ASSUME lo # 1 PROVE s[lo - 1].mark = "both" /\ s[lo].mark = "both"
  <2>1. lo = c - Context /\ lo < c /\ lo - 1 < c
    BY <1>3, <1>8, <1>15
  <2>2. lo \in 1 .. N /\ lo - 1 \in 1 .. N
    BY <1>1, <1>2, <1>14, <1>15
  <2> HIDE DEF lo, S, D
  <2>3. lo \notin X
    <3> SUFFICES ASSUME lo \in X PROVE FALSE
      OBVIOUS
    <3>1. c - lo > 2 * Context + 1
      BY <1>5, <1>8, <2>1
    <3> QED BY <1>3, <1>8, <2>1, <3>1
  <2>4. lo - 1 \notin X
    <3> SUFFICES ASSUME lo - 1 \in X PROVE FALSE
      OBVIOUS
    <3>1. c - (lo - 1) > 2 * Context + 1
      BY <1>5, <1>8, <2>1
    <3> QED BY <1>3, <1>8, <2>1, <3>1
  <2> QED BY <1>4, <2>2, <2>3, <2>4
<1>16. hi # N => s[hi].mark = "both"
  <2> SUFFICES ASSUME hi # N PROVE hi \notin X
    BY <1>1, <1>2, <1>4, <1>14
  <2>1. hi = d + Context /\ d < hi
    BY <1>3, <1>11
  <2> HIDE DEF hi
  <2> SUFFICES ASSUME hi \in X PROVE FALSE
    OBVIOUS
  <2>2. Sep(c, hi)
    <3> SUFFICES ASSUME NEW e \in X, StartsHunk(s, e), ~ (e <= c) PROVE k < e /\ hi < e
      OBVIOUS
    <3>1. k < e /\ d < e
      BY <1>11
    <3>2. e - d > 2 * Context + 1
      BY <1>5, <1>11, <3>1
    <3>3. e \in Nat
      BY <1>2
    <3> HIDE DEF S, D
    <3> QED BY <1>3, <1>11, <2>1, <3>1, <3>2, <3>3
  <2>3. hi \in D
    <3> HIDE DEF Sep
    <3> QED BY <1>2, <1>11, <2>1, <2>2
  <2>4. hi <= d
    BY <1>10, <2>3
  <2> HIDE DEF S, D
  <2> QED BY <1>11, <2>1, <2>4, <1>3
<1> HIDE DEF lo, hi, S, D, N
<1>17. Hunk(s, k) = lo .. hi
  <2>1. lo \in Int /\ hi \in Int
    BY <1>2, <1>14
  <2> QED BY <1>13, <1>14, <2>1
<1>18. lo \in Nat /\ hi \in Nat
  BY <1>2, <1>14
<1> QED BY <1>14, <1>15, <1>16, <1>17, <1>18 DEF IsHunk, N

-----------------------------------------------------------------------------
(* Patches. *)

\* A patch changes one line, its k-th.
ChangesLine(p, k) ==
  /\ k \in 1 .. Len(p.body) /\ p.body[k].mark # "both"
  /\ \A i \in 1 .. Len(p.body) : i # k => p.body[i].mark = "both"

Patch == {p \in [old : Nat, new : Int, body : Seq(Marked)] : \E k \in Nat : ChangesLine(p, k)}

\* What is kept of a hunk.
LEMMA KeptIn ==
  ASSUME NEW s \in Seq(Marked), NEW k \in 1 .. Len(s), IsPf(s, k)
  PROVE  /\ k \in Changed(s) /\ Hunk(s, k) \in SUBSET (1 .. Len(s))
         /\ k \in Kept(s, k) /\ Kept(s, k) \in SUBSET Hunk(s, k)
<1>1. Len(s) \in Nat /\ DOMAIN s = 1 .. Len(s)
  BY ScriptFacts
<1>2. k \in Changed(s)
  BY <1>1 DEF IsPf, Changed
<1>3. PICK lo \in Nat, hi \in Nat : IsHunk(Hunk(s, k), s, k, lo, hi)
  BY <1>2, HunkAs
<1>4. Hunk(s, k) \in SUBSET (1 .. Len(s)) /\ k \in Hunk(s, k)
  <2>1. Hunk(s, k) = lo .. hi /\ lo \in 1 .. k /\ hi \in k .. Len(s)
    BY <1>3 DEF IsHunk
  <2>2. lo .. hi \in SUBSET (1 .. Len(s)) /\ k \in lo .. hi
    BY <1>1, <2>1
  <2> QED BY <2>1, <2>2
<1>5. Kept(s, k) \in SUBSET Hunk(s, k) /\ k \in Kept(s, k)
  BY <1>4 DEF Kept
<1> QED BY <1>2, <1>4, <1>5

\* The parts of a patch.
BodyOf(s, k) ==
  [n \in 1 .. Cardinality(Kept(s, k)) |->
     IF InOrder(Kept(s, k))[n] = k THEN s[k] ELSE Mark("both", s[InOrder(Kept(s, k))[n]].line)]

LEMMA BodyOK ==
  ASSUME NEW s \in Seq(Marked), NEW k \in 1 .. Len(s), IsPf(s, k)
  PROVE  /\ PatchFor(s, k).body = BodyOf(s, k)
         /\ BodyOf(s, k) \in Seq(Marked) /\ Len(BodyOf(s, k)) = Cardinality(Kept(s, k))
         /\ \E n \in Nat : /\ n \in 1 .. Cardinality(Kept(s, k)) /\ InOrder(Kept(s, k))[n] = k
                           /\ ChangesLine(PatchFor(s, k), n)
<1> DEFINE K == Kept(s, k)
           m == Cardinality(K)
           q == InOrder(K)
           body == BodyOf(s, k)
<1>1. Len(s) \in Nat
  BY ScriptFacts
<1>2. K \in SUBSET (1 .. Len(s)) /\ k \in K
  BY KeptIn
<1>3. K \in SUBSET Int /\ IsFiniteSet(K)
  <2> HIDE DEF K
  <2> QED BY <1>1, <1>2, Positions
<1>4. /\ m \in Nat /\ q \in [1 .. m -> K]
      /\ \A i, j \in 1 .. m : i < j => q[i] < q[j]
      /\ \A i \in K : \E n \in 1 .. m : q[n] = i
  <2> HIDE DEF K
  <2> QED BY <1>3, InOrderIsList
<1>5. body = [n \in 1 .. m |-> IF q[n] = k THEN s[k] ELSE Mark("both", s[q[n]].line)]
  BY DEF BodyOf
<1>6. PatchFor(s, k).body = body
  <2>1. DOMAIN q = 1 .. m
    BY <1>4
  <2>2. PatchFor(s, k).body = [n \in DOMAIN q |-> IF q[n] = k THEN s[k] ELSE Mark("both", s[q[n]].line)]
    BY DEF PatchFor
  <2> QED BY <1>5, <2>1, <2>2
<1> HIDE DEF K, m, q, body
<1>7. ASSUME NEW n \in 1 .. m PROVE body[n] \in Marked /\ (q[n] # k => body[n].mark = "both")
  <2>1. q[n] \in 1 .. Len(s)
    BY <1>2, <1>4
  <2>2. Mark("both", s[q[n]].line) \in Marked /\ Mark("both", s[q[n]].line).mark = "both"
    BY <2>1, ScriptFacts DEF Mark, Marked
  <2>3. s[k] \in Marked
    BY ScriptFacts
  <2> QED BY <1>5, <2>2, <2>3
<1>8. body \in [1 .. m -> Marked]
  BY <1>5, <1>7
<1>9. body \in Seq(Marked) /\ Len(body) = m
  BY <1>4, <1>8
<1>10. PICK n \in 1 .. m : q[n] = k
  BY <1>2, <1>4
<1>11. body[n].mark # "both"
  BY <1>5, <1>10 DEF IsPf
<1>12. ASSUME NEW i \in 1 .. m, i # n PROVE body[i].mark = "both"
  <2>1. q[i] # k
    <3>1. i < n \/ n < i
      BY <1>12
    <3>2. q[i] \in Int /\ q[n] \in Int
      BY <1>3, <1>4
    <3> QED BY <1>4, <1>10, <3>1, <3>2
  <2> QED BY <1>7, <2>1
<1>13. ChangesLine(PatchFor(s, k), n)
  BY <1>6, <1>9, <1>10, <1>11, <1>12 DEF ChangesLine
<1>14. n \in Nat
  BY <1>4
<1> QED BY <1>6, <1>9, <1>10, <1>13, <1>14 DEF K, m, q, body

LEMMA StartOK ==
  ASSUME NEW s \in Seq(Marked), NEW H, NEW marks
  PROVE  Start(s, H, marks) \in Nat
<1> DEFINE before == {i \in DOMAIN s : s[i].mark \in marks /\ \A j \in H : i < j}
           inside == {i \in H : s[i].mark \in marks}
<1>1. IsFiniteSet(DOMAIN s)
  BY ScriptFacts, Interval
<1>2. IsFiniteSet(before)
  BY <1>1, FS_Subset
<1>3. Cardinality(before) \in Nat
  BY <1>2, FS_CardinalityType
<1>4. Start(s, H, marks) = Cardinality(before) + IF inside = {} THEN 0 ELSE 1
  BY DEF Start
<1> HIDE DEF before, inside
<1> QED BY <1>3, <1>4

LEMMA PatchForOK ==
  ASSUME NEW s \in Seq(Marked), NEW k \in 1 .. Len(s), IsPf(s, k)
  PROVE  PatchFor(s, k) \in Patch
<1> DEFINE H == Hunk(s, k)
           p == PatchFor(s, k)
<1>1. OldStart(s, H) \in Nat /\ NewStart(s, H) \in Nat
  BY StartOK DEF OldStart, NewStart
<1>2. IsFiniteSet(H)
  <2>1. H \in SUBSET (1 .. Len(s)) /\ Len(s) \in Nat
    BY KeptIn, ScriptFacts
  <2>2. IsFiniteSet(1 .. Len(s))
    BY <2>1, Interval
  <2> QED BY <2>1, <2>2, FS_Subset
<1>3. Cardinality(Earlier(s, H, k, "new")) \in Nat /\ Cardinality(Earlier(s, H, k, "old")) \in Nat
  <2>1. Earlier(s, H, k, "new") \in SUBSET H /\ Earlier(s, H, k, "old") \in SUBSET H
    BY DEF Earlier
  <2>2. IsFiniteSet(Earlier(s, H, k, "new")) /\ IsFiniteSet(Earlier(s, H, k, "old"))
    BY <1>2, <2>1, FS_Subset
  <2> QED BY <2>2, FS_CardinalityType
<1>4. p = [old |-> OldStart(s, H),
           new |-> NewStart(s, H) + Cardinality(Earlier(s, H, k, "new"))
                                  - Cardinality(Earlier(s, H, k, "old")),
           body |-> p.body]
  BY DEF PatchFor
<1>5. p.body \in Seq(Marked) /\ \E n \in Nat : ChangesLine(p, n)
  BY BodyOK
<1> HIDE DEF p, H
<1>6. NewStart(s, H) + Cardinality(Earlier(s, H, k, "new")) - Cardinality(Earlier(s, H, k, "old")) \in Int
  BY <1>1, <1>3
<1>7. p \in [old : Nat, new : Int, body : Seq(Marked)]
  BY <1>1, <1>4, <1>5, <1>6
<1> QED BY <1>5, <1>7 DEF Patch, p

\* The annotations of a script, and the patches for them.
PfLines(s) == {i \in DOMAIN s : IsPf(s, i)}

LEMMA SplitOK ==
  ASSUME NEW s \in Seq(Marked)
  PROVE  /\ Split(s) \in Seq(Patch) /\ Len(Split(s)) = Cardinality(PfLines(s))
         /\ Cardinality(PfLines(s)) \in Nat
         /\ \A n \in 1 .. Cardinality(PfLines(s)) :
              /\ InOrder(PfLines(s))[n] \in 1 .. Len(s) /\ IsPf(s, InOrder(PfLines(s))[n])
              /\ Split(s)[n] = PatchFor(s, InOrder(PfLines(s))[n])
<1> DEFINE K == PfLines(s)
           m == Cardinality(K)
           q == InOrder(K)
           t == Split(s)
<1>1. DOMAIN s = 1 .. Len(s) /\ Len(s) \in Nat
  BY ScriptFacts
<1>2. K \in SUBSET (1 .. Len(s))
  BY <1>1 DEF PfLines
<1>3. K \in SUBSET Int /\ IsFiniteSet(K)
  <2> HIDE DEF K
  <2> QED BY <1>1, <1>2, Positions
<1>4. m \in Nat /\ q \in [1 .. m -> K]
  <2> HIDE DEF K
  <2> QED BY <1>3, InOrderIsList
<1>5. ASSUME NEW n \in 1 .. m PROVE q[n] \in 1 .. Len(s) /\ IsPf(s, q[n])
  <2>1. q[n] \in K
    BY <1>4
  <2> QED BY <1>2, <2>1 DEF PfLines
<1>6. t = [n \in 1 .. m |-> PatchFor(s, q[n])]
  <2>1. DOMAIN q = 1 .. m
    BY <1>4
  <2>2. t = [n \in DOMAIN q |-> PatchFor(s, q[n])]
    BY DEF Split, PfLines
  <2> QED BY <2>1, <2>2
<1> HIDE DEF t, q, m, K
<1>7. \A n \in 1 .. m : PatchFor(s, q[n]) \in Patch
  BY <1>5, PatchForOK
<1>8. t \in [1 .. m -> Patch]
  BY <1>6, <1>7
<1>9. t \in Seq(Patch) /\ Len(t) = m
  BY <1>4, <1>8
<1> QED BY <1>4, <1>5, <1>6, <1>9 DEF t, q, m, K

-----------------------------------------------------------------------------
(* git apply. *)

\* How many lines of the file a patch shows: all, without one that it adds.
LEMMA PreLen ==
  ASSUME NEW p \in Patch, NEW k, ChangesLine(p, k)
  PROVE  /\ p.body \in Seq(Marked) /\ Len(p.body) \in Nat /\ k \in 1 .. Len(p.body)
         /\ Changed(p.body) = {k}
         /\ Old(p.body) \in Seq(Lines) /\ Len(Old(p.body)) \in Nat
         /\ p.body[k].mark = "new" => Len(Old(p.body)) = Len(p.body) - 1
         /\ p.body[k].mark # "new" => Len(Old(p.body)) = Len(p.body)
<1> DEFINE b == p.body
           L == Len(b)
           K == OldLines(b)
<1>1. b \in Seq(Marked)
  BY DEF Patch
<1> HIDE DEF b
<1>2. L \in Nat /\ DOMAIN b = 1 .. L
  BY <1>1, ScriptFacts
<1> HIDE DEF L
<1>3. /\ k \in 1 .. L /\ b[k].mark # "both" /\ \A i \in 1 .. L : i # k => b[i].mark = "both"
  BY DEF ChangesLine, b, L
<1>4. Changed(b) = {k}
  BY <1>2, <1>3 DEF Changed
<1>5. K \in SUBSET (1 .. L)
  BY <1>2 DEF OldLines
<1>6. Old(b) \in Seq(Lines) /\ Len(Old(b)) = Cardinality(K) /\ Cardinality(K) \in Nat
  BY <1>1, <1>5, LinesAtOK DEF Old, L
<1>7. IsFiniteSet(1 .. L) /\ Cardinality(1 .. L) = L
  BY <1>2, Interval
<1>8. ASSUME b[k].mark = "new" PROVE Cardinality(K) = L - 1
  <2>1. K = (1 .. L) \ {k}
    BY <1>2, <1>3, <1>8 DEF OldLines
  <2>2. Cardinality((1 .. L) \ {k}) = IF k \in 1 .. L THEN Cardinality(1 .. L) - 1 ELSE Cardinality(1 .. L)
    BY <1>7, FS_RemoveElement
  <2> QED BY <1>3, <1>7, <2>1, <2>2
<1>9. ASSUME b[k].mark # "new" PROVE Cardinality(K) = L
  <2>1. K = 1 .. L
    BY <1>2, <1>3, <1>9 DEF OldLines
  <2> QED BY <1>7, <2>1
<1> HIDE DEF K
<1> QED BY <1>1, <1>2, <1>3, <1>4, <1>6, <1>8, <1>9 DEF b, L

There(p) == IF p.new > 0 THEN p.new - 1 ELSE 0

\* There is a place if there is a match.
LEMMA PlaceOK ==
  ASSUME NEW p \in Patch, NEW file \in Seq(Lines), Matches(p, file) # {}
  PROVE  /\ Matches(p, file) \in SUBSET Nat /\ Place(p, file) \in Matches(p, file)
         /\ \A m \in Matches(p, file) : Distance(Place(p, file), There(p)) <= Distance(m, There(p))
<1> DEFINE M == Matches(p, file)
           there == There(p)
           Best(n) == \A m \in M : \/ Distance(n, there) < Distance(m, there)
                                   \/ Distance(n, there) = Distance(m, there) /\ n >= m
           D == {Distance(n, there) : n \in M}
<1>1. PICK k \in Nat : ChangesLine(p, k)
  BY DEF Patch
<1>2. Len(Old(p.body)) \in Nat
  BY <1>1, PreLen
<1>3. Len(file) \in Nat
  BY LenProperties
<1>4. M \in SUBSET Nat /\ \A n \in M : n <= Len(file)
  <2>1. \A n \in M : n \in 0 .. Len(file) - Len(Old(p.body))
    BY DEF Matches
  <2> HIDE DEF M
  <2> QED BY <1>2, <1>3, <2>1
<1>5. there \in Nat
  <2>1. p.new \in Int
    BY DEF Patch
  <2> QED BY <2>1 DEF There
<1> HIDE DEF M, there
<1>6. \A n \in M : Distance(n, there) \in Nat
  BY <1>4, <1>5 DEF Distance
<1>7. PICK x \in D : \A y \in D : x <= y
  <2>1. D \in SUBSET Nat
    BY <1>6
  <2>2. D # {}
    BY DEF M
  <2> HIDE DEF D
  <2> QED BY <2>1, <2>2, Least
<1> DEFINE N == {n \in M : Distance(n, there) = x}
<1>8. PICK n \in N : \A m \in N : m <= n
  <2>1. N \in SUBSET Nat /\ \A m \in N : m <= Len(file)
    BY <1>4
  <2>2. N # {}
    OBVIOUS
  <2> HIDE DEF N
  <2> QED BY <1>3, <2>1, <2>2, Greatest
<1>9. n \in M /\ Distance(n, there) = x /\ x \in Nat
  BY <1>6
<1>10. Best(n)
  <2> SUFFICES ASSUME NEW m \in M
               PROVE  \/ Distance(n, there) < Distance(m, there)
                      \/ Distance(n, there) = Distance(m, there) /\ n >= m
    OBVIOUS
  <2>1. Distance(m, there) \in D /\ Distance(m, there) \in Nat
    BY <1>6
  <2>2. x <= Distance(m, there)
    BY <1>7, <2>1
  <2>3. Distance(m, there) = x => m <= n
    BY <1>8
  <2>4. m \in Nat /\ n \in Nat
    BY <1>4, <1>9
  <2> QED BY <1>9, <2>1, <2>2, <2>3, <2>4
<1> DEFINE P == CHOOSE z \in M : Best(z)
<1>11. P \in M /\ Best(P)
  BY <1>9, <1>10, Zenon
<1>12. P = Place(p, file)
  BY Zenon DEF Place, There, M, there
<1>13. \A m \in M : Distance(P, there) <= Distance(m, there)
  <2> HIDE DEF P
  <2> QED BY <1>6, <1>11
<1> QED BY <1>4, <1>11, <1>12, <1>13 DEF M, there

\* What it does, at its place.
LEMMA AppliedAs ==
  ASSUME NEW p \in Patch, NEW s, NEW k, ChangesLine(p, k)
  PROVE  AppliedTo(p, s) = IF p.body[k].mark = "new"
                           THEN Added(s, Place(p, New(s)) + k - 1, p.body[k].line)
                           ELSE Deleted(s, Place(p, New(s)) + k - 1 + 1)
<1> DEFINE A(x) == IF p.body[x].mark = "new" THEN Added(s, Place(p, New(s)) + x - 1, p.body[x].line)
                   ELSE Deleted(s, Place(p, New(s)) + x - 1 + 1)
<1>1. Changed(p.body) = {k}
  BY PreLen
<1>2. (CHOOSE x \in Changed(p.body) : TRUE) = k
  BY <1>1
<1>3. AppliedTo(p, s) = A(CHOOSE x \in Changed(p.body) : TRUE)
  BY Zenon DEF AppliedTo
<1>4. AppliedTo(p, s) = A(k)
  BY <1>2, <1>3, Zenon
<1> QED BY <1>4

LEMMA AppliedOK ==
  ASSUME NEW p \in Patch, NEW s \in Seq(Marked), Matches(p, New(s)) # {}
  PROVE  AppliedTo(p, s) \in Seq(Marked) /\ Canonical(AppliedTo(p, s))
<1>1. PICK k \in Nat : ChangesLine(p, k)
  BY DEF Patch
<1>2. /\ p.body \in Seq(Marked) /\ Len(p.body) \in Nat /\ k \in 1 .. Len(p.body)
      /\ Changed(p.body) = {k} /\ Len(Old(p.body)) \in Nat
      /\ p.body[k].mark = "new" => Len(Old(p.body)) = Len(p.body) - 1
      /\ p.body[k].mark # "new" => Len(Old(p.body)) = Len(p.body)
  BY <1>1, PreLen
<1>3. New(s) \in Seq(Lines) /\ Len(New(s)) \in Nat
  <2>1. NewLines(s) \in SUBSET (1 .. Len(s))
    BY ScriptFacts DEF NewLines
  <2> QED BY <2>1, LinesAtOK DEF New
<1> DEFINE n == Place(p, New(s))
           t == n + k - 1
<1>4. n \in 0 .. Len(New(s)) - Len(Old(p.body))
  <2>1. n \in Matches(p, New(s))
    BY <1>3, PlaceOK
  <2> QED BY <2>1 DEF Matches
<1>6. AppliedTo(p, s) = IF p.body[k].mark = "new" THEN Added(s, t, p.body[k].line) ELSE Deleted(s, t + 1)
  BY <1>1, AppliedAs
<1> HIDE DEF n
<1>7. CASE p.body[k].mark = "new"
  <2>1. t \in 0 .. Len(New(s))
    BY <1>2, <1>3, <1>4, <1>7
  <2>2. p.body[k].line \in Lines
    BY <1>2, ScriptFacts
  <2> HIDE DEF t
  <2> QED BY <1>6, <1>7, <2>1, <2>2, AddedOK
<1>8. CASE p.body[k].mark # "new"
  <2>1. t + 1 \in 1 .. Len(New(s))
    BY <1>2, <1>3, <1>4, <1>8
  <2> HIDE DEF t
  <2> QED BY <1>6, <1>8, <2>1, DeletedOK
<1> QED BY <1>7, <1>8

-----------------------------------------------------------------------------
(* The script as it is parsed, and as patches put it back. *)

LEMMA StrippedFacts ==
  ASSUME NEW l \in Lines
  PROVE  /\ Stripped[l] \in Lines /\ Stripped[Stripped[l]] = Stripped[l]
         /\ Stripped[l] \in Annotations <=> l \in Annotations
<1>1. \A x \in Lines : /\ Stripped[Stripped[x]] = Stripped[x]
                       /\ Stripped[x] \in Annotations <=> x \in Annotations
  BY DiffAssumption, Zenon
<1>2. Stripped \in [Lines -> Lines]
  BY DiffAssumption, Zenon
<1>3. Stripped[l] \in Lines
  BY <1>2
<1> QED BY <1>1, <1>3, Zenon

LEMMA ParsedOK ==
  ASSUME NEW s \in Seq(Marked)
  PROVE  /\ Parsed(s) \in Seq(Marked) /\ Len(Parsed(s)) = Len(s)
         /\ \A i \in 1 .. Len(s) : Parsed(s)[i] = Mark(s[i].mark, Stripped[s[i].line])
<1> DEFINE N == Len(s)
           t == Parsed(s)
<1>1. N \in Nat /\ DOMAIN s = 1 .. N
  BY ScriptFacts
<1>2. t = [i \in 1 .. N |-> Mark(s[i].mark, Stripped[s[i].line])]
  BY <1>1 DEF Parsed
<1>3. ASSUME NEW i \in 1 .. N PROVE Mark(s[i].mark, Stripped[s[i].line]) \in Marked
  <2>1. s[i].mark \in {"both", "old", "new"} /\ s[i].line \in Lines
    BY ScriptFacts
  <2>2. Stripped[s[i].line] \in Lines
    BY <2>1, StrippedFacts
  <2> QED BY <2>1, <2>2 DEF Mark, Marked
<1> HIDE DEF t, N
<1>4. t \in [1 .. N -> Marked]
  BY <1>2, <1>3
<1>5. t \in Seq(Marked) /\ Len(t) = N
  BY <1>1, <1>4
<1> QED BY <1>2, <1>5 DEF t, N

LEMMA ParsedLine ==
  ASSUME NEW s \in Seq(Marked), NEW i \in 1 .. Len(s)
  PROVE  Parsed(s)[i].line = Stripped[s[i].line] /\ Parsed(s)[i].mark = s[i].mark
<1>1. Parsed(s)[i] = Mark(s[i].mark, Stripped[s[i].line])
  BY ParsedOK
<1> QED BY <1>1 DEF Mark

LEMMA BackOK ==
  ASSUME NEW s \in Seq(Marked)
  PROVE  /\ Back(s) \in Seq(Marked) /\ Len(Back(s)) = Len(s)
         /\ \A i \in 1 .. Len(s) : Back(s)[i] = IF s[i].mark = "new" THEN Parsed(s)[i] ELSE s[i]
<1> DEFINE N == Len(s)
           t == Back(s)
<1>1. N \in Nat /\ DOMAIN s = 1 .. N
  BY ScriptFacts
<1>2. t = [i \in 1 .. N |-> IF s[i].mark = "new" THEN Parsed(s)[i] ELSE s[i]]
  BY <1>1 DEF Back
<1>3. ASSUME NEW i \in 1 .. N PROVE s[i] \in Marked /\ Parsed(s)[i] \in Marked
  <2>1. Parsed(s) \in Seq(Marked) /\ Len(Parsed(s)) = N
    BY ParsedOK
  <2> QED BY <2>1, ScriptFacts
<1> HIDE DEF t, N
<1>4. t \in [1 .. N -> Marked]
  BY <1>2, <1>3
<1>5. t \in Seq(Marked) /\ Len(t) = N
  BY <1>1, <1>4
<1> QED BY <1>2, <1>5 DEF t, N

-----------------------------------------------------------------------------
(* The type invariant, with what the patch files and the saved script are. *)

Stored ==
  /\ saved \in Seq(Marked)
  /\ patches \in Seq(Patch)

TypeInv == TypeOK /\ Stored

LEMMA FilesOK ==
  ASSUME NEW s \in Seq(Marked)
  PROVE  /\ New(s) \in Seq(Lines) /\ Len(New(s)) \in Nat /\ DOMAIN New(s) = 1 .. Len(New(s))
         /\ Old(s) \in Seq(Lines)
<1>1. NewLines(s) \in SUBSET (1 .. Len(s)) /\ OldLines(s) \in SUBSET (1 .. Len(s))
  BY ScriptFacts DEF NewLines, OldLines
<1>2. New(s) \in Seq(Lines) /\ Old(s) \in Seq(Lines)
  BY <1>1, LinesAtOK DEF New, Old
<1>3. Len(New(s)) \in Nat /\ DOMAIN New(s) = 1 .. Len(New(s))
  BY <1>2, LenProperties
<1> QED BY <1>2, <1>3

LEMMA TypeInvInit == Init => TypeInv
<1> SUFFICES ASSUME Init PROVE TypeInv
  OBVIOUS
<1>1. PICK file \in Heads : script = Unchanged(file)
  BY DEF Init
<1>2. file \in Seq(Lines) /\ MaxEdits \in Nat /\ MaxContexts \in Nat
  BY DiffAssumption
<1>3. script \in Seq(Marked) /\ Canonical(script)
  BY <1>1, <1>2, UnchangedOK
<1>4. patches = <<>> /\ saved = script /\ stage = "body"
      /\ applied = 0 /\ refused = {} /\ accepted = {} /\ edits = 0 /\ contexts = 0
  BY DEF Init
<1>5. patches \in Seq(Patch) /\ Len(patches) = 0
  BY <1>4
<1>6. Stored
  BY <1>3, <1>4, <1>5 DEF Stored
<1>7. applied \in 0 .. Len(patches) /\ edits \in 0 .. MaxEdits /\ contexts \in 0 .. MaxContexts
  BY <1>2, <1>4, <1>5
<1>8. TypeOK
  BY <1>3, <1>4, <1>7 DEF TypeOK, Marked
<1> QED BY <1>6, <1>8 DEF TypeInv

LEMMA TypeInvStep == TypeInv /\ [Next]_vars => TypeInv'
<1> SUFFICES ASSUME TypeInv, [Next]_vars PROVE TypeInv'
  OBVIOUS
<1>1. /\ script \in Seq(Marked) /\ Canonical(script) /\ saved \in Seq(Marked)
      /\ patches \in Seq(Patch) /\ Len(patches) \in Nat /\ DOMAIN patches = 1 .. Len(patches)
      /\ stage \in {"body", "entry", "outside", "failed"} /\ (stage = "body" => patches = <<>>)
      /\ applied \in 0 .. Len(patches) /\ refused \subseteq 1 .. applied
      /\ accepted \subseteq DOMAIN patches
      /\ edits \in 0 .. MaxEdits /\ contexts \in 0 .. MaxContexts
  BY LenProperties DEF TypeInv, TypeOK, Stored, Marked
<1>2. MaxEdits \in Nat /\ MaxContexts \in Nat
  BY DiffAssumption
<1>3. SUFFICES /\ script' \in Seq(Marked) /\ Canonical(script') /\ saved' \in Seq(Marked)
               /\ patches' \in Seq(Patch)
               /\ stage' \in {"body", "entry", "outside", "failed"} /\ (stage' = "body" => patches' = <<>>)
               /\ applied' \in 0 .. Len(patches') /\ refused' \subseteq 1 .. applied'
               /\ accepted' \subseteq DOMAIN patches'
               /\ edits' \in 0 .. MaxEdits /\ contexts' \in 0 .. MaxContexts
  BY DEF TypeInv, TypeOK, Stored, Marked
\* Where there are none left, the counts of patches are empty.
<1>4. stage = "body" => applied = 0 /\ refused = {} /\ accepted = {}
  <2> SUFFICES ASSUME patches = <<>> PROVE applied = 0 /\ refused = {} /\ accepted = {}
    BY <1>1
  <2>1. Len(patches) = 0
    OBVIOUS
  <2>2. applied = 0
    BY <1>1, <2>1
  <2>3. 1 .. applied = {} /\ 1 .. Len(patches) = {}
    BY <2>1, <2>2
  <2> QED BY <1>1, <2>2, <2>3
<1>5. CASE AgentEdits
  <2>1. script' \in Seq(Marked) /\ Canonical(script')
    <3>1. CASE \E t \in 0 .. Len(New(script)), l \in Lines : script' = Added(script, t, l)
      BY <1>1, <3>1, AddedOK
    <3>2. CASE \E t \in DOMAIN New(script) : script' = Deleted(script, t)
      <4>1. PICK t \in 1 .. Len(New(script)) : script' = Deleted(script, t)
        BY <1>1, <3>2, FilesOK
      <4> QED BY <1>1, <4>1, DeletedOK
    <3> QED BY <1>5, <3>1, <3>2 DEF AgentEdits
  <2>2. edits' \in 0 .. MaxEdits
    BY <1>1, <1>2, <1>5 DEF AgentEdits
  <2> QED BY <1>1, <1>5, <2>1, <2>2 DEF AgentEdits
<1>6. CASE Save
  <2>1. script' = Unchanged(Old(script)) /\ patches' = Split(Parsed(script)) /\ saved' = script
        /\ stage' = "outside" /\ contexts' = contexts + 1 /\ stage = "body" /\ contexts < MaxContexts
        /\ UNCHANGED <<applied, refused, accepted, edits>>
    BY <1>6 DEF Save
  <2>2. script' \in Seq(Marked) /\ Canonical(script')
    BY <1>1, <2>1, FilesOK, UnchangedOK
  <2>3. patches' \in Seq(Patch) /\ Len(patches') \in Nat
    BY <1>1, <2>1, ParsedOK, SplitOK
  <2>4. applied' = 0 /\ refused' = {} /\ accepted' = {}
    BY <1>4, <2>1
  <2>5. applied' \in 0 .. Len(patches')
    BY <2>3, <2>4
  <2>6. contexts' \in 0 .. MaxContexts
    BY <1>1, <1>2, <2>1
  <2> QED BY <1>1, <2>1, <2>2, <2>3, <2>4, <2>5, <2>6
<1>7. CASE UserAccepts
  <2>1. PICK n \in DOMAIN patches \ accepted :
          /\ Applies(patches[n], New(script))
          /\ script' = Unchanged(New(AppliedTo(patches[n], script)))
          /\ accepted' = accepted \cup {n}
    BY <1>7 DEF UserAccepts
  <2>2. patches[n] \in Patch /\ Matches(patches[n], New(script)) # {}
    BY <1>1, <2>1 DEF Applies
  <2>3. script' \in Seq(Marked) /\ Canonical(script')
    BY <1>1, <2>1, <2>2, AppliedOK, FilesOK, UnchangedOK
  <2>4. accepted' \subseteq DOMAIN patches
    BY <1>1, <2>1
  <2> QED BY <1>1, <1>7, <2>3, <2>4 DEF UserAccepts
<1>8. CASE Enter
  BY <1>1, <1>8 DEF Enter
<1>9. CASE Apply
  <2>1. /\ stage = "entry" /\ applied < Len(patches) /\ applied' = applied + 1
        /\ UNCHANGED <<stage, patches, saved, accepted, edits, contexts>>
    BY <1>9 DEF Apply
  <2>2. applied' \in 1 .. Len(patches) /\ applied' \in 0 .. Len(patches)
        /\ 1 .. applied \subseteq 1 .. applied' /\ applied' \in 1 .. applied'
    BY <1>1, <2>1
  <2>3. patches[applied'] \in Patch
    BY <1>1, <2>2
  <2>4. CASE Applies(patches[applied'], New(script))
    <3>1. script' = AppliedTo(patches[applied'], script) /\ refused' = refused
      BY <1>9, <2>4 DEF Apply
    <3>2. script' \in Seq(Marked) /\ Canonical(script')
      BY <1>1, <2>3, <2>4, <3>1, AppliedOK DEF Applies
    <3> QED BY <1>1, <2>1, <2>2, <3>1, <3>2
  <2>5. CASE ~ Applies(patches[applied'], New(script))
    <3>1. script' = script /\ refused' = refused \cup {applied'}
      BY <1>9, <2>5 DEF Apply
    <3>2. refused' \subseteq 1 .. applied'
      BY <1>1, <2>2, <3>1
    <3> QED BY <1>1, <2>1, <2>2, <3>1, <3>2
  <2> QED BY <2>4, <2>5
<1>10. CASE Begin
  <2>1. /\ stage' = "body" /\ patches' = <<>>
        /\ applied' = 0 /\ refused' = {} /\ accepted' = {}
        /\ UNCHANGED <<script, saved, edits, contexts>>
    BY <1>10 DEF Begin
  <2>2. patches' \in Seq(Patch) /\ Len(patches') = 0
    BY <2>1
  <2>3. applied' \in 0 .. Len(patches')
    BY <2>1, <2>2
  <2> QED BY <1>1, <2>1, <2>2, <2>3
<1>11. CASE ParseFails
  BY <1>1, <1>11 DEF ParseFails
<1>12. CASE UNCHANGED vars
  BY <1>1, <1>12 DEF vars
<1> QED BY <1>5, <1>6, <1>7, <1>8, <1>9, <1>10, <1>11, <1>12 DEF Next

\* The variables keep their types; above all, the diff of the tree is always one that
\* git would show, whatever the agent does and whichever patches are applied to it, and
\* every patch changes exactly one line.
THEOREM TypeCorrect == Spec => [](TypeOK /\ Stored)
<1>1. TypeInv => TypeOK /\ Stored
  BY DEF TypeInv
<1> QED BY TypeInvInit, TypeInvStep, <1>1, PTL DEF Spec

-----------------------------------------------------------------------------
(* Parts of a list of positions. *)

\* InOrder of a set of positions, in small steps.
LEMMA ListOf ==
  ASSUME NEW N \in Nat, NEW K \in SUBSET (1 .. N)
  PROVE  /\ Cardinality(K) \in Nat /\ IsFiniteSet(K)
         /\ InOrder(K) \in [1 .. Cardinality(K) -> K]
         /\ \A m, n \in 1 .. Cardinality(K) : m < n => InOrder(K)[m] < InOrder(K)[n]
         /\ \A i \in K : \E n \in 1 .. Cardinality(K) : InOrder(K)[n] = i
<1>1. K \in SUBSET Int /\ IsFiniteSet(K)
  BY Positions
<1> QED BY <1>1, InOrderIsList

LEMMA MemberAt ==
  ASSUME NEW N \in Nat, NEW K \in SUBSET (1 .. N), NEW n \in 1 .. Cardinality(K)
  PROVE  InOrder(K)[n] \in K /\ InOrder(K)[n] \in 1 .. N
<1>1. InOrder(K) \in [1 .. Cardinality(K) -> K]
  BY ListOf
<1> QED BY <1>1

\* The members of K up to i.
Upto(K, i) == {j \in K : j <= i}

LEMMA CountedTo ==
  ASSUME NEW N \in Nat, NEW K \in SUBSET (1 .. N), NEW n \in 1 .. Cardinality(K),
         NEW i, InOrder(K)[n] = i
  PROVE  Cardinality(Upto(K, i)) = n
<1>1. PICK key : key = [x \in K |-> x]
  OBVIOUS
<1>2. IsList(InOrder(K), Cardinality(K), K, key)
  <2>1. key \in [K -> Int] /\ \A x, y \in K : key[x] = key[y] => x = y
    BY <1>1
  <2>2. IsFiniteSet(K)
    BY Positions
  <2>3. IsList(Arranged(K, key), Cardinality(K), K, key)
    BY <2>1, <2>2, ArrangedIsList
  <2> QED BY <1>1, <2>3 DEF InOrder
<1>3. Cardinality({j \in K : key[j] <= key[InOrder(K)[n]]}) = n
  BY <1>2, ListCounts
<1>4. i \in K
  BY MemberAt
<1>5. {j \in K : key[j] <= key[InOrder(K)[n]]} = Upto(K, i)
  BY <1>1, <1>4 DEF Upto
<1> QED BY <1>3, <1>5

\* A member is found at its count.
LEMMA FoundAt ==
  ASSUME NEW N \in Nat, NEW K \in SUBSET (1 .. N), NEW i \in K,
         NEW c, Cardinality(Upto(K, i)) = c
  PROVE  c \in 1 .. Cardinality(K) /\ InOrder(K)[c] = i
<1>1. PICK n \in 1 .. Cardinality(K) : InOrder(K)[n] = i
  BY ListOf
<1>2. n = c
  BY <1>1, CountedTo
<1> QED BY <1>1, <1>2

\* The first ones, if they are all there.
LEMMA FirstOnes ==
  ASSUME NEW N \in Nat, NEW K \in SUBSET (1 .. N), NEW x \in Nat \ {0}, \A j \in 1 .. x : j \in K
  PROVE  x \in 1 .. Cardinality(K) /\ InOrder(K)[x] = x
<1>1. x \in K
  OBVIOUS
<1>2. Upto(K, x) = 1 .. x
  <2>1. \A j \in K : j \in Int /\ 1 <= j
    OBVIOUS
  <2>2. \A j \in K : j <= x => j \in 1 .. x
    BY <2>1
  <2>3. \A j \in 1 .. x : j \in K /\ j <= x
    OBVIOUS
  <2> QED BY <2>2, <2>3 DEF Upto
<1>3. Cardinality(1 .. x) = x
  BY Interval
<1> QED BY <1>1, <1>2, <1>3, FoundAt

\* The stretch L = lo .. hi of K, of which b come before it.
StretchFrom(L, N, K, b, hi) ==
  /\ b \in Nat /\ L \in SUBSET (1 .. N) /\ Cardinality(L) \in Nat /\ Cardinality(K) \in Nat
  /\ b + Cardinality(L) <= Cardinality(K)
  /\ hi = N => b + Cardinality(L) = Cardinality(K)
  /\ \A x \in 1 .. Cardinality(L) : InOrder(K)[b + x] = InOrder(L)[x]

LEMMA StretchAt ==
  ASSUME NEW N \in Nat, NEW K \in SUBSET (1 .. N), NEW lo \in Nat \ {0}, NEW hi \in Nat,
         NEW B, B = K \cap (1 .. lo - 1), NEW b, b = Cardinality(B), NEW L, L = K \cap (lo .. hi)
  PROVE  StretchFrom(L, N, K, b, hi)
<1>1. L \in SUBSET (1 .. N) /\ Cardinality(L) \in Nat /\ IsFiniteSet(L)
  <2>1. L \in SUBSET (1 .. N)
    OBVIOUS
  <2> QED BY <2>1, Positions
<1>2. b \in Nat /\ IsFiniteSet(B)
  <2>1. B \in SUBSET (1 .. N)
    OBVIOUS
  <2> QED BY <2>1, Positions
<1>3. ASSUME NEW M \in SUBSET L
      PROVE  Cardinality(B \cup M) = b + Cardinality(M) /\ Cardinality(M) \in Nat
  <2>1. IsFiniteSet(M)
    BY <1>1, FS_Subset
  <2>2. B \cap M = {}
    OBVIOUS
  <2>3. Cardinality(M) \in Nat
    BY <2>1, FS_CardinalityType
  <2>4. Cardinality(B \cup M) = Cardinality(B) + Cardinality(M) - Cardinality(B \cap M)
    BY <1>2, <2>1, FS_Union
  <2>5. Cardinality(B \cap M) = 0
    BY <2>2, FS_EmptySet
  <2> QED BY <1>2, <2>3, <2>4, <2>5
<1>4. B \cup L \in SUBSET K /\ (hi = N => B \cup L = K)
  <2>1. B \cup L \in SUBSET K
    OBVIOUS
  <2>2. ASSUME hi = N, NEW j \in K PROVE j \in B \cup L
    <3>1. j \in 1 .. N
      OBVIOUS
    <3>2. j \in 1 .. lo - 1 \/ j \in lo .. hi
      BY <2>2, <3>1
    <3> QED BY <3>2
  <2> QED BY <2>1, <2>2
<1>5. Cardinality(B \cup L) = b + Cardinality(L)
  BY <1>3
<1>6. Cardinality(B \cup L) <= Cardinality(K) /\ Cardinality(K) \in Nat
  <2>1. IsFiniteSet(K) /\ Cardinality(K) \in Nat
    BY Positions
  <2> QED BY <1>4, <2>1, FS_Subset
<1>7. ASSUME NEW x \in 1 .. Cardinality(L)
      PROVE  InOrder(K)[b + x] = InOrder(L)[x]
  <2> DEFINE i == InOrder(L)[x]
             M == Upto(L, i)
  <2>1. i \in L
    BY <1>1, MemberAt
  <2>2. Cardinality(M) = x
    BY <1>1, CountedTo
  <2> HIDE DEF i
  <2>3. i \in K /\ lo <= i /\ i <= hi /\ i \in Int
    BY <2>1
  <2>4. Upto(K, i) = B \cup M
    <3>1. ASSUME NEW j \in K, j <= i PROVE j \in B \cup M
      <4>1. j \in 1 .. N
        OBVIOUS
      <4>2. j \in 1 .. lo - 1 \/ j \in lo .. hi
        BY <2>3, <3>1, <4>1
      <4> QED BY <3>1, <4>2 DEF Upto
    <3>2. ASSUME NEW j \in B PROVE j \in K /\ j <= i
      BY <2>3
    <3>3. \A j \in M : j \in K /\ j <= i
      BY DEF Upto
    <3> HIDE DEF M
    <3> QED BY <3>1, <3>2, <3>3 DEF Upto
  <2>5. M \in SUBSET L
    BY DEF Upto
  <2> HIDE DEF M
  <2>6. Cardinality(Upto(K, i)) = b + x
    BY <1>3, <2>2, <2>4, <2>5
  <2>7. InOrder(K)[b + x] = i
    BY <2>3, <2>6, FoundAt
  <2> QED BY <2>7 DEF i
<1> QED BY <1>1, <1>2, <1>4, <1>5, <1>6, <1>7 DEF StretchFrom

\* A stretch L = lo .. hi of K, if all before it are there.
IsStretch(L, N, K, lo, hi) ==
  /\ L \in SUBSET (1 .. N) /\ Cardinality(L) \in Nat
  /\ lo - 1 + Cardinality(L) <= Cardinality(K)
  /\ hi = N => lo - 1 + Cardinality(L) = Cardinality(K)
  /\ \A x \in 1 .. Cardinality(L) : InOrder(K)[lo - 1 + x] = InOrder(L)[x]

LEMMA Stretch ==
  ASSUME NEW N \in Nat, NEW K \in SUBSET (1 .. N), NEW lo \in Nat \ {0}, NEW hi \in Nat,
         \A j \in 1 .. lo - 1 : j \in K, NEW L, L = K \cap (lo .. hi)
  PROVE  IsStretch(L, N, K, lo, hi)
<1>1. PICK B, b : B = K \cap (1 .. lo - 1) /\ b = Cardinality(B)
  OBVIOUS
<1>2. StretchFrom(L, N, K, b, hi)
  BY <1>1, StretchAt
<1>3. b = lo - 1
  <2>1. lo - 1 \in Nat /\ B = 1 .. lo - 1
    BY <1>1
  <2> QED BY <1>1, <2>1, Interval
<1> QED BY <1>2, <1>3 DEF StretchFrom, IsStretch

\* One more, k, before which all are there.
HasOneMore(L, N, K, k) ==
  /\ L \in SUBSET (1 .. N) /\ Cardinality(L) = Cardinality(K) + 1
  /\ Cardinality(K) \in Nat /\ k - 1 <= Cardinality(K)
  /\ \A x \in 1 .. k - 1 : InOrder(L)[x] = x /\ InOrder(K)[x] = x
  /\ InOrder(L)[k] = k
  /\ \A x \in k .. Cardinality(K) : InOrder(L)[x + 1] = InOrder(K)[x] /\ k < InOrder(K)[x]

LEMMA OneMore ==
  ASSUME NEW N \in Nat, NEW K \in SUBSET (1 .. N), NEW k \in 1 .. N, k \notin K,
         \A j \in 1 .. k - 1 : j \in K, NEW L, L = K \cup {k}
  PROVE  HasOneMore(L, N, K, k)
<1>1. L \in SUBSET (1 .. N)
  OBVIOUS
<1>2. IsFiniteSet(K) /\ Cardinality(K) \in Nat
  BY Positions
<1>3. Cardinality(L) = Cardinality(K) + 1
  BY <1>2, FS_AddElement
<1>4. ASSUME NEW x \in 1 .. k - 1 PROVE InOrder(L)[x] = x /\ InOrder(K)[x] = x
  <2>1. x \in Nat \ {0} /\ \A j \in 1 .. x : j \in K /\ j \in L
    OBVIOUS
  <2> QED BY <1>1, <2>1, FirstOnes
<1>5. InOrder(L)[k] = k
  <2>1. k \in Nat \ {0} /\ \A j \in 1 .. k : j \in L
    OBVIOUS
  <2> QED BY <1>1, <2>1, FirstOnes
<1>6. k - 1 <= Cardinality(K)
  <2>1. CASE k = 1
    BY <1>2, <2>1
  <2>2. CASE k # 1
    <3>1. k - 1 \in Nat \ {0}
      BY <2>2
    <3>2. k - 1 \in 1 .. Cardinality(K)
      BY <3>1, FirstOnes
    <3> QED BY <1>2, <3>2
  <2> QED BY <2>1, <2>2
<1>7. ASSUME NEW x \in k .. Cardinality(K)
      PROVE  InOrder(L)[x + 1] = InOrder(K)[x] /\ k < InOrder(K)[x]
  <2> DEFINE i == InOrder(K)[x]
             M == Upto(K, i)
  <2>1. x \in 1 .. Cardinality(K)
    BY <1>2
  <2>2. i \in K /\ i \in 1 .. N
    BY <2>1, MemberAt
  <2>3. Cardinality(M) = x
    BY <2>1, CountedTo
  <2> HIDE DEF i
  <2>4. k < i
    <3> SUFFICES ASSUME i < k PROVE FALSE
      BY <2>2
    <3>1. M = 1 .. i
      <4>1. \A j \in K : j \in 1 .. N
        OBVIOUS
      <4>2. \A j \in K : j <= i => j \in 1 .. i
        BY <4>1, <2>2
      <4>3. \A j \in 1 .. i : j \in 1 .. k - 1 /\ j <= i
        BY <2>2
      <4> QED BY <4>2, <4>3 DEF Upto
    <3>2. Cardinality(M) = i
      <4>1. i \in Nat
        BY <2>2
      <4> QED BY <3>1, <4>1, Interval
    <3> QED BY <2>2, <2>3, <3>2
  <2>5. Upto(L, i) = M \cup {k}
    BY <2>4, <2>2 DEF Upto
  <2>6. k \notin M /\ IsFiniteSet(M)
    <3>1. M \in SUBSET K
      BY DEF Upto
    <3> QED BY <1>2, <3>1, FS_Subset
  <2> HIDE DEF M
  <2>7. Cardinality(M \cup {k}) = x + 1
    BY <2>3, <2>6, FS_AddElement
  <2>8. i \in L
    BY <2>2
  <2>9. InOrder(L)[x + 1] = i
    BY <1>1, <2>5, <2>7, <2>8, FoundAt
  <2> QED BY <2>4, <2>9 DEF i
<1> QED BY <1>1, <1>2, <1>3, <1>4, <1>5, <1>6, <1>7 DEF HasOneMore

-----------------------------------------------------------------------------
(* A file of which only some lines are there. *)

\* The lines of s at the positions K, with their marks.
Part(s, K) == [n \in 1 .. Cardinality(K) |-> s[InOrder(K)[n]]]

LEMMA PartOK ==
  ASSUME NEW s \in Seq(Marked), NEW K \in SUBSET (1 .. Len(s))
  PROVE  /\ Part(s, K) \in Seq(Marked) /\ Len(Part(s, K)) = Cardinality(K) /\ Cardinality(K) \in Nat
         /\ \A n \in 1 .. Cardinality(K) : Part(s, K)[n] = s[InOrder(K)[n]]
<1> DEFINE m == Cardinality(K)
           t == Part(s, K)
<1>1. Len(s) \in Nat
  BY ScriptFacts
<1>2. m \in Nat
  BY <1>1, Positions
<1>3. t = [n \in 1 .. m |-> s[InOrder(K)[n]]]
  BY DEF Part
<1>4. ASSUME NEW n \in 1 .. m PROVE s[InOrder(K)[n]] \in Marked
  <2>1. InOrder(K)[n] \in 1 .. Len(s)
    BY <1>1, MemberAt
  <2> QED BY <2>1, ScriptFacts
<1> HIDE DEF m, t
<1>5. t \in [1 .. m -> Marked]
  BY <1>3, <1>4
<1>6. t \in Seq(Marked) /\ Len(t) = m
  BY <1>2, <1>5
<1> QED BY <1>2, <1>3, <1>6 DEF m, t

\* All lines of a script without deletions are in the tree.
LEMMA NewOfSame ==
  ASSUME NEW s \in Seq(Marked), NoneDeleted(s)
  PROVE  /\ Len(New(s)) = Len(s)
         /\ \A x \in 1 .. Len(s) : New(s)[x] = s[x].line /\ InOrder(NewLines(s))[x] = x
<1> DEFINE N == Len(s)
           K == NewLines(s)
<1>1. N \in Nat /\ DOMAIN s = 1 .. N
  BY ScriptFacts
<1>2. K = 1 .. N
  BY <1>1 DEF NoneDeleted, NewLines
<1>3. Cardinality(K) = N
  BY <1>1, <1>2, Interval
<1> HIDE DEF K
<1>4. /\ Len(New(s)) = Cardinality(K)
      /\ New(s) = [n \in 1 .. Cardinality(K) |-> s[InOrder(K)[n]].line]
  BY <1>2, LinesAtOK DEF New, K
<1>5. ASSUME NEW x \in 1 .. N PROVE InOrder(K)[x] = x
  <2>1. x \in Nat \ {0} /\ \A j \in 1 .. x : j \in K
    BY <1>1, <1>2
  <2> QED BY <1>1, <1>2, <2>1, FirstOnes
<1> QED BY <1>3, <1>4, <1>5 DEF K

LEMMA PartNone ==
  ASSUME NEW s \in Seq(Marked), NoneDeleted(s), NEW K \in SUBSET (1 .. Len(s))
  PROVE  NoneDeleted(Part(s, K))
<1>1. Len(s) \in Nat
  BY ScriptFacts
<1>2. /\ Len(Part(s, K)) = Cardinality(K)
      /\ \A n \in 1 .. Cardinality(K) : Part(s, K)[n] = s[InOrder(K)[n]]
  BY PartOK
<1>3. ASSUME NEW n \in 1 .. Cardinality(K) PROVE s[InOrder(K)[n]].mark # "old"
  <2>1. InOrder(K)[n] \in 1 .. Len(s)
    BY <1>1, MemberAt
  <2> QED BY <2>1 DEF NoneDeleted
<1> QED BY <1>2, <1>3 DEF NoneDeleted

\* The lines of such a part, in the tree.
LEMMA PartLines ==
  ASSUME NEW s \in Seq(Marked), NoneDeleted(s), NEW K \in SUBSET (1 .. Len(s))
  PROVE  /\ New(Part(s, K)) \in Seq(Lines) /\ Len(New(Part(s, K))) = Cardinality(K)
         /\ \A x \in 1 .. Cardinality(K) : /\ New(Part(s, K))[x] = s[InOrder(K)[x]].line
                                           /\ InOrder(NewLines(Part(s, K)))[x] = x
<1>1. PICK t : t = Part(s, K)
  OBVIOUS
<1>2. /\ t \in Seq(Marked) /\ Len(t) = Cardinality(K)
      /\ \A n \in 1 .. Cardinality(K) : t[n] = s[InOrder(K)[n]]
  BY <1>1, PartOK
<1>3. NoneDeleted(t)
  BY <1>1, PartNone
<1>4. New(t) \in Seq(Lines)
  BY <1>2, FilesOK
<1>5. /\ Len(New(t)) = Len(t)
      /\ \A x \in 1 .. Len(t) : New(t)[x] = t[x].line /\ InOrder(NewLines(t))[x] = x
  BY <1>2, <1>3, NewOfSame
<1> QED BY <1>1, <1>2, <1>4, <1>5

-----------------------------------------------------------------------------
(* Scripts that differ in the ends of their lines only. *)

SameShape(s, t) ==
  /\ Len(t) = Len(s)
  /\ \A i \in 1 .. Len(s) :
       t[i].mark = s[i].mark /\ (t[i].line \in Annotations <=> s[i].line \in Annotations)

LEMMA ParsedShape ==
  ASSUME NEW s \in Seq(Marked)
  PROVE  SameShape(s, Parsed(s))
<1>1. Len(Parsed(s)) = Len(s)
  BY ParsedOK
<1>2. ASSUME NEW i \in 1 .. Len(s)
      PROVE  /\ Parsed(s)[i].mark = s[i].mark
             /\ Parsed(s)[i].line \in Annotations <=> s[i].line \in Annotations
  <2>1. Parsed(s)[i].mark = s[i].mark /\ Parsed(s)[i].line = Stripped[s[i].line]
    BY ParsedLine
  <2>2. s[i].line \in Lines
    BY ScriptFacts
  <2>3. Stripped[s[i].line] \in Annotations <=> s[i].line \in Annotations
    BY <2>2, StrippedFacts
  <2> QED BY <2>1, <2>3
<1> QED BY <1>1, <1>2 DEF SameShape

LEMMA BackShape ==
  ASSUME NEW s \in Seq(Marked)
  PROVE  SameShape(s, Back(s))
<1>1. Len(Back(s)) = Len(s)
  BY BackOK
<1>2. ASSUME NEW i \in 1 .. Len(s)
      PROVE  /\ Back(s)[i].mark = s[i].mark
             /\ Back(s)[i].line \in Annotations <=> s[i].line \in Annotations
  <2>1. Back(s)[i] = Parsed(s)[i] \/ Back(s)[i] = s[i]
    BY BackOK
  <2>2. /\ Parsed(s)[i].mark = s[i].mark
        /\ Parsed(s)[i].line \in Annotations <=> s[i].line \in Annotations
    BY ParsedShape DEF SameShape
  <2> QED BY <2>1, <2>2
<1> QED BY <1>1, <1>2 DEF SameShape

\* They have the same changes, annotations and hunks.
LEMMA ShapeSame ==
  ASSUME NEW s \in Seq(Marked), NEW t \in Seq(Marked), SameShape(s, t)
  PROVE  /\ DOMAIN t = 1 .. Len(s) /\ DOMAIN s = 1 .. Len(s)
         /\ Changed(t) = Changed(s) /\ PfLines(t) = PfLines(s)
<1>1. DOMAIN t = 1 .. Len(s) /\ DOMAIN s = 1 .. Len(s)
  BY ScriptFacts DEF SameShape
<1>2. \A i \in 1 .. Len(s) :
        t[i].mark = s[i].mark /\ (t[i].line \in Annotations <=> s[i].line \in Annotations)
  BY DEF SameShape
<1>3. Changed(t) = Changed(s)
  BY <1>1, <1>2 DEF Changed
<1>4. PfLines(t) = PfLines(s)
  BY <1>1, <1>2 DEF PfLines, IsPf
<1> QED BY <1>1, <1>3, <1>4

LEMMA ShapeIsPf ==
  ASSUME NEW s, NEW t, SameShape(s, t), NEW i \in 1 .. Len(s)
  PROVE  IsPf(t, i) <=> IsPf(s, i)
  BY DEF SameShape, IsPf

LEMMA ShapeHunk ==
  ASSUME NEW s \in Seq(Marked), NEW t \in Seq(Marked), SameShape(s, t), NEW k
  PROVE  Hunk(t, k) = Hunk(s, k)
<1>1. DOMAIN t = DOMAIN s /\ Changed(t) = Changed(s)
  BY ShapeSame
<1>2. \A c : StartsHunk(t, c) <=> StartsHunk(s, c)
  BY <1>1 DEF StartsHunk
<1> QED BY <1>1, <1>2 DEF Hunk

\* Patches show their positions, and where the lines there are the same, the same.
LEMMA SamePatch ==
  ASSUME NEW s \in Seq(Marked), NEW t \in Seq(Marked), SameShape(s, t),
         NEW k \in 1 .. Len(s), IsPf(s, k), \A i \in Kept(s, k) : t[i].line = s[i].line
  PROVE  PatchFor(t, k) = PatchFor(s, k)
<1> DEFINE N == Len(s)
           H == Hunk(s, k)
           K == Kept(s, k)
<1>1. /\ Len(t) = N /\ DOMAIN t = 1 .. N /\ DOMAIN s = 1 .. N
      /\ \A i \in 1 .. N : t[i].mark = s[i].mark /\ (IsPf(t, i) <=> IsPf(s, i))
  BY ShapeSame, ShapeIsPf DEF SameShape
<1>2. Hunk(t, k) = H
  BY ShapeHunk
<1>3. H \in SUBSET (1 .. N) /\ K \in SUBSET H /\ k \in K /\ N \in Nat
  BY KeptIn, ScriptFacts
<1>4. Kept(t, k) = K
  <2>1. \A i \in H : t[i].mark = s[i].mark /\ (IsPf(t, i) <=> IsPf(s, i))
    BY <1>1, <1>3
  <2> QED BY <1>2, <2>1 DEF Kept
<1>5. Earlier(t, H, k, "new") = Earlier(s, H, k, "new") /\ Earlier(t, H, k, "old") = Earlier(s, H, k, "old")
  BY <1>1, <1>3 DEF Earlier
<1>6. OldStart(t, H) = OldStart(s, H) /\ NewStart(t, H) = NewStart(s, H)
  <2>1. ASSUME NEW marks PROVE Start(t, H, marks) = Start(s, H, marks)
    <3>1. {i \in DOMAIN t : t[i].mark \in marks /\ \A j \in H : i < j}
            = {i \in DOMAIN s : s[i].mark \in marks /\ \A j \in H : i < j}
      BY <1>1
    <3>2. {i \in H : t[i].mark \in marks} = {i \in H : s[i].mark \in marks}
      BY <1>1, <1>3
    <3> HIDE DEF H
    <3> QED BY <3>1, <3>2 DEF Start
  <2> HIDE DEF H
  <2> QED BY <2>1 DEF OldStart, NewStart
<1>7. IsPf(t, k) /\ k \in 1 .. Len(t)
  BY <1>1
<1>8. BodyOf(t, k) = BodyOf(s, k)
  <2>1. ASSUME NEW i \in K PROVE t[i] = s[i] /\ t[i].line = s[i].line
    <3>1. i \in 1 .. N /\ t[i].line = s[i].line
      BY <1>3
    <3>2. t[i].mark = s[i].mark
      BY <1>1, <3>1
    <3>3. t[i] = Mark(t[i].mark, t[i].line) /\ s[i] = Mark(s[i].mark, s[i].line)
      BY <1>1, <3>1, ScriptFacts
    <3> QED BY <3>1, <3>2, <3>3
  <2>2. InOrder(K) \in [1 .. Cardinality(K) -> K]
    <3>1. K \in SUBSET (1 .. N)
      BY <1>3
    <3> HIDE DEF K, N, H
    <3> QED BY <1>3, <3>1, ListOf
  <2> HIDE DEF K
  <2>3. \A n \in 1 .. Cardinality(K) : t[InOrder(K)[n]].line = s[InOrder(K)[n]].line
    BY <2>1, <2>2
  <2>4. t[k] = s[k]
    BY <1>3, <2>1
  <2>5. BodyOf(t, k) = [n \in 1 .. Cardinality(K) |->
                          IF InOrder(K)[n] = k THEN t[k] ELSE Mark("both", t[InOrder(K)[n]].line)]
    BY <1>4 DEF BodyOf
  <2>6. BodyOf(s, k) = [n \in 1 .. Cardinality(K) |->
                          IF InOrder(K)[n] = k THEN s[k] ELSE Mark("both", s[InOrder(K)[n]].line)]
    BY DEF BodyOf, K
  <2> QED BY <2>3, <2>4, <2>5, <2>6
<1>9. PatchFor(s, k) = [old  |-> OldStart(s, H),
                        new  |-> NewStart(s, H) + Cardinality(Earlier(s, H, k, "new"))
                                                - Cardinality(Earlier(s, H, k, "old")),
                        body |-> PatchFor(s, k).body]
  BY DEF PatchFor
<1>10. PatchFor(t, k) = [old  |-> OldStart(t, H),
                         new  |-> NewStart(t, H) + Cardinality(Earlier(t, H, k, "new"))
                                                 - Cardinality(Earlier(t, H, k, "old")),
                         body |-> PatchFor(t, k).body]
  BY <1>2 DEF PatchFor
<1>11. PatchFor(t, k).body = PatchFor(s, k).body
  <2>1. PatchFor(s, k).body = BodyOf(s, k)
    BY BodyOK
  <2>2. PatchFor(t, k).body = BodyOf(t, k)
    BY <1>7, BodyOK
  <2> QED BY <1>8, <2>1, <2>2
<1> HIDE DEF H
<1> QED BY <1>5, <1>6, <1>9, <1>10, <1>11

-----------------------------------------------------------------------------
(* New annotations, put back one after the other. *)

OnlyNewIn(s) ==
  \A i \in Changed(s) :
    /\ s[i].mark = "new" /\ s[i].line \in Annotations
    /\ \A j \in DOMAIN s \ {i} : s[j].line # s[i].line
    /\ \A j \in Hunk(s, i) : ~ Odd(s[j].line)

\* What is there when the first n are back.
PutBack(s, n) ==
  {i \in 1 .. Len(s) : s[i].mark = "both" \/ \E j \in 1 .. n : InOrder(PfLines(s))[j] = i}

\* K is there when the turn is k's.
Turn(s, K, k) ==
  /\ K \in SUBSET (1 .. Len(s)) /\ k \in 1 .. Len(s) /\ k \notin K
  /\ s[k].mark = "new" /\ s[k].line \in Annotations
  /\ \A j \in 1 .. k - 1 : j \in K
  /\ \A j \in K : k < j => s[j].mark = "both"
  /\ \A j \in 1 .. Len(s) : s[j].mark = "both" => j \in K

LEMMA OnlyNewFacts ==
  ASSUME NEW s \in Seq(Marked), OnlyNewIn(s)
  PROVE  /\ NoneDeleted(s) /\ PfLines(s) \in SUBSET (1 .. Len(s))
         /\ \A i \in 1 .. Len(s) : i \in PfLines(s) <=> s[i].mark # "both"
         /\ \A i \in 1 .. Len(s) : s[i].mark # "both" =>
              /\ s[i].mark = "new" /\ s[i].line \in Annotations /\ IsPf(s, i)
              /\ \A j \in 1 .. Len(s) : j # i => s[j].line # s[i].line
<1>1. DOMAIN s = 1 .. Len(s)
  BY ScriptFacts
<1>2. ASSUME NEW i \in 1 .. Len(s), s[i].mark # "both"
      PROVE  /\ s[i].mark = "new" /\ s[i].line \in Annotations /\ IsPf(s, i)
             /\ \A j \in 1 .. Len(s) : j # i => s[j].line # s[i].line
  <2>1. i \in Changed(s)
    BY <1>1, <1>2 DEF Changed
  <2>2. /\ s[i].mark = "new" /\ s[i].line \in Annotations
        /\ \A j \in DOMAIN s \ {i} : s[j].line # s[i].line
    BY <2>1 DEF OnlyNewIn
  <2> QED BY <1>1, <1>2, <2>2 DEF IsPf
<1>3. \A i \in 1 .. Len(s) : i \in PfLines(s) <=> s[i].mark # "both"
  BY <1>1, <1>2 DEF PfLines, IsPf
<1>4. PfLines(s) \in SUBSET (1 .. Len(s))
  BY <1>1 DEF PfLines
<1>5. NoneDeleted(s)
  BY <1>2 DEF NoneDeleted
<1> QED BY <1>2, <1>3, <1>4, <1>5

\* The parser leaves their hunks alone.
LEMMA SplitParsed ==
  ASSUME NEW s \in Seq(Marked), OnlyNewIn(s)
  PROVE  Split(Parsed(s)) = Split(s)
<1>1. PICK t : t = Parsed(s)
  OBVIOUS
<1>2. t \in Seq(Marked) /\ SameShape(s, t)
  BY <1>1, ParsedOK, ParsedShape
<1>3. PICK m : m = Cardinality(PfLines(s))
  OBVIOUS
<1>4. PfLines(t) = PfLines(s)
  BY <1>2, ShapeSame
<1>5. /\ Split(s) \in Seq(Patch) /\ Len(Split(s)) = m /\ m \in Nat
      /\ \A n \in 1 .. m :
           /\ InOrder(PfLines(s))[n] \in 1 .. Len(s) /\ IsPf(s, InOrder(PfLines(s))[n])
           /\ Split(s)[n] = PatchFor(s, InOrder(PfLines(s))[n])
  BY <1>3, SplitOK
<1>6. /\ Split(t) \in Seq(Patch) /\ Len(Split(t)) = m
      /\ \A n \in 1 .. m : Split(t)[n] = PatchFor(t, InOrder(PfLines(s))[n])
  BY <1>2, <1>3, <1>4, SplitOK
<1>7. ASSUME NEW n \in 1 .. m PROVE Split(t)[n] = Split(s)[n]
  <2>1. PICK k : k = InOrder(PfLines(s))[n]
    OBVIOUS
  <2>2. k \in 1 .. Len(s) /\ IsPf(s, k)
    BY <1>5, <2>1
  <2>3. k \in Changed(s) /\ Hunk(s, k) \in SUBSET (1 .. Len(s)) /\ Kept(s, k) \in SUBSET Hunk(s, k)
    BY <2>2, KeptIn
  <2>4. \A i \in Hunk(s, k) : Stripped[s[i].line] = s[i].line
    BY <2>3 DEF OnlyNewIn, Odd
  <2>5. \A i \in 1 .. Len(s) : t[i].line = Stripped[s[i].line]
    BY <1>1, ParsedLine
  <2>6. \A i \in Kept(s, k) : t[i].line = s[i].line
    BY <2>3, <2>4, <2>5
  <2>7. PatchFor(t, k) = PatchFor(s, k)
    BY <1>2, <2>2, <2>6, SamePatch
  <2> QED BY <1>5, <1>6, <2>1, <2>7
<1>8. Split(t) = Split(s)
  BY <1>5, <1>6, <1>7, SeqEqual
<1> QED BY <1>1, <1>8

LEMMA PutBackStep ==
  ASSUME NEW s \in Seq(Marked), OnlyNewIn(s), NEW n \in Nat, n + 1 <= Cardinality(PfLines(s)),
         NEW k, k = InOrder(PfLines(s))[n + 1]
  PROVE  Turn(s, PutBack(s, n), k) /\ PutBack(s, n + 1) = PutBack(s, n) \cup {k}
<1> DEFINE N == Len(s)
           A == PfLines(s)
           q == InOrder(A)
           m == Cardinality(A)
           K == PutBack(s, n)
<1>1. N \in Nat
  BY ScriptFacts
<1>2. /\ A \in SUBSET (1 .. N)
      /\ \A i \in 1 .. N : i \in A <=> s[i].mark # "both"
      /\ \A i \in 1 .. N : s[i].mark # "both" => s[i].mark = "new" /\ s[i].line \in Annotations
  BY OnlyNewFacts
<1>3. /\ m \in Nat /\ q \in [1 .. m -> A]
      /\ \A x, y \in 1 .. m : x < y => q[x] < q[y]
      /\ \A i \in A : \E x \in 1 .. m : q[x] = i
  BY <1>1, <1>2, ListOf
<1>4. K = {i \in 1 .. N : s[i].mark = "both" \/ \E j \in 1 .. n : q[j] = i}
  BY DEF PutBack
<1>5. PutBack(s, n + 1) = {i \in 1 .. N : s[i].mark = "both" \/ \E j \in 1 .. n + 1 : q[j] = i}
  BY DEF PutBack
<1>6. n + 1 \in 1 .. m /\ k = q[n + 1]
  BY <1>3
<1> HIDE DEF N, A, q, m, K
<1>7. k \in A /\ k \in 1 .. N /\ s[k].mark = "new" /\ s[k].line \in Annotations /\ s[k].mark # "both"
  BY <1>2, <1>3, <1>6
<1>8. ASSUME NEW j \in 1 .. n PROVE j \in 1 .. m /\ q[j] < k
  <2>1. j \in 1 .. m /\ j < n + 1
    BY <1>3, <1>6
  <2> QED BY <2>1, <1>3, <1>6
<1>9. k \notin K
  <2>1. ASSUME NEW j \in 1 .. n PROVE q[j] # k
    <3>1. q[j] < k
      BY <1>8
    <3> QED BY <3>1, <1>7
  <2> QED BY <1>4, <1>7, <2>1
<1>10. ASSUME NEW j \in 1 .. k - 1 PROVE j \in K
  <2>1. j \in 1 .. N /\ j < k
    BY <1>1, <1>7
  <2>2. CASE s[j].mark = "both"
    BY <1>4, <2>1, <2>2
  <2>3. CASE s[j].mark # "both"
    <3>1. PICK x \in 1 .. m : q[x] = j
      BY <1>2, <1>3, <2>1, <2>3
    <3>2. ~ (n + 1 < x) /\ x # n + 1
      <4>1. ASSUME n + 1 < x PROVE FALSE
        <5>1. k < j
          BY <1>3, <1>6, <3>1, <4>1
        <5> QED BY <2>1, <5>1, <1>7
      <4>2. x # n + 1
        BY <1>6, <2>1, <3>1, <1>7
      <4> QED BY <4>1, <4>2
    <3>3. x \in 1 .. n
      BY <1>3, <3>2
    <3> QED BY <1>4, <2>1, <3>1, <3>3
  <2> QED BY <2>2, <2>3
<1>11. ASSUME NEW j \in K, k < j PROVE s[j].mark = "both"
  <2> SUFFICES ASSUME NEW x \in 1 .. n, q[x] = j PROVE FALSE
    BY <1>4
  <2>1. j < k /\ j \in 1 .. N
    BY <1>4, <1>8
  <2> QED BY <1>7, <1>11, <2>1
<1>12. Turn(s, K, k)
  <2>1. K \in SUBSET (1 .. N) /\ \A j \in 1 .. N : s[j].mark = "both" => j \in K
    BY <1>4
  <2> QED BY <1>7, <1>9, <1>10, <1>11, <2>1 DEF Turn, N
<1>13. PutBack(s, n + 1) = K \cup {k}
  <2>1. ASSUME NEW i \in PutBack(s, n + 1) PROVE i \in K \cup {k}
    <3>1. i \in 1 .. N /\ (s[i].mark = "both" \/ \E j \in 1 .. n + 1 : q[j] = i)
      BY <1>5
    <3>2. CASE s[i].mark = "both"
      BY <1>4, <3>1, <3>2
    <3>3. CASE \E j \in 1 .. n + 1 : q[j] = i
      <4>1. PICK j \in 1 .. n + 1 : q[j] = i
        BY <3>3
      <4>2. j \in 1 .. n \/ j = n + 1
        OBVIOUS
      <4> QED BY <1>4, <1>6, <3>1, <4>1, <4>2
    <3> QED BY <3>1, <3>2, <3>3
  <2>2. ASSUME NEW i \in K PROVE i \in PutBack(s, n + 1)
    <3>1. 1 .. n \subseteq 1 .. n + 1
      OBVIOUS
    <3> QED BY <1>4, <1>5, <3>1
  <2>3. k \in PutBack(s, n + 1)
    <3>1. n + 1 \in 1 .. n + 1
      OBVIOUS
    <3> QED BY <1>5, <1>6, <1>7, <3>1
  <2> QED BY <2>1, <2>2, <2>3
<1> QED BY <1>12, <1>13 DEF K

-----------------------------------------------------------------------------
(* The patch of a new annotation, whose turn it is. *)

LEMMA KeptAs ==
  ASSUME NEW s \in Seq(Marked), OnlyNewIn(s), NEW K, NEW k, Turn(s, K, k)
  PROVE  Kept(s, k) = (K \cap Hunk(s, k)) \cup {k} /\ k \in Hunk(s, k) /\ IsPf(s, k)
<1>1. Len(s) \in Nat /\ DOMAIN s = 1 .. Len(s)
  BY ScriptFacts
<1>2. k \in 1 .. Len(s) /\ K \in SUBSET (1 .. Len(s)) /\ IsPf(s, k)
  BY <1>1 DEF Turn, IsPf
<1>3. Hunk(s, k) \in SUBSET (1 .. Len(s)) /\ k \in Hunk(s, k)
  BY <1>2, KeptIn DEF Kept
<1>4. \A i \in 1 .. Len(s) : s[i].mark # "both" => IsPf(s, i) /\ s[i].mark = "new"
  BY OnlyNewFacts
<1>5. ASSUME NEW i \in Hunk(s, k)
      PROVE  i \in Kept(s, k) <=> i \in K \/ i = k
  <2>1. i \in 1 .. Len(s)
    BY <1>3
  <2>2. i \in Kept(s, k) <=> s[i].mark = "both" \/ i = k \/ (IsPf(s, i) /\ i < k /\ s[i].mark = "new")
    BY DEF Kept
  <2>3. i < k => i \in K
    <3>1. i < k => i \in 1 .. k - 1
      BY <1>2, <2>1
    <3> QED BY <3>1 DEF Turn
  <2>4. s[i].mark = "both" => i \in K
    BY <2>1 DEF Turn
  <2>5. i \in K /\ k < i => s[i].mark = "both"
    BY DEF Turn
  <2>6. i < k \/ i = k \/ k < i
    BY <1>2, <2>1
  <2> QED BY <1>4, <2>1, <2>2, <2>3, <2>4, <2>5, <2>6
<1>6. Kept(s, k) \in SUBSET Hunk(s, k)
  BY DEF Kept
<1> QED BY <1>2, <1>3, <1>5, <1>6

\* Where the hunk begins and ends, what its patch shows, and which line it adds.
FitsAt(s, K, k, lo, hi, L, p) ==
  /\ IsHunk(Hunk(s, k), s, k, lo, hi) /\ L = K \cap (lo .. hi)
  /\ p \in Patch /\ ChangesLine(p, k - lo + 1)
  /\ p.body[k - lo + 1].mark = "new" /\ p.body[k - lo + 1].line = s[k].line
  /\ Len(p.body) = Cardinality(L) + 1
  /\ Len(Old(p.body)) = Cardinality(L)
  /\ \A x \in 1 .. Cardinality(L) : Old(p.body)[x] = s[InOrder(L)[x]].line

LEMMA PatchFits ==
  ASSUME NEW s \in Seq(Marked), OnlyNewIn(s), NEW K, NEW k, Turn(s, K, k)
  PROVE  \E lo, hi \in Nat : FitsAt(s, K, k, lo, hi, K \cap (lo .. hi), PatchFor(s, k))
<1> DEFINE N == Len(s)
           J == Kept(s, k)
           p == PatchFor(s, k)
           b == p.body
           q == InOrder(J)
<1>1. N \in Nat /\ DOMAIN s = 1 .. N
  BY ScriptFacts
<1>2. k \in 1 .. N /\ K \in SUBSET (1 .. N) /\ k \notin K /\ IsPf(s, k)
      /\ s[k].mark = "new" /\ \A j \in 1 .. k - 1 : j \in K
  BY KeptAs DEF Turn
<1>3. k \in Changed(s)
  BY <1>1, <1>2 DEF Changed
<1>4. PICK lo \in Nat, hi \in Nat : IsHunk(Hunk(s, k), s, k, lo, hi)
  BY <1>3, HunkAs
<1>5. Hunk(s, k) = lo .. hi /\ lo \in 1 .. k /\ hi \in k .. N /\ k \in Nat
  <2>1. k \in Nat
    BY <1>1, <1>2
  <2> QED BY <1>4, <2>1 DEF IsHunk
<1>6. PICK L : L = K \cap (lo .. hi)
  OBVIOUS
<1>7. J = L \cup {k} /\ k \notin L /\ L \in SUBSET (1 .. N) /\ J \in SUBSET (1 .. N)
  BY <1>2, <1>5, <1>6, KeptAs
<1>8. IsFiniteSet(L) /\ Cardinality(L) \in Nat
  BY <1>1, <1>7, Positions
<1>9. Cardinality(J) = Cardinality(L) + 1
  BY <1>7, <1>8, FS_AddElement
<1>10. p \in Patch /\ b \in Seq(Marked) /\ Len(b) = Cardinality(J) /\ b = BodyOf(s, k)
  BY <1>2, BodyOK, PatchForOK
<1>11. PICK n \in Nat : /\ n \in 1 .. Cardinality(J) /\ q[n] = k /\ ChangesLine(p, n)
  BY <1>2, BodyOK
\* It comes after the lines of the hunk before it.
<1>12. n = k - lo + 1
  <2>1. Cardinality(Upto(J, k)) = n
    BY <1>1, <1>7, <1>11, CountedTo
  <2>2. Upto(J, k) = lo .. k
    <3>1. ASSUME NEW j \in J, j <= k PROVE j \in lo .. k
      BY <1>5, <1>6, <1>7, <3>1
    <3>2. ASSUME NEW j \in lo .. k PROVE j \in J /\ j <= k
      <4> HIDE DEF N
      <4>1. j = k \/ j \in 1 .. k - 1
        BY <1>5
      <4>2. j \in lo .. hi
        BY <1>1, <1>5
      <4> QED BY <1>2, <1>6, <1>7, <4>1, <4>2
    <3> QED BY <3>1, <3>2 DEF Upto
  <2>3. Cardinality(lo .. k) = k - lo + 1
    <3>1. lo \in Int /\ k \in Int /\ ~ (lo > k)
      BY <1>5, <1>2
    <3>2. Cardinality(lo .. k) = IF lo > k THEN 0 ELSE k - lo + 1
      BY <3>1, FS_Interval
    <3> QED BY <3>1, <3>2
  <2> QED BY <2>1, <2>2, <2>3
<1>13. b = [x \in 1 .. Cardinality(J) |-> IF q[x] = k THEN s[k] ELSE Mark("both", s[q[x]].line)]
  BY <1>10 DEF BodyOf
<1> HIDE DEF J, p, b, q
<1>14. b[n] = s[k]
  BY <1>11, <1>13
\* What the patch shows is L.
<1> DEFINE O == OldLines(b)
           r == InOrder(O)
           m == Cardinality(J)
           c == Cardinality(L)
<1>15. m \in Nat /\ c \in Nat /\ m = c + 1
  BY <1>8, <1>9
<1>16. /\ q \in [1 .. m -> J]
       /\ \A x, y \in 1 .. m : x < y => q[x] < q[y]
       /\ \A i \in J : \E x \in 1 .. m : q[x] = i
  BY <1>1, <1>7, ListOf DEF q
<1>17. Changed(b) = {n} /\ Old(b) = LinesAt(b, O) /\ Len(Old(b)) = c
  <2>1. b[n].mark = "new"
    BY <1>2, <1>14
  <2>2. /\ Changed(b) = {n} /\ Len(b) \in Nat
        /\ b[n].mark = "new" => Len(Old(b)) = Len(b) - 1
    BY <1>10, <1>11, PreLen DEF b
  <2>3. Len(Old(b)) = m - 1
    BY <1>10, <2>1, <2>2
  <2>4. Old(b) = LinesAt(b, O)
    BY DEF Old
  <2> HIDE DEF m, c, O
  <2> QED BY <1>15, <2>2, <2>3, <2>4
<1>18. O = (1 .. m) \ {n}
  <2>1. DOMAIN b = 1 .. m
    BY <1>10, ScriptFacts
  <2>2. \A x \in 1 .. m : x # n => b[x].mark = "both"
    BY <1>10, <1>11 DEF ChangesLine, b
  <2>3. b[n].mark = "new"
    BY <1>2, <1>14
  <2> QED BY <2>1, <2>2, <2>3 DEF OldLines
<1> HIDE DEF O
<1>19. O \in SUBSET (1 .. m) /\ O \in SUBSET (1 .. Len(b)) /\ Cardinality(O) = c
  <2>1. O \in SUBSET (1 .. m) /\ O \in SUBSET (1 .. Len(b))
    BY <1>10, <1>18
  <2>2. Len(LinesAt(b, O)) = Cardinality(O)
    BY <1>10, <2>1, LinesAtOK
  <2> QED BY <1>17, <2>1, <2>2
<1>20. Old(b) = [x \in 1 .. c |-> b[r[x]].line]
  BY <1>10, <1>17, <1>19, LinesAtOK
<1>21. /\ r \in [1 .. c -> O]
       /\ \A x, y \in 1 .. c : x < y => r[x] < r[y]
       /\ \A i \in O : \E x \in 1 .. c : r[x] = i
  BY <1>15, <1>19, ListOf
<1> HIDE DEF r, m, c
<1>22. ASSUME NEW x \in 1 .. c
       PROVE  r[x] \in 1 .. m /\ r[x] # n /\ q[r[x]] \in L /\ q[r[x]] # k
  <2>1. r[x] \in 1 .. m /\ r[x] # n
    BY <1>18, <1>21
  <2>2. q[r[x]] \in J
    BY <1>16, <2>1
  <2>3. q[r[x]] # k
    <3>1. r[x] < n \/ n < r[x]
      BY <2>1
    <3>2. n \in 1 .. m /\ q[n] = k
      BY <1>11 DEF m
    <3>3. q[r[x]] \in Int /\ k \in Int
      <4>1. \A i \in J : i \in 1 .. N
        BY <1>7
      <4>2. q[r[x]] \in 1 .. N
        BY <2>2, <4>1, Zenon
      <4> HIDE DEF N
      <4> QED BY <1>5, <4>2
    <3> QED BY <1>16, <2>1, <3>1, <3>2, <3>3
  <2> QED BY <1>7, <2>1, <2>2, <2>3
<1> DEFINE f == [x \in 1 .. c |-> q[r[x]]]
<1>23. f \in [1 .. c -> L]
  BY <1>22
<1>24. \A x, y \in 1 .. c : x < y => f[x] < f[y]
  <2> SUFFICES ASSUME NEW x \in 1 .. c, NEW y \in 1 .. c, x < y PROVE q[r[x]] < q[r[y]]
    OBVIOUS
  <2>1. r[x] < r[y] /\ r[x] \in 1 .. m /\ r[y] \in 1 .. m
    BY <1>21, <1>22
  <2> QED BY <1>16, <2>1
<1>25. \A i \in L : \E x \in 1 .. c : f[x] = i
  <2> TAKE i \in L
  <2>1. PICK y \in 1 .. m : q[y] = i
    BY <1>7, <1>16
  <2>2. y # n
    BY <1>7, <1>11, <2>1
  <2>3. PICK x \in 1 .. c : r[x] = y
    BY <1>18, <1>21, <2>2
  <2> QED BY <2>1, <2>3
<1> HIDE DEF f
<1>26. InOrder(L) = f
  <2>1. L \in SUBSET Int
    BY <1>7
  <2> QED BY <1>15, <1>23, <1>24, <1>25, <2>1, OnlyInOrder
<1>27. ASSUME NEW x \in 1 .. c PROVE Old(b)[x] = s[InOrder(L)[x]].line
  <2>1. Old(b)[x] = b[r[x]].line
    BY <1>20
  <2>2. b[r[x]] = Mark("both", s[q[r[x]]].line)
    BY <1>13, <1>22 DEF m
  <2>3. InOrder(L)[x] = q[r[x]]
    BY <1>26 DEF f
  <2> QED BY <2>1, <2>2, <2>3 DEF Mark
<1>28. FitsAt(s, K, k, lo, hi, L, p)
  <2>1. b[n].mark = "new" /\ b[n].line = s[k].line
    BY <1>2, <1>14
  <2>2. Len(b) = c + 1 /\ Len(Old(b)) = c
    BY <1>10, <1>15, <1>17 DEF m
  <2> QED BY <1>4, <1>6, <1>10, <1>11, <1>12, <1>27, <2>1, <2>2 DEF FitsAt, b, c
<1> QED BY <1>6, <1>28 DEF p

\* The line numbers of its header.
LEMMA HeaderOf ==
  ASSUME NEW s \in Seq(Marked), OnlyNewIn(s), NEW K, NEW k, Turn(s, K, k),
         NEW lo \in Nat, NEW hi \in Nat, IsHunk(Hunk(s, k), s, k, lo, hi),
         NEW p, p = PatchFor(s, k)
  PROVE  /\ p.old <= 1 => lo = 1
         /\ p.new \in Nat
         /\ (\A i \in lo .. k - 1 : s[i].mark = "both") => p.new = lo
<1> DEFINE N == Len(s)
           H == Hunk(s, k)
           en == Earlier(s, H, k, "new")
           eo == Earlier(s, H, k, "old")
<1>1. N \in Nat /\ DOMAIN s = 1 .. N
  BY ScriptFacts
<1>2. k \in 1 .. N /\ k \in Nat
  BY <1>1 DEF Turn
<1>3. H = lo .. hi /\ lo \in 1 .. k /\ hi \in k .. N
  BY DEF IsHunk
<1>4. lo = 1 \/ (s[lo - 1].mark = "both" /\ s[lo].mark = "both")
  BY DEF IsHunk
<1>5. p.old = OldStart(s, H) /\ p.new = NewStart(s, H) + Cardinality(en) - Cardinality(eo)
  BY DEF PatchFor
<1> HIDE DEF H, N
<1>6. lo \in H /\ k \in H /\ \A j \in H : lo <= j
  <2>1. lo \in lo .. hi /\ k \in lo .. hi /\ \A j \in lo .. hi : lo <= j
    BY <1>1, <1>2, <1>3
  <2> QED BY <1>3, <2>1
<1>7. \A i \in 1 .. N : (\A j \in H : i < j) <=> i < lo
  BY <1>1, <1>3, <1>6
<1>8. ASSUME p.old <= 1, lo # 1 PROVE FALSE
  <2> DEFINE before == {i \in DOMAIN s : s[i].mark \in {"both", "old"} /\ \A j \in H : i < j}
             inside == {i \in H : s[i].mark \in {"both", "old"}}
  <2>1. p.old = Cardinality(before) + IF inside = {} THEN 0 ELSE 1
    BY <1>5 DEF OldStart, Start
  <2>2. inside # {}
    BY <1>4, <1>6, <1>8
  <2>3. lo - 1 \in 1 .. N /\ lo - 1 < lo
    BY <1>1, <1>2, <1>3, <1>8
  <2>4. lo - 1 \in before
    BY <1>1, <1>4, <1>7, <1>8, <2>3
  <2>5. before \in SUBSET (1 .. N)
    BY <1>1
  <2> HIDE DEF before, inside
  <2>6. IsFiniteSet(before) /\ Cardinality(before) \in Nat
    BY <1>1, <2>5, Positions
  <2>7. Cardinality(before) # 0
    BY <2>4, <2>6, FS_EmptySet
  <2> QED BY <1>8, <2>1, <2>2, <2>6, <2>7
<1>9. NewStart(s, H) = lo
  <2> DEFINE before == {i \in DOMAIN s : s[i].mark \in {"both", "new"} /\ \A j \in H : i < j}
             inside == {i \in H : s[i].mark \in {"both", "new"}}
  <2>0. \A i \in 1 .. N : s[i].mark \in {"both", "new"}
    <3>1. NoneDeleted(s)
      BY OnlyNewFacts
    <3> QED BY <3>1, ScriptFacts DEF NoneDeleted, N
  <2>1. NewStart(s, H) = Cardinality(before) + IF inside = {} THEN 0 ELSE 1
    BY DEF NewStart, Start
  <2>2. inside # {}
    BY <1>2, <1>6, <2>0
  <2>3. before = 1 .. lo - 1
    <3>1. ASSUME NEW i \in 1 .. N PROVE i \in before <=> i < lo
      BY <1>1, <1>7, <2>0
    <3>2. before \in SUBSET (1 .. N)
      BY <1>1
    <3> HIDE DEF before
    <3>3. \A i \in 1 .. lo - 1 : i \in 1 .. N /\ i < lo
      BY <1>1, <1>2, <1>3
    <3>4. \A i \in 1 .. N : i < lo => i \in 1 .. lo - 1
      BY <1>1
    <3> QED BY <3>1, <3>2, <3>3, <3>4
  <2> HIDE DEF before, inside
  <2>4. lo - 1 \in Nat
    BY <1>3
  <2>5. Cardinality(1 .. lo - 1) = lo - 1
    BY <2>4, Interval
  <2> QED BY <2>1, <2>2, <2>3, <2>4, <2>5
<1>10. eo = {} /\ Cardinality(eo) = 0
  <2>1. eo = {}
    <3>1. NoneDeleted(s)
      BY OnlyNewFacts
    <3>2. \A i \in H : s[i].mark # "old"
      <4>1. \A i \in H : i \in 1 .. N
        <5>1. \A i \in lo .. hi : i \in 1 .. N
          BY <1>1, <1>2, <1>3
        <5> QED BY <1>3, <5>1
      <4> QED BY <3>1, <4>1 DEF NoneDeleted, N
    <3> QED BY <3>2 DEF Earlier
  <2> QED BY <2>1, FS_EmptySet
<1>11. Cardinality(en) \in Nat
  <2>1. en \in SUBSET (1 .. N)
    <3>1. \A i \in lo .. hi : i \in 1 .. N
      BY <1>1, <1>2, <1>3
    <3> QED BY <1>3, <3>1 DEF Earlier
  <2> HIDE DEF en
  <2> QED BY <1>1, <2>1, Positions
<1>12. ASSUME \A i \in lo .. k - 1 : s[i].mark = "both" PROVE Cardinality(en) = 0
  <2>1. ASSUME NEW i \in en PROVE FALSE
    <3>1. i \in lo .. hi /\ i < k /\ s[i].mark = "new"
      BY <1>3 DEF Earlier
    <3>2. i \in lo .. k - 1
      BY <1>2, <3>1
    <3> QED BY <1>12, <3>1, <3>2
  <2>2. en = {}
    BY <2>1
  <2> QED BY <2>2, FS_EmptySet
<1> HIDE DEF en, eo
<1>13. p.new = lo + Cardinality(en)
  BY <1>5, <1>9, <1>10, <1>11
<1>14. (\A i \in lo .. k - 1 : s[i].mark = "both") => p.new = lo
  BY <1>12, <1>13
<1>15. p.new \in Nat
  BY <1>11, <1>13
<1> QED BY <1>8, <1>14, <1>15

\* It matches where its hunk is.
LEMMA MatchesThere ==
  ASSUME NEW s \in Seq(Marked), OnlyNewIn(s), NEW K, NEW k, Turn(s, K, k),
         NEW lo \in Nat, NEW hi \in Nat, NEW L, FitsAt(s, K, k, lo, hi, L, PatchFor(s, k)),
         NEW file, file = New(Part(s, K))
  PROVE  lo - 1 \in Matches(PatchFor(s, k), file)
<1> DEFINE N == Len(s)
           p == PatchFor(s, k)
           pre == Old(p.body)
           c == Cardinality(L)
           M == Cardinality(K)
<1>1. N \in Nat /\ k \in 1 .. N /\ K \in SUBSET (1 .. N) /\ k \in Nat
  BY ScriptFacts DEF Turn
<1>2. IsHunk(Hunk(s, k), s, k, lo, hi) /\ L = K \cap (lo .. hi)
  BY DEF FitsAt
<1>3. lo \in 1 .. k /\ hi \in k .. N /\ (hi = N \/ s[hi].mark = "both")
  BY <1>2 DEF IsHunk
<1>4. lo \in Nat \ {0} /\ \A j \in 1 .. lo - 1 : j \in K
  <2>1. lo \in Nat \ {0} /\ \A j \in 1 .. lo - 1 : j \in 1 .. k - 1
    BY <1>1, <1>3
  <2> QED BY <2>1 DEF Turn
<1>5. /\ c \in Nat /\ lo - 1 + c <= M
      /\ hi = N => lo - 1 + c = M
      /\ \A x \in 1 .. c : InOrder(K)[lo - 1 + x] = InOrder(L)[x]
  <2>1. IsStretch(L, N, K, lo, hi)
    BY <1>1, <1>2, <1>4, Stretch
  <2> HIDE DEF N
  <2> QED BY <2>1 DEF IsStretch
<1>6. /\ file \in Seq(Lines) /\ Len(file) = M
      /\ \A x \in 1 .. M : file[x] = s[InOrder(K)[x]].line
  BY <1>1, OnlyNewFacts, PartLines
<1>7. /\ p \in Patch /\ ChangesLine(p, k - lo + 1) /\ Len(p.body) = c + 1
      /\ Len(pre) = c /\ \A x \in 1 .. c : pre[x] = s[InOrder(L)[x]].line
  BY DEF FitsAt
<1>8. pre \in Seq(Lines)
  BY <1>7, PreLen
<1>9. M \in Nat
  BY <1>1, Positions
<1> HIDE DEF p, pre, c, M, N
<1>10. SubSeq(file, lo - 1 + 1, lo - 1 + c) = pre
  <2>1. PICK y : y = lo - 1 + 1
    OBVIOUS
  <2>2. PICK z : z = lo - 1 + c
    OBVIOUS
  <2>3. /\ y \in Int /\ z \in Int /\ z - y + 1 = c
        /\ (IF y <= z THEN z - y + 1 ELSE 0) = c
        /\ \A i \in y .. z : i \in 1 .. M
    BY <1>4, <1>5, <1>9, <2>1, <2>2
  <2>4. PICK u : u = SubSeq(file, y, z)
    OBVIOUS
  <2>5. /\ u \in Seq(Lines) /\ Len(u) = c
        /\ \A i \in 1 .. c : u[i] = file[y + i - 1]
    <3>1. \A i \in 1 .. M : file[i] \in Lines
      BY <1>6
    <3>2. \A i \in y .. z : file[i] \in Lines
      BY <2>3, <3>1
    <3>3. /\ SubSeq(file, y, z) \in Seq(Lines)
          /\ Len(SubSeq(file, y, z)) = IF y <= z THEN z - y + 1 ELSE 0
          /\ \A i \in 1 .. z - y + 1 : SubSeq(file, y, z)[i] = file[y + i - 1]
      BY <2>3, <3>2, SubSeqProperties
    <3> QED BY <2>3, <2>4, <3>3
  <2>6. ASSUME NEW i \in 1 .. c PROVE u[i] = pre[i]
    <3>1. y + i - 1 = lo - 1 + i /\ lo - 1 + i \in 1 .. M
      BY <1>4, <1>5, <1>9, <2>1
    <3>2. u[i] = file[lo - 1 + i]
      BY <2>5, <3>1
    <3>3. file[lo - 1 + i] = s[InOrder(K)[lo - 1 + i]].line
      BY <1>6, <3>1
    <3>4. pre[i] = s[InOrder(L)[i]].line /\ InOrder(K)[lo - 1 + i] = InOrder(L)[i]
      BY <1>5, <1>7
    <3> QED BY <3>2, <3>3, <3>4
  <2>7. u = pre
    BY <1>7, <1>8, <2>5, <2>6, SeqEqual
  <2> QED BY <2>1, <2>2, <2>4, <2>7
<1>11. lo - 1 \in 0 .. Len(file) - Len(pre)
  BY <1>4, <1>5, <1>6, <1>7, <1>9
<1>12. p.old <= 1 => lo - 1 = 0
  <2>1. p.old <= 1 => lo = 1
    BY <1>2, HeaderOf DEF p
  <2> QED BY <2>1
\* What comes at the end of its hunk without context comes at the end of the file.
<1>13. p.body[Len(p.body)].mark # "both" => lo - 1 = Len(file) - Len(pre)
  <2> SUFFICES ASSUME p.body[Len(p.body)].mark # "both" PROVE lo - 1 = M - c
    BY <1>6, <1>7
  <2>1. Len(p.body) = k - lo + 1
    <3>1. Len(p.body) \in 1 .. Len(p.body)
      BY <1>5, <1>7
    <3> QED BY <1>7, <3>1 DEF ChangesLine
  <2>2. c = k - lo
    BY <1>1, <1>3, <1>5, <1>7, <2>1
  <2>3. hi = N
    <3> SUFFICES ASSUME hi # N PROVE FALSE
      OBVIOUS
    <3>1. s[hi].mark = "both" /\ s[k].mark = "new" /\ hi \in 1 .. N
      BY <1>1, <1>3 DEF Turn
    <3>2. hi \in K /\ k < hi
      BY <1>1, <1>3, <3>1 DEF Turn, N
    <3>3. hi \in L
      <4>1. hi \in lo .. hi
        BY <1>1, <1>3, <3>1, <3>2
      <4> QED BY <1>2, <3>2, <4>1
    \* L has c lines, and so many are lo .. k - 1; hi is one more.
    <3>4. L \in SUBSET (1 .. N)
      BY <1>1, <1>2
    <3>5. (lo .. k - 1) \cup {hi} \in SUBSET L
      <4>1. \A j \in lo .. k - 1 : j \in 1 .. k - 1 /\ j \in lo .. hi
        BY <1>1, <1>3
      <4>2. \A j \in lo .. k - 1 : j \in K
        BY <4>1 DEF Turn
      <4> QED BY <1>2, <3>3, <4>1, <4>2
    <3>6. IsFiniteSet(lo .. k - 1) /\ Cardinality(lo .. k - 1) = k - lo
      <4>1. lo \in Int /\ k - 1 \in Int
        BY <1>1
      <4>2. /\ IsFiniteSet(lo .. k - 1)
            /\ Cardinality(lo .. k - 1) = IF lo > k - 1 THEN 0 ELSE k - 1 - lo + 1
        BY <4>1, FS_Interval
      <4> QED BY <1>1, <1>3, <4>2
    <3>7. hi \notin lo .. k - 1
      BY <1>1, <3>2
    <3>8. Cardinality((lo .. k - 1) \cup {hi}) = k - lo + 1
      BY <3>6, <3>7, FS_AddElement
    <3>9. Cardinality((lo .. k - 1) \cup {hi}) <= c
      <4>1. IsFiniteSet(L)
        BY <1>1, <3>4, Positions
      <4> QED BY <3>5, <4>1, FS_Subset DEF c
    <3> QED BY <1>1, <1>3, <2>2, <3>8, <3>9
  <2> QED BY <1>4, <1>5, <2>3
<1>14. SubSeq(file, lo - 1 + 1, lo - 1 + Len(pre)) = pre
  BY <1>7, <1>10
<1>15. lo - 1 \in {n \in 0 .. Len(file) - Len(pre) :
                    /\ SubSeq(file, n + 1, n + Len(pre)) = pre
                    /\ p.old <= 1 => n = 0
                    /\ p.body[Len(p.body)].mark # "both" => n = Len(file) - Len(pre)}
  BY <1>11, <1>12, <1>13, <1>14
<1> QED BY <1>15, Zenon DEF Matches, p, pre

\* If its hunk has an earlier annotation, it matches nowhere else.
LEMMA OnlyThere ==
  ASSUME NEW s \in Seq(Marked), OnlyNewIn(s), NEW K, NEW k, Turn(s, K, k),
         NEW lo \in Nat, NEW hi \in Nat, NEW L, FitsAt(s, K, k, lo, hi, L, PatchFor(s, k)),
         NEW file, file = New(Part(s, K)),
         NEW j \in lo .. k - 1, s[j].mark # "both",
         NEW n \in Matches(PatchFor(s, k), file)
  PROVE  n = lo - 1
<1> DEFINE N == Len(s)
           pre == Old(PatchFor(s, k).body)
           c == Cardinality(L)
           M == Cardinality(K)
<1>1. N \in Nat /\ k \in 1 .. N /\ K \in SUBSET (1 .. N) /\ k \in Nat
  BY ScriptFacts DEF Turn
<1>2. IsHunk(Hunk(s, k), s, k, lo, hi) /\ L = K \cap (lo .. hi)
  BY DEF FitsAt
<1>3. lo \in 1 .. k /\ hi \in k .. N
  BY <1>2 DEF IsHunk
<1>4. lo \in Nat \ {0} /\ \A i \in 1 .. lo - 1 : i \in K
  <2>1. lo \in Nat \ {0} /\ \A i \in 1 .. lo - 1 : i \in 1 .. k - 1
    BY <1>1, <1>3
  <2> QED BY <2>1 DEF Turn
<1>5. /\ L \in SUBSET (1 .. N) /\ c \in Nat /\ lo - 1 + c <= M
      /\ \A x \in 1 .. c : InOrder(K)[lo - 1 + x] = InOrder(L)[x]
  <2>1. IsStretch(L, N, K, lo, hi)
    BY <1>1, <1>2, <1>4, Stretch
  <2> HIDE DEF N
  <2> QED BY <2>1 DEF IsStretch
<1>6. /\ Len(file) = M
      /\ \A x \in 1 .. M : file[x] = s[InOrder(K)[x]].line
  BY <1>1, OnlyNewFacts, PartLines
<1>7. Len(pre) = c /\ \A x \in 1 .. c : pre[x] = s[InOrder(L)[x]].line
  BY DEF FitsAt
<1>8. M \in Nat
  BY <1>1, Positions
<1>9. n \in 0 .. Len(file) - Len(pre) /\ SubSeq(file, n + 1, n + Len(pre)) = pre
  BY DEF Matches
<1>10. j \in L
  <2>1. j \in 1 .. k - 1 /\ j \in lo .. hi
    BY <1>1, <1>3
  <2>2. j \in K
    BY <2>1 DEF Turn
  <2> QED BY <1>2, <2>1, <2>2
<1>11. PICK x \in 1 .. c : InOrder(L)[x] = j
  BY <1>1, <1>5, <1>10, ListOf
<1> HIDE DEF pre, c, M, N
<1>12. n \in Nat /\ n + x \in 1 .. M /\ lo - 1 + x \in 1 .. M
  BY <1>4, <1>5, <1>6, <1>7, <1>8, <1>9
<1>13. file[n + x] = pre[x]
  <2>1. PICK y : y = n + 1
    OBVIOUS
  <2>2. PICK z : z = n + c
    OBVIOUS
  <2>3. y \in Int /\ z \in Int /\ z - y + 1 = c /\ y + x - 1 = n + x
    BY <1>5, <1>9, <1>12, <2>1, <2>2
  <2>4. \A i \in y .. z : file[i] \in {file[v] : v \in y .. z}
    OBVIOUS
  <2>5. \A i \in 1 .. z - y + 1 : SubSeq(file, y, z)[i] = file[y + i - 1]
    BY <2>3, <2>4, SubSeqProperties
  <2>6. SubSeq(file, y, z)[x] = file[n + x]
    BY <2>3, <2>5
  <2>7. SubSeq(file, y, z) = pre
    BY <1>7, <1>9, <2>1, <2>2
  <2> QED BY <2>6, <2>7
<1>14. InOrder(K)[n + x] \in 1 .. N /\ j \in 1 .. N
  BY <1>1, <1>5, <1>10, <1>12, MemberAt DEF M
<1>15. s[InOrder(K)[n + x]].line = s[j].line
  <2>1. pre[x] = s[j].line
    BY <1>7, <1>11
  <2>2. file[n + x] = s[InOrder(K)[n + x]].line
    BY <1>6, <1>12
  <2> QED BY <1>13, <2>1, <2>2
<1>16. InOrder(K)[n + x] = j
  <2>1. \A i \in 1 .. N : i # j => s[i].line # s[j].line
    BY <1>14, OnlyNewFacts DEF N
  <2> QED BY <1>14, <1>15, <2>1
<1>17. InOrder(K)[lo - 1 + x] = j
  BY <1>5, <1>11
<1>18. n + x = Cardinality(Upto(K, j)) /\ lo - 1 + x = Cardinality(Upto(K, j))
  BY <1>1, <1>12, <1>16, <1>17, CountedTo DEF M
<1> QED BY <1>11, <1>12, <1>18, <1>5, <1>4

LEMMA PlaceThere ==
  ASSUME NEW s \in Seq(Marked), OnlyNewIn(s), NEW K, NEW k, Turn(s, K, k),
         NEW lo \in Nat, NEW hi \in Nat, NEW L, FitsAt(s, K, k, lo, hi, L, PatchFor(s, k)),
         NEW file, file = New(Part(s, K))
  PROVE  Applies(PatchFor(s, k), file) /\ Place(PatchFor(s, k), file) = lo - 1
<1> DEFINE p == PatchFor(s, k)
           n == Place(p, file)
<1>1. p \in Patch /\ IsHunk(Hunk(s, k), s, k, lo, hi)
  BY DEF FitsAt
<1>2. lo \in Nat \ {0}
  BY <1>1 DEF IsHunk
<1>3. lo - 1 \in Matches(p, file)
  BY MatchesThere
<1>4. p.new \in Nat /\ ((\A i \in lo .. k - 1 : s[i].mark = "both") => p.new = lo)
  BY <1>1, HeaderOf
<1>5. Applies(p, file)
  BY <1>3, <1>4 DEF Applies
<1>6. file \in Seq(Lines)
  <2>1. K \in SUBSET (1 .. Len(s))
    BY DEF Turn
  <2> QED BY <2>1, OnlyNewFacts, PartLines
<1>7. /\ Matches(p, file) \in SUBSET Nat /\ n \in Matches(p, file)
      /\ \A m \in Matches(p, file) : Distance(n, There(p)) <= Distance(m, There(p))
  BY <1>1, <1>3, <1>6, PlaceOK
<1>8. CASE \A i \in lo .. k - 1 : s[i].mark = "both"
  <2>1. There(p) = lo - 1
    BY <1>2, <1>4, <1>8 DEF There
  <2>2. Distance(lo - 1, lo - 1) = 0
    BY <1>2 DEF Distance
  <2>3. n \in Nat /\ Distance(n, lo - 1) <= 0
    BY <1>3, <1>7, <2>1, <2>2
  <2> HIDE DEF n
  <2>4. n = lo - 1
    BY <1>2, <2>3 DEF Distance
  <2> QED BY <1>5, <2>4 DEF n
<1>9. CASE ~ \A i \in lo .. k - 1 : s[i].mark = "both"
  <2>1. PICK j \in lo .. k - 1 : s[j].mark # "both"
    BY <1>9
  <2>2. n = lo - 1
    BY <1>7, <2>1, OnlyThere
  <2> QED BY <1>5, <2>2
<1> QED BY <1>8, <1>9

\* Applied, it adds the annotation where it was.
LEMMA PutsBack ==
  ASSUME NEW s \in Seq(Marked), OnlyNewIn(s), NEW K, NEW k, Turn(s, K, k)
  PROVE  /\ Applies(PatchFor(s, k), New(Part(s, K)))
         /\ AppliedTo(PatchFor(s, k), Part(s, K)) = Part(s, K \cup {k})
<1> DEFINE N == Len(s)
           p == PatchFor(s, k)
           t == Part(s, K)
           M == Cardinality(K)
<1>1. N \in Nat /\ k \in 1 .. N /\ K \in SUBSET (1 .. N) /\ k \in Nat /\ k \notin K
      /\ s[k].mark = "new" /\ \A j \in 1 .. k - 1 : j \in K
  BY ScriptFacts DEF Turn
<1>2. PICK lo \in Nat, hi \in Nat : FitsAt(s, K, k, lo, hi, K \cap (lo .. hi), p)
  BY PatchFits
<1>3. PICK L : L = K \cap (lo .. hi)
  OBVIOUS
<1>4. Applies(p, New(t)) /\ Place(p, New(t)) = lo - 1
  BY <1>2, PlaceThere
<1>5. /\ p \in Patch /\ ChangesLine(p, k - lo + 1)
      /\ p.body[k - lo + 1].mark = "new" /\ p.body[k - lo + 1].line = s[k].line
  BY <1>2 DEF FitsAt
<1>6. AppliedTo(p, t) = Added(t, k - 1, s[k].line)
  <2>1. PICK x : x = k - lo + 1
    OBVIOUS
  <2>2. AppliedTo(p, t) = IF p.body[x].mark = "new"
                          THEN Added(t, Place(p, New(t)) + x - 1, p.body[x].line)
                          ELSE Deleted(t, Place(p, New(t)) + x - 1 + 1)
    BY <1>5, <2>1, AppliedAs
  <2>3. lo - 1 + x - 1 = k - 1
    BY <1>1, <2>1
  <2> HIDE DEF p, t
  <2> QED BY <1>4, <1>5, <2>1, <2>2, <2>3
<1>7. PICK P : P = K \cup {k}
  OBVIOUS
<1>8. /\ P \in SUBSET (1 .. N) /\ Cardinality(P) = M + 1 /\ M \in Nat /\ k - 1 <= M
      /\ \A x \in 1 .. k - 1 : InOrder(P)[x] = x /\ InOrder(K)[x] = x
      /\ InOrder(P)[k] = k
      /\ \A x \in k .. M : InOrder(P)[x + 1] = InOrder(K)[x]
  <2> HIDE DEF N
  <2>1. HasOneMore(P, N, K, k)
    BY <1>1, <1>7, OneMore
  <2> QED BY <2>1 DEF HasOneMore
<1>9. NoneDeleted(s)
  BY OnlyNewFacts
<1>10. /\ t \in Seq(Marked) /\ Len(t) = M
       /\ \A x \in 1 .. M : t[x] = s[InOrder(K)[x]]
       /\ \A x \in 1 .. M : InOrder(NewLines(t))[x] = x
  BY <1>1, <1>9, PartOK, PartLines
<1>11. /\ Part(s, P) \in Seq(Marked) /\ Len(Part(s, P)) = M + 1
       /\ \A x \in 1 .. M + 1 : Part(s, P)[x] = s[InOrder(P)[x]]
  BY <1>8, PartOK
<1>12. NoneDeleted(Part(s, P))
  BY <1>8, <1>9, PartNone
<1> HIDE DEF N, M, p, t
<1> DEFINE i == k - 1
           v == InsertAt(t, i + 1, s[k])
<1>13. Added(t, k - 1, s[k].line) = Shown(v)
  <2>1. (IF k - 1 = 0 THEN 0 ELSE InOrder(NewLines(t))[k - 1]) = i
    <3>1. k - 1 # 0 => k - 1 \in 1 .. M
      BY <1>1, <1>8
    <3> QED BY <1>10, <3>1
  <2>2. Mark("new", s[k].line) = s[k]
    BY <1>1, ScriptFacts DEF N
  <2>3. Added(t, k - 1, s[k].line)
          = Shown(InsertAt(t, (IF k - 1 = 0 THEN 0 ELSE InOrder(NewLines(t))[k - 1]) + 1,
                           Mark("new", s[k].line)))
    BY Zenon DEF Added
  <2> QED BY <2>1, <2>2, <2>3, Zenon
<1>14. i \in 0 .. Len(t) /\ s[k] \in Marked /\ i + 1 = k
  <2>1. s[k] \in Marked
    BY <1>1, ScriptFacts DEF N
  <2> QED BY <1>1, <1>8, <1>10, <2>1
<1> HIDE DEF i
<1>15. /\ v \in Seq(Marked) /\ Len(v) = Len(t) + 1
       /\ \A x \in 1 .. i : v[x] = t[x]
       /\ v[i + 1] = s[k]
       /\ \A x \in i + 1 .. Len(t) : v[x + 1] = t[x]
  <2>1. HasInserted(v, t, i, s[k])
    BY <1>10, <1>14, InsertAtOK
  <2> HIDE DEF v
  <2> QED BY <2>1 DEF HasInserted
<1> HIDE DEF v
<1>16. ASSUME NEW x \in 1 .. M + 1 PROVE v[x] = Part(s, P)[x]
  <2>1. CASE x < k
    <3>1. x \in 1 .. k - 1 /\ x \in 1 .. i /\ x \in 1 .. M
      BY <1>1, <1>8, <1>14, <2>1 DEF i
    <3>2. v[x] = t[x] /\ t[x] = s[InOrder(K)[x]]
      BY <1>10, <1>15, <3>1
    <3>3. InOrder(K)[x] = InOrder(P)[x]
      BY <1>8, <3>1
    <3> QED BY <1>11, <3>2, <3>3
  <2>2. CASE x = k
    BY <1>8, <1>11, <1>14, <1>15, <2>2
  <2>3. CASE k < x
    <3>1. PICK y : y = x - 1
      OBVIOUS
    <3>2. y \in k .. M /\ y \in i + 1 .. Len(t) /\ y \in 1 .. M /\ y + 1 = x
      BY <1>1, <1>8, <1>10, <1>14, <2>3, <3>1
    <3>3. v[y + 1] = t[y] /\ t[y] = s[InOrder(K)[y]]
      BY <1>10, <1>15, <3>2
    <3>4. InOrder(P)[y + 1] = InOrder(K)[y]
      BY <1>8, <3>2
    <3> QED BY <1>11, <3>2, <3>3, <3>4
  <2> QED BY <1>1, <1>8, <2>1, <2>2, <2>3
<1>17. v = Part(s, P)
  <2>1. Len(v) = Len(Part(s, P)) /\ Len(v) = M + 1
    BY <1>10, <1>11, <1>15
  <2> QED BY <1>11, <1>15, <1>16, <2>1, SeqEqual
<1>18. Shown(v) = v
  BY <1>11, <1>12, <1>17, ShownSame
<1> QED BY <1>4, <1>6, <1>7, <1>13, <1>17, <1>18 DEF p, t

-----------------------------------------------------------------------------
(* What HEAD has of a script with new annotations only, and what is there when  *)
(* all are back.                                                                *)

LEMMA NoneBack ==
  ASSUME NEW s \in Seq(Marked), OnlyNewIn(s)
  PROVE  Unchanged(Old(s)) = Part(s, PutBack(s, 0))
<1> DEFINE N == Len(s)
           K == PutBack(s, 0)
           m == Cardinality(K)
           q == InOrder(K)
           u == Unchanged(Old(s))
<1>1. N \in Nat /\ DOMAIN s = 1 .. N
  BY ScriptFacts
<1>2. \A i \in 1 .. N : s[i].mark # "both" => s[i].mark = "new"
  BY OnlyNewFacts
<1>3. K = {i \in 1 .. N : s[i].mark = "both"}
  BY DEF PutBack
<1>4. OldLines(s) = K
  BY <1>1, <1>2, <1>3 DEF OldLines
<1>5. K \in SUBSET (1 .. N)
  BY <1>3
<1>6. /\ Old(s) = LinesAt(s, K) /\ LinesAt(s, K) \in Seq(Lines) /\ m \in Nat
      /\ Len(LinesAt(s, K)) = m /\ LinesAt(s, K) = [n \in 1 .. m |-> s[q[n]].line]
  <2>1. Old(s) = LinesAt(s, K)
    BY <1>4 DEF Old
  <2> HIDE DEF K
  <2> QED BY <1>5, <2>1, LinesAtOK
<1>7. /\ u \in Seq(Marked) /\ Len(u) = m
      /\ \A n \in 1 .. m : u[n] = Mark("both", s[q[n]].line)
  <2> HIDE DEF K, m, q
  <2>1. PICK file : file = Old(s)
    OBVIOUS
  <2>2. file \in Seq(Lines) /\ Len(file) = m /\ \A n \in 1 .. m : file[n] = s[q[n]].line
    BY <1>6, <2>1
  <2>3. /\ Unchanged(file) \in Seq(Marked) /\ Len(Unchanged(file)) = Len(file)
        /\ \A n \in 1 .. Len(file) : Unchanged(file)[n] = Mark("both", file[n])
    BY <2>2, UnchangedOK
  <2>4. u = Unchanged(file)
    BY <2>1
  <2> HIDE DEF u
  <2> QED BY <2>2, <2>3, <2>4
<1>8. /\ Part(s, K) \in Seq(Marked) /\ Len(Part(s, K)) = m
      /\ \A n \in 1 .. m : Part(s, K)[n] = s[q[n]]
  <2> HIDE DEF K
  <2> QED BY <1>5, PartOK
<1>9. ASSUME NEW n \in 1 .. m PROVE u[n] = Part(s, K)[n]
  <2>1. q[n] \in K
    <3> HIDE DEF K
    <3> QED BY <1>1, <1>5, MemberAt
  <2> HIDE DEF u, q, m
  <2>2. q[n] \in 1 .. N /\ s[q[n]].mark = "both"
    BY <1>3, <2>1
  <2>3. Mark("both", s[q[n]].line) = s[q[n]]
    BY <2>2, ScriptFacts
  <2> QED BY <1>7, <1>8, <2>3
<1> HIDE DEF u, K, m
<1>10. u = Part(s, K)
  BY <1>6, <1>7, <1>8, <1>9, SeqEqual
<1> QED BY <1>10 DEF u, K

LEMMA AllBack ==
  ASSUME NEW s \in Seq(Marked), OnlyNewIn(s), NEW n, n = Cardinality(PfLines(s))
  PROVE  Part(s, PutBack(s, n)) = s
<1> DEFINE N == Len(s)
           K == PutBack(s, n)
           A == PfLines(s)
           P == Part(s, K)
<1>1. N \in Nat
  BY ScriptFacts
<1>2. A \in SUBSET (1 .. N) /\ \A i \in 1 .. N : i \in A <=> s[i].mark # "both"
  BY OnlyNewFacts
<1>3. \A i \in A : \E j \in 1 .. n : InOrder(A)[j] = i
  <2> HIDE DEF A, N
  <2>1. \A i \in A : \E j \in 1 .. Cardinality(A) : InOrder(A)[j] = i
    BY <1>1, <1>2, ListOf
  <2> QED BY <2>1 DEF A
<1>4. K = {i \in 1 .. N : s[i].mark = "both" \/ \E j \in 1 .. n : InOrder(A)[j] = i}
  BY DEF PutBack
<1> HIDE DEF A, K, N
<1>5. K = 1 .. N
  BY <1>2, <1>3, <1>4
<1>6. Cardinality(K) = N /\ K \in SUBSET (1 .. N)
  BY <1>1, <1>5, Interval
<1>7. P \in Seq(Marked) /\ Len(P) = N /\ \A x \in 1 .. N : P[x] = s[InOrder(K)[x]]
  BY <1>6, PartOK DEF N
<1>8. ASSUME NEW x \in 1 .. N PROVE InOrder(K)[x] = x
  <2>1. x \in Nat \ {0} /\ \A j \in 1 .. x : j \in K
    BY <1>1, <1>5
  <2> QED BY <1>1, <1>6, <2>1, FirstOnes
<1> HIDE DEF P
<1>9. P = s
  BY <1>7, <1>8, SeqEqual DEF N
<1> QED BY <1>9 DEF P, K

-----------------------------------------------------------------------------
(* The invariant: while no patch is accepted, the file has what is back so far. *)

\* The patches are those of the saved script; outside, HEAD's file is in the tree,
\* and in the entry what the patches tried so far have put back.
Fresh ==
  /\ stage # "body" => patches = Split(Parsed(saved))
  /\ stage \notin {"entry", "failed"} => applied = 0 /\ refused = {}
  /\ OnlyNew => stage # "failed"
  /\ stage = "body" => accepted = {}
  /\ stage = "outside" /\ accepted = {} => script = Unchanged(Old(saved))
  /\ stage = "entry" /\ OnlyNew /\ accepted = {} =>
       refused = {} /\ script = Part(saved, PutBack(saved, applied))

LEMMA TypeFacts ==
  ASSUME TypeInv
  PROVE  /\ script \in Seq(Marked) /\ saved \in Seq(Marked)
         /\ patches \in Seq(Patch) /\ Len(patches) \in Nat /\ DOMAIN patches = 1 .. Len(patches)
         /\ stage \in {"body", "entry", "outside", "failed"} /\ (stage = "body" => patches = <<>>)
         /\ applied \in 0 .. Len(patches) /\ refused \subseteq 1 .. applied
         /\ accepted \subseteq DOMAIN patches
  BY LenProperties DEF TypeInv, TypeOK, Stored, Marked

LEMMA OnlyNewSaved == OnlyNew <=> OnlyNewIn(saved)
  BY DEF OnlyNew, OnlyNewIn

LEMMA FreshInit == Init => Fresh
<1> SUFFICES ASSUME Init PROVE Fresh
  OBVIOUS
<1>1. stage = "body" /\ applied = 0 /\ refused = {} /\ accepted = {}
  BY DEF Init
<1> QED BY <1>1 DEF Fresh

\* One patch more is applied, and puts its annotation back.
LEMMA NextBack ==
  ASSUME NEW s \in Seq(Marked), OnlyNewIn(s), NEW n \in Nat, n + 1 <= Cardinality(PfLines(s)),
         NEW K, K = PutBack(s, n), NEW p, p = Split(s)[n + 1]
  PROVE  /\ Applies(p, New(Part(s, K)))
         /\ AppliedTo(p, Part(s, K)) = Part(s, PutBack(s, n + 1))
<1> DEFINE m == Cardinality(PfLines(s))
<1>1. PICK k : k = InOrder(PfLines(s))[n + 1]
  OBVIOUS
<1>2. p = PatchFor(s, k)
  <2>1. m \in Nat /\ \A x \in 1 .. m : Split(s)[x] = PatchFor(s, InOrder(PfLines(s))[x])
    BY SplitOK
  <2>2. n + 1 \in 1 .. m
    BY <2>1
  <2> HIDE DEF m
  <2> QED BY <1>1, <2>1, <2>2
<1>3. Turn(s, K, k) /\ PutBack(s, n + 1) = K \cup {k}
  BY <1>1, PutBackStep
<1>4. /\ Applies(PatchFor(s, k), New(Part(s, K)))
      /\ AppliedTo(PatchFor(s, k), Part(s, K)) = Part(s, K \cup {k})
  BY <1>3, PutsBack
<1> QED BY <1>2, <1>3, <1>4

\* Its line number is none that cannot be parsed.
LEMMA NextParses ==
  ASSUME NEW s \in Seq(Marked), OnlyNewIn(s), NEW n \in Nat, n + 1 <= Cardinality(PfLines(s)),
         NEW p, p = Split(s)[n + 1]
  PROVE  p.new \in Nat
<1> DEFINE m == Cardinality(PfLines(s))
<1>1. PICK k : k = InOrder(PfLines(s))[n + 1]
  OBVIOUS
<1>2. p = PatchFor(s, k) /\ k \in 1 .. Len(s) /\ IsPf(s, k)
  <2>1. /\ m \in Nat
        /\ \A x \in 1 .. m : /\ InOrder(PfLines(s))[x] \in 1 .. Len(s)
                             /\ IsPf(s, InOrder(PfLines(s))[x])
                             /\ Split(s)[x] = PatchFor(s, InOrder(PfLines(s))[x])
    BY SplitOK
  <2>2. n + 1 \in 1 .. m
    BY <2>1
  <2> HIDE DEF m
  <2> QED BY <1>1, <2>1, <2>2
<1>3. PICK K : K = PutBack(s, n)
  OBVIOUS
<1>4. Turn(s, K, k)
  BY <1>1, <1>3, PutBackStep
<1>5. k \in Changed(s)
  BY <1>2, KeptIn
<1>6. PICK lo \in Nat, hi \in Nat : IsHunk(Hunk(s, k), s, k, lo, hi)
  BY <1>5, HunkAs
<1> QED BY <1>2, <1>4, <1>6, HeaderOf

LEMMA FreshApply ==
  ASSUME TypeInv, Fresh, Apply, OnlyNew, accepted = {}
  PROVE  refused' = {} /\ script' = Part(saved, PutBack(saved, applied'))
<1>1. /\ stage = "entry" /\ applied < Len(patches) /\ applied' = applied + 1
      /\ IF Applies(patches[applied'], New(script))
         THEN script' = AppliedTo(patches[applied'], script) /\ UNCHANGED refused
         ELSE refused' = refused \cup {applied'} /\ UNCHANGED script
  BY DEF Apply
<1>3. saved \in Seq(Marked) /\ OnlyNewIn(saved) /\ applied \in Nat
  BY TypeFacts, OnlyNewSaved
<1>2. /\ patches = Split(saved) /\ refused = {}
      /\ script = Part(saved, PutBack(saved, applied))
  BY <1>1, <1>3, SplitParsed DEF Fresh
<1>4. PICK n, K, p : n = applied /\ K = PutBack(saved, applied) /\ p = Split(saved)[applied + 1]
  OBVIOUS
<1>5. n \in Nat /\ n + 1 <= Cardinality(PfLines(saved))
  <2>1. Len(patches) = Cardinality(PfLines(saved)) /\ Len(patches) \in Nat
    BY <1>2, <1>3, SplitOK
  <2> QED BY <1>1, <1>3, <1>4, <2>1
<1>6. K = PutBack(saved, n) /\ p = Split(saved)[n + 1]
  BY <1>4
<1>7. /\ Applies(p, New(Part(saved, K)))
      /\ AppliedTo(p, Part(saved, K)) = Part(saved, PutBack(saved, n + 1))
  BY <1>3, <1>5, <1>6, NextBack
<1>8. patches[applied'] = p /\ script = Part(saved, K) /\ applied' = n + 1
  BY <1>1, <1>2, <1>4
<1>9. script' = AppliedTo(p, script) /\ refused' = refused
  BY <1>1, <1>7, <1>8
<1> QED BY <1>2, <1>7, <1>8, <1>9

LEMMA FreshStep == TypeInv /\ Fresh /\ [Next]_vars => Fresh'
<1> SUFFICES ASSUME TypeInv, Fresh, [Next]_vars PROVE Fresh'
  OBVIOUS
<1>1. OnlyNew' <=> OnlyNewIn(saved')
  BY DEF OnlyNew, OnlyNewIn
<1>2. CASE AgentEdits
  <2>1. stage = "body" /\ UNCHANGED <<stage, applied, refused, accepted>>
    BY <1>2 DEF AgentEdits
  <2>2. applied = 0 /\ refused = {} /\ accepted = {}
    BY <2>1 DEF Fresh
  <2> QED BY <2>1, <2>2 DEF Fresh
<1>3. CASE Save
  <2>1. /\ stage = "body" /\ stage' = "outside"
        /\ patches' = Split(Parsed(script)) /\ saved' = script /\ script' = Unchanged(Old(script))
        /\ UNCHANGED <<applied, refused, accepted>>
    BY <1>3 DEF Save
  <2>2. applied' = 0 /\ refused' = {}
    BY <2>1 DEF Fresh
  <2> QED BY <2>1, <2>2 DEF Fresh
<1>4. CASE UserAccepts
  <2>1. PICK n \in DOMAIN patches \ accepted : accepted' = accepted \cup {n}
    BY <1>4 DEF UserAccepts
  <2>2. stage = "outside" /\ UNCHANGED <<stage, patches, saved, applied, refused>>
    BY <1>4 DEF UserAccepts
  <2>3. accepted' # {}
    BY <2>1
  <2>4. patches' = Split(Parsed(saved')) /\ applied' = 0 /\ refused' = {}
    BY <2>2 DEF Fresh
  <2> QED BY <2>2, <2>3, <2>4 DEF Fresh
<1>5. CASE Enter
  <2>1. /\ stage = "outside" /\ stage' = "entry"
        /\ UNCHANGED <<script, patches, saved, applied, refused, accepted>>
    BY <1>5 DEF Enter
  <2>2. /\ patches' = Split(Parsed(saved')) /\ applied' = 0 /\ refused' = {}
        /\ accepted' = {} => script' = Unchanged(Old(saved))
    BY <2>1 DEF Fresh
  <2>3. ASSUME OnlyNew', accepted' = {} PROVE script' = Part(saved', PutBack(saved', applied'))
    <3>1. OnlyNewIn(saved) /\ saved \in Seq(Marked)
      BY <1>1, <2>1, <2>3, TypeFacts
    <3>2. script' = Part(saved, PutBack(saved, 0))
      BY <2>2, <2>3, <3>1, NoneBack
    <3> QED BY <2>1, <2>2, <3>2
  <2> QED BY <2>1, <2>2, <2>3 DEF Fresh
<1>6. CASE Apply
  <2>1. stage = "entry" /\ UNCHANGED <<stage, patches, saved, accepted>>
    BY <1>6 DEF Apply
  <2>2. patches' = Split(Parsed(saved'))
    BY <2>1 DEF Fresh
  <2>3. ASSUME OnlyNew', accepted' = {}
        PROVE  refused' = {} /\ script' = Part(saved', PutBack(saved', applied'))
    <3>1. OnlyNew /\ accepted = {}
      BY <1>1, <2>1, <2>3, OnlyNewSaved
    <3>2. refused' = {} /\ script' = Part(saved, PutBack(saved, applied'))
      BY <1>6, <3>1, FreshApply
    <3> QED BY <2>1, <3>2
  <2> QED BY <2>1, <2>2, <2>3 DEF Fresh
<1>7. CASE Begin
  <2>1. stage' = "body" /\ applied' = 0 /\ refused' = {} /\ accepted' = {}
    BY <1>7 DEF Begin
  <2> QED BY <2>1 DEF Fresh
<1>8. CASE ParseFails
  <2>1. /\ stage = "entry" /\ stage' = "failed" /\ applied < Len(patches)
        /\ patches[applied + 1].new < 0 /\ UNCHANGED <<patches, saved, accepted>>
    BY <1>8 DEF ParseFails
  <2>2. patches' = Split(Parsed(saved'))
    BY <2>1 DEF Fresh
  <2>3. ASSUME OnlyNew' PROVE FALSE
    <3>1. OnlyNewIn(saved) /\ saved \in Seq(Marked) /\ applied \in Nat
      BY <1>1, <2>1, <2>3, TypeFacts
    <3>2. patches = Split(saved)
      BY <2>1, <3>1, SplitParsed DEF Fresh
    <3>3. PICK n, p : n = applied /\ p = Split(saved)[applied + 1]
      OBVIOUS
    <3>4. n \in Nat /\ n + 1 <= Cardinality(PfLines(saved)) /\ p = Split(saved)[n + 1]
      <4>1. Len(patches) = Cardinality(PfLines(saved)) /\ Len(patches) \in Nat
        BY <3>1, <3>2, SplitOK
      <4> QED BY <2>1, <3>1, <3>3, <4>1
    <3>5. p.new \in Nat
      BY <3>1, <3>4, NextParses
    <3>6. PICK z : z = p.new
      OBVIOUS
    <3>7. z \in Nat /\ z < 0
      BY <2>1, <3>2, <3>3, <3>5, <3>6
    <3> QED BY <3>7
  <2> QED BY <2>1, <2>2, <2>3 DEF Fresh
<1>9. CASE UNCHANGED vars
  <2>1. UNCHANGED <<script, stage, patches, saved, applied, refused, accepted>>
    BY <1>9 DEF vars
  <2>2. OnlyNew' <=> OnlyNew
    BY <1>1, <2>1, OnlyNewSaved
  <2> QED BY <2>1, <2>2 DEF Fresh
<1> QED BY <1>2, <1>3, <1>4, <1>5, <1>6, <1>7, <1>8, <1>9 DEF Next

LEMMA FreshReturns == TypeInv /\ Fresh => NewAnnotationsReturn
<1> SUFFICES ASSUME TypeInv, Fresh, stage = "entry", OnlyNew, accepted = {}
             PROVE  refused = {} /\ (applied = Len(patches) => New(script) = New(saved))
  BY DEF NewAnnotationsReturn, Fresh
<1>1. saved \in Seq(Marked) /\ OnlyNewIn(saved)
  BY TypeFacts, OnlyNewSaved
<1>2. /\ patches = Split(saved) /\ refused = {}
      /\ script = Part(saved, PutBack(saved, applied))
  BY <1>1, SplitParsed DEF Fresh
<1>3. Len(patches) = Cardinality(PfLines(saved))
  BY <1>1, <1>2, SplitOK
<1>4. ASSUME applied = Len(patches) PROVE script = saved
  BY <1>1, <1>2, <1>3, <1>4, AllBack
<1> QED BY <1>2, <1>4

\* The patches of a file to which the agent only added annotations, each a new line, in
\* hunks whose lines splitlines and "\n".join leave as they are, never fail an entry, and
\* unless the user has accepted one meanwhile are all applied again by the next context,
\* and the file is then the one that the agent left: whatever the other lines are, however
\* many of them are equal, and whichever hunks the annotations share.
THEOREM AnnotationsReturn == Spec => []NewAnnotationsReturn
<1>1. Init => TypeInv /\ Fresh
  BY TypeInvInit, FreshInit
<1>2. TypeInv /\ Fresh /\ [Next]_vars => TypeInv' /\ Fresh'
  BY TypeInvStep, FreshStep
<1>3. TypeInv /\ Fresh => NewAnnotationsReturn
  BY FreshReturns
<1> QED BY <1>1, <1>2, <1>3, PTL DEF Spec

-----------------------------------------------------------------------------
(* What the file shows of the tree's diff. *)

\* The lines of t at J are those of s at K, in the same order, where f takes them.
IsMove(f, t, J, s, K) ==
  /\ \A j \in J : f[j] \in K /\ t[j].line = s[f[j]].line
  /\ \A i, j \in J : i < j => f[i] < f[j]
  /\ \A i \in K : \E j \in J : f[j] = i

\* They are then the same lines.
Moved(f, t, J, s, K) ==
  /\ LinesAt(t, J) = LinesAt(s, K) /\ Cardinality(J) = Cardinality(K)
  /\ \A n \in 1 .. Cardinality(J) : InOrder(K)[n] = f[InOrder(J)[n]]

LEMMA MovedSo ==
  ASSUME NEW s, NEW t, NEW K, NEW J, NEW N \in Nat, NEW M \in Nat,
         K \in SUBSET (1 .. N), J \in SUBSET (1 .. M), NEW f, IsMove(f, t, J, s, K)
  PROVE  Moved(f, t, J, s, K)
<1> DEFINE m == Cardinality(J)
           q == InOrder(J)
           g == [n \in 1 .. m |-> f[q[n]]]
<1>1. /\ m \in Nat /\ q \in [1 .. m -> J]
      /\ \A x, y \in 1 .. m : x < y => q[x] < q[y]
      /\ \A i \in J : \E n \in 1 .. m : q[n] = i
  BY ListOf
<1> HIDE DEF m, q
<1>2. /\ \A j \in J : f[j] \in K /\ t[j].line = s[f[j]].line
      /\ \A i, j \in J : i < j => f[i] < f[j]
      /\ \A i \in K : \E j \in J : f[j] = i
  BY DEF IsMove
<1>3. g \in [1 .. m -> K]
  BY <1>1, <1>2
<1>4. \A x, y \in 1 .. m : x < y => g[x] < g[y]
  BY <1>1, <1>2
<1>5. ASSUME NEW i \in K PROVE \E n \in 1 .. m : g[n] = i
  <2>1. PICK j \in J : f[j] = i
    BY <1>2
  <2>2. PICK n \in 1 .. m : q[n] = j
    BY <1>1
  <2> QED BY <2>1, <2>2
<1>6. \A n \in 1 .. m : g[n] = f[q[n]]
  OBVIOUS
<1>7. g = [n \in 1 .. m |-> g[n]]
  OBVIOUS
<1> HIDE DEF g
<1>8. K \in SUBSET Int
  OBVIOUS
<1>9. Cardinality(K) = m /\ InOrder(K) = g
  BY <1>1, <1>3, <1>4, <1>5, <1>8, OnlyInOrder
<1>10. LinesAt(s, K) = [n \in 1 .. m |-> s[g[n]].line]
  BY <1>9 DEF LinesAt
<1>11. LinesAt(t, J) = [n \in 1 .. m |-> t[q[n]].line]
  BY DEF LinesAt, m, q
<1>12. \A n \in 1 .. m : s[g[n]].line = t[q[n]].line
  BY <1>1, <1>2, <1>6
<1>13. LinesAt(t, J) = LinesAt(s, K)
  BY <1>10, <1>11, <1>12
<1> QED BY <1>6, <1>9, <1>13 DEF Moved, m, q

-----------------------------------------------------------------------------
(* What git shows has the lines of the tree. *)

\* Sorting a hunk and pairing its lines do not change what the file has.
LEMMA KeysOfNew ==
  ASSUME NEW s \in Seq(Marked), NEW i \in 1 .. Len(s), NEW j \in 1 .. Len(s), i < j,
         s[i].mark # "old", s[j].mark # "old"
  PROVE  KeyIn(s)[i] < KeyIn(s)[j]
<1> DEFINE a == Cardinality(Spaces(s, i))
           b == Cardinality(Spaces(s, j))
<1>0. Len(s) \in Nat
  BY ScriptFacts
<1>1. i \in Nat /\ j \in Nat
  BY <1>0
<1>2. a <= b /\ (s[j].mark = "both" => a < b)
  BY <1>1, SpacesGrow
<1>3. /\ s[i].mark \in {"both", "new"} /\ s[j].mark \in {"both", "new"}
  BY ScriptFacts
<1>4. /\ a \in Nat /\ b \in Nat /\ RankIn(s, i) \in Nat /\ RankIn(s, j) \in Nat
      /\ s[i].mark = "both" => RankIn(s, i) = 3 * a
      /\ s[i].mark = "new" => RankIn(s, i) = 3 * a + 2
      /\ s[j].mark = "both" => RankIn(s, j) = 3 * b
      /\ s[j].mark = "new" => RankIn(s, j) = 3 * b + 2
  BY RankFacts
<1> HIDE DEF a, b
<1>5. RankIn(s, i) <= RankIn(s, j)
  BY <1>2, <1>3, <1>4
<1>6. RankIn(s, i) < RankIn(s, j) \/ RankIn(s, i) = RankIn(s, j)
  BY <1>4, <1>5
<1> QED BY <1>6, KeyOrder

LEMMA ReorderedNew ==
  ASSUME NEW s \in Seq(Marked)
  PROVE  New(Reordered(s)) = New(s)
<1> DEFINE N == Len(s)
           order == Arranged(1 .. N, KeyIn(s))
           t == Reordered(s)
           J == NewLines(t)
           K == NewLines(s)
<1>1. N \in Nat /\ DOMAIN s = 1 .. N
  BY ScriptFacts
<1>2. IsList(order, N, 1 .. N, KeyIn(s))
  <2>1. IsFiniteSet(1 .. N) /\ Cardinality(1 .. N) = N
    BY <1>1, Interval
  <2>2. /\ KeyIn(s) \in [1 .. N -> Int]
        /\ \A i, j \in 1 .. N : KeyIn(s)[i] = KeyIn(s)[j] => i = j
    BY KeysDiffer
  <2> QED BY <2>1, <2>2, ArrangedIsList
<1>3. t = [n \in 1 .. N |-> s[order[n]]]
  BY <1>1, ReorderedAs
<1>4. K = {i \in 1 .. N : s[i].mark # "old"} /\ J = {i \in 1 .. N : t[i].mark # "old"}
  BY <1>1, <1>3 DEF NewLines
<1> HIDE DEF order, t, K, J
<1>5. /\ order \in [1 .. N -> 1 .. N] /\ KeyIn(s) \in [1 .. N -> Int]
      /\ \A m, n \in 1 .. N : m < n => KeyIn(s)[order[m]] < KeyIn(s)[order[n]]
      /\ \A i \in 1 .. N : \E n \in 1 .. N : order[n] = i
  BY <1>2 DEF IsList
<1>6. ASSUME NEW n \in 1 .. N PROVE order[n] \in 1 .. N /\ t[n] = s[order[n]] /\ (n \in J <=> order[n] \in K)
  BY <1>3, <1>4, <1>5
<1>7. ASSUME NEW m \in J, NEW n \in J, m < n PROVE order[m] < order[n]
  <2>1. m \in 1 .. N /\ n \in 1 .. N
    BY <1>4
  <2> DEFINE a == order[m]
             b == order[n]
  <2>2. a \in 1 .. N /\ b \in 1 .. N /\ s[a].mark # "old" /\ s[b].mark # "old"
    BY <1>4, <1>6, <2>1
  <2>3. KeyIn(s)[a] < KeyIn(s)[b]
    BY <1>5, <1>7, <2>1
  <2> HIDE DEF a, b
  <2>4. KeyIn(s)[a] \in Int /\ KeyIn(s)[b] \in Int
    BY <1>5, <2>2
  <2>5. a # b
    BY <2>3, <2>4
  <2>6. ~ (b < a)
    <3> SUFFICES ASSUME b < a PROVE FALSE
      OBVIOUS
    <3>1. KeyIn(s)[b] < KeyIn(s)[a]
      BY <2>2, KeysOfNew
    <3> QED BY <2>3, <2>4, <3>1
  <2>7. a < b
    BY <1>1, <2>2, <2>5, <2>6
  <2> QED BY <2>7 DEF a, b
<1>8. \A i \in K : \E n \in J : order[n] = i
  BY <1>4, <1>5, <1>6
<1>9. IsMove(order, t, J, s, K)
  <2>1. \A n \in J : order[n] \in K /\ t[n].line = s[order[n]].line
    BY <1>4, <1>6
  <2> QED BY <1>7, <1>8, <2>1 DEF IsMove
<1>10. Moved(order, t, J, s, K)
  <2>1. K \in SUBSET (1 .. N) /\ J \in SUBSET (1 .. N)
    BY <1>4
  <2> QED BY <1>1, <1>9, <2>1, MovedSo
<1> QED BY <1>10 DEF Moved, New, J, K, t

LEMMA PairedNew ==
  ASSUME NEW s \in Seq(Marked), Ordered(s), Pairs(s) # {}
  PROVE  New(Paired(s)) = New(s)
<1> DEFINE N == Len(s)
           t == Paired(s)
           J == NewLines(t)
           K == NewLines(s)
<1>1. N \in Nat /\ DOMAIN s = 1 .. N
  BY ScriptFacts
<1>2. PICK a \in Nat, d \in Nat, b \in Nat : IsPair(s, a, d, b) /\ t = Without(s, a, d, b)
  BY PairedAs
<1>3. PICK e : e = a + b - d - 2
  OBVIOUS
<1>4. LinesWithout(t, s, a, d, b, e)
  BY <1>2, <1>3, WithoutLines
<1> HIDE DEF t
<1>5. /\ t \in Seq(Marked) /\ Len(t) = N - 1
      /\ \A i \in 1 .. a - 1 : t[i] = s[i]
      /\ \A i \in a .. e : t[i] = s[i + d + 1 - a]
      /\ t[e + 1] = Mark("both", s[a].line)
      /\ \A i \in e + 2 .. b - 1 : t[i] = s[i + a - e - 1]
      /\ \A i \in b .. N - 1 : t[i] = s[i + 1]
  BY <1>4 DEF LinesWithout
<1>6. /\ a \in 1 .. N /\ b \in 1 .. N /\ d \in a .. b - 1
      /\ s[a].line = s[b].line
      /\ \A i \in a .. d : s[i].mark = "old"
      /\ \A i \in d + 1 .. b : s[i].mark = "new"
  BY <1>2 DEF IsPair
<1>7. DOMAIN t = 1 .. N - 1
  BY <1>5, ScriptFacts
<1>8. K = {i \in 1 .. N : s[i].mark # "old"} /\ J = {i \in 1 .. N - 1 : t[i].mark # "old"}
  BY <1>1, <1>7 DEF NewLines
<1> DEFINE F(i) == IF i < a THEN i ELSE IF i <= e THEN i + d + 1 - a
                   ELSE IF i = e + 1 THEN b ELSE i + 1
           f == [i \in 1 .. N - 1 |-> F(i)]
<1> HIDE DEF J, K, N
<1>9. ASSUME NEW i \in J PROVE F(i) \in K /\ t[i].line = s[F(i)].line /\ (i <= e + 1 \/ b <= i)
  <2>1. i \in 1 .. N - 1 /\ t[i].mark # "old"
    BY <1>8
  <2>2. CASE i < a
    <3>1. i \in 1 .. a - 1 /\ F(i) = i /\ i \in 1 .. N
      BY <1>1, <1>6, <2>1, <2>2
    <3>2. i <= e + 1
      BY <1>3, <1>6, <2>1, <2>2
    <3> QED BY <1>5, <1>8, <2>1, <3>1, <3>2
  <2>3. CASE a <= i /\ i <= e
    <3>1. i \in a .. e /\ F(i) = i + d + 1 - a /\ F(i) \in 1 .. N
      BY <1>1, <1>3, <1>6, <2>1, <2>3
    <3>2. t[i] = s[F(i)]
      BY <1>5, <3>1
    <3>3. i <= e + 1
      BY <1>3, <1>6, <2>1, <2>3
    <3> QED BY <1>8, <2>1, <3>1, <3>2, <3>3
  <2>4. CASE i = e + 1
    <3>1. F(i) = b /\ b \in 1 .. N /\ b \in d + 1 .. b
      BY <1>1, <1>3, <1>6, <2>1, <2>4
    <3>2. s[b].mark = "new" /\ t[i].line = s[a].line
      BY <1>5, <1>6, <2>4, <3>1 DEF Mark
    <3>3. i <= e + 1
      BY <1>3, <1>6, <2>4
    <3> QED BY <1>6, <1>8, <3>1, <3>2, <3>3
  <2>5. CASE i > e + 1 /\ i < b
    <3>1. i \in e + 2 .. b - 1 /\ i + a - e - 1 \in a .. d
      BY <1>3, <1>6, <2>1, <2>5
    <3>2. t[i].mark = "old"
      BY <1>5, <1>6, <3>1
    <3> QED BY <2>1, <3>2
  <2>6. CASE b <= i
    <3>1. i \in b .. N - 1 /\ F(i) = i + 1 /\ i + 1 \in 1 .. N
      BY <1>1, <1>3, <1>6, <2>1, <2>6
    <3>2. t[i] = s[i + 1]
      BY <1>5, <3>1
    <3> QED BY <1>8, <2>1, <2>6, <3>1, <3>2
  <2> QED BY <1>1, <1>3, <1>6, <2>1, <2>2, <2>3, <2>4, <2>5, <2>6
<1>10. ASSUME NEW i \in J, NEW j \in J, i < j PROVE F(i) < F(j)
  <2>1. i \in 1 .. N - 1 /\ j \in 1 .. N - 1 /\ (i <= e + 1 \/ b <= i) /\ (j <= e + 1 \/ b <= j)
    BY <1>8, <1>9
  <2> QED BY <1>1, <1>3, <1>6, <1>10, <2>1
<1>11. ASSUME NEW i \in K PROVE \E j \in J : F(j) = i
  <2>1. i \in 1 .. N /\ s[i].mark # "old"
    BY <1>8
  <2>2. ~ (i \in a .. d)
    BY <1>6, <2>1
  <2>3. CASE i < a
    <3>1. i \in 1 .. a - 1 /\ i \in 1 .. N - 1 /\ F(i) = i
      BY <1>1, <1>6, <2>1, <2>3
    <3> QED BY <1>5, <1>8, <2>1, <3>1
  <2>4. CASE d < i /\ i < b
    <3>1. PICK j : j = i + a - d - 1
      OBVIOUS
    <3>2. j \in a .. e /\ j + d + 1 - a = i /\ j \in 1 .. N - 1 /\ F(j) = i
      BY <1>1, <1>3, <1>6, <2>1, <2>4, <3>1
    <3> QED BY <1>5, <1>8, <2>1, <3>2
  <2>5. CASE i = b
    <3>1. e + 1 \in 1 .. N - 1 /\ F(e + 1) = b
      BY <1>1, <1>3, <1>6
    <3>2. t[e + 1].mark = "both"
      BY <1>5 DEF Mark
    <3> QED BY <1>8, <2>5, <3>1, <3>2
  <2>6. CASE b < i
    <3>1. PICK j : j = i - 1
      OBVIOUS
    <3>2. j \in b .. N - 1 /\ j + 1 = i /\ j \in 1 .. N - 1 /\ F(j) = i
      BY <1>1, <1>3, <1>6, <2>1, <2>6, <3>1
    <3> QED BY <1>5, <1>8, <2>1, <3>2
  <2> QED BY <1>1, <1>6, <2>1, <2>2, <2>3, <2>4, <2>5, <2>6
<1>12. \A i \in J : f[i] = F(i)
  BY <1>8
<1> HIDE DEF F, f
<1>13. IsMove(f, t, J, s, K)
  BY <1>9, <1>10, <1>11, <1>12 DEF IsMove
<1>14. Moved(f, t, J, s, K)
  <2>1. K \in SUBSET (1 .. N) /\ J \in SUBSET (1 .. N)
    BY <1>1, <1>8
  <2> QED BY <1>1, <1>13, <2>1, MovedSo
<1> QED BY <1>14 DEF Moved, New, J, K, t

\* What git shows of a file has the lines of the file.
LEMMA ShownNew ==
  ASSUME NEW s \in Seq(Marked)
  PROVE  New(Shown(s)) = New(s)
<1> DEFINE N == Len(s)
<1>1. N \in Nat
  BY ScriptFacts
<1>2. PICK f : IsShowing(s, f) /\ Shown(s) = f[N]
  BY ShownAs
<1> DEFINE OK(n) == f[n] \in Seq(Marked) /\ Ordered(f[n]) /\ New(f[n]) = New(s)
           T == {n \in Nat : n <= N => OK(n)}
<1>3. 0 \in T
  <2>1. f[0] = Reordered(s)
    BY <1>1, <1>2 DEF IsShowing
  <2> QED BY <2>1, ReorderedOK, ReorderedNew
<1>4. ASSUME NEW n \in Nat, n \in T PROVE n + 1 \in T
  <2> SUFFICES ASSUME n + 1 <= N PROVE OK(n + 1)
    OBVIOUS
  <2>1. OK(n)
    BY <1>1, <1>4
  <2>2. f[n + 1] = NextShown(f[n])
    <3>1. n + 1 \in 0 .. N /\ n + 1 # 0 /\ n + 1 - 1 = n
      BY <1>1
    <3> QED BY <3>1, <1>2 DEF IsShowing
  <2>3. CASE Pairs(f[n]) = {}
    BY <2>1, <2>2, <2>3 DEF NextShown
  <2>4. CASE Pairs(f[n]) # {}
    BY <2>1, <2>2, <2>4, PairedOK, PairedNew DEF NextShown
  <2> QED BY <2>3, <2>4
<1>5. N \in T
  <2> HIDE DEF T, N
  <2> QED BY <1>1, <1>3, <1>4, ByInduction
<1> QED BY <1>1, <1>2, <1>5

-----------------------------------------------------------------------------
(* A line more in a file, and a line less. *)

\* v is u with the line l after its first t lines.
GainsLine(v, u, t, l) ==
  /\ Len(v) = Len(u) + 1
  /\ \A j \in 1 .. t : v[j] = u[j]
  /\ v[t + 1] = l
  /\ \A j \in t + 1 .. Len(u) : v[j + 1] = u[j]

\* Of the positions P, t are before k and the others after it.
Cut(P, k, t) ==
  /\ t \in 0 .. Cardinality(P)
  /\ \A n \in 1 .. t : InOrder(P)[n] < k
  /\ \A n \in t + 1 .. Cardinality(P) : k < InOrder(P)[n]

\* There is only one such file.
LEMMA GainSame ==
  ASSUME NEW u \in Seq(Lines), NEW v \in Seq(Lines), NEW w \in Seq(Lines),
         NEW t \in 0 .. Len(u), NEW l, GainsLine(v, u, t, l), GainsLine(w, u, t, l)
  PROVE  v = w
<1>1. Len(u) \in Nat /\ Len(v) = Len(u) + 1 /\ Len(w) = Len(u) + 1
  BY LenProperties DEF GainsLine
<1>2. ASSUME NEW i \in 1 .. Len(u) + 1 PROVE v[i] = w[i]
  <2>1. CASE i <= t
    <3>1. i \in 1 .. t
      BY <1>1, <2>1
    <3> QED BY <3>1 DEF GainsLine
  <2>2. CASE i = t + 1
    BY <2>2 DEF GainsLine
  <2>3. CASE t + 1 < i
    <3>1. PICK j : j = i - 1
      OBVIOUS
    <3>2. j \in t + 1 .. Len(u) /\ j + 1 = i
      BY <1>1, <2>3, <3>1
    <3>3. v[j + 1] = u[j] /\ w[j + 1] = u[j]
      BY <3>2 DEF GainsLine
    <3> QED BY <3>2, <3>3
  <2> QED BY <1>1, <2>1, <2>2, <2>3
<1> QED BY <1>1, <1>2, SeqEqual

LEMMA LossSame ==
  ASSUME NEW u \in Seq(Lines), NEW v \in Seq(Lines), NEW w \in Seq(Lines),
         NEW t \in Nat, t < Len(u), NEW l, NEW m, GainsLine(u, v, t, l), GainsLine(u, w, t, m)
  PROVE  v = w
<1>1. /\ Len(u) \in Nat /\ Len(v) \in Nat /\ Len(w) \in Nat
      /\ Len(u) = Len(v) + 1 /\ Len(u) = Len(w) + 1
  BY LenProperties DEF GainsLine
<1>2. ASSUME NEW i \in 1 .. Len(v) PROVE v[i] = w[i]
  <2>1. CASE i <= t
    <3>1. i \in 1 .. t
      BY <1>1, <2>1
    <3> QED BY <3>1 DEF GainsLine
  <2>2. CASE t < i
    <3>1. i \in t + 1 .. Len(v) /\ i \in t + 1 .. Len(w)
      BY <1>1, <2>2
    <3>2. u[i + 1] = v[i] /\ u[i + 1] = w[i]
      BY <3>1 DEF GainsLine
    <3> QED BY <3>2
  <2> QED BY <1>1, <2>1, <2>2
<1>3. Len(v) = Len(w)
  BY <1>1
<1> QED BY <1>2, <1>3, SeqEqual

\* The order of the positions when k comes to them.
IsCutOrder(Q, P, k, t) ==
  /\ Cardinality(P) \in Nat /\ Cardinality(Q) = Cardinality(P) + 1
  /\ InOrder(Q) = [n \in 1 .. Cardinality(P) + 1 |->
       IF n <= t THEN InOrder(P)[n] ELSE IF n = t + 1 THEN k ELSE InOrder(P)[n - 1]]

\* k comes right after those t positions, and all others keep their order.
LEMMA CutOrder ==
  ASSUME NEW N \in Nat, NEW P \in SUBSET (1 .. N), NEW k \in 1 .. N, k \notin P,
         NEW t, Cut(P, k, t), NEW Q, Q = P \cup {k}
  PROVE  IsCutOrder(Q, P, k, t)
<1> DEFINE m == Cardinality(P)
           q == InOrder(P)
           g == [n \in 1 .. m + 1 |-> IF n <= t THEN q[n] ELSE IF n = t + 1 THEN k ELSE q[n - 1]]
<1>1. /\ m \in Nat /\ q \in [1 .. m -> P]
      /\ \A x, y \in 1 .. m : x < y => q[x] < q[y]
      /\ \A i \in P : \E n \in 1 .. m : q[n] = i
  BY ListOf
<1>2. /\ t \in 0 .. m
      /\ \A n \in 1 .. t : q[n] < k
      /\ \A n \in t + 1 .. m : k < q[n]
  BY DEF Cut
<1> HIDE DEF m, q
<1>3. ASSUME NEW n \in 1 .. m + 1
      PROVE  /\ n <= t => n \in 1 .. m /\ n \in 1 .. t /\ g[n] = q[n] /\ g[n] < k
             /\ n = t + 1 => g[n] = k
             /\ n > t + 1 => n - 1 \in 1 .. m /\ n - 1 \in t + 1 .. m /\ g[n] = q[n - 1] /\ k < g[n]
  <2>1. CASE n <= t
    <3>1. n \in 1 .. m /\ n \in 1 .. t
      BY <1>1, <1>2, <2>1
    <3> QED BY <1>1, <1>2, <2>1, <3>1
  <2>2. CASE n = t + 1
    BY <1>1, <1>2, <2>2
  <2>3. CASE n > t + 1
    <3>1. n - 1 \in 1 .. m /\ n - 1 \in t + 1 .. m /\ ~ (n <= t) /\ n # t + 1
      BY <1>1, <1>2, <2>3
    <3> QED BY <1>1, <1>2, <2>3, <3>1
  <2> QED BY <1>1, <1>2, <2>1, <2>2, <2>3
<1>4. \A n \in 1 .. m + 1 : n <= t \/ n = t + 1 \/ n > t + 1
  BY <1>1, <1>2
<1>5. g = [n \in 1 .. m + 1 |-> g[n]]
  OBVIOUS
<1>6. \A n \in 1 .. m : q[n] \in 1 .. N /\ q[n] \in P
  BY <1>1
<1> HIDE DEF g
<1>7. \A n \in 1 .. m + 1 : g[n] \in Q
  BY <1>3, <1>4, <1>6
<1>8. g \in [1 .. m + 1 -> Q]
  BY <1>5, <1>7
<1>9. ASSUME NEW x \in 1 .. m + 1, NEW y \in 1 .. m + 1, x < y PROVE g[x] < g[y]
  <2>0. g[x] \in Int /\ g[y] \in Int /\ k \in Int /\ x \in Int /\ y \in Int
    <3>1. \A i \in Q : i \in Int
      OBVIOUS
    <3>2. g[x] \in Q /\ g[y] \in Q
      BY <1>7
    <3>3. g[x] \in Int /\ g[y] \in Int
      BY <3>1, <3>2, Zenon
    <3>4. k \in Int /\ x \in Int /\ y \in Int
      OBVIOUS
    <3> QED BY <3>3, <3>4
  <2>1. CASE y <= t
    <3>1. x <= t
      BY <1>2, <1>9, <2>1
    <3>2. x \in 1 .. m /\ y \in 1 .. m /\ g[x] = q[x] /\ g[y] = q[y]
      BY <1>3, <2>1, <3>1
    <3> QED BY <1>1, <1>9, <3>2
  <2>2. CASE x <= t /\ t < y
    <3>1. g[x] < k
      BY <1>3, <2>2
    <3>2. k <= g[y]
      BY <1>3, <1>4, <1>2, <2>0, <2>2
    <3> QED BY <2>0, <3>1, <3>2
  <2>3. CASE x = t + 1
    <3>1. y > t + 1
      BY <1>2, <1>9, <2>3
    <3> QED BY <1>3, <2>3, <3>1
  <2>4. CASE x > t + 1
    <3>1. y > t + 1
      BY <1>2, <1>9, <2>4
    <3>2. x - 1 \in 1 .. m /\ y - 1 \in 1 .. m /\ g[x] = q[x - 1] /\ g[y] = q[y - 1]
      BY <1>3, <2>4, <3>1
    <3>3. x - 1 < y - 1
      BY <1>9
    <3> QED BY <1>1, <3>2, <3>3
  <2>5. y <= t \/ t < y
    BY <1>2
  <2> QED BY <1>4, <2>1, <2>2, <2>3, <2>4, <2>5
<1>10. ASSUME NEW i \in Q PROVE \E n \in 1 .. m + 1 : g[n] = i
  <2>1. CASE i = k
    <3>1. t + 1 \in 1 .. m + 1
      BY <1>1, <1>2
    <3> QED BY <1>3, <2>1, <3>1
  <2>2. CASE i # k
    <3>1. PICK n \in 1 .. m : q[n] = i
      BY <1>1, <2>2
    <3>2. CASE n <= t
      <4>1. n \in 1 .. m + 1
        BY <1>1
      <4> QED BY <1>3, <3>1, <3>2, <4>1
    <3>3. CASE t < n
      <4>1. PICK x : x = n + 1
        OBVIOUS
      <4>2. x \in 1 .. m + 1 /\ x > t + 1 /\ x - 1 = n
        BY <1>1, <1>2, <3>3, <4>1
      <4> QED BY <1>3, <3>1, <4>2
    <3> QED BY <1>2, <3>2, <3>3
  <2> QED BY <2>1, <2>2
<1>11. Q \in SUBSET Int /\ m + 1 \in Nat
  BY <1>1
<1>12. Cardinality(Q) = m + 1 /\ InOrder(Q) = g
  BY <1>8, <1>9, <1>10, <1>11, OnlyInOrder
<1> QED BY <1>1, <1>12 DEF IsCutOrder, g, m, q

\* A position more is a line more.
LEMMA GainsAt ==
  ASSUME NEW s \in Seq(Marked), NEW P \in SUBSET (1 .. Len(s)), NEW k \in 1 .. Len(s), k \notin P,
         NEW t, Cut(P, k, t), NEW Q, Q = P \cup {k}
  PROVE  GainsLine(LinesAt(s, Q), LinesAt(s, P), t, s[k].line)
<1> DEFINE m == Cardinality(P)
           q == InOrder(P)
           g == InOrder(Q)
           u == LinesAt(s, P)
           v == LinesAt(s, Q)
<1>1. Len(s) \in Nat
  BY ScriptFacts
<1>2. /\ m \in Nat /\ Cardinality(Q) = m + 1
      /\ g = [n \in 1 .. m + 1 |-> IF n <= t THEN q[n] ELSE IF n = t + 1 THEN k ELSE q[n - 1]]
  <2>1. IsCutOrder(Q, P, k, t)
    BY <1>1, CutOrder
  <2> QED BY <2>1 DEF IsCutOrder
<1>3. t \in 0 .. m
  BY DEF Cut
<1>4. Len(u) = m /\ u = [n \in 1 .. m |-> s[q[n]].line]
  BY LinesAtOK
<1>5. Len(v) = m + 1 /\ v = [n \in 1 .. m + 1 |-> s[g[n]].line]
  <2>1. Q \in SUBSET (1 .. Len(s))
    OBVIOUS
  <2> HIDE DEF m, g
  <2> QED BY <1>2, <2>1, LinesAtOK DEF g
<1> HIDE DEF m, q, g, u, v
<1>6. ASSUME NEW j \in 1 .. t PROVE v[j] = u[j]
  <2>1. j \in 1 .. m /\ j \in 1 .. m + 1 /\ j <= t
    BY <1>2, <1>3
  <2>2. g[j] = q[j]
    BY <1>2, <2>1
  <2> QED BY <1>4, <1>5, <2>1, <2>2
<1>7. v[t + 1] = s[k].line
  <2>1. t + 1 \in 1 .. m + 1 /\ ~ (t + 1 <= t)
    BY <1>2, <1>3
  <2>2. g[t + 1] = k
    BY <1>2, <2>1
  <2> QED BY <1>5, <2>1, <2>2
<1>8. ASSUME NEW j \in t + 1 .. m PROVE v[j + 1] = u[j]
  <2>1. PICK x : x = j + 1
    OBVIOUS
  <2>2. x \in 1 .. m + 1 /\ ~ (x <= t) /\ x # t + 1 /\ x - 1 = j /\ j \in 1 .. m
    BY <1>2, <1>3, <2>1
  <2>3. g[x] = q[j]
    BY <1>2, <2>2
  <2> QED BY <1>4, <1>5, <2>1, <2>2, <2>3
<1> QED BY <1>4, <1>5, <1>6, <1>7, <1>8 DEF GainsLine, u, v

\* Where a member is cut out.
IsCutOut(P, Q, N, k, x) ==
  Cut(P, k, x) /\ k \in Q /\ k \in 1 .. N /\ P \in SUBSET (1 .. N) /\ k \notin P /\ Q = P \cup {k}

\* Taking the t-th position away leaves the t - 1 before it.
LEMMA CutOut ==
  ASSUME NEW N \in Nat, NEW Q \in SUBSET (1 .. N), NEW t \in 1 .. Cardinality(Q),
         NEW k, k = InOrder(Q)[t], NEW P, P = Q \ {k}, NEW d, d = t - 1
  PROVE  IsCutOut(P, Q, N, k, d)
<1> DEFINE m == Cardinality(Q)
           q == InOrder(Q)
           g == [n \in 1 .. m - 1 |-> IF n < t THEN q[n] ELSE q[n + 1]]
<1>1. /\ m \in Nat /\ q \in [1 .. m -> Q]
      /\ \A x, y \in 1 .. m : x < y => q[x] < q[y]
      /\ \A i \in Q : \E n \in 1 .. m : q[n] = i
  BY ListOf
<1>2. t \in 1 .. m /\ k = q[t]
  OBVIOUS
<1> HIDE DEF m, q
<1>3. k \in Q /\ k \in 1 .. N /\ \A n \in 1 .. m : q[n] \in 1 .. N
  BY <1>1, <1>2
<1>4. ASSUME NEW n \in 1 .. m - 1
      PROVE  /\ n < t => n \in 1 .. m /\ g[n] = q[n] /\ g[n] < k
             /\ n >= t => n + 1 \in 1 .. m /\ g[n] = q[n + 1] /\ k < g[n]
  <2>1. CASE n < t
    BY <1>1, <1>2, <2>1
  <2>2. CASE n >= t
    <3>1. n + 1 \in 1 .. m /\ t < n + 1 /\ ~ (n < t)
      BY <1>1, <1>2, <2>2
    <3> QED BY <1>1, <1>2, <2>2, <3>1
  <2> QED BY <1>1, <1>2, <2>1, <2>2
<1>5. g = [n \in 1 .. m - 1 |-> g[n]]
  OBVIOUS
<1> HIDE DEF g
<1>6. ASSUME NEW n \in 1 .. m - 1 PROVE g[n] \in P
  <2>1. n < t \/ n >= t
    BY <1>1, <1>2
  <2>2. g[n] \in Q /\ g[n] \in Int
    BY <1>1, <1>3, <1>4, <2>1
  <2>3. g[n] # k
    BY <1>3, <1>4, <2>1, <2>2
  <2> QED BY <2>2, <2>3
<1>7. g \in [1 .. m - 1 -> P]
  BY <1>5, <1>6
<1>8. ASSUME NEW x \in 1 .. m - 1, NEW y \in 1 .. m - 1, x < y PROVE g[x] < g[y]
  <2>1. CASE x < t /\ y < t
    BY <1>1, <1>4, <1>8, <2>1
  <2>2. CASE x < t /\ y >= t
    <3>1. g[x] < k /\ k < g[y]
      BY <1>4, <2>2
    <3>2. g[x] \in Int /\ g[y] \in Int /\ k \in Int
      <4>1. \A i \in P : i \in Int
        OBVIOUS
      <4>2. g[x] \in P /\ g[y] \in P
        BY <1>6
      <4>3. g[x] \in Int /\ g[y] \in Int
        BY <4>1, <4>2, Zenon
      <4> QED BY <1>3, <4>3
    <3> QED BY <3>1, <3>2
  <2>3. CASE x >= t /\ y >= t
    <3>1. x + 1 \in 1 .. m /\ y + 1 \in 1 .. m /\ g[x] = q[x + 1] /\ g[y] = q[y + 1]
      BY <1>4, <2>3
    <3>2. x + 1 < y + 1
      BY <1>8
    <3> QED BY <1>1, <3>1, <3>2
  <2> QED BY <1>1, <1>2, <1>8, <2>1, <2>2, <2>3
<1>9. ASSUME NEW i \in P PROVE \E n \in 1 .. m - 1 : g[n] = i
  <2>1. PICK n \in 1 .. m : q[n] = i
    BY <1>1
  <2>2. n # t
    BY <1>2, <2>1
  <2>3. CASE n < t
    <3>1. n \in 1 .. m - 1
      BY <1>1, <1>2, <2>3
    <3> QED BY <1>4, <2>1, <2>3, <3>1
  <2>4. CASE t < n
    <3>1. PICK x : x = n - 1
      OBVIOUS
    <3>2. x \in 1 .. m - 1 /\ x >= t /\ x + 1 = n
      BY <1>1, <1>2, <2>4, <3>1
    <3> QED BY <1>4, <2>1, <3>2
  <2> QED BY <1>1, <1>2, <2>2, <2>3, <2>4
<1>10. m - 1 \in Nat /\ P \in SUBSET Int
  <2>1. m - 1 \in Nat
    BY <1>1, <1>2
  <2>2. \A i \in P : i \in Int
    OBVIOUS
  <2> QED BY <2>1, <2>2
<1>11. Cardinality(P) = m - 1 /\ InOrder(P) = g
  <2>1. PICK c : c = m - 1
    OBVIOUS
  <2>2. c \in Nat /\ g \in [1 .. c -> P]
        /\ (\A x, y \in 1 .. c : x < y => g[x] < g[y])
        /\ (\A i \in P : \E n \in 1 .. c : g[n] = i)
    BY <1>7, <1>8, <1>9, <1>10, <2>1
  <2>3. Cardinality(P) = c /\ InOrder(P) = g
    BY <1>10, <2>2, OnlyInOrder
  <2> QED BY <2>1, <2>3
<1>12. Cut(P, k, t - 1)
  <2>1. t - 1 \in 0 .. m - 1
    BY <1>1, <1>2
  <2>2. ASSUME NEW n \in 1 .. t - 1 PROVE g[n] < k
    <3>1. n \in 1 .. m - 1 /\ n < t
      BY <1>1, <1>2
    <3> QED BY <1>4, <3>1
  <2>3. ASSUME NEW n \in t - 1 + 1 .. m - 1 PROVE k < g[n]
    <3>1. n \in 1 .. m - 1 /\ n >= t
      BY <1>1, <1>2
    <3> QED BY <1>4, <3>1
  <2> QED BY <1>11, <2>1, <2>2, <2>3 DEF Cut
<1>13. k \notin P /\ Q = P \cup {k} /\ P \in SUBSET (1 .. N)
  BY <1>3
<1> QED BY <1>3, <1>12, <1>13 DEF IsCutOut

-----------------------------------------------------------------------------
(* Lines added to the tree and deleted from it. *)

\* The lines of the file, as a subset of those of the diff.
LEMMA NewFacts ==
  ASSUME NEW v \in Seq(Marked)
  PROVE  /\ Len(v) \in Nat /\ NewLines(v) \in SUBSET (1 .. Len(v))
         /\ \A i \in 1 .. Len(v) : i \in NewLines(v) <=> v[i].mark # "old"
         /\ Cardinality(NewLines(v)) \in Nat /\ Len(New(v)) = Cardinality(NewLines(v))
         /\ New(v) \in Seq(Lines)
<1>1. Len(v) \in Nat /\ DOMAIN v = 1 .. Len(v)
  BY ScriptFacts
<1>2. NewLines(v) \in SUBSET (1 .. Len(v)) /\ \A i \in 1 .. Len(v) : i \in NewLines(v) <=> v[i].mark # "old"
  BY <1>1 DEF NewLines
<1> QED BY <1>1, <1>2, LinesAtOK DEF New

\* After which line of the diff a line is added after t lines of the tree.
LEMMA AddedAt ==
  ASSUME NEW v \in Seq(Marked), NEW t \in 0 .. Len(New(v)),
         NEW i, i = IF t = 0 THEN 0 ELSE InOrder(NewLines(v))[t]
  PROVE  /\ i \in 0 .. Len(v)
         /\ \A n \in 1 .. t : InOrder(NewLines(v))[n] <= i
         /\ \A n \in t + 1 .. Len(New(v)) : i < InOrder(NewLines(v))[n]
<1> DEFINE K == NewLines(v)
           q == InOrder(K)
           m == Cardinality(K)
<1>1. Len(v) \in Nat /\ K \in SUBSET (1 .. Len(v)) /\ Len(New(v)) = m /\ m \in Nat
  BY NewFacts
<1> HIDE DEF K
<1>2. /\ q \in [1 .. m -> K]
      /\ \A x, y \in 1 .. m : x < y => q[x] < q[y]
  BY <1>1, ListOf
<1> HIDE DEF q, m
<1>3. \A n \in 1 .. m : q[n] \in 1 .. Len(v)
  BY <1>1, <1>2
<1>4. CASE t = 0
  <2>1. i = 0
    BY <1>4
  <2>2. \A n \in 1 .. m : 0 < q[n]
    BY <1>3
  <2> QED BY <1>1, <1>4, <2>1, <2>2 DEF q, K
<1>5. CASE t # 0
  <2>1. t \in 1 .. m /\ i = q[t]
    BY <1>1, <1>5 DEF q, K
  <2>2. i \in 1 .. Len(v)
    BY <1>3, <2>1
  <2>3. ASSUME NEW n \in 1 .. t PROVE q[n] <= i
    <3>1. n \in 1 .. m /\ (n < t \/ n = t)
      BY <1>1, <2>1
    <3>2. q[n] \in Int /\ i \in Int
      BY <1>3, <2>2, <3>1
    <3> QED BY <1>2, <2>1, <3>1, <3>2
  <2>4. ASSUME NEW n \in t + 1 .. m PROVE i < q[n]
    <3>1. n \in 1 .. m /\ t < n
      BY <2>1
    <3> QED BY <1>2, <2>1, <3>1
  <2> QED BY <1>1, <2>2, <2>3, <2>4 DEF q, K
<1> QED BY <1>4, <1>5

\* Adding a line to the tree gives the file that line, and nothing else.
LEMMA AddedGains ==
  ASSUME NEW v \in Seq(Marked), NEW t \in 0 .. Len(New(v)), NEW l \in Lines
  PROVE  GainsLine(New(Added(v, t, l)), New(v), t, l)
<1>1. PICK i : i = IF t = 0 THEN 0 ELSE InOrder(NewLines(v))[t]
  OBVIOUS
<1>2. PICK w : w = InsertAt(v, i + 1, Mark("new", l))
  OBVIOUS
<1> DEFINE N == Len(v)
           K == NewLines(v)
           q == InOrder(K)
           m == Cardinality(K)
           W == NewLines(w)
           P == W \ {i + 1}
<1>3. N \in Nat /\ K \in SUBSET (1 .. N) /\ Len(New(v)) = m /\ m \in Nat
      /\ \A j \in 1 .. N : j \in K <=> v[j].mark # "old"
  BY NewFacts
<1>4. /\ i \in 0 .. N
      /\ \A n \in 1 .. t : q[n] <= i
      /\ \A n \in t + 1 .. m : i < q[n]
  BY <1>1, <1>3, AddedAt
<1>5. /\ w \in Seq(Marked) /\ Len(w) = N + 1
      /\ \A j \in 1 .. i : w[j] = v[j]
      /\ w[i + 1] = Mark("new", l)
      /\ \A j \in i + 1 .. N : w[j + 1] = v[j]
  <2>1. Mark("new", l) \in Marked
    BY DEF Mark, Marked
  <2>2. HasInserted(w, v, i, Mark("new", l))
    BY <1>2, <1>4, <2>1, InsertAtOK
  <2> QED BY <2>2 DEF HasInserted
<1>6. W \in SUBSET (1 .. N + 1) /\ \A j \in 1 .. N + 1 : j \in W <=> w[j].mark # "old"
  BY <1>5, NewFacts
<1>7. New(Added(v, t, l)) = New(w)
  <2>1. Added(v, t, l) = Shown(w)
    BY <1>1, <1>2, Zenon DEF Added
  <2> QED BY <1>5, <2>1, ShownNew
<1> HIDE DEF K, q, m, W, N
<1> DEFINE f == [j \in 1 .. N |-> IF j <= i THEN j ELSE j + 1]
<1>8. ASSUME NEW j \in K
      PROVE  /\ j \in 1 .. N /\ f[j] \in 1 .. N + 1 /\ f[j] # i + 1 /\ w[f[j]] = v[j] /\ f[j] \in P
  <2>1. j \in 1 .. N /\ v[j].mark # "old"
    BY <1>3
  <2>2. CASE j <= i
    <3>1. j \in 1 .. i /\ f[j] = j /\ f[j] \in 1 .. N + 1 /\ f[j] # i + 1
      BY <1>3, <1>4, <2>1, <2>2
    <3> QED BY <1>5, <1>6, <2>1, <3>1
  <2>3. CASE ~ (j <= i)
    <3>1. j \in i + 1 .. N /\ f[j] = j + 1 /\ f[j] \in 1 .. N + 1 /\ f[j] # i + 1
      BY <1>3, <1>4, <2>1, <2>3
    <3> QED BY <1>5, <1>6, <2>1, <3>1
  <2> QED BY <2>2, <2>3
<1>9. ASSUME NEW x \in K, NEW y \in K, x < y PROVE f[x] < f[y]
  <2>1. x \in 1 .. N /\ y \in 1 .. N
    BY <1>8
  <2>2. f[x] = (IF x <= i THEN x ELSE x + 1) /\ f[y] = (IF y <= i THEN y ELSE y + 1)
    BY <2>1
  <2> QED BY <1>3, <1>4, <1>9, <2>1, <2>2
<1>10. ASSUME NEW j \in P PROVE \E x \in K : f[x] = j
  <2>1. j \in 1 .. N + 1 /\ j # i + 1 /\ w[j].mark # "old"
    BY <1>6
  <2>2. CASE j <= i
    <3>1. j \in 1 .. i /\ j \in 1 .. N /\ f[j] = j
      BY <1>3, <1>4, <2>1, <2>2
    <3> QED BY <1>3, <1>5, <2>1, <3>1
  <2>3. CASE i + 1 < j
    <3>1. PICK x : x = j - 1
      OBVIOUS
    <3>2. x \in i + 1 .. N /\ x \in 1 .. N /\ x + 1 = j /\ f[x] = j
      BY <1>3, <1>4, <2>1, <2>3, <3>1
    <3> QED BY <1>3, <1>5, <2>1, <3>2
  <2>4. j <= i \/ i + 1 < j
    BY <1>3, <1>4, <2>1
  <2> QED BY <2>2, <2>3, <2>4
<1>11. P \in SUBSET (1 .. N + 1) /\ i + 1 \in 1 .. N + 1 /\ i + 1 \notin P /\ N + 1 \in Nat
  BY <1>3, <1>4, <1>6
<1>12. W = P \cup {i + 1}
  <2>1. w[i + 1].mark # "old"
    BY <1>5 DEF Mark
  <2> QED BY <1>6, <1>11, <2>1
<1> HIDE DEF P
<1>13. IsMove(f, v, K, w, P)
  <2>1. \A j \in K : f[j] \in P /\ v[j].line = w[f[j]].line
    BY <1>8
  <2> HIDE DEF f
  <2> QED BY <1>9, <1>10, <2>1 DEF IsMove
<1> HIDE DEF f
<1>14. Moved(f, v, K, w, P)
  <2>1. PICK M : M = N + 1
    OBVIOUS
  <2>2. M \in Nat /\ P \in SUBSET (1 .. M)
    BY <1>11, <2>1
  <2> QED BY <1>3, <1>13, <2>2, MovedSo
<1>15. /\ LinesAt(v, K) = LinesAt(w, P) /\ m = Cardinality(P)
       /\ \A n \in 1 .. m : InOrder(P)[n] = f[q[n]]
  BY <1>14 DEF Moved, m, q
<1>16. \A n \in 1 .. m : q[n] \in K
  BY <1>3, MemberAt DEF q, m
<1>17. Cut(P, i + 1, t)
  <2>1. t \in 0 .. m
    BY <1>3
  <2>2. ASSUME NEW n \in 1 .. t PROVE InOrder(P)[n] < i + 1
    <3>1. n \in 1 .. m /\ q[n] <= i
      BY <1>3, <1>4, <2>1
    <3>2. q[n] \in 1 .. N
      BY <1>8, <1>16, <3>1
    <3>3. f[q[n]] = q[n]
      BY <3>1, <3>2 DEF f
    <3> QED BY <1>4, <1>15, <3>1, <3>2, <3>3
  <2>3. ASSUME NEW n \in t + 1 .. m PROVE i + 1 < InOrder(P)[n]
    <3>1. n \in 1 .. m /\ i < q[n]
      BY <1>4, <2>1
    <3>2. q[n] \in 1 .. N
      BY <1>8, <1>16, <3>1
    <3>3. f[q[n]] = q[n] + 1
      BY <1>4, <3>1, <3>2 DEF f
    <3> QED BY <1>4, <1>15, <3>1, <3>2, <3>3
  <2> QED BY <1>15, <2>1, <2>2, <2>3 DEF Cut
<1>18. GainsLine(LinesAt(w, W), LinesAt(w, P), t, w[i + 1].line)
  <2>1. PICK k : k = i + 1
    OBVIOUS
  <2>2. P \in SUBSET (1 .. Len(w)) /\ k \in 1 .. Len(w) /\ k \notin P /\ Cut(P, k, t) /\ W = P \cup {k}
    BY <1>5, <1>11, <1>12, <1>17, <2>1
  <2>3. GainsLine(LinesAt(w, W), LinesAt(w, P), t, w[k].line)
    BY <1>5, <2>2, GainsAt
  <2> QED BY <2>1, <2>3
<1>19. w[i + 1].line = l
  BY <1>5 DEF Mark
<1> QED BY <1>7, <1>15, <1>18, <1>19 DEF New, K, W

\* Without line i.
HasRemoved(w, v, i) ==
  /\ w \in Seq(Marked) /\ Len(w) = Len(v) - 1
  /\ \A j \in 1 .. i - 1 : w[j] = v[j]
  /\ \A j \in i .. Len(v) - 1 : w[j] = v[j + 1]

LEMMA RemovedAt ==
  ASSUME NEW v \in Seq(Marked), NEW i \in 1 .. Len(v)
  PROVE  HasRemoved(RemoveAt(v, i), v, i)
<1> DEFINE N == Len(v)
           A == SubSeq(v, 1, i - 1)
           B == SubSeq(v, i + 1, N)
           w == A \o B
<1>1. N \in Nat /\ i \in 1 .. N
  BY ScriptFacts
<1>2. PICK a : a = i - 1
  OBVIOUS
<1>3. PICK b : b = N - i
  OBVIOUS
<1>4. /\ A \in Seq(Marked) /\ Len(A) = a
      /\ \A j \in 1 .. a : A[j] = v[1 + j - 1]
  <2>1. 1 \in Int /\ a \in Int /\ 1 <= 1 /\ 1 <= a + 1 /\ a <= Len(v) /\ a - 1 + 1 = a
    BY <1>1, <1>2
  <2>2. A = SubSeq(v, 1, a)
    BY <1>2
  <2> HIDE DEF A
  <2> QED BY <2>1, <2>2, PieceOf
<1>5. /\ B \in Seq(Marked) /\ Len(B) = b
      /\ \A j \in 1 .. b : B[j] = v[i + 1 + j - 1]
  <2>1. i + 1 \in Int /\ N \in Int /\ 1 <= i + 1 /\ i + 1 <= N + 1 /\ N <= Len(v)
        /\ N - (i + 1) + 1 = b
    BY <1>1, <1>3
  <2> HIDE DEF N, B
  <2>2. /\ B \in Seq(Marked) /\ Len(B) = N - (i + 1) + 1
        /\ \A j \in 1 .. N - (i + 1) + 1 : B[j] = v[i + 1 + j - 1]
    BY <2>1, PieceOf DEF B
  <2> QED BY <2>1, <2>2
<1> HIDE DEF A, B, w
<1>6. IsJoined(w, A, a, B, b)
  BY <1>4, <1>5, JoinedTo DEF w
<1>7. /\ w \in Seq(Marked) /\ Len(w) = a + b
      /\ \A j \in 1 .. a : w[j] = A[j]
      /\ \A j \in 1 .. b : w[a + j] = B[j]
  BY <1>6 DEF IsJoined
<1>8. Len(w) = N - 1
  BY <1>1, <1>2, <1>3, <1>7
<1>9. ASSUME NEW j \in 1 .. i - 1 PROVE w[j] = v[j]
  <2>1. j \in 1 .. a /\ 1 + j - 1 = j
    BY <1>1, <1>2
  <2> QED BY <1>4, <1>7, <2>1
<1>10. ASSUME NEW j \in i .. N - 1 PROVE w[j] = v[j + 1]
  <2>1. PICK y : y = j - a
    OBVIOUS
  <2>2. y \in 1 .. b /\ a + y = j /\ i + 1 + y - 1 = j + 1
    BY <1>1, <1>2, <1>3, <2>1
  <2>3. w[a + y] = B[y]
    BY <1>7, <2>2
  <2>4. B[y] = v[i + 1 + y - 1]
    BY <1>5, <2>2
  <2> QED BY <2>2, <2>3, <2>4
<1>11. w = RemoveAt(v, i)
  <2>1. RemoveAt(v, i) = SubSeq(v, 1, i - 1) \o SubSeq(v, i + 1, Len(v))
    BY DEF RemoveAt
  <2> QED BY <2>1, Zenon DEF w, A, B, N
<1> QED BY <1>7, <1>8, <1>9, <1>10, <1>11 DEF HasRemoved, N

\* Deleting a line from the tree takes that line from the file, and nothing else.
LEMMA DeletedLoses ==
  ASSUME NEW v \in Seq(Marked), NEW t \in 1 .. Len(New(v))
  PROVE  \E l : GainsLine(New(v), New(Deleted(v, t)), t - 1, l)
<1>1. PICK i : i = InOrder(NewLines(v))[t]
  OBVIOUS
<1> DEFINE N == Len(v)
           Q == NewLines(v)
           P == Q \ {i}
           x == IF v[i].mark = "new" THEN RemoveAt(v, i) ELSE [v EXCEPT ![i].mark = "old"]
           W == NewLines(x)
<1>2. N \in Nat /\ Q \in SUBSET (1 .. N) /\ Len(New(v)) = Cardinality(Q)
      /\ \A j \in 1 .. N : j \in Q <=> v[j].mark # "old"
  BY NewFacts
<1>3. Deleted(v, t) = Shown(x)
  BY <1>1, Zenon DEF Deleted
<1> HIDE DEF N, Q
<1>4. PICK d : d = t - 1
  OBVIOUS
<1> HIDE DEF P
<1>5. Cut(P, i, d) /\ i \in Q /\ i \in 1 .. N /\ P \in SUBSET (1 .. N) /\ i \notin P /\ Q = P \cup {i}
  <2>1. t \in 1 .. Cardinality(Q) /\ i = InOrder(Q)[t] /\ P = Q \ {i}
    BY <1>1, <1>2 DEF P, Q
  <2>2. IsCutOut(P, Q, N, i, d)
    BY <1>2, <1>4, <2>1, CutOut
  <2> QED BY <2>2 DEF IsCutOut
<1>6. GainsLine(LinesAt(v, Q), LinesAt(v, P), d, v[i].line)
  BY <1>5, GainsAt DEF N
<1>7. \A j \in 1 .. N : j \in P <=> v[j].mark # "old" /\ j # i
  BY <1>2, <1>5
<1>8. CASE v[i].mark = "new"
  <2> DEFINE f == [j \in 1 .. N - 1 |-> IF j < i THEN j ELSE j + 1]
  <2>1. /\ x \in Seq(Marked) /\ Len(x) = N - 1
        /\ \A j \in 1 .. i - 1 : x[j] = v[j]
        /\ \A j \in i .. N - 1 : x[j] = v[j + 1]
    <3>1. HasRemoved(RemoveAt(v, i), v, i)
      BY <1>5, RemovedAt DEF N
    <3>2. x = RemoveAt(v, i)
      BY <1>8
    <3> HIDE DEF x
    <3> QED BY <3>1, <3>2 DEF HasRemoved, N
  <2> HIDE DEF x
  <2>2. W \in SUBSET (1 .. N - 1) /\ \A j \in 1 .. N - 1 : j \in W <=> x[j].mark # "old"
    BY <2>1, NewFacts
  <2> HIDE DEF W
  <2>3. ASSUME NEW j \in W PROVE j \in 1 .. N - 1 /\ f[j] \in P /\ x[j] = v[f[j]]
    <3>1. j \in 1 .. N - 1 /\ x[j].mark # "old"
      BY <2>2
    <3>2. CASE j < i
      <4>1. j \in 1 .. i - 1 /\ j \in 1 .. N /\ f[j] = j /\ j # i
        BY <1>2, <1>5, <3>1, <3>2
      <4> QED BY <1>7, <2>1, <3>1, <4>1
    <3>3. CASE ~ (j < i)
      <4>1. j \in i .. N - 1 /\ j + 1 \in 1 .. N /\ f[j] = j + 1 /\ j + 1 # i
        BY <1>2, <1>5, <3>1, <3>3
      <4> QED BY <1>7, <2>1, <3>1, <4>1
    <3> QED BY <3>2, <3>3
  <2>4. ASSUME NEW y \in W, NEW z \in W, y < z PROVE f[y] < f[z]
    <3>1. y \in 1 .. N - 1 /\ z \in 1 .. N - 1
      BY <2>3
    <3>2. f[y] = (IF y < i THEN y ELSE y + 1) /\ f[z] = (IF z < i THEN z ELSE z + 1)
      BY <3>1
    <3> QED BY <1>2, <1>5, <2>4, <3>1, <3>2
  <2>5. ASSUME NEW j \in P PROVE \E y \in W : f[y] = j
    <3>1. j \in 1 .. N /\ v[j].mark # "old" /\ j # i
      BY <1>5, <1>7
    <3>2. CASE j < i
      <4>1. j \in 1 .. i - 1 /\ j \in 1 .. N - 1 /\ f[j] = j
        BY <1>2, <1>5, <3>1, <3>2
      <4> QED BY <2>1, <2>2, <3>1, <4>1
    <3>3. CASE i < j
      <4>1. PICK y : y = j - 1
        OBVIOUS
      <4>2. y \in i .. N - 1 /\ y \in 1 .. N - 1 /\ y + 1 = j /\ f[y] = j
        BY <1>2, <1>5, <3>1, <3>3, <4>1
      <4> QED BY <2>1, <2>2, <3>1, <4>2
    <3>4. j < i \/ i < j
      BY <1>2, <1>5, <3>1
    <3> QED BY <3>2, <3>3, <3>4
  <2>6. IsMove(f, x, W, v, P)
    <3>1. \A j \in W : f[j] \in P /\ x[j].line = v[f[j]].line
      BY <2>3
    <3> HIDE DEF f
    <3> QED BY <2>4, <2>5, <3>1 DEF IsMove
  <2> HIDE DEF f
  <2>7. Moved(f, x, W, v, P)
    <3>1. PICK M : M = N - 1
      OBVIOUS
    <3>2. M \in Nat /\ W \in SUBSET (1 .. M)
      BY <1>2, <1>5, <2>2, <3>1
    <3> QED BY <1>2, <1>5, <2>6, <3>2, MovedSo
  <2>8. New(x) = LinesAt(v, P)
    BY <2>7 DEF Moved, New, W
  <2>9. New(Deleted(v, t)) = LinesAt(v, P)
    BY <1>3, <2>1, <2>8, ShownNew
  <2>10. GainsLine(New(v), New(Deleted(v, t)), d, v[i].line)
    BY <1>6, <2>9 DEF New, Q
  <2> QED BY <1>4, <2>10
<1>9. CASE v[i].mark # "new"
  <2> DEFINE y == [v EXCEPT ![i].mark = "old"]
  <2>1. N \in Nat /\ v \in [1 .. N -> Marked]
    BY ScriptFacts DEF N
  <2>2. y \in [1 .. N -> Marked]
    BY <1>5, <2>1 DEF Marked
  <2>3. \A j \in 1 .. N : j # i => y[j] = v[j]
    BY <2>1
  <2>4. y[i].mark = "old"
    BY <1>5, <2>1 DEF Marked
  <2>5. x = y
    BY <1>9
  <2> HIDE DEF y, x
  <2>6. x \in Seq(Marked) /\ Len(x) = N
    BY <2>1, <2>2, <2>5
  <2>7. W \in SUBSET (1 .. N) /\ \A j \in 1 .. N : j \in W <=> x[j].mark # "old"
    BY <2>6, NewFacts
  <2>8. W = P
    <3>1. \A j \in 1 .. N : j \in W <=> j \in P
      BY <1>5, <1>7, <2>3, <2>4, <2>5, <2>7
    <3> QED BY <1>5, <2>7, <3>1
  <2> HIDE DEF W
  <2>9. LinesAt(x, P) = LinesAt(v, P)
    <3>1. ASSUME NEW n \in 1 .. Cardinality(P) PROVE x[InOrder(P)[n]].line = v[InOrder(P)[n]].line
      <4>1. InOrder(P)[n] \in P
        BY <1>2, <1>5, MemberAt
      <4>2. InOrder(P)[n] \in 1 .. N /\ InOrder(P)[n] # i
        BY <1>5, <4>1
      <4> QED BY <2>3, <2>5, <4>2
    <3> QED BY <3>1 DEF LinesAt
  <2>10. New(Deleted(v, t)) = LinesAt(v, P)
    <3>1. New(x) = LinesAt(x, P)
      BY <2>8 DEF New, W
    <3> QED BY <1>3, <2>6, <2>9, <3>1, ShownNew
  <2>11. GainsLine(New(v), New(Deleted(v, t)), d, v[i].line)
    BY <1>6, <2>10 DEF New, Q
  <2> QED BY <1>4, <2>11
<1> QED BY <1>8, <1>9

\* In terms of the lines of another script that are in the tree.
LEMMA AddedPart ==
  ASSUME NEW s \in Seq(Marked), NEW P \in SUBSET (1 .. Len(s)), NEW k \in 1 .. Len(s), k \notin P,
         NEW t, Cut(P, k, t), NEW v \in Seq(Marked), New(v) = LinesAt(s, P)
  PROVE  New(Added(v, t, s[k].line)) = LinesAt(s, P \cup {k})
<1>1. PICK Q : Q = P \cup {k}
  OBVIOUS
<1>2. PICK l : l = s[k].line
  OBVIOUS
<1>3. l \in Lines
  BY <1>2, ScriptFacts
<1>4. t \in 0 .. Len(New(v))
  <2>1. Len(New(v)) = Cardinality(P)
    BY LinesAtOK
  <2> QED BY <2>1 DEF Cut
<1>5. GainsLine(LinesAt(s, Q), New(v), t, l)
  BY <1>1, <1>2, GainsAt
<1>6. GainsLine(New(Added(v, t, l)), New(v), t, l)
  BY <1>3, <1>4, AddedGains
<1>7. LinesAt(s, Q) \in Seq(Lines) /\ New(v) \in Seq(Lines) /\ New(Added(v, t, l)) \in Seq(Lines)
  <2>1. Q \in SUBSET (1 .. Len(s))
    BY <1>1
  <2>2. Added(v, t, l) \in Seq(Marked)
    BY <1>3, <1>4, AddedOK
  <2> QED BY <2>1, <2>2, LinesAtOK, FilesOK
<1>8. New(Added(v, t, l)) = LinesAt(s, Q)
  BY <1>4, <1>5, <1>6, <1>7, GainSame
<1> QED BY <1>1, <1>2, <1>8

LEMMA DeletedPart ==
  ASSUME NEW s \in Seq(Marked), NEW P \in SUBSET (1 .. Len(s)), NEW t \in 1 .. Cardinality(P),
         NEW k, k = InOrder(P)[t], NEW v \in Seq(Marked), New(v) = LinesAt(s, P)
  PROVE  New(Deleted(v, t)) = LinesAt(s, P \ {k})
<1>1. PICK Q : Q = P \ {k}
  OBVIOUS
<1>2. PICK x : x = t - 1
  OBVIOUS
<1>3. Len(s) \in Nat /\ Len(New(v)) = Cardinality(P) /\ Cardinality(P) \in Nat
  BY ScriptFacts, LinesAtOK
<1>4. Cut(Q, k, x) /\ k \in 1 .. Len(s) /\ Q \in SUBSET (1 .. Len(s)) /\ k \notin Q /\ P = Q \cup {k}
  <2>1. IsCutOut(Q, P, Len(s), k, x)
    BY <1>1, <1>2, <1>3, CutOut
  <2> QED BY <2>1 DEF IsCutOut
<1>5. GainsLine(New(v), LinesAt(s, Q), x, s[k].line)
  BY <1>4, GainsAt
<1>6. PICK l : GainsLine(New(v), New(Deleted(v, t)), x, l)
  BY <1>2, <1>3, DeletedLoses
<1>7. LinesAt(s, Q) \in Seq(Lines) /\ New(v) \in Seq(Lines) /\ New(Deleted(v, t)) \in Seq(Lines)
  <2>1. Deleted(v, t) \in Seq(Marked)
    BY <1>3, DeletedOK
  <2> QED BY <1>4, <2>1, LinesAtOK, FilesOK
<1>8. x \in Nat /\ x < Len(New(v))
  BY <1>2, <1>3
<1>9. New(Deleted(v, t)) = LinesAt(s, Q)
  BY <1>5, <1>6, <1>7, <1>8, LossSame
<1> QED BY <1>1, <1>9

\* A file that is committed as it is.
LEMMA NewUnchanged ==
  ASSUME NEW file \in Seq(Lines)
  PROVE  New(Unchanged(file)) = file
<1>1. PICK u : u = Unchanged(file)
  OBVIOUS
<1>2. /\ u \in Seq(Marked) /\ Len(u) = Len(file)
      /\ \A i \in 1 .. Len(file) : u[i] = Mark("both", file[i])
  BY <1>1, UnchangedOK
<1>3. ASSUME NEW i \in 1 .. Len(file) PROVE u[i].mark = "both" /\ u[i].line = file[i]
  <2>1. u[i] = Mark("both", file[i])
    BY <1>2
  <2> QED BY <2>1 DEF Mark
<1>4. NoneDeleted(u)
  BY <1>2, <1>3 DEF NoneDeleted
<1>5. Len(New(u)) = Len(u) /\ \A x \in 1 .. Len(u) : New(u)[x] = u[x].line
  BY <1>2, <1>4, NewOfSame
<1>6. New(u) \in Seq(Lines) /\ \A i \in 1 .. Len(file) : New(u)[i] = file[i]
  BY <1>2, <1>3, <1>5, FilesOK
<1>7. New(u) = file
  BY <1>2, <1>5, <1>6, SeqEqual
<1> QED BY <1>1, <1>7

-----------------------------------------------------------------------------
(* What the patch of any annotation shows. *)

\* The lines it expects.
ShownLines(s, k) == IF s[k].mark = "new" THEN Kept(s, k) \ {k} ELSE Kept(s, k)

\* p shows the lines L, and changes k as its line x.
Shows(p, s, k, L, x) ==
  /\ p \in Patch /\ ChangesLine(p, x) /\ x \in Nat \ {0} /\ p.body[x] = s[k]
  /\ L \in SUBSET (1 .. Len(s)) /\ Old(p.body) = LinesAt(s, L)
  /\ s[k].mark = "new" => Cut(L, k, x - 1) /\ k \notin L /\ Len(p.body) = Cardinality(L) + 1
  /\ s[k].mark = "old" => /\ x \in 1 .. Cardinality(L) /\ InOrder(L)[x] = k
                          /\ Len(p.body) = Cardinality(L)

\* Each patch does so.
LEMMA PatchShows ==
  ASSUME NEW s \in Seq(Marked), NEW k \in 1 .. Len(s), IsPf(s, k)
  PROVE  \E x \in Nat : Shows(PatchFor(s, k), s, k, ShownLines(s, k), x)
<1> DEFINE N == Len(s)
           J == Kept(s, k)
           m == Cardinality(J)
           q == InOrder(J)
           p == PatchFor(s, k)
           b == p.body
           L == ShownLines(s, k)
           O == OldLines(b)
<1>1. N \in Nat
  BY ScriptFacts
<1>2. J \in SUBSET (1 .. N) /\ k \in J
  BY KeptIn
<1>3. s[k].mark = "new" \/ s[k].mark = "old"
  BY ScriptFacts DEF IsPf
<1>4. p \in Patch /\ b = BodyOf(s, k) /\ b \in Seq(Marked) /\ Len(b) = m
  BY BodyOK, PatchForOK
<1>5. PICK x \in Nat : x \in 1 .. m /\ q[x] = k /\ ChangesLine(p, x)
  BY BodyOK
<1>6. b = [n \in 1 .. m |-> IF q[n] = k THEN s[k] ELSE Mark("both", s[q[n]].line)]
  BY <1>4 DEF BodyOf
<1>7. L = IF s[k].mark = "new" THEN J \ {k} ELSE J
  BY DEF ShownLines
<1> HIDE DEF J, L, p, N
<1>8. /\ m \in Nat /\ q \in [1 .. m -> J]
      /\ \A y, z \in 1 .. m : y < z => q[y] < q[z]
      /\ \A i \in J : \E n \in 1 .. m : q[n] = i
  BY <1>1, <1>2, ListOf
<1> HIDE DEF m, q
<1>9. ASSUME NEW n \in 1 .. m, n # x PROVE q[n] # k
  <2>1. n < x \/ x < n
    BY <1>5, <1>9
  <2>2. \A i \in J : i \in Int
    BY <1>1, <1>2
  <2>3. q[n] \in Int /\ q[x] \in Int
    BY <1>5, <1>8, <2>2
  <2> QED BY <1>5, <1>8, <2>1, <2>3
<1> HIDE DEF b
<1>10. ASSUME NEW n \in 1 .. m PROVE b[n].line = s[q[n]].line /\ (n # x => b[n].mark = "both")
  <2>1. n = x => b[n] = s[k] /\ q[n] = k
    BY <1>5, <1>6
  <2>2. n # x => b[n] = Mark("both", s[q[n]].line)
    BY <1>6, <1>9
  <2> QED BY <2>1, <2>2 DEF Mark
<1>11. b[x] = s[k]
  BY <1>5, <1>6
<1>12. O \in SUBSET (1 .. m) /\ \A n \in 1 .. m : n \in O <=> n # x \/ s[k].mark # "new"
  <2>1. DOMAIN b = 1 .. m
    BY <1>6
  <2> QED BY <1>10, <1>11, <2>1 DEF OldLines
<1>13. L \in SUBSET (1 .. N)
  BY <1>2, <1>7
<1> HIDE DEF O
<1>14. ASSUME NEW n \in O PROVE n \in 1 .. m /\ q[n] \in L
  <2>1. n \in 1 .. m /\ q[n] \in J /\ (n # x \/ s[k].mark # "new")
    BY <1>8, <1>12
  <2> QED BY <1>7, <1>9, <2>1
<1>15. ASSUME NEW i \in L PROVE \E n \in O : q[n] = i
  <2>1. i \in J /\ (s[k].mark = "new" => i # k)
    BY <1>7
  <2>2. PICK n \in 1 .. m : q[n] = i
    BY <1>8, <2>1
  <2> QED BY <1>5, <1>12, <2>1, <2>2
<1>16. IsMove(q, b, O, s, L)
  <2>1. \A n \in O : q[n] \in L /\ b[n].line = s[q[n]].line
    BY <1>10, <1>14
  <2>2. \A y, z \in O : y < z => q[y] < q[z]
    BY <1>8, <1>14
  <2> QED BY <1>15, <2>1, <2>2 DEF IsMove
<1>17. Old(b) = LinesAt(s, L)
  <2>1. Moved(q, b, O, s, L)
    BY <1>1, <1>8, <1>12, <1>13, <1>16, MovedSo
  <2> QED BY <2>1 DEF Moved, Old, O
<1>18. ASSUME s[k].mark = "new" PROVE Cut(L, k, x - 1) /\ k \notin L /\ m = Cardinality(L) + 1
  <2>1. L = J \ {k}
    BY <1>7, <1>18
  <2>2. PICK d : d = x - 1
    OBVIOUS
  <2>3. IsCutOut(L, J, N, k, d)
    BY <1>1, <1>2, <1>5, <2>1, <2>2, CutOut DEF m, q
  <2>4. Cut(L, k, d) /\ k \notin L /\ J = L \cup {k}
    BY <2>3 DEF IsCutOut
  <2>5. IsFiniteSet(L)
    BY <1>1, <1>13, Positions
  <2>6. m = Cardinality(L) + 1
    BY <2>4, <2>5, FS_AddElement DEF m
  <2> QED BY <2>2, <2>4, <2>6
<1>19. ASSUME s[k].mark = "old" PROVE x \in 1 .. Cardinality(L) /\ InOrder(L)[x] = k /\ m = Cardinality(L)
  <2>1. L = J
    BY <1>7, <1>19
  <2> QED BY <1>5, <2>1 DEF m, q
<1>20. x \in Nat \ {0} /\ Len(b) = m
  BY <1>4, <1>5 DEF b
<1>21. Shows(p, s, k, L, x)
  BY <1>4, <1>5, <1>11, <1>13, <1>17, <1>18, <1>19, <1>20 DEF Shows, b, N
<1> QED BY <1>21 DEF p, L

\* Where its hunk is, and what the header says of that.
Around(s, k, lo, hi) ==
  /\ IsHunk(Hunk(s, k), s, k, lo, hi) /\ lo \in Nat \ {0} /\ hi \in 1 .. Len(s)
  /\ PatchFor(s, k).old <= 1 <=> lo = 1
  /\ ShownLines(s, k) \in SUBSET (lo .. hi)
  /\ lo # 1 => lo \in ShownLines(s, k) /\ lo < k
  /\ hi # Len(s) => hi \in ShownLines(s, k) /\ k < hi

\* Each hunk is a stretch of the diff.
LEMMA HunkAround ==
  ASSUME NEW s \in Seq(Marked), NEW k \in 1 .. Len(s), IsPf(s, k)
  PROVE  \E lo, hi \in Nat : Around(s, k, lo, hi)
<1> DEFINE N == Len(s)
           H == Hunk(s, k)
           p == PatchFor(s, k)
           L == ShownLines(s, k)
<1>1. N \in Nat /\ DOMAIN s = 1 .. N
  BY ScriptFacts
<1>2. s[k].mark # "both" /\ k \in Changed(s) /\ k \in 1 .. N
  BY <1>1 DEF IsPf, Changed
<1>3. PICK lo \in Nat, hi \in Nat : IsHunk(H, s, k, lo, hi)
  BY <1>2, HunkAs
<1>4. /\ H = lo .. hi /\ lo \in 1 .. k /\ hi \in k .. N
      /\ lo = 1 \/ (s[lo - 1].mark = "both" /\ s[lo].mark = "both")
      /\ hi = N \/ s[hi].mark = "both"
  BY <1>3 DEF IsHunk
<1>5. p.old = OldStart(s, H)
  BY DEF PatchFor
<1>6. L \in SUBSET H /\ \A i \in H : s[i].mark = "both" => i \in L
  BY <1>2 DEF ShownLines, Kept
<1> HIDE DEF H, N, L, p
<1>7. lo \in H /\ hi \in H /\ k \in H /\ \A j \in H : lo <= j
  <2>1. lo \in lo .. hi /\ hi \in lo .. hi /\ k \in lo .. hi /\ \A j \in lo .. hi : lo <= j
    BY <1>1, <1>2, <1>4
  <2> QED BY <1>4, <2>1
<1> DEFINE before == {i \in DOMAIN s : s[i].mark \in {"both", "old"} /\ \A j \in H : i < j}
           inside == {i \in H : s[i].mark \in {"both", "old"}}
<1>8. p.old = Cardinality(before) + IF inside = {} THEN 0 ELSE 1
  BY <1>5 DEF OldStart, Start
<1>9. before \in SUBSET (1 .. N)
  BY <1>1
<1>10. IsFiniteSet(before) /\ Cardinality(before) \in Nat
  <2> HIDE DEF before
  <2> QED BY <1>1, <1>9, Positions
<1>11. \A i \in 1 .. N : (\A j \in H : i < j) <=> i < lo
  BY <1>1, <1>4, <1>7
<1>12. ASSUME lo # 1 PROVE ~ (p.old <= 1)
  <2>1. inside # {}
    BY <1>4, <1>7, <1>12
  <2>2. lo - 1 \in 1 .. N /\ lo - 1 < lo
    BY <1>1, <1>2, <1>4, <1>12
  <2>3. lo - 1 \in before
    BY <1>1, <1>4, <1>11, <1>12, <2>2
  <2> HIDE DEF before, inside
  <2>4. Cardinality(before) # 0
    BY <1>10, <2>3, FS_EmptySet
  <2> QED BY <1>8, <1>10, <2>1, <2>4
<1>13. ASSUME lo = 1 PROVE p.old <= 1
  <2>1. before = {}
    <3>1. ASSUME NEW i \in before PROVE FALSE
      <4>1. i \in 1 .. N /\ i < 1
        BY <1>1, <1>11, <1>13
      <4> QED BY <4>1
    <3> QED BY <3>1
  <2>2. Cardinality(before) = 0
    BY <2>1, FS_EmptySet
  <2> HIDE DEF before, inside
  <2> QED BY <1>8, <2>2
<1>14. lo # 1 => lo \in L /\ lo < k
  <2>1. lo # 1 => lo # k
    BY <1>2, <1>4
  <2> QED BY <1>1, <1>2, <1>4, <1>6, <1>7, <2>1
<1>15. hi # N => hi \in L /\ k < hi
  <2>1. hi # N => hi # k
    BY <1>2, <1>4
  <2> QED BY <1>1, <1>2, <1>4, <1>6, <1>7, <2>1
<1>16. lo \in Nat \ {0} /\ hi \in 1 .. N
  BY <1>1, <1>2, <1>4
<1>17. Around(s, k, lo, hi)
  BY <1>3, <1>4, <1>6, <1>12, <1>13, <1>14, <1>15, <1>16 DEF Around, H, N, L, p
<1> QED BY <1>17

-----------------------------------------------------------------------------
(* Where a patch matches, if no line is there twice. *)

\* Distinct, of any script.
DistinctIn(s) == \A i, j \in DOMAIN s : s[i].line = s[j].line => i = j

\* The lines of L are those of P after the first n.
Aligned(P, L, n) ==
  /\ Cardinality(P) \in Nat /\ Cardinality(L) \in Nat
  /\ n \in Nat /\ n + Cardinality(L) <= Cardinality(P)
  /\ \A y \in 1 .. Cardinality(L) : InOrder(P)[n + y] = InOrder(L)[y]

LEMMA PiecesEqual ==
  ASSUME NEW file \in Seq(Lines), NEW pre \in Seq(Lines), NEW n \in Nat, n + Len(pre) <= Len(file)
  PROVE  SubSeq(file, n + 1, n + Len(pre)) = pre <=> \A y \in 1 .. Len(pre) : file[n + y] = pre[y]
<1>1. PICK c : c = Len(pre)
  OBVIOUS
<1>2. PICK y : y = n + 1
  OBVIOUS
<1>3. PICK z : z = n + c
  OBVIOUS
<1>4. c \in Nat /\ Len(file) \in Nat
  BY <1>1, LenProperties
<1>5. /\ y \in Int /\ z \in Int /\ z - y + 1 = c
      /\ (IF y <= z THEN z - y + 1 ELSE 0) = c
      /\ \A i \in y .. z : i \in 1 .. Len(file)
  BY <1>1, <1>2, <1>3, <1>4
<1>6. PICK u : u = SubSeq(file, y, z)
  OBVIOUS
<1>7. u \in Seq(Lines) /\ Len(u) = c /\ \A i \in 1 .. c : u[i] = file[y + i - 1]
  <2>1. \A i \in y .. z : file[i] \in Lines
    BY <1>5
  <2>2. /\ SubSeq(file, y, z) \in Seq(Lines)
        /\ Len(SubSeq(file, y, z)) = IF y <= z THEN z - y + 1 ELSE 0
        /\ \A i \in 1 .. z - y + 1 : SubSeq(file, y, z)[i] = file[y + i - 1]
    BY <1>5, <2>1, SubSeqProperties
  <2> QED BY <1>5, <1>6, <2>2
<1>8. ASSUME NEW i \in 1 .. c PROVE u[i] = file[n + i]
  <2>1. y + i - 1 = n + i
    BY <1>2
  <2> QED BY <1>7, <2>1
<1>9. u = pre <=> \A i \in 1 .. c : file[n + i] = pre[i]
  <2>1. ASSUME \A i \in 1 .. c : file[n + i] = pre[i] PROVE u = pre
    <3>1. \A i \in 1 .. Len(u) : u[i] = pre[i]
      BY <1>7, <1>8, <2>1
    <3> QED BY <1>1, <1>7, <3>1, SeqEqual
  <2>2. ASSUME u = pre PROVE \A i \in 1 .. c : file[n + i] = pre[i]
    BY <1>8, <2>2
  <2> QED BY <2>1, <2>2
<1> QED BY <1>1, <1>2, <1>3, <1>6, <1>9

\* A match is where all lines of the patch are.
LEMMA MatchIs ==
  ASSUME NEW s \in Seq(Marked), DistinctIn(s), NEW P \in SUBSET (1 .. Len(s)),
         NEW p, NEW k, NEW L, NEW x, Shows(p, s, k, L, x), NEW n \in Matches(p, LinesAt(s, P))
  PROVE  /\ Aligned(P, L, n)
         /\ p.old <= 1 => n = 0
         /\ x = Len(p.body) => n = Cardinality(P) - Cardinality(L)
<1>1. PICK file : file = LinesAt(s, P)
  OBVIOUS
<1>2. PICK pre : pre = Old(p.body)
  OBVIOUS
<1> DEFINE N == Len(s)
           M == Cardinality(P)
           c == Cardinality(L)
<1>3. N \in Nat /\ L \in SUBSET (1 .. N) /\ p \in Patch /\ ChangesLine(p, x)
  BY ScriptFacts DEF Shows
<1>4. /\ file \in Seq(Lines) /\ Len(file) = M /\ M \in Nat
      /\ file = [y \in 1 .. M |-> s[InOrder(P)[y]].line]
  BY <1>1, LinesAtOK
<1>5. /\ pre \in Seq(Lines) /\ Len(pre) = c /\ c \in Nat
      /\ pre = [y \in 1 .. c |-> s[InOrder(L)[y]].line]
  <2>1. pre = LinesAt(s, L)
    BY <1>2 DEF Shows
  <2> QED BY <1>3, <2>1, LinesAtOK
<1>6. /\ n \in 0 .. Len(file) - Len(pre) /\ SubSeq(file, n + 1, n + Len(pre)) = pre
      /\ p.old <= 1 => n = 0
      /\ p.body[Len(p.body)].mark # "both" => n = Len(file) - Len(pre)
  BY <1>1, <1>2 DEF Matches
<1> HIDE DEF N, M, c
<1>7. n \in Nat /\ n + c <= M
  BY <1>4, <1>5, <1>6
<1>8. \A y \in 1 .. c : file[n + y] = pre[y]
  BY <1>4, <1>5, <1>6, <1>7, PiecesEqual
<1>9. ASSUME NEW y \in 1 .. c PROVE InOrder(P)[n + y] = InOrder(L)[y]
  <2>1. PICK z : z = n + y
    OBVIOUS
  <2>2. z \in 1 .. M
    BY <1>4, <1>5, <1>7, <2>1
  <2>3. InOrder(P)[z] \in 1 .. N
    BY <1>3, <2>2, MemberAt DEF M, N
  <2>4. InOrder(L)[y] \in 1 .. N
    BY <1>3, MemberAt DEF c
  <2>5. s[InOrder(P)[z]].line = s[InOrder(L)[y]].line
    BY <1>4, <1>5, <1>8, <2>1, <2>2
  <2>6. DOMAIN s = 1 .. N
    BY ScriptFacts DEF N
  <2> QED BY <2>1, <2>3, <2>4, <2>5, <2>6 DEF DistinctIn
<1>10. x = Len(p.body) => n = M - c
  BY <1>3, <1>4, <1>5, <1>6 DEF ChangesLine
<1> QED BY <1>4, <1>5, <1>6, <1>7, <1>9, <1>10 DEF Aligned, M, c

\* The place where a line is added, among P.
CutNew(P, k, e) == Cut(P, k, e) /\ k \notin P

\* Lines that are cut at k are so in P.
LEMMA AlignedCut ==
  ASSUME NEW N \in Nat, NEW P \in SUBSET (1 .. N), NEW L \in SUBSET (1 .. N), NEW k \in 1 .. N,
         NEW n, Aligned(P, L, n), NEW d, Cut(L, k, d),
         d = 0 => n = 0, d = Cardinality(L) => n = Cardinality(P) - Cardinality(L),
         NEW e, e = n + d
  PROVE  CutNew(P, k, e)
<1> DEFINE M == Cardinality(P)
           c == Cardinality(L)
           q == InOrder(P)
           r == InOrder(L)
<1>1. /\ M \in Nat /\ q \in [1 .. M -> P]
      /\ \A x, y \in 1 .. M : x < y => q[x] < q[y]
      /\ \A i \in P : \E x \in 1 .. M : q[x] = i
  BY ListOf
<1>2. c \in Nat /\ n \in Nat /\ n + c <= M /\ \A y \in 1 .. c : q[n + y] = r[y]
  BY DEF Aligned
<1>3. /\ d \in 0 .. c
      /\ \A y \in 1 .. d : r[y] < k
      /\ \A y \in d + 1 .. c : k < r[y]
  BY DEF Cut
<1>4. (d = 0 => n = 0) /\ (d = c => n = M - c)
  OBVIOUS
<1> HIDE DEF M, c, q, r
<1>5. \A y \in 1 .. M : q[y] \in 1 .. N
  BY <1>1
<1>6. e \in 0 .. M
  BY <1>1, <1>2, <1>3
<1>7. ASSUME NEW y \in 1 .. e PROVE q[y] < k
  <2>1. d # 0 /\ d \in 1 .. d /\ d \in 1 .. c /\ e \in 1 .. M /\ y \in 1 .. M
    BY <1>1, <1>2, <1>3, <1>4, <1>6
  <2>2. q[e] < k
    BY <1>2, <1>3, <2>1
  <2>3. y = e \/ q[y] < q[e]
    BY <1>1, <1>6, <2>1
  <2>4. q[y] \in Int /\ q[e] \in Int /\ k \in Int
    BY <1>5, <2>1
  <2> QED BY <2>2, <2>3, <2>4
<1>8. ASSUME NEW y \in e + 1 .. M PROVE k < q[y]
  <2>1. PICK f : f = d + 1
    OBVIOUS
  <2>2. PICK g : g = e + 1
    OBVIOUS
  <2>3. f \in 1 .. c /\ f \in d + 1 .. c /\ n + f = g /\ g \in 1 .. M /\ y \in 1 .. M
    BY <1>1, <1>2, <1>3, <1>4, <1>6, <2>1, <2>2
  <2>4. k < q[g]
    BY <1>2, <1>3, <2>3
  <2>5. y = g \/ q[g] < q[y]
    BY <1>1, <1>6, <2>2, <2>3
  <2>6. q[y] \in Int /\ q[g] \in Int /\ k \in Int
    BY <1>5, <2>3
  <2> QED BY <2>4, <2>5, <2>6
<1>9. k \notin P
  <2> SUFFICES ASSUME k \in P PROVE FALSE
    OBVIOUS
  <2>1. PICK z \in 1 .. M : q[z] = k
    BY <1>1
  <2>2. z \in 1 .. e \/ z \in e + 1 .. M
    BY <1>1, <1>6
  <2>3. k < k
    BY <1>7, <1>8, <2>1, <2>2
  <2> QED BY <2>3
<1> QED BY <1>6, <1>7, <1>8, <1>9 DEF CutNew, Cut, M, q

FoundIn(P, L, y, z) ==
  z \in 1 .. Cardinality(P) /\ InOrder(P)[z] = InOrder(L)[y] /\ InOrder(L)[y] \in P

LEMMA AlignedIn ==
  ASSUME NEW N \in Nat, NEW P \in SUBSET (1 .. N), NEW L \in SUBSET (1 .. N),
         NEW n, Aligned(P, L, n), NEW y \in 1 .. Cardinality(L), NEW z, z = n + y
  PROVE  FoundIn(P, L, y, z)
<1>1. z \in 1 .. Cardinality(P)
  BY DEF Aligned
<1>2. InOrder(P)[z] \in P
  BY <1>1, MemberAt
<1> QED BY <1>1, <1>2 DEF Aligned, FoundIn

\* From the first line of the hunk up to k, P has no others than L.
LEMMA AlignedBetween ==
  ASSUME NEW N \in Nat, NEW P \in SUBSET (1 .. N), NEW L \in SUBSET (1 .. N),
         NEW n, Aligned(P, L, n),
         NEW lo \in Nat, n = 0 \/ (lo \in L /\ \A j \in L : lo <= j),
         NEW z \in 1 .. Cardinality(P), z <= n + Cardinality(L), lo <= InOrder(P)[z]
  PROVE  InOrder(P)[z] \in L
<1> DEFINE M == Cardinality(P)
           c == Cardinality(L)
           q == InOrder(P)
           r == InOrder(L)
<1>1. /\ M \in Nat /\ q \in [1 .. M -> P]
      /\ \A x, y \in 1 .. M : x < y => q[x] < q[y]
  BY ListOf
<1>2. c \in Nat /\ n \in Nat /\ n + c <= M /\ \A y \in 1 .. c : q[n + y] = r[y]
  BY DEF Aligned
<1>3. /\ r \in [1 .. c -> L]
      /\ \A i \in L : \E x \in 1 .. c : r[x] = i
  BY ListOf
<1>4. z \in 1 .. M /\ z <= n + c /\ lo <= q[z]
  OBVIOUS
<1> HIDE DEF M, c, q, r
<1>5. n < z
  <2>1. CASE n = 0
    BY <1>4, <2>1
  <2>2. CASE lo \in L /\ \A j \in L : lo <= j
    <3>1. PICK y \in 1 .. c : r[y] = lo
      BY <1>3, <2>2
    <3>2. 1 \in 1 .. c /\ r[1] \in L
      <4>1. 1 \in 1 .. c
        BY <1>2, <3>1
      <4> QED BY <1>3, <4>1
    <3>3. PICK f : f = n + 1
      OBVIOUS
    <3>4. f \in 1 .. M /\ q[f] = r[1]
      BY <1>1, <1>2, <3>2, <3>3
    <3> SUFFICES ASSUME z <= n PROVE FALSE
      BY <1>1, <1>2, <1>4
    <3>5. q[z] < q[f]
      BY <1>1, <1>2, <1>4, <3>3, <3>4
    <3>6. PICK w : w = n + y
      OBVIOUS
    <3>7. w \in 1 .. M /\ q[w] = lo /\ (f = w \/ f < w)
      BY <1>1, <1>2, <3>1, <3>3, <3>6
    <3>8. q[z] < lo
      <4>1. \A i \in P : i \in Int
        OBVIOUS
      <4>2. q[z] \in Int /\ q[f] \in Int /\ q[w] \in Int
        BY <1>1, <1>4, <3>4, <3>7, <4>1
      <4>3. q[f] <= q[w]
        BY <1>1, <3>4, <3>7, <4>2
      <4> QED BY <3>5, <3>7, <4>2, <4>3
    <3>9. q[z] \in Int
      <4>1. \A i \in P : i \in Int
        OBVIOUS
      <4> QED BY <1>1, <1>4, <4>1
    <3> QED BY <1>4, <3>8, <3>9
  <2> QED BY <2>1, <2>2
<1>6. PICK y : y = z - n
  OBVIOUS
<1>7. y \in 1 .. c /\ n + y = z
  BY <1>1, <1>2, <1>4, <1>5, <1>6
<1>8. q[z] = r[y] /\ r[y] \in L
  BY <1>2, <1>3, <1>7
<1> QED BY <1>8 DEF q

-----------------------------------------------------------------------------
(* A hunk whose lines are as its patch shows them. *)

\* The patch matches where its hunk is.
LEMMA MatchesSo ==
  ASSUME NEW s \in Seq(Marked), NEW P \in SUBSET (1 .. Len(s)), NEW k \in 1 .. Len(s), IsPf(s, k),
         NEW lo \in Nat, NEW hi \in Nat, Around(s, k, lo, hi),
         NEW L, L = ShownLines(s, k), P \cap (lo .. hi) = L
  PROVE  Matches(PatchFor(s, k), LinesAt(s, P)) # {}
<1> DEFINE N == Len(s)
           p == PatchFor(s, k)
           M == Cardinality(P)
           c == Cardinality(L)
<1>1. N \in Nat
  BY ScriptFacts
<1>2. PICK x \in Nat : Shows(p, s, k, L, x)
  BY PatchShows
<1>3. /\ p \in Patch /\ ChangesLine(p, x) /\ x \in Nat \ {0}
      /\ L \in SUBSET (1 .. N) /\ Old(p.body) = LinesAt(s, L)
      /\ s[k].mark = "new" => Cut(L, k, x - 1) /\ k \notin L /\ Len(p.body) = c + 1
      /\ s[k].mark = "old" => x \in 1 .. c /\ InOrder(L)[x] = k /\ Len(p.body) = c
  BY <1>2 DEF Shows
<1>4. /\ lo \in Nat \ {0} /\ hi \in 1 .. N
      /\ p.old <= 1 <=> lo = 1
      /\ hi # N => hi \in L /\ k < hi
  BY DEF Around
<1>5. PICK B : B = P \cap (1 .. lo - 1)
  OBVIOUS
<1>6. PICK b : b = Cardinality(B)
  OBVIOUS
<1>7. PICK file : file = LinesAt(s, P)
  OBVIOUS
<1>8. PICK pre : pre = Old(p.body)
  OBVIOUS
<1>9. /\ file \in Seq(Lines) /\ Len(file) = M /\ M \in Nat
      /\ file = [y \in 1 .. M |-> s[InOrder(P)[y]].line]
  BY <1>7, LinesAtOK
<1>10. /\ pre \in Seq(Lines) /\ Len(pre) = c /\ c \in Nat
       /\ pre = [y \in 1 .. c |-> s[InOrder(L)[y]].line]
  BY <1>3, <1>8, LinesAtOK
<1> HIDE DEF p, N
<1>11. StretchFrom(L, N, P, b, hi)
  BY <1>1, <1>4, <1>5, <1>6, StretchAt DEF N
<1> HIDE DEF M, c
<1>12. /\ b \in Nat /\ b + c <= M /\ (hi = N => b + c = M)
       /\ \A y \in 1 .. c : InOrder(P)[b + y] = InOrder(L)[y]
  BY <1>11 DEF StretchFrom, M, c
<1>13. SubSeq(file, b + 1, b + Len(pre)) = pre
  <2>1. ASSUME NEW y \in 1 .. c PROVE file[b + y] = pre[y]
    <3>1. PICK z : z = b + y
      OBVIOUS
    <3>2. z \in 1 .. M
      BY <1>9, <1>10, <1>12, <3>1
    <3>3. InOrder(P)[z] = InOrder(L)[y]
      BY <1>12, <3>1
    <3> QED BY <1>9, <1>10, <3>1, <3>2, <3>3
  <2> QED BY <1>9, <1>10, <1>12, <2>1, PiecesEqual
<1>14. p.old <= 1 => b = 0
  <2>1. lo = 1 => B = {}
    BY <1>5
  <2>2. B = {} => b = 0
    BY <1>6, FS_EmptySet
  <2> QED BY <1>4, <2>1, <2>2
\* What comes at the end of its hunk without context comes at the end of the file.
<1>15. p.body[Len(p.body)].mark # "both" => b = Len(file) - Len(pre)
  <2> SUFFICES ASSUME p.body[Len(p.body)].mark # "both" PROVE b = M - c
    BY <1>9, <1>10
  <2>1. x = Len(p.body)
    <3>1. Len(p.body) \in Nat /\ x \in 1 .. Len(p.body)
      BY <1>3, PreLen
    <3>2. Len(p.body) \in 1 .. Len(p.body)
      BY <3>1
    <3> QED BY <1>3, <3>2 DEF ChangesLine
  <2>2. hi = N
    <3> SUFFICES ASSUME hi # N PROVE FALSE
      OBVIOUS
    <3>1. hi \in L /\ k < hi /\ k \in Int /\ hi \in Int
      BY <1>1, <1>3, <1>4 DEF N
    <3>2. PICK y \in 1 .. c : InOrder(L)[y] = hi
      BY <1>1, <1>3, <3>1, ListOf DEF c
    <3>3. s[k].mark = "new" \/ s[k].mark = "old"
      BY ScriptFacts DEF IsPf
    <3>4. CASE s[k].mark = "new"
      <4>1. PICK d : d = x - 1
        OBVIOUS
      <4>2. Cut(L, k, d) /\ d = c
        BY <1>3, <1>10, <2>1, <3>4, <4>1
      <4>3. InOrder(L)[y] < k
        BY <4>2 DEF Cut
      <4> QED BY <3>1, <3>2, <4>3
    <3>5. CASE s[k].mark = "old"
      <4>1. x = c /\ InOrder(L)[x] = k /\ x \in 1 .. c
        BY <1>3, <2>1, <3>5
      <4>2. \A u, v \in 1 .. c : u < v => InOrder(L)[u] < InOrder(L)[v]
        BY <1>1, <1>3, ListOf DEF c
      <4>3. y = x \/ y < x
        BY <1>10, <4>1
      <4>4. y < x => hi < k
        BY <3>2, <4>1, <4>2
      <4>5. y = x => hi = k
        BY <3>2, <4>1
      <4> QED BY <3>1, <4>3, <4>4, <4>5
    <3> QED BY <3>3, <3>4, <3>5
  <2> QED BY <1>9, <1>10, <1>12, <2>2
<1>16. b \in 0 .. Len(file) - Len(pre)
  BY <1>9, <1>10, <1>12
<1>17. b \in {n \in 0 .. Len(file) - Len(pre) :
                /\ SubSeq(file, n + 1, n + Len(pre)) = pre
                /\ p.old <= 1 => n = 0
                /\ p.body[Len(p.body)].mark # "both" => n = Len(file) - Len(pre)}
  BY <1>13, <1>14, <1>15, <1>16
<1>18. b \in Matches(p, file)
  BY <1>8, <1>17, Zenon DEF Matches
<1> QED BY <1>7, <1>18 DEF p

-----------------------------------------------------------------------------
(* What applying a patch does, if no line is there twice. *)

\* The patch for k, if it matches the lines P of s, makes them Q.
Turns(s, P, k, Q, t) ==
  /\ s[k].mark = "new" => k \notin P /\ Q = P \cup {k}
  /\ s[k].mark = "old" => k \in P /\ Q = P \ {k}
  /\ New(t) = LinesAt(s, Q)

\* And P has the annotations of its hunk that come before k as the agent left them.
EarlierDone(s, P, k) ==
  \A i \in Hunk(s, k) : IsPf(s, i) /\ i < k => (i \in P <=> s[i].mark = "new")

\* Where it matches, in terms of P.
MatchFacts(s, P, k, p, L, x, n, lo) ==
  /\ Shows(p, s, k, L, x) /\ Aligned(P, L, n)
  /\ s[k].mark = "new" => Cut(P, k, n + x - 1) /\ k \notin P
  /\ s[k].mark = "old" => n + x \in 1 .. Cardinality(P) /\ InOrder(P)[n + x] = k /\ k \in P
  /\ n = 0 \/ (lo \in L /\ \A j \in L : lo <= j)

\* A match is where the hunk is, whatever the line number in its header.
LEMMA MatchGives ==
  ASSUME NEW s \in Seq(Marked), DistinctIn(s), NEW P \in SUBSET (1 .. Len(s)),
         NEW k \in 1 .. Len(s), IsPf(s, k), NEW p, p = PatchFor(s, k),
         NEW lo \in Nat, NEW hi \in Nat, Around(s, k, lo, hi),
         NEW L, L = ShownLines(s, k), NEW x \in Nat, Shows(p, s, k, L, x),
         NEW n \in Matches(p, LinesAt(s, P))
  PROVE  MatchFacts(s, P, k, p, L, x, n, lo)
<1> DEFINE N == Len(s)
           c == Cardinality(L)
<1>1. N \in Nat
  BY ScriptFacts
<1>2. /\ Aligned(P, L, n)
      /\ p.old <= 1 => n = 0
      /\ x = Len(p.body) => n = Cardinality(P) - c
  BY MatchIs
<1>3. /\ x \in Nat \ {0} /\ L \in SUBSET (1 .. N)
      /\ s[k].mark = "new" => Cut(L, k, x - 1) /\ k \notin L /\ Len(p.body) = c + 1
      /\ s[k].mark = "old" => x \in 1 .. c /\ InOrder(L)[x] = k
  BY DEF Shows
<1>4. /\ lo \in Nat \ {0}
      /\ p.old <= 1 <=> lo = 1
      /\ L \in SUBSET (lo .. hi)
      /\ lo # 1 => lo \in L /\ lo < k
  BY DEF Around
<1> HIDE DEF N, c
<1>5. n \in Nat /\ c \in Nat
  BY <1>2 DEF Aligned, c
<1>6. ASSUME s[k].mark = "new" PROVE Cut(P, k, n + x - 1) /\ k \notin P
  <2>1. PICK d : d = x - 1
    OBVIOUS
  <2>2. PICK e : e = n + d
    OBVIOUS
  <2>3. Cut(L, k, d)
    BY <1>3, <1>6, <2>1
  <2>4. d = 0 => n = 0
    <3> SUFFICES ASSUME d = 0, lo # 1 PROVE FALSE
      BY <1>2, <1>4
    <3>1. PICK y \in 1 .. c : InOrder(L)[y] = lo
      BY <1>1, <1>3, <1>4, ListOf DEF c
    <3>2. y \in d + 1 .. c
      BY <1>5, <3>1
    <3>3. k < lo
      BY <2>3, <3>1, <3>2 DEF Cut, c
    <3>4. k \in Int /\ lo < k
      BY <1>1, <1>4 DEF N
    <3> QED BY <1>4, <3>3, <3>4
  <2>5. d = c => n = Cardinality(P) - c
    <3>1. d = c => x = c + 1
      BY <1>3, <1>5, <2>1
    <3> QED BY <1>2, <1>3, <1>6, <3>1
  <2>6. Cut(P, k, e) /\ k \notin P
    <3>1. d = Cardinality(L) => n = Cardinality(P) - Cardinality(L)
      BY <2>5 DEF c
    <3>2. N \in Nat /\ P \in SUBSET (1 .. N) /\ L \in SUBSET (1 .. N) /\ k \in 1 .. N /\ Aligned(P, L, n)
      BY <1>1, <1>2, <1>3 DEF N
    <3>3. n \in Nat /\ d \in Int
      BY <1>3, <1>5, <2>1
    <3>4. CutNew(P, k, e)
      BY <2>2, <2>3, <2>4, <3>1, <3>2, <3>3, AlignedCut
    <3> QED BY <3>4 DEF CutNew
  <2>7. e = n + x - 1
    BY <1>3, <1>5, <2>1, <2>2
  <2> QED BY <2>6, <2>7
<1>7. ASSUME s[k].mark = "old" PROVE n + x \in 1 .. Cardinality(P) /\ InOrder(P)[n + x] = k /\ k \in P
  <2>1. x \in 1 .. c /\ InOrder(L)[x] = k
    BY <1>3, <1>7
  <2>2. N \in Nat /\ P \in SUBSET (1 .. N) /\ L \in SUBSET (1 .. N) /\ Aligned(P, L, n)
    BY <1>1, <1>2, <1>3 DEF N
  <2>3. x \in 1 .. Cardinality(L)
    BY <2>1 DEF c
  <2>5. PICK z : z = n + x
    OBVIOUS
  <2>6. FoundIn(P, L, x, z)
    BY <2>2, <2>3, <2>5, AlignedIn
  <2>4. n + x \in 1 .. Cardinality(P) /\ InOrder(P)[n + x] = InOrder(L)[x] /\ InOrder(L)[x] \in P
    BY <2>5, <2>6 DEF FoundIn
  <2> QED BY <2>1, <2>4
<1>8. n = 0 \/ (lo \in L /\ \A j \in L : lo <= j)
  <2>1. lo # 1 => lo \in L
    BY <1>4
  <2>2. \A j \in L : lo <= j
    BY <1>4
  <2>3. lo = 1 => n = 0
    BY <1>2, <1>4
  <2> QED BY <2>1, <2>2, <2>3
<1> QED BY <1>2, <1>6, <1>7, <1>8 DEF MatchFacts

\* So applying the patch makes its own change only.
LEMMA AppliesSo ==
  ASSUME NEW s \in Seq(Marked), DistinctIn(s), NEW P \in SUBSET (1 .. Len(s)),
         NEW k \in 1 .. Len(s), IsPf(s, k), NEW p, p = PatchFor(s, k),
         NEW v \in Seq(Marked), NEW file, file = New(v), file = LinesAt(s, P), Matches(p, file) # {},
         NEW Q, Q = IF s[k].mark = "new" THEN P \cup {k} ELSE P \ {k}
  PROVE  Turns(s, P, k, Q, AppliedTo(p, v))
<1>1. s[k].mark = "new" \/ s[k].mark = "old"
  BY ScriptFacts DEF IsPf
<1>2. PICK lo \in Nat, hi \in Nat : Around(s, k, lo, hi)
  BY HunkAround
<1>3. PICK L : L = ShownLines(s, k)
  OBVIOUS
<1>4. PICK x \in Nat : Shows(p, s, k, L, x)
  BY <1>3, PatchShows
<1>5. p \in Patch /\ ChangesLine(p, x) /\ x \in Nat \ {0} /\ p.body[x] = s[k]
  BY <1>4 DEF Shows
<1>6. PICK n : n = Place(p, file)
  OBVIOUS
<1>7. n \in Matches(p, file) /\ n \in Nat
  <2>1. file \in Seq(Lines)
    BY LinesAtOK
  <2> QED BY <1>5, <1>6, <2>1, PlaceOK
<1>8. MatchFacts(s, P, k, p, L, x, n, lo)
  BY <1>2, <1>3, <1>4, <1>7, MatchGives
<1>9. AppliedTo(p, v) = IF p.body[x].mark = "new"
                        THEN Added(v, Place(p, New(v)) + x - 1, p.body[x].line)
                        ELSE Deleted(v, Place(p, New(v)) + x - 1 + 1)
  BY <1>5, AppliedAs
<1>10. CASE s[k].mark = "new"
  <2>1. PICK t : t = n + x - 1
    OBVIOUS
  <2>2. Cut(P, k, t) /\ k \notin P
    BY <1>8, <1>10, <2>1 DEF MatchFacts
  <2>3. AppliedTo(p, v) = Added(v, t, s[k].line)
    BY <1>5, <1>6, <1>9, <1>10, <2>1
  <2>4. New(AppliedTo(p, v)) = LinesAt(s, P \cup {k})
    <3>1. New(v) = LinesAt(s, P)
      OBVIOUS
    <3>2. New(Added(v, t, s[k].line)) = LinesAt(s, P \cup {k})
      BY <2>2, <3>1, AddedPart
    <3> QED BY <2>3, <3>2
  <2> QED BY <1>10, <2>2, <2>4 DEF Turns
<1>11. CASE s[k].mark = "old"
  <2>1. PICK t : t = n + x
    OBVIOUS
  <2>2. t \in 1 .. Cardinality(P) /\ InOrder(P)[t] = k /\ k \in P
    BY <1>8, <1>11, <2>1 DEF MatchFacts
  <2>3. n + x - 1 + 1 = t
    BY <1>5, <1>7, <2>1
  <2>4. AppliedTo(p, v) = Deleted(v, t)
    BY <1>5, <1>6, <1>9, <1>11, <2>3
  <2>5. New(AppliedTo(p, v)) = LinesAt(s, P \ {k})
    <3>1. New(v) = LinesAt(s, P)
      OBVIOUS
    <3>2. New(Deleted(v, t)) = LinesAt(s, P \ {k})
      BY <2>2, <3>1, DeletedPart
    <3> QED BY <2>4, <3>2
  <2> QED BY <1>11, <2>2, <2>5 DEF Turns
<1> QED BY <1>1, <1>10, <1>11

\* So it matches only if the earlier annotations of its hunk are made.
LEMMA MatchEarlier ==
  ASSUME NEW s \in Seq(Marked), DistinctIn(s), NEW P \in SUBSET (1 .. Len(s)),
         NEW k \in 1 .. Len(s), IsPf(s, k), NEW p, p = PatchFor(s, k),
         Matches(p, LinesAt(s, P)) # {}
  PROVE  EarlierDone(s, P, k)
<1> DEFINE N == Len(s)
<1>1. N \in Nat
  BY ScriptFacts
<1>2. PICK lo \in Nat, hi \in Nat : Around(s, k, lo, hi)
  BY HunkAround
<1>3. PICK L : L = ShownLines(s, k)
  OBVIOUS
<1>4. PICK x \in Nat : Shows(p, s, k, L, x)
  BY <1>3, PatchShows
<1>5. PICK n : n \in Matches(p, LinesAt(s, P))
  OBVIOUS
<1>6. MatchFacts(s, P, k, p, L, x, n, lo)
  BY <1>2, <1>3, <1>4, <1>5, MatchGives
<1> DEFINE M == Cardinality(P)
           c == Cardinality(L)
<1>7. /\ Aligned(P, L, n) /\ c \in Nat /\ M \in Nat /\ n \in Nat
      /\ s[k].mark = "new" => Cut(P, k, n + x - 1)
      /\ s[k].mark = "old" => n + x \in 1 .. M /\ InOrder(P)[n + x] = k
      /\ n = 0 \/ (lo \in L /\ \A j \in L : lo <= j)
  BY <1>6 DEF MatchFacts, Aligned
<1>8. /\ L \in SUBSET (1 .. N) /\ x \in Nat \ {0}
      /\ s[k].mark = "new" => Cut(L, k, x - 1)
      /\ s[k].mark = "old" => x \in 1 .. c
  BY <1>4 DEF Shows
<1>9. s[k].mark = "new" \/ s[k].mark = "old"
  BY ScriptFacts DEF IsPf
<1>10. Hunk(s, k) = lo .. hi /\ k \in Int
  BY <1>1, <1>2 DEF Around, IsHunk
<1> HIDE DEF N, M, c
<1>11. ASSUME NEW i \in Hunk(s, k), IsPf(s, i), i < k, s[i].mark = "new" PROVE i \in P
  <2>1. i \in Int /\ i # k
    BY <1>10, <1>11
  <2>2. i \in L
    BY <1>3, <1>11, <2>1 DEF ShownLines, Kept
  <2>3. PICK y \in 1 .. c : InOrder(L)[y] = i
    BY <1>1, <1>8, <2>2, ListOf DEF c
  <2>4. PICK z : z = n + y
    OBVIOUS
  <2>5. FoundIn(P, L, y, z)
    BY <1>1, <1>7, <1>8, <2>3, <2>4, AlignedIn DEF N, c
  <2> QED BY <2>3, <2>5 DEF FoundIn
<1>12. ASSUME NEW i \in Hunk(s, k), IsPf(s, i), i < k, s[i].mark # "new" PROVE i \notin P
  <2> SUFFICES ASSUME i \in P PROVE FALSE
    OBVIOUS
  <2>1. i \in Int /\ i # k /\ lo <= i
    BY <1>10, <1>12
  <2>2. i \notin L
    BY <1>3, <1>12, <2>1 DEF ShownLines, Kept, IsPf
  <2>3. PICK z \in 1 .. M : InOrder(P)[z] = i
    BY <1>1, ListOf DEF M, N
  <2>4. z <= n + c
    <3>1. CASE s[k].mark = "new"
      <4>1. PICK t : t = n + x - 1
        OBVIOUS
      <4>2. Cut(P, k, t)
        BY <1>7, <3>1, <4>1
      <4>3. z \in t + 1 .. M => k < i
        BY <2>3, <4>2 DEF Cut, M
      <4>4. x - 1 \in 0 .. c
        BY <1>8, <3>1 DEF Cut, c
      <4>5. ~ (z \in t + 1 .. M)
        BY <1>10, <1>12, <2>1, <4>3
      <4> QED BY <1>7, <1>8, <4>1, <4>4, <4>5
    <3>2. CASE s[k].mark = "old"
      <4>1. PICK t : t = n + x
        OBVIOUS
      <4>2. t \in 1 .. M /\ InOrder(P)[t] = k /\ x \in 1 .. c
        BY <1>7, <1>8, <3>2, <4>1
      <4>3. t < z => InOrder(P)[t] < InOrder(P)[z]
        BY <1>1, <4>2, ListOf DEF M, N
      <4>4. ~ (t < z)
        BY <1>10, <1>12, <2>1, <2>3, <4>2, <4>3
      <4> QED BY <1>7, <4>1, <4>2, <4>4
    <3> QED BY <1>9, <3>1, <3>2
  <2>5. i \in L
    BY <1>1, <1>7, <1>8, <2>1, <2>3, <2>4, AlignedBetween DEF N, M, c
  <2> QED BY <2>2, <2>5
<1> QED BY <1>11, <1>12 DEF EarlierDone

\* A change that is in the hunk of an earlier one has that one in its own.
LEMMA HunkBack ==
  ASSUME NEW s \in Seq(Marked), NEW k \in Changed(s), NEW i \in Changed(s), k < i, i \in Hunk(s, k)
  PROVE  k \in Hunk(s, i)
<1> DEFINE X == Changed(s)
<1>1. X \in SUBSET Nat /\ k \in DOMAIN s /\ k \in X /\ i \in X
  BY ScriptFacts DEF Changed
<1>2. Context \in Nat /\ Context >= 1
  BY DiffAssumption
<1>3. PICK c, d \in X : /\ c - Context <= i /\ i <= d + Context
                        /\ StartsHunk(s, c) /\ c <= k /\ c <= d
                        /\ \A e \in X : StartsHunk(s, e) => e <= c \/ (k < e /\ d < e)
  BY DEF Hunk
<1>4. ASSUME NEW e \in X, StartsHunk(s, e), ~ (e <= c) PROVE i < e /\ k < e
  <2>1. k < e /\ d < e
    BY <1>3, <1>4
  <2>2. e - d > 2 * Context + 1
    BY <1>4, <2>1 DEF StartsHunk
  <2>3. e \in Nat /\ d \in Nat /\ i \in Nat
    BY <1>1
  <2> HIDE DEF X
  <2> QED BY <1>2, <1>3, <2>1, <2>2, <2>3
<1> HIDE DEF X
<1>5. c \in Nat /\ k \in Nat /\ i \in Nat
  BY <1>1
<1>6. c - Context <= k /\ k <= k + Context /\ c <= i
  BY <1>2, <1>3, <1>5
<1>7. \A e \in X : StartsHunk(s, e) => e <= c \/ (i < e /\ k < e)
  BY <1>4
<1>8. c \in X /\ StartsHunk(s, c) /\ c <= k
  BY <1>3
<1> QED BY <1>1, <1>6, <1>7, <1>8 DEF Hunk, X

-----------------------------------------------------------------------------
(* One patch more. *)

\* The lines of the patches D of s, and the lines that the file has when D are done.
OfPatches(s, D) == {InOrder(PfLines(s))[n] : n \in D}
After(s, D) ==
  {i \in 1 .. Len(s) : \/ s[i].mark = "both"
                       \/ s[i].mark = "old" /\ i \notin OfPatches(s, D)
                       \/ s[i].mark = "new" /\ i \in OfPatches(s, D)}

\* What was there is, and a patch is of one annotation.
IsPatchOf(s, n, k) ==
  /\ k = InOrder(PfLines(s))[n] /\ k \in 1 .. Len(s) /\ IsPf(s, k)
  /\ \A j \in 1 .. Cardinality(PfLines(s)) :
       /\ InOrder(PfLines(s))[j] = k => j = n
       /\ InOrder(PfLines(s))[j] < k <=> j < n
       /\ InOrder(PfLines(s))[j] \in 1 .. Len(s) /\ IsPf(s, InOrder(PfLines(s))[j])

\* The patch numbered n is that of the n-th annotation.
LEMMA PatchOf ==
  ASSUME NEW s \in Seq(Marked), NEW n \in 1 .. Cardinality(PfLines(s)),
         NEW k, k = InOrder(PfLines(s))[n]
  PROVE  IsPatchOf(s, n, k)
<1> DEFINE N == Len(s)
           A == PfLines(s)
           m == Cardinality(A)
           q == InOrder(A)
<1>1. N \in Nat /\ DOMAIN s = 1 .. N
  BY ScriptFacts
<1>2. A \in SUBSET (1 .. N) /\ \A i \in A : IsPf(s, i)
  BY <1>1 DEF PfLines
<1> HIDE DEF N, A
<1>3. /\ m \in Nat /\ q \in [1 .. m -> A]
      /\ \A x, y \in 1 .. m : x < y => q[x] < q[y]
  BY <1>1, <1>2, ListOf
<1>4. n \in 1 .. m /\ k = q[n]
  BY DEF A
<1> HIDE DEF m, q
<1>5. \A i \in A : i \in Int
  BY <1>1, <1>2
<1>6. ASSUME NEW j \in 1 .. m
      PROVE  /\ q[j] = k => j = n
             /\ q[j] < k <=> j < n
             /\ q[j] \in 1 .. N /\ IsPf(s, q[j])
  <2>1. q[j] \in A /\ q[n] \in A
    BY <1>3, <1>4
  <2>2. q[j] \in Int /\ q[n] \in Int
    BY <1>5, <2>1
  <2>3. j < n \/ n < j \/ j = n
    BY <1>3, <1>4
  <2>4. (j < n => q[j] < q[n]) /\ (n < j => q[n] < q[j])
    BY <1>3, <1>4
  <2>5. j \in Int /\ n \in Int
    BY <1>3, <1>4
  <2>6. (q[j] = k => j = n) /\ (q[j] < k <=> j < n)
    BY <1>4, <2>2, <2>3, <2>4, <2>5
  <2> QED BY <1>2, <2>1, <2>6
<1>7. k \in 1 .. N /\ IsPf(s, k)
  BY <1>4, <1>6
<1> QED BY <1>4, <1>6, <1>7 DEF IsPatchOf, N, A, m, q

\* The patches before n that are of its hunk.
HunkDone(s, n, D) ==
  \A j \in 1 .. Cardinality(PfLines(s)) :
    j < n /\ InOrder(PfLines(s))[j] \in Hunk(s, InOrder(PfLines(s))[n]) => j \in D

Steps(s, n, D, t) ==
  n \notin D /\ HunkDone(s, n, D) /\ New(t) = LinesAt(s, After(s, D \cup {n}))

\* A patch that applies has the earlier ones of its hunk done, and adds its own change.
LEMMA StepDone ==
  ASSUME NEW s \in Seq(Marked), DistinctIn(s), NEW n \in 1 .. Cardinality(PfLines(s)),
         NEW D \in SUBSET (1 .. Cardinality(PfLines(s))),
         NEW v \in Seq(Marked), New(v) = LinesAt(s, After(s, D)),
         NEW p, p = PatchFor(s, InOrder(PfLines(s))[n]), Matches(p, New(v)) # {}
  PROVE  Steps(s, n, D, AppliedTo(p, v))
<1> DEFINE N == Len(s)
           m == Cardinality(PfLines(s))
           q == InOrder(PfLines(s))
<1>1. PICK k : k = q[n]
  OBVIOUS
<1>2. PICK P : P = After(s, D)
  OBVIOUS
<1>3. PICK E : E = D \cup {n}
  OBVIOUS
<1>4. IsPatchOf(s, n, k)
  BY <1>1, PatchOf
<1> DEFINE A == OfPatches(s, D)
           B == OfPatches(s, E)
           R == After(s, E)
<1>5. k \in 1 .. N /\ IsPf(s, k) /\ (\A j \in D : q[j] = k => j = n)
  BY <1>4 DEF IsPatchOf
<1>6. s[k].mark = "new" \/ s[k].mark = "old"
  BY <1>5, ScriptFacts DEF IsPf
<1>7. /\ P \in SUBSET (1 .. N)
      /\ \A i \in 1 .. N : i \in P <=> \/ s[i].mark = "both"
                                       \/ s[i].mark = "old" /\ i \notin A
                                       \/ s[i].mark = "new" /\ i \in A
  BY <1>2 DEF After
<1>8. /\ R \in SUBSET (1 .. N)
      /\ \A i \in 1 .. N : i \in R <=> \/ s[i].mark = "both"
                                       \/ s[i].mark = "old" /\ i \notin B
                                       \/ s[i].mark = "new" /\ i \in B
  BY DEF After
<1>9. B = A \cup {k}
  BY <1>1, <1>3 DEF OfPatches
<1>10. k \in A <=> n \in D
  BY <1>1, <1>5 DEF OfPatches
<1> DEFINE Q == IF s[k].mark = "new" THEN P \cup {k} ELSE P \ {k}
<1>11. Turns(s, P, k, Q, AppliedTo(p, v))
  <2>1. PICK file : file = New(v)
    OBVIOUS
  <2>2. file = LinesAt(s, P) /\ Matches(p, file) # {} /\ p = PatchFor(s, k)
    BY <1>1, <1>2, <2>1
  <2> HIDE DEF N
  <2> QED BY <1>5, <1>7, <2>1, <2>2, AppliesSo DEF N
<1>12. /\ s[k].mark = "new" => k \notin P
       /\ s[k].mark = "old" => k \in P
       /\ New(AppliedTo(p, v)) = LinesAt(s, Q)
  BY <1>11 DEF Turns
<1>13. EarlierDone(s, P, k)
  <2>1. Matches(p, LinesAt(s, P)) # {} /\ p = PatchFor(s, k)
    BY <1>1, <1>2
  <2> QED BY <1>5, <1>7, <2>1, MatchEarlier
<1> HIDE DEF A, B, R, Q, N
<1>14. n \notin D
  BY <1>5, <1>6, <1>7, <1>10, <1>12
<1>15. Q = R
  <2>1. ASSUME NEW i \in 1 .. N PROVE i \in Q <=> i \in R
    <3>1. CASE i = k
      <4>1. i \in B
        BY <1>9, <3>1
      <4> QED BY <1>6, <1>8, <3>1, <4>1 DEF Q
    <3>2. CASE i # k
      <4>1. i \in B <=> i \in A
        BY <1>9, <3>2
      <4>2. i \in Q <=> i \in P
        BY <3>2 DEF Q
      <4> QED BY <1>7, <1>8, <4>1, <4>2
    <3> QED BY <3>1, <3>2
  <2>2. Q \in SUBSET (1 .. N)
    BY <1>5, <1>7 DEF Q
  <2> QED BY <1>8, <2>1, <2>2
<1>16. HunkDone(s, n, D)
  <2> SUFFICES ASSUME NEW j \in 1 .. m, j < n, q[j] \in Hunk(s, k) PROVE j \in D
    BY <1>1 DEF HunkDone
  <2>1. PICK i : i = q[j]
    OBVIOUS
  <2>2. i < k /\ i \in 1 .. N /\ IsPf(s, i)
    BY <1>4, <2>1 DEF IsPatchOf, N
  <2>3. i \in P <=> s[i].mark = "new"
    BY <1>13, <2>1, <2>2 DEF EarlierDone
  <2>4. s[i].mark = "new" \/ s[i].mark = "old"
    BY <2>2, ScriptFacts DEF IsPf, N
  <2>5. i \in A
    BY <1>7, <2>2, <2>3, <2>4
  <2>6. PICK x \in D : q[x] = i
    BY <2>5 DEF A, OfPatches
  <2>7. IsPatchOf(s, j, i)
    BY <2>1, PatchOf
  <2>8. x = j
    BY <2>6, <2>7 DEF IsPatchOf
  <2> QED BY <2>6, <2>8
<1> QED BY <1>3, <1>12, <1>14, <1>15, <1>16 DEF Steps, R

\* A patch that does not match shows its hunk without a line that is still there, or
\* with another of its annotations in another state.
LeavesOut(s, k) ==
  \E i \in Hunk(s, k) : s[i].mark = "old" /\ ~ (s[i].line \in Annotations /\ i <= k)

\* In the hunk of n an earlier patch is not done, or a later one is.
OutOfOrder(s, n, D) ==
  \E j \in 1 .. Cardinality(PfLines(s)) :
    /\ InOrder(PfLines(s))[j] \in Hunk(s, InOrder(PfLines(s))[n])
    /\ (j < n /\ j \notin D) \/ (n < j /\ j \in D)

\* If no line is left out, that is the only reason for not matching.
LEMMA MatchFails ==
  ASSUME NEW s \in Seq(Marked), NEW n \in 1 .. Cardinality(PfLines(s)),
         NEW D \in SUBSET (1 .. Cardinality(PfLines(s))), n \notin D,
         NEW k, k = InOrder(PfLines(s))[n],
         Matches(PatchFor(s, k), LinesAt(s, After(s, D))) = {}, ~ LeavesOut(s, k)
  PROVE  OutOfOrder(s, n, D)
<1> DEFINE N == Len(s)
           m == Cardinality(PfLines(s))
           q == InOrder(PfLines(s))
           A == OfPatches(s, D)
<1>1. PICK P : P = After(s, D)
  OBVIOUS
<1>2. PICK L : L = ShownLines(s, k)
  OBVIOUS
<1>3. IsPatchOf(s, n, k)
  BY PatchOf
<1>4. k \in 1 .. N /\ IsPf(s, k) /\ (\A j \in D : q[j] = k => j = n)
  BY <1>3 DEF IsPatchOf
<1>5. s[k].mark = "new" \/ s[k].mark = "old"
  BY <1>4, ScriptFacts DEF IsPf
<1>6. /\ P \in SUBSET (1 .. N)
      /\ \A i \in 1 .. N : i \in P <=> \/ s[i].mark = "both"
                                       \/ s[i].mark = "old" /\ i \notin A
                                       \/ s[i].mark = "new" /\ i \in A
  BY <1>1 DEF After
<1>7. k \notin A
  BY <1>4 DEF OfPatches
<1>8. PICK lo \in Nat, hi \in Nat : Around(s, k, lo, hi)
  BY <1>4, HunkAround
<1>9. N \in Nat /\ DOMAIN s = 1 .. N
  BY ScriptFacts
<1>10. Hunk(s, k) = lo .. hi /\ lo \in Nat \ {0} /\ hi \in 1 .. N /\ L \in SUBSET (lo .. hi)
  BY <1>2, <1>8 DEF Around, IsHunk
<1> SUFFICES ASSUME ~ OutOfOrder(s, n, D) PROVE FALSE
  OBVIOUS
<1> HIDE DEF N, A
<1>11. ASSUME NEW j \in 1 .. m, q[j] \in Hunk(s, k) PROVE (j < n => j \in D) /\ (n < j => j \notin D)
  BY <1>11 DEF OutOfOrder
<1>12. \A i \in Hunk(s, k) : i \in L <=>
         /\ s[i].mark = "both" \/ i = k \/ (IsPf(s, i) /\ i < k /\ s[i].mark = "new")
         /\ s[k].mark = "new" => i # k
  BY <1>2 DEF ShownLines, Kept
<1>13. \A i \in Hunk(s, k) : s[i].mark = "old" => s[i].line \in Annotations /\ i <= k
  BY DEF LeavesOut
<1>14. \A i \in 1 .. N : s[i].mark \in {"both", "old", "new"}
  BY ScriptFacts DEF N
<1>15. ASSUME NEW i \in Hunk(s, k), i \in 1 .. N, IsPf(s, i), i # k
       PROVE  i \in Int /\ (i < k => i \in A) /\ (k < i => i \notin A) /\ (i < k \/ k < i)
  <2>1. i \in Int /\ k \in Int
    BY <1>4, <1>9, <1>15
  <2>2. PfLines(s) \in SUBSET (1 .. N) /\ i \in PfLines(s)
    BY <1>9, <1>15 DEF PfLines
  <2>3. PICK j \in 1 .. m : q[j] = i
    BY <1>9, <2>2, ListOf
  <2>4. (i < k <=> j < n) /\ (j = n => i = k)
    BY <1>3, <2>3 DEF IsPatchOf
  <2>5. (j < n => j \in D) /\ (n < j => j \notin D)
    BY <1>11, <1>15, <2>3
  <2>6. j \in D => i \in A
    BY <2>3 DEF A, OfPatches
  <2>7. i \in A => j \in D
    <3> SUFFICES ASSUME i \in A PROVE j \in D
      OBVIOUS
    <3>1. PICK x \in D : q[x] = i
      BY DEF A, OfPatches
    <3>2. IsPatchOf(s, j, i)
      BY <2>3, PatchOf
    <3>3. x = j
      BY <3>1, <3>2 DEF IsPatchOf
    <3> QED BY <3>1, <3>3
  <2>8. j \in Int /\ n \in Int
    <3>1. m \in Nat
      BY SplitOK
    <3> QED BY <3>1
  <2>9. j < n \/ n < j
    BY <1>15, <2>4, <2>8
  <2> HIDE DEF m, q
  <2>10. k < i => n < j
    BY <2>1, <2>4, <2>9
  <2> QED BY <1>15, <2>1, <2>4, <2>5, <2>6, <2>7, <2>10
<1>16. ASSUME NEW i \in Hunk(s, k), i \in 1 .. N PROVE i \in P <=> i \in L
  <2>1. CASE s[i].mark = "both"
    <3>1. i # k
      BY <1>5, <2>1
    <3> QED BY <1>6, <1>12, <1>16, <2>1, <3>1
  <2>2. CASE i = k
    BY <1>5, <1>6, <1>7, <1>12, <1>16, <2>2
  <2>3. CASE s[i].mark # "both" /\ i # k /\ IsPf(s, i)
    <3>1. (i < k => i \in A) /\ (k < i => i \notin A) /\ (i < k \/ k < i) /\ i \in Int /\ k \in Int
      <4>1. k \in Int
        BY <1>4, <1>9
      <4> QED BY <1>15, <1>16, <2>3, <4>1
    <3>2. s[i].mark = "new" \/ s[i].mark = "old"
      BY <1>14, <1>16, <2>3
    <3>3. CASE s[i].mark = "new"
      <4>1. i \in P <=> i \in A
        BY <1>6, <1>16, <3>3
      <4>2. i \in L <=> i < k
        BY <1>12, <2>3, <3>3
      <4>3. ~ (i < k /\ k < i)
        BY <3>1
      <4> QED BY <3>1, <4>1, <4>2, <4>3
    <3>4. CASE s[i].mark = "old"
      <4>1. i \in P <=> i \notin A
        BY <1>6, <1>16, <3>4
      <4>2. i \notin L
        BY <1>12, <2>3, <3>4
      <4>3. i <= k
        BY <1>13, <3>4
      <4>4. i < k
        BY <2>3, <3>1, <4>3
      <4> QED BY <3>1, <4>1, <4>2, <4>4
    <3> QED BY <3>2, <3>3, <3>4
  <2>4. CASE s[i].mark # "both" /\ ~ IsPf(s, i)
    <3>1. s[i].line \notin Annotations /\ i # k
      BY <1>4, <2>4 DEF IsPf
    <3>2. s[i].mark = "new"
      BY <1>13, <1>14, <1>16, <2>4, <3>1
    <3>3. i \notin A
      <4> SUFFICES ASSUME i \in A PROVE FALSE
        OBVIOUS
      <4>1. PICK x \in D : q[x] = i
        BY DEF A, OfPatches
      <4>2. IsPf(s, i)
        BY <1>3, <4>1 DEF IsPatchOf
      <4> QED BY <2>4, <4>2
    <3>4. i \notin P
      BY <1>6, <1>16, <3>2, <3>3
    <3>5. i \notin L
      BY <1>12, <2>4, <3>1
    <3> QED BY <3>4, <3>5
  <2> QED BY <2>1, <2>2, <2>3, <2>4
<1>17. P \cap (lo .. hi) = L
  <2>1. \A i \in lo .. hi : i \in 1 .. N
    BY <1>9, <1>10
  <2>2. \A i \in lo .. hi : i \in P <=> i \in L
    BY <1>10, <1>16, <2>1
  <2> QED BY <1>10, <2>2
<1>18. Matches(PatchFor(s, k), LinesAt(s, P)) # {}
  BY <1>2, <1>4, <1>6, <1>8, <1>17, MatchesSo DEF N
<1> QED BY <1>1, <1>18

-----------------------------------------------------------------------------
(* The invariant: what the file has of the saved changes, and why.            *)

\* Patches that are done with the earlier ones of their hunks.
HunksDone(s, D) == \A n \in D : HunkDone(s, n, D)

LEMMA OneMoreDone ==
  ASSUME NEW s, NEW D, HunksDone(s, D), NEW n, HunkDone(s, n, D)
  PROVE  HunksDone(s, D \cup {n})
  BY DEF HunksDone, HunkDone

\* What the file has before any patch.
LEMMA NoneDone ==
  ASSUME NEW s \in Seq(Marked)
  PROVE  New(Unchanged(Old(s))) = LinesAt(s, After(s, {}))
<1>1. PICK file : file = Old(s)
  OBVIOUS
<1>2. file \in Seq(Lines)
  BY <1>1, FilesOK
<1>3. New(Unchanged(file)) = file
  BY <1>2, NewUnchanged
<1>4. OfPatches(s, {}) = {}
  BY DEF OfPatches
<1>5. \A i \in 1 .. Len(s) : s[i].mark \in {"both", "old", "new"} /\ DOMAIN s = 1 .. Len(s)
  BY ScriptFacts
<1>6. DOMAIN s = 1 .. Len(s)
  BY ScriptFacts
<1>7. OldLines(s) = After(s, {})
  <2>1. \A i \in 1 .. Len(s) : i \in OldLines(s) <=> i \in After(s, {})
    BY <1>4, <1>5, <1>6 DEF OldLines, After
  <2>2. OldLines(s) \in SUBSET (1 .. Len(s)) /\ After(s, {}) \in SUBSET (1 .. Len(s))
    BY <1>6 DEF OldLines, After
  <2> QED BY <2>1, <2>2
<1> QED BY <1>1, <1>3, <1>7 DEF Old

\* What it has after all.
Remaining(s) == {i \in DOMAIN s : IF s[i].line \in Annotations THEN s[i].mark # "old" ELSE s[i].mark # "new"}

LEMMA AllDone ==
  ASSUME NEW s \in Seq(Marked), NEW D, D = 1 .. Cardinality(PfLines(s))
  PROVE  LinesAt(s, After(s, D)) = LinesAt(s, Remaining(s))
<1> DEFINE N == Len(s)
           A == PfLines(s)
           m == Cardinality(A)
           W == {i \in DOMAIN s : IF s[i].line \in Annotations THEN s[i].mark # "old" ELSE s[i].mark # "new"}
<1>1. N \in Nat /\ DOMAIN s = 1 .. N
  BY ScriptFacts
<1>2. \A i \in 1 .. N : s[i].mark \in {"both", "old", "new"}
  BY ScriptFacts
<1>3. A \in SUBSET (1 .. N) /\ \A i \in 1 .. N : i \in A <=> s[i].mark # "both" /\ s[i].line \in Annotations
  BY <1>1 DEF PfLines, IsPf
<1> HIDE DEF N, A
<1>4. /\ InOrder(A) \in [1 .. m -> A]
      /\ \A i \in A : \E n \in 1 .. m : InOrder(A)[n] = i
  BY <1>1, <1>3, ListOf
<1>5. OfPatches(s, D) = A
  <2>1. OfPatches(s, D) = {InOrder(A)[n] : n \in 1 .. m}
    BY DEF OfPatches, A
  <2> HIDE DEF m
  <2> QED BY <1>4, <2>1
<1>6. After(s, D) = W
  <2>1. W \in SUBSET (1 .. N) /\ After(s, D) \in SUBSET (1 .. N)
    BY <1>1 DEF After, N
  <2>2. ASSUME NEW i \in 1 .. N PROVE i \in After(s, D) <=> i \in W
    <3>1. i \in After(s, D) <=> \/ s[i].mark = "both"
                                \/ s[i].mark = "old" /\ i \notin A
                                \/ s[i].mark = "new" /\ i \in A
      BY <1>5 DEF After, N
    <3>2. i \in W <=> IF s[i].line \in Annotations THEN s[i].mark # "old" ELSE s[i].mark # "new"
      BY <1>1
    <3>3. s[i].mark \in {"both", "old", "new"} /\ (i \in A <=> s[i].mark # "both" /\ s[i].line \in Annotations)
      BY <1>2, <1>3
    <3> HIDE DEF W
    <3> QED BY <3>1, <3>2, <3>3
  <2> HIDE DEF W
  <2> QED BY <2>1, <2>2
<1> QED BY <1>6 DEF Remaining

\* Why a patch is refused that was not accepted: a are accepted, R refused before it.
LEMMA RefusedBecause ==
  ASSUME NEW s \in Seq(Marked), NEW n \in 1 .. Cardinality(PfLines(s)),
         NEW a \in SUBSET (1 .. Cardinality(PfLines(s))), HunksDone(s, a), n \notin a,
         NEW R, NEW x \in Nat, n = x + 1, NEW D, D = a \cup ((1 .. x) \ R),
         NEW k, k = InOrder(PfLines(s))[n], NEW p, p = PatchFor(s, k),
         NEW file, file = LinesAt(s, After(s, D)), ~ Applies(p, file)
  PROVE  \/ LeavesOut(s, k)
         \/ \E j \in R \ a : j < n /\ InOrder(PfLines(s))[j] \in Hunk(s, k)
<1> DEFINE m == Cardinality(PfLines(s))
           q == InOrder(PfLines(s))
<1> SUFFICES ASSUME ~ LeavesOut(s, k)
             PROVE  \E j \in R \ a : j < n /\ q[j] \in Hunk(s, k)
  OBVIOUS
<1>1. IsPatchOf(s, n, k)
  BY PatchOf
<1>2. k \in 1 .. Len(s) /\ IsPf(s, k)
  BY <1>1 DEF IsPatchOf
<1>4. Matches(p, file) = {}
  BY DEF Applies
<1>5. m \in Nat
  BY SplitOK
<1>6. D \in SUBSET (1 .. m) /\ n \notin D /\ \A j \in D : n < j => j \in a
  <2> HIDE DEF m
  <2>1. \A j \in 1 .. x : j \in 1 .. m /\ j # n /\ ~ (n < j)
    BY <1>5 DEF m
  <2>2. \A j \in D : j \in a \/ j \in 1 .. x
    OBVIOUS
  <2>3. \A j \in a : j \in 1 .. m
    BY DEF m
  <2> QED BY <2>1, <2>2, <2>3
<1>7. OutOfOrder(s, n, D)
  BY <1>4, <1>6, MatchFails
<1>8. PICK j \in 1 .. m : q[j] \in Hunk(s, k) /\ ((j < n /\ j \notin D) \/ (n < j /\ j \in D))
  BY <1>7 DEF OutOfOrder
<1>9. CASE j < n /\ j \notin D
  <2>1. j \in 1 .. x
    BY <1>5, <1>9
  <2>2. j \in R /\ j \notin a
    BY <1>9, <2>1
  <2> QED BY <1>8, <1>9, <2>2
<1>10. CASE n < j /\ j \in D
  <2>1. j \in a
    BY <1>6, <1>10
  <2>2. PICK i : i = q[j]
    OBVIOUS
  <2>3. IsPatchOf(s, j, i)
    BY <2>2, PatchOf
  <2>4. i \in 1 .. Len(s) /\ IsPf(s, i) /\ k < i
    BY <1>10, <2>3 DEF IsPatchOf
  <2>5. i \in Changed(s) /\ k \in Changed(s)
    BY <1>2, <2>4, KeptIn
  <2>6. k \in Hunk(s, i)
    BY <1>8, <2>2, <2>4, <2>5, HunkBack
  <2>7. HunkDone(s, j, a)
    BY <2>1 DEF HunksDone
  <2>8. n \in a
    BY <1>10, <2>2, <2>6, <2>7 DEF HunkDone
  <2> QED BY <2>8
<1> QED BY <1>8, <1>9, <1>10

-----------------------------------------------------------------------------
(* The patches are of the parsed script: one that matches shows no line otherwise *)
(* than the file has it, and is then a patch of the script that it puts back.     *)

DistinctParsed(s) == \A i, j \in DOMAIN s : Stripped[s[i].line] = Stripped[s[j].line] => i = j

ShowsOdd(s, k) ==
  \E i \in Hunk(s, k) :
    /\ Odd(s[i].line)
    /\ s[i].mark = "both" \/ (s[i].mark = "old" /\ i = k)

\* The scripts of a saved one.
LEMMA BackFacts ==
  ASSUME NEW s \in Seq(Marked)
  PROVE  /\ Back(s) \in Seq(Marked) /\ Len(Back(s)) = Len(s) /\ SameShape(s, Back(s))
         /\ PfLines(Back(s)) = PfLines(s) /\ PfLines(Parsed(s)) = PfLines(s)
<1>1. Back(s) \in Seq(Marked) /\ Len(Back(s)) = Len(s) /\ SameShape(s, Back(s))
  BY BackOK, BackShape
<1>2. PfLines(Back(s)) = PfLines(s)
  BY <1>1, ShapeSame
<1>3. Parsed(s) \in Seq(Marked) /\ SameShape(s, Parsed(s))
  BY ParsedOK, ParsedShape
<1>4. PfLines(Parsed(s)) = PfLines(s)
  BY <1>3, ShapeSame
<1> QED BY <1>1, <1>2, <1>4

\* Their lines: what is new is as the parser has it, what is old as in the file.
LEMMA BackLines ==
  ASSUME NEW s \in Seq(Marked), NEW i \in 1 .. Len(s)
  PROVE  /\ s[i].line \in Lines /\ s[i].mark \in {"both", "old", "new"}
         /\ Parsed(s)[i].line = Stripped[s[i].line] /\ Parsed(s)[i].mark = s[i].mark
         /\ s[i].mark = "new" => Back(s)[i].line = Stripped[s[i].line]
         /\ s[i].mark # "new" => Back(s)[i].line = s[i].line
         /\ Back(s)[i].mark = s[i].mark
         /\ Stripped[Back(s)[i].line] = Stripped[s[i].line]
<1>1. s[i].line \in Lines /\ s[i].mark \in {"both", "old", "new"}
  BY ScriptFacts
<1>2. Parsed(s)[i].line = Stripped[s[i].line] /\ Parsed(s)[i].mark = s[i].mark
  BY ParsedLine
<1>3. Back(s)[i] = IF s[i].mark = "new" THEN Parsed(s)[i] ELSE s[i]
  BY BackOK
<1>4. Stripped[Stripped[s[i].line]] = Stripped[s[i].line]
  BY <1>1, StrippedFacts
<1>5. /\ s[i].mark = "new" => Back(s)[i].line = Stripped[s[i].line]
      /\ s[i].mark # "new" => Back(s)[i].line = s[i].line
      /\ Back(s)[i].mark = s[i].mark
  BY <1>2, <1>3
<1> QED BY <1>1, <1>2, <1>4, <1>5

LEMMA BackDistinct ==
  ASSUME NEW s \in Seq(Marked), DistinctParsed(s)
  PROVE  DistinctIn(Back(s))
<1>1. DOMAIN s = 1 .. Len(s) /\ DOMAIN Back(s) = 1 .. Len(s)
  BY BackFacts, ScriptFacts
<1>2. ASSUME NEW i \in 1 .. Len(s), NEW j \in 1 .. Len(s), Back(s)[i].line = Back(s)[j].line
      PROVE  i = j
  <2>1. Stripped[Back(s)[i].line] = Stripped[s[i].line] /\ Stripped[Back(s)[j].line] = Stripped[s[j].line]
    BY BackLines
  <2>2. Stripped[s[i].line] = Stripped[s[j].line]
    BY <1>2, <2>1
  <2> QED BY <1>1, <2>2 DEF DistinctParsed
<1> QED BY <1>1, <1>2 DEF DistinctIn

\* A patch that shows no odd line.
LEMMA PlainPatch ==
  ASSUME NEW s \in Seq(Marked), NEW k \in 1 .. Len(s), IsPf(s, k), ~ ShowsOdd(s, k)
  PROVE  PatchFor(Parsed(s), k) = PatchFor(Back(s), k)
<1>1. PICK t, b : t = Parsed(s) /\ b = Back(s)
  OBVIOUS
<1>2. t \in Seq(Marked) /\ SameShape(s, t) /\ b \in Seq(Marked) /\ SameShape(s, b) /\ Len(b) = Len(s)
  BY <1>1, ParsedOK, ParsedShape, BackFacts
<1>3. SameShape(b, t)
  BY <1>2 DEF SameShape
<1>4. IsPf(b, k)
  BY <1>2, ShapeIsPf
<1>5. Hunk(b, k) = Hunk(s, k)
  BY <1>2, ShapeHunk
<1>6. Kept(b, k) \in SUBSET Hunk(s, k) /\ Hunk(s, k) \in SUBSET (1 .. Len(s))
  BY <1>2, <1>4, <1>5, KeptIn
<1>7. ASSUME NEW i \in Kept(b, k) PROVE t[i].line = b[i].line
  <2>1. i \in Hunk(s, k) /\ i \in 1 .. Len(s)
    BY <1>6
  <2>2. /\ s[i].line \in Lines /\ s[i].mark \in {"both", "old", "new"}
        /\ t[i].line = Stripped[s[i].line]
        /\ s[i].mark = "new" => b[i].line = Stripped[s[i].line]
        /\ s[i].mark # "new" => b[i].line = s[i].line
        /\ b[i].mark = s[i].mark
    BY <1>1, <2>1, BackLines
  <2>3. CASE s[i].mark = "new"
    BY <2>2, <2>3
  <2>4. CASE s[i].mark # "new"
    <3>1. b[i].mark = "both" \/ i = k
      BY <2>2, <2>4 DEF Kept
    <3>2. s[i].mark = "both" \/ (s[i].mark = "old" /\ i = k)
      BY <2>2, <2>4, <3>1
    <3>3. ~ Odd(s[i].line)
      BY <2>1, <3>2 DEF ShowsOdd
    <3> QED BY <2>2, <2>4, <3>3 DEF Odd
  <2> QED BY <2>3, <2>4
<1>8. PatchFor(t, k) = PatchFor(b, k)
  BY <1>2, <1>3, <1>4, <1>7, SamePatch
<1> QED BY <1>1, <1>8

\* One that shows an odd line matches nowhere: the line is there only as it is.
LEMMA OddNoMatch ==
  ASSUME NEW s \in Seq(Marked), DistinctParsed(s), NEW b, b = Back(s),
         NEW k \in 1 .. Len(s), IsPf(s, k), ShowsOdd(s, k), NEW P \in SUBSET (1 .. Len(s)),
         NEW p, p = PatchFor(Parsed(s), k)
  PROVE  Matches(p, LinesAt(b, P)) = {}
<1> SUFFICES ASSUME NEW n, n \in Matches(p, LinesAt(b, P)) PROVE FALSE
  OBVIOUS
<1>1. PICK t : t = Parsed(s)
  OBVIOUS
<1>2. /\ t \in Seq(Marked) /\ SameShape(s, t) /\ Len(t) = Len(s)
      /\ b \in Seq(Marked) /\ Len(b) = Len(s) /\ Len(s) \in Nat /\ DOMAIN s = 1 .. Len(s)
  BY <1>1, ParsedOK, ParsedShape, BackFacts, ScriptFacts
<1>3. PICK i \in Hunk(s, k) : Odd(s[i].line) /\ (s[i].mark = "both" \/ (s[i].mark = "old" /\ i = k))
  BY DEF ShowsOdd
<1>4. IsPf(t, k) /\ k \in 1 .. Len(t)
  BY <1>2, ShapeIsPf
<1>5. Hunk(t, k) = Hunk(s, k) /\ i \in 1 .. Len(s)
  BY <1>2, <1>3, ShapeHunk, KeptIn
<1>6. t[i].mark = s[i].mark /\ t[k].mark = s[k].mark
  BY <1>2, <1>5 DEF SameShape
<1>7. PICK L : L = ShownLines(t, k)
  OBVIOUS
<1>8. i \in L
  <2>1. i \in Kept(t, k)
    BY <1>3, <1>5, <1>6 DEF Kept
  <2>2. i = k => t[k].mark # "new"
    BY <1>3, <1>6
  <2> QED BY <1>7, <2>1, <2>2 DEF ShownLines
<1>9. PICK x \in Nat : Shows(p, t, k, L, x)
  BY <1>1, <1>2, <1>4, <1>7, PatchShows
<1>10. L \in SUBSET (1 .. Len(t)) /\ Old(p.body) = LinesAt(t, L)
  BY <1>9 DEF Shows
<1>11. PICK pre, file : pre = Old(p.body) /\ file = LinesAt(b, P)
  OBVIOUS
<1>12. /\ pre \in Seq(Lines) /\ Len(pre) = Cardinality(L) /\ Cardinality(L) \in Nat
       /\ pre = [m \in 1 .. Cardinality(L) |-> t[InOrder(L)[m]].line]
  BY <1>2, <1>10, <1>11, LinesAtOK
<1>13. /\ file \in Seq(Lines) /\ Len(file) = Cardinality(P) /\ Cardinality(P) \in Nat
       /\ file = [m \in 1 .. Cardinality(P) |-> b[InOrder(P)[m]].line]
  BY <1>2, <1>11, LinesAtOK
<1>14. n \in 0 .. Len(file) - Len(pre) /\ SubSeq(file, n + 1, n + Len(pre)) = pre
  BY <1>11 DEF Matches
<1>15. PICK m \in 1 .. Cardinality(L) : InOrder(L)[m] = i
  BY <1>2, <1>8, <1>10, ListOf
<1>16. pre[m] = Stripped[s[i].line]
  <2>1. pre[m] = t[i].line
    BY <1>12, <1>15
  <2>2. t[i].line = Stripped[s[i].line]
    BY <1>1, <1>5, BackLines
  <2> QED BY <2>1, <2>2
<1>17. PICK y : y = n + m
  OBVIOUS
<1>18. y \in 1 .. Cardinality(P) /\ file[y] = pre[m]
  <2>1. PICK e, f : e = Len(pre) /\ f = Len(file)
    OBVIOUS
  <2>2. e \in Nat /\ f \in Nat /\ n \in 0 .. f - e /\ m \in 1 .. e /\ f = Cardinality(P)
    BY <1>12, <1>13, <1>14, <1>15, <2>1
  <2>3. PICK c, d : c = n + 1 /\ d = n + e
    OBVIOUS
  <2>4. y \in 1 .. f /\ c \in 1 .. f + 1 /\ d \in c - 1 .. f /\ m \in 1 .. d - c + 1 /\ c + m - 1 = y
    BY <1>17, <2>2, <2>3
  <2>5. \A z \in 1 .. d - c + 1 : SubSeq(file, c, d)[z] = file[c + z - 1]
    BY <1>13, <2>1, <2>4, SubSeqProperties
  <2>6. SubSeq(file, c, d) = pre
    BY <1>14, <2>1, <2>3
  <2>7. SubSeq(file, c, d)[m] = file[y]
    BY <2>4, <2>5
  <2> QED BY <2>2, <2>4, <2>6, <2>7
<1>19. PICK j : j = InOrder(P)[y]
  OBVIOUS
<1>20. j \in 1 .. Len(s)
  BY <1>2, <1>18, <1>19, MemberAt
<1>21. b[j].line = Stripped[s[i].line]
  BY <1>13, <1>16, <1>18, <1>19
<1>22. s[i].line \in Lines /\ s[i].mark # "new"
  BY <1>3, <1>5, ScriptFacts
<1>23. Stripped[b[j].line] = Stripped[s[j].line]
  BY <1>20, BackLines
<1>24. Stripped[Stripped[s[i].line]] = Stripped[s[i].line]
  BY <1>22, StrippedFacts
<1>25. j = i
  BY <1>2, <1>5, <1>20, <1>21, <1>23, <1>24 DEF DistinctParsed
<1>26. b[i].line = s[i].line
  BY <1>5, <1>22, BackLines
<1> QED BY <1>3, <1>21, <1>25, <1>26 DEF Odd

\* A patch that applies makes its own change in what is put back.
LEMMA StepParsed ==
  ASSUME NEW r \in Seq(Marked), DistinctParsed(r), NEW s, s = Back(r), NEW n \in 1 .. Cardinality(PfLines(s)),
         NEW D \in SUBSET (1 .. Cardinality(PfLines(s))),
         NEW v \in Seq(Marked), New(v) = LinesAt(s, After(s, D)),
         NEW p, p = PatchFor(Parsed(r), InOrder(PfLines(r))[n]), Matches(p, New(v)) # {}
  PROVE  Steps(s, n, D, AppliedTo(p, v))
<1>1. s \in Seq(Marked) /\ Len(s) = Len(r) /\ SameShape(r, s) /\ PfLines(s) = PfLines(r) /\ DistinctIn(s)
  BY BackFacts, BackDistinct
<1>2. PICK k : k = InOrder(PfLines(r))[n]
  OBVIOUS
<1>3. k \in 1 .. Len(r) /\ IsPf(r, k)
  BY <1>1, <1>2, SplitOK
<1>4. PICK P : P = After(s, D)
  OBVIOUS
<1>5. P \in SUBSET (1 .. Len(r))
  BY <1>1, <1>4 DEF After
<1>6. ~ ShowsOdd(r, k)
  BY <1>2, <1>3, <1>4, <1>5, OddNoMatch
<1>7. p = PatchFor(s, k)
  BY <1>2, <1>3, <1>6, PlainPatch
<1>8. p = PatchFor(s, InOrder(PfLines(s))[n])
  BY <1>1, <1>2, <1>7
<1> QED BY <1>1, <1>8, StepDone

\* Why one is refused.
LEMMA RefusedParsed ==
  ASSUME NEW s \in Seq(Marked), DistinctParsed(s), NEW n \in 1 .. Cardinality(PfLines(s)),
         NEW a \in SUBSET (1 .. Cardinality(PfLines(s))), HunksDone(Back(s), a), n \notin a,
         NEW R, NEW x \in Nat, n = x + 1, NEW D, D = a \cup ((1 .. x) \ R),
         NEW k, k = InOrder(PfLines(s))[n], NEW p, p = PatchFor(Parsed(s), k),
         NEW file, file = LinesAt(Back(s), After(Back(s), D)), ~ Applies(p, file)
  PROVE  \/ LeavesOut(s, k) \/ ShowsOdd(s, k)
         \/ \E j \in R \ a : j < n /\ InOrder(PfLines(s))[j] \in Hunk(s, k)
<1> SUFFICES ASSUME ~ ShowsOdd(s, k)
             PROVE  \/ LeavesOut(s, k)
                    \/ \E j \in R \ a : j < n /\ InOrder(PfLines(s))[j] \in Hunk(s, k)
  OBVIOUS
<1>1. PICK b : b = Back(s)
  OBVIOUS
<1>2. b \in Seq(Marked) /\ Len(b) = Len(s) /\ SameShape(s, b) /\ PfLines(b) = PfLines(s)
  BY <1>1, BackFacts
<1>3. k \in 1 .. Len(s) /\ IsPf(s, k)
  BY SplitOK
<1>4. p = PatchFor(b, k)
  BY <1>1, <1>3, PlainPatch
<1>5. Hunk(b, k) = Hunk(s, k) /\ Hunk(s, k) \in SUBSET (1 .. Len(s))
  BY <1>2, <1>3, ShapeHunk, KeptIn
<1>6. \/ LeavesOut(b, k)
      \/ \E j \in R \ a : j < n /\ InOrder(PfLines(b))[j] \in Hunk(b, k)
  <2>1. n \in 1 .. Cardinality(PfLines(b)) /\ a \in SUBSET (1 .. Cardinality(PfLines(b)))
        /\ HunksDone(b, a) /\ k = InOrder(PfLines(b))[n] /\ file = LinesAt(b, After(b, D))
    BY <1>1, <1>2
  <2> QED BY <1>2, <1>4, <2>1, RefusedBecause
<1>7. LeavesOut(b, k) => LeavesOut(s, k)
  BY <1>2, <1>5 DEF LeavesOut, SameShape
<1> QED BY <1>2, <1>5, <1>6, <1>7

\* What is there before any patch, which is HEAD's file.
LEMMA NoneBackDone ==
  ASSUME NEW s \in Seq(Marked)
  PROVE  New(Unchanged(Old(s))) = LinesAt(Back(s), After(Back(s), {}))
<1>1. PICK b : b = Back(s)
  OBVIOUS
<1>2. b \in Seq(Marked) /\ SameShape(s, b) /\ DOMAIN b = 1 .. Len(s) /\ DOMAIN s = 1 .. Len(s)
  BY <1>1, BackFacts, ShapeSame
<1>3. PICK K : K = OldLines(s)
  OBVIOUS
<1>4. OldLines(b) = K /\ K \in SUBSET (1 .. Len(s)) /\ \A i \in K : b[i].line = s[i].line
  <2>1. \A i \in 1 .. Len(s) : b[i].mark = s[i].mark
    BY <1>2 DEF SameShape
  <2>2. \A i \in 1 .. Len(s) : s[i].mark # "new" => b[i].line = s[i].line
    BY <1>1, BackLines
  <2> QED BY <1>2, <1>3, <2>1, <2>2 DEF OldLines
<1>5. LinesAt(b, K) = LinesAt(s, K)
  <2>1. Len(s) \in Nat
    BY ScriptFacts
  <2>2. InOrder(K) \in [1 .. Cardinality(K) -> K]
    BY <1>4, <2>1, ListOf
  <2>3. \A n \in 1 .. Cardinality(K) : b[InOrder(K)[n]].line = s[InOrder(K)[n]].line
    BY <1>4, <2>2
  <2> QED BY <2>3 DEF LinesAt
<1>6. Old(b) = Old(s)
  BY <1>3, <1>4, <1>5 DEF Old
<1>7. New(Unchanged(Old(b))) = LinesAt(b, After(b, {}))
  BY <1>2, NoneDone
<1> QED BY <1>1, <1>6, <1>7

\* What is there after all.
LEMMA AllBackDone ==
  ASSUME NEW s \in Seq(Marked), NEW D, D = 1 .. Cardinality(PfLines(s))
  PROVE  LinesAt(Back(s), After(Back(s), D)) = Wanted(s)
<1>1. PICK b : b = Back(s)
  OBVIOUS
<1>2. b \in Seq(Marked) /\ SameShape(s, b) /\ PfLines(b) = PfLines(s)
  BY <1>1, BackFacts
<1>3. LinesAt(b, After(b, D)) = LinesAt(b, Remaining(b))
  BY <1>2, AllDone
<1>4. DOMAIN b = 1 .. Len(s) /\ DOMAIN s = 1 .. Len(s)
  BY <1>2, ShapeSame
<1>5. \A i \in 1 .. Len(s) : b[i].mark = s[i].mark /\ (b[i].line \in Annotations <=> s[i].line \in Annotations)
  BY <1>2 DEF SameShape
<1>6. Remaining(b) = Remaining(s)
  BY <1>4, <1>5 DEF Remaining
<1>7. Wanted(s) = LinesAt(b, Remaining(s))
  BY <1>1 DEF Wanted, Remaining
<1> QED BY <1>1, <1>3, <1>6, <1>7

-----------------------------------------------------------------------------
(* The file has the changes of the patches that are done (RoundTrip). *)

\* The patches whose changes the file has.
Done == accepted \cup ((1 .. applied) \ refused)

\* As long as no line is there twice, the file is the saved one, as it is put back, with
\* exactly the changes of these patches; and with a patch the user has accepted the
\* earlier ones of its hunk, without which it would not have matched.
Returned ==
  stage # "body" /\ Distinct =>
    /\ New(script) = LinesAt(Back(saved), After(Back(saved), Done))
    /\ HunksDone(Back(saved), accepted)

\* The names of the specification, in terms of the saved script.
LEMMA DistinctSaved == Distinct <=> DistinctParsed(saved)
  BY DEF Distinct, DistinctParsed

LEMMA PositionIs == \A n : Position(n) = InOrder(PfLines(saved))[n]
  BY DEF Position, PfLines

LEMMA LeavesOutIs == \A n : LeavesLineOut(n) <=> LeavesOut(saved, InOrder(PfLines(saved))[n])
  BY PositionIs DEF LeavesLineOut, LeavesOut

LEMMA ShowsOddIs == \A n : ShowsOddLine(n) <=> ShowsOdd(saved, InOrder(PfLines(saved))[n])
  BY PositionIs DEF ShowsOddLine, ShowsOdd

\* Each step keeps this.
LEMMA ReturnedInit == Init => Returned
<1> SUFFICES ASSUME Init PROVE Returned
  OBVIOUS
<1>1. stage = "body"
  BY DEF Init
<1> QED BY <1>1 DEF Returned

\* What is known of the patches while they exist.
LEMMA PatchesAre ==
  ASSUME TypeInv, Fresh, stage # "body"
  PROVE  /\ saved \in Seq(Marked) /\ script \in Seq(Marked)
         /\ Back(saved) \in Seq(Marked) /\ PfLines(Back(saved)) = PfLines(saved)
         /\ Len(patches) = Cardinality(PfLines(saved)) /\ Cardinality(PfLines(saved)) \in Nat
         /\ accepted \in SUBSET (1 .. Cardinality(PfLines(saved)))
         /\ refused \subseteq 1 .. applied /\ applied \in 0 .. Cardinality(PfLines(saved))
         /\ Done \in SUBSET (1 .. Cardinality(PfLines(saved)))
         /\ \A n \in 1 .. Cardinality(PfLines(saved)) :
              patches[n] = PatchFor(Parsed(saved), InOrder(PfLines(saved))[n])
<1> DEFINE m == Cardinality(PfLines(saved))
<1>1. saved \in Seq(Marked) /\ script \in Seq(Marked)
  BY TypeFacts
<1>2. patches = Split(Parsed(saved))
  BY DEF Fresh
<1>3. /\ Len(patches) = m /\ m \in Nat
      /\ \A n \in 1 .. m : patches[n] = PatchFor(Parsed(saved), InOrder(PfLines(saved))[n])
  <2>1. PICK s, q : s = saved /\ q = Parsed(saved)
    OBVIOUS
  <2>2. q \in Seq(Marked) /\ PfLines(q) = PfLines(s)
    BY <1>1, <2>1, ParsedOK, BackFacts
  <2>3. /\ Len(Split(q)) = Cardinality(PfLines(q)) /\ Cardinality(PfLines(q)) \in Nat
        /\ \A n \in 1 .. Cardinality(PfLines(q)) : Split(q)[n] = PatchFor(q, InOrder(PfLines(q))[n])
    BY <2>2, SplitOK
  <2> QED BY <1>2, <2>1, <2>2, <2>3
<1>4. Back(saved) \in Seq(Marked) /\ PfLines(Back(saved)) = PfLines(saved)
  <2>1. PICK s : s = saved
    OBVIOUS
  <2>2. Back(s) \in Seq(Marked) /\ PfLines(Back(s)) = PfLines(s)
    BY <1>1, <2>1, BackFacts
  <2> QED BY <2>1, <2>2
<1> HIDE DEF m
<1>5. accepted \in SUBSET (1 .. m) /\ applied \in 0 .. m /\ refused \subseteq 1 .. applied
  BY <1>3, TypeFacts
<1>6. Done \in SUBSET (1 .. m)
  <2>1. \A j \in 1 .. applied : j \in 1 .. m
    BY <1>3, <1>5
  <2> QED BY <1>5, <2>1 DEF Done
<1> QED BY <1>1, <1>3, <1>4, <1>5, <1>6 DEF m

LEMMA ReturnedSave ==
  ASSUME TypeInv, Fresh, Save
  PROVE  Returned'
<1>1. /\ stage = "body" /\ saved' = script /\ script' = Unchanged(Old(script))
      /\ UNCHANGED <<applied, refused, accepted>>
  BY DEF Save
<1>2. applied = 0 /\ refused = {} /\ accepted = {}
  BY <1>1 DEF Fresh
<1>3. script \in Seq(Marked)
  BY TypeFacts
<1>4. Done' = {}
  BY <1>1, <1>2 DEF Done
<1>5. New(script') = LinesAt(Back(saved'), After(Back(saved'), Done'))
  <2>1. PICK s : s = script
    OBVIOUS
  <2>2. New(Unchanged(Old(s))) = LinesAt(Back(s), After(Back(s), {}))
    BY <1>3, <2>1, NoneBackDone
  <2> QED BY <1>1, <1>4, <2>1, <2>2
<1>6. HunksDone(Back(saved'), accepted')
  BY <1>1, <1>2 DEF HunksDone
<1> QED BY <1>5, <1>6 DEF Returned

LEMMA ReturnedAccepts ==
  ASSUME TypeInv, Fresh, Returned, UserAccepts
  PROVE  Returned'
<1>1. PICK n \in DOMAIN patches \ accepted :
        /\ Applies(patches[n], New(script))
        /\ script' = Unchanged(New(AppliedTo(patches[n], script)))
        /\ accepted' = accepted \cup {n}
  BY DEF UserAccepts
<1>2. stage = "outside" /\ UNCHANGED <<stage, patches, saved, applied, refused>>
  BY DEF UserAccepts
<1>3. stage # "body" /\ applied = 0 /\ refused = {}
  BY <1>2 DEF Fresh
<1> SUFFICES ASSUME Distinct' PROVE /\ New(script') = LinesAt(Back(saved'), After(Back(saved'), Done'))
                                    /\ HunksDone(Back(saved'), accepted')
  BY DEF Returned
<1>4. DistinctParsed(saved) /\ Distinct
  BY <1>2 DEF Distinct, DistinctParsed
<1>5. New(script) = LinesAt(Back(saved), After(Back(saved), Done)) /\ HunksDone(Back(saved), accepted)
  BY <1>3, <1>4 DEF Returned
<1>6. Done = accepted /\ Done' = accepted'
  BY <1>2, <1>3 DEF Done
<1>7. PICK r, s, D, v, p : r = saved /\ s = Back(saved) /\ D = accepted /\ v = script /\ p = patches[n]
  OBVIOUS
<1>8. /\ r \in Seq(Marked) /\ s \in Seq(Marked) /\ v \in Seq(Marked) /\ s = Back(r) /\ PfLines(s) = PfLines(r)
      /\ D \in SUBSET (1 .. Cardinality(PfLines(s))) /\ n \in 1 .. Cardinality(PfLines(s))
      /\ p = PatchFor(Parsed(r), InOrder(PfLines(r))[n])
  <2>1. n \in 1 .. Cardinality(PfLines(saved))
    <3>1. DOMAIN patches = 1 .. Len(patches)
      BY TypeFacts
    <3> QED BY <1>3, <3>1, PatchesAre
  <2> QED BY <1>3, <1>7, <2>1, PatchesAre
<1>9. DistinctParsed(r) /\ New(v) = LinesAt(s, After(s, D)) /\ Matches(p, New(v)) # {}
  <2>1. Applies(p, New(v))
    BY <1>1, <1>7
  <2>2. Matches(p, New(v)) # {}
    BY <2>1 DEF Applies
  <2> QED BY <1>4, <1>5, <1>6, <1>7, <2>2
<1>10. PICK t : t = AppliedTo(p, v)
  OBVIOUS
<1>11. Steps(s, n, D, t)
  BY <1>8, <1>9, <1>10, StepParsed
<1>12. HunkDone(s, n, D) /\ New(t) = LinesAt(s, After(s, D \cup {n}))
  BY <1>11 DEF Steps
<1>13. New(Unchanged(New(t))) = New(t)
  <2>1. p \in Patch
    <3>1. PICK k, q : k = InOrder(PfLines(r))[n] /\ q = Parsed(r)
      OBVIOUS
    <3>2. IsPatchOf(r, n, k)
      BY <1>8, <3>1, PatchOf
    <3>3. k \in 1 .. Len(r) /\ IsPf(r, k)
      BY <3>2 DEF IsPatchOf
    <3>4. q \in Seq(Marked) /\ Len(q) = Len(r) /\ SameShape(r, q)
      BY <1>8, <3>1, ParsedOK, ParsedShape
    <3>5. k \in 1 .. Len(q) /\ IsPf(q, k)
      BY <3>3, <3>4, ShapeIsPf
    <3> QED BY <1>8, <3>1, <3>4, <3>5, PatchForOK
  <2>2. t \in Seq(Marked)
    BY <1>8, <1>9, <1>10, <2>1, AppliedOK
  <2>3. New(t) \in Seq(Lines)
    BY <2>2, FilesOK
  <2> QED BY <2>3, NewUnchanged
<1>14. HunksDone(s, D \cup {n})
  BY <1>5, <1>7, <1>12, OneMoreDone
<1>15. script' = Unchanged(New(t)) /\ accepted' = D \cup {n} /\ Back(saved') = s
  BY <1>1, <1>2, <1>7, <1>10
<1> QED BY <1>6, <1>12, <1>13, <1>14, <1>15

LEMMA ReturnedEnter ==
  ASSUME TypeInv, Fresh, Returned, Enter
  PROVE  Returned'
<1>1. stage = "outside" /\ UNCHANGED <<script, saved, applied, refused, accepted>>
  BY DEF Enter
<1>2. stage # "body"
  BY <1>1
<1>3. Done' = Done /\ (Distinct' <=> Distinct)
  BY <1>1 DEF Done, Distinct
<1> QED BY <1>1, <1>2, <1>3 DEF Returned

LEMMA ReturnedApply ==
  ASSUME TypeInv, Fresh, Returned, Apply
  PROVE  Returned'
<1>1. /\ stage = "entry" /\ applied < Len(patches) /\ applied' = applied + 1
      /\ IF Applies(patches[applied'], New(script))
         THEN script' = AppliedTo(patches[applied'], script) /\ UNCHANGED refused
         ELSE refused' = refused \cup {applied'} /\ UNCHANGED script
      /\ UNCHANGED <<stage, patches, saved, accepted>>
  BY DEF Apply
<1>2. stage # "body"
  BY <1>1
<1> SUFFICES ASSUME Distinct' PROVE /\ New(script') = LinesAt(Back(saved'), After(Back(saved'), Done'))
                                    /\ HunksDone(Back(saved'), accepted')
  BY DEF Returned
<1>3. DistinctParsed(saved) /\ Distinct
  BY <1>1 DEF Distinct, DistinctParsed
<1>4. New(script) = LinesAt(Back(saved), After(Back(saved), Done)) /\ HunksDone(Back(saved), accepted)
  BY <1>2, <1>3 DEF Returned
<1>5. HunksDone(Back(saved'), accepted')
  BY <1>1, <1>4
<1>6. PICK n, r, s, D, v, p :
        /\ n = applied + 1 /\ r = saved /\ s = Back(saved) /\ D = Done /\ v = script /\ p = patches[applied']
  OBVIOUS
<1>7. /\ r \in Seq(Marked) /\ s \in Seq(Marked) /\ v \in Seq(Marked) /\ PfLines(s) = PfLines(r)
      /\ D \in SUBSET (1 .. Cardinality(PfLines(s))) /\ n \in 1 .. Cardinality(PfLines(s))
      /\ p = PatchFor(Parsed(r), InOrder(PfLines(r))[n])
  <2>1. applied \in Nat /\ applied + 1 \in 1 .. Cardinality(PfLines(saved))
    <3>1. Cardinality(PfLines(saved)) \in Nat /\ applied \in 0 .. Cardinality(PfLines(saved))
          /\ Len(patches) = Cardinality(PfLines(saved))
      BY <1>2, PatchesAre
    <3>2. PICK m : m = Cardinality(PfLines(saved))
      OBVIOUS
    <3>3. m \in Nat /\ applied \in 0 .. m /\ applied < m
      BY <1>1, <3>1, <3>2
    <3>4. applied \in Nat /\ applied + 1 \in 1 .. m
      BY <3>3
    <3> QED BY <3>2, <3>4
  <2>2. \A x \in 1 .. Cardinality(PfLines(saved)) :
          patches[x] = PatchFor(Parsed(saved), InOrder(PfLines(saved))[x])
    BY <1>2, PatchesAre
  <2>3. p = patches[n] /\ n \in 1 .. Cardinality(PfLines(saved))
    BY <1>1, <1>6, <2>1
  <2>4. p = PatchFor(Parsed(saved), InOrder(PfLines(saved))[n])
    BY <2>2, <2>3
  <2>5. /\ saved \in Seq(Marked) /\ script \in Seq(Marked) /\ Done \in SUBSET (1 .. Cardinality(PfLines(saved)))
        /\ Back(saved) \in Seq(Marked) /\ PfLines(Back(saved)) = PfLines(saved)
    BY <1>2, PatchesAre
  <2> QED BY <1>6, <2>3, <2>4, <2>5
<1>8. applied \in Nat /\ refused \subseteq 1 .. applied
  <2>1. applied \in 0 .. Cardinality(PfLines(saved)) /\ refused \subseteq 1 .. applied
    BY <1>2, PatchesAre
  <2> QED BY <2>1
<1>9. CASE Applies(p, New(v))
  <2>1. script' = AppliedTo(p, v) /\ refused' = refused
    BY <1>1, <1>6, <1>9
  <2>2. Matches(p, New(v)) # {} /\ New(v) = LinesAt(s, After(s, D)) /\ DistinctParsed(r) /\ s = Back(r)
    BY <1>3, <1>4, <1>6, <1>9 DEF Applies
  <2>3. PICK t : t = AppliedTo(p, v)
    OBVIOUS
  <2>4. Steps(s, n, D, t)
    BY <1>7, <2>2, <2>3, StepParsed
  <2>5. New(t) = LinesAt(s, After(s, D \cup {n}))
    BY <2>4 DEF Steps
  <2>6. Done' = D \cup {n}
    <3>1. Done' = accepted \cup ((1 .. n) \ refused)
      BY <1>1, <1>6, <2>1 DEF Done
    <3>2. D = accepted \cup ((1 .. applied) \ refused)
      BY <1>6 DEF Done
    <3>3. 1 .. n = (1 .. applied) \cup {n} /\ n \notin 1 .. applied
      BY <1>6, <1>8
    <3>4. n \notin refused
      BY <1>8, <3>3
    <3> QED BY <3>1, <3>2, <3>3, <3>4
  <2> QED BY <1>1, <1>5, <1>6, <2>1, <2>3, <2>5, <2>6
<1>10. CASE ~ Applies(p, New(v))
  <2>1. script' = script /\ refused' = refused \cup {n}
    BY <1>1, <1>6, <1>10
  <2>2. Done' = Done
    <3>1. Done' = accepted \cup ((1 .. n) \ (refused \cup {n}))
      BY <1>1, <1>6, <2>1 DEF Done
    <3>2. Done = accepted \cup ((1 .. applied) \ refused)
      BY DEF Done
    <3>3. 1 .. n = (1 .. applied) \cup {n} /\ n \notin 1 .. applied
      BY <1>6, <1>8
    <3> QED BY <3>1, <3>2, <3>3
  <2> QED BY <1>1, <1>4, <1>5, <2>1, <2>2
<1> QED BY <1>9, <1>10

LEMMA ReturnedStep == TypeInv /\ Fresh /\ Returned /\ [Next]_vars => Returned'
<1> SUFFICES ASSUME TypeInv, Fresh, Returned, [Next]_vars PROVE Returned'
  OBVIOUS
<1>1. CASE AgentEdits
  <2>1. stage' = "body"
    BY <1>1 DEF AgentEdits
  <2> QED BY <2>1 DEF Returned
<1>2. CASE Begin
  <2>1. stage' = "body"
    BY <1>2 DEF Begin
  <2> QED BY <2>1 DEF Returned
<1>3. CASE ParseFails \/ UNCHANGED vars
  <2>1. UNCHANGED <<script, saved, applied, refused, accepted>> /\ (stage = "body" => stage' = "body")
    BY <1>3 DEF ParseFails, vars
  <2>2. Done' = Done /\ (Distinct' <=> Distinct)
    BY <2>1 DEF Done, Distinct
  <2> QED BY <2>1, <2>2 DEF Returned
<1> QED BY <1>1, <1>2, <1>3, ReturnedSave, ReturnedAccepts, ReturnedEnter, ReturnedApply DEF Next

\* With every patch done, the file is what the agent wanted.
LEMMA ReturnedRound == TypeInv /\ Fresh /\ Returned => RoundTrip
<1> SUFFICES ASSUME TypeInv, Fresh, Returned,
                    stage = "entry", applied = Len(patches), refused \subseteq accepted, Distinct
             PROVE  New(script) = Wanted(saved)
  BY DEF RoundTrip
<1>1. stage # "body"
  OBVIOUS
<1>2. New(script) = LinesAt(Back(saved), After(Back(saved), Done))
  BY <1>1 DEF Returned
<1>3. PICK m : m = Cardinality(PfLines(saved))
  OBVIOUS
<1>4. applied = m /\ accepted \in SUBSET (1 .. m) /\ saved \in Seq(Marked)
  BY <1>1, <1>3, PatchesAre
<1>5. Done = 1 .. m
  BY <1>4 DEF Done
<1>6. LinesAt(Back(saved), After(Back(saved), 1 .. m)) = Wanted(saved)
  BY <1>3, <1>4, AllBackDone
<1> QED BY <1>2, <1>5, <1>6

\* If no line is in the file twice, and every patch is applied again but those that the
\* user had accepted, the file is the one that the agent left: for additions and deletions
\* of any file, whichever hunks they share, in whatever order the user accepted them.
THEOREM RoundTripHolds == Spec => []RoundTrip
<1>1. Init => TypeInv /\ Fresh /\ Returned
  BY TypeInvInit, FreshInit, ReturnedInit
<1>2. TypeInv /\ Fresh /\ Returned /\ [Next]_vars => TypeInv' /\ Fresh' /\ Returned'
  BY TypeInvStep, FreshStep, ReturnedStep
<1>3. TypeInv /\ Fresh /\ Returned => RoundTrip
  BY ReturnedRound
<1> QED BY <1>1, <1>2, <1>3, PTL DEF Spec

-----------------------------------------------------------------------------
(* Why a patch is refused (RefusedHasCause). *)

\* The causes of RefusedHasCause, in terms of the script s, the patches accepted and those refused.
Caused(s, a, R, n) ==
  \/ n \in a \/ LeavesOut(s, InOrder(PfLines(s))[n]) \/ ShowsOdd(s, InOrder(PfLines(s))[n])
  \/ \E j \in R \ a : j < n /\ InOrder(PfLines(s))[j] \in Hunk(s, InOrder(PfLines(s))[n])

\* It is enough to look when the patches are put back: nothing is refused before.
Explained ==
  stage = "entry" /\ Distinct => \A n \in refused : Caused(saved, accepted, refused, n)

LEMMA ExplainedSo == Explained => RefusedHasCause
<1> SUFFICES ASSUME Explained, stage = "entry", Distinct, NEW n \in refused
             PROVE  \/ n \in accepted \/ LeavesLineOut(n) \/ ShowsOddLine(n)
                    \/ \E m \in refused \ accepted : m < n /\ Position(m) \in Hunk(saved, Position(n))
  BY DEF RefusedHasCause
<1>1. Caused(saved, accepted, refused, n)
  BY DEF Explained
<1>2. LeavesLineOut(n) <=> LeavesOut(saved, InOrder(PfLines(saved))[n])
  BY LeavesOutIs
<1>4. ShowsOddLine(n) <=> ShowsOdd(saved, InOrder(PfLines(saved))[n])
  BY ShowsOddIs
<1>3. \A m : Position(m) = InOrder(PfLines(saved))[m]
  BY PositionIs
<1> QED BY <1>1, <1>2, <1>3, <1>4 DEF Caused

LEMMA ExplainedApply ==
  ASSUME TypeInv, Fresh, Returned, Explained, Apply
  PROVE  Explained'
<1>1. /\ stage = "entry" /\ applied < Len(patches) /\ applied' = applied + 1
      /\ IF Applies(patches[applied'], New(script))
         THEN script' = AppliedTo(patches[applied'], script) /\ UNCHANGED refused
         ELSE refused' = refused \cup {applied'} /\ UNCHANGED script
      /\ UNCHANGED <<stage, patches, saved, accepted>>
  BY DEF Apply
<1>2. stage # "body"
  BY <1>1
<1> SUFFICES ASSUME Distinct', NEW z \in refused'
             PROVE  Caused(saved', accepted', refused', z)
  BY DEF Explained
<1>3. Distinct
  BY <1>1 DEF Distinct
<1>4. CASE z \in refused
  <2>1. Caused(saved, accepted, refused, z)
    BY <1>1, <1>3, <1>4 DEF Explained
  <2>2. \A j \in refused \ accepted : j \in refused' \ accepted'
    BY <1>1
  <2> QED BY <1>1, <2>1, <2>2 DEF Caused
<1>5. CASE z \notin refused
  <2>1. PICK n, s, a, R, x, p, D, file :
           /\ n = applied + 1 /\ s = saved /\ a = accepted /\ R = refused /\ x = applied
           /\ p = patches[applied + 1] /\ D = Done /\ file = New(script)
    OBVIOUS
  <2>2. z = n /\ ~ Applies(p, file)
    BY <1>1, <1>5, <2>1
  <2>3. /\ New(script) = LinesAt(Back(saved), After(Back(saved), Done)) /\ HunksDone(Back(saved), accepted)
        /\ DistinctParsed(saved)
    BY <1>2, <1>3, DistinctSaved DEF Returned
  <2>4. /\ D = a \cup ((1 .. x) \ R) /\ file = LinesAt(Back(s), After(Back(s), D)) /\ HunksDone(Back(s), a)
        /\ DistinctParsed(s)
    BY <2>1, <2>3 DEF Done
  <2>5. /\ s \in Seq(Marked) /\ x \in Nat /\ n = x + 1 /\ n \in 1 .. Cardinality(PfLines(s))
        /\ a \in SUBSET (1 .. Cardinality(PfLines(s)))
    <3>1. Cardinality(PfLines(saved)) \in Nat /\ applied \in 0 .. Cardinality(PfLines(saved))
          /\ Len(patches) = Cardinality(PfLines(saved))
      BY <1>2, PatchesAre
    <3>2. PICK m : m = Cardinality(PfLines(saved))
      OBVIOUS
    <3>3. m \in Nat /\ applied \in 0 .. m /\ applied < m
      BY <1>1, <3>1, <3>2
    <3>4. applied \in Nat /\ applied + 1 \in 1 .. m
      BY <3>3
    <3>5. saved \in Seq(Marked) /\ accepted \in SUBSET (1 .. Cardinality(PfLines(saved)))
      BY <1>2, PatchesAre
    <3> QED BY <2>1, <3>2, <3>4, <3>5
  <2>6. PICK k : k = InOrder(PfLines(s))[n]
    OBVIOUS
  <2>7. p = PatchFor(Parsed(s), k)
    <3>1. \A y \in 1 .. Cardinality(PfLines(saved)) :
            patches[y] = PatchFor(Parsed(saved), InOrder(PfLines(saved))[y])
      BY <1>2, PatchesAre
    <3>2. patches[n] = PatchFor(Parsed(saved), InOrder(PfLines(saved))[n])
      BY <2>1, <2>5, <3>1
    <3> QED BY <2>1, <2>6, <3>2
  <2>8. CASE n \in a
    BY <1>1, <2>1, <2>2, <2>8 DEF Caused
  <2>9. CASE n \notin a
    <3>1. \/ LeavesOut(s, k) \/ ShowsOdd(s, k)
          \/ \E j \in R \ a : j < n /\ InOrder(PfLines(s))[j] \in Hunk(s, k)
      BY <2>2, <2>4, <2>5, <2>6, <2>7, <2>9, RefusedParsed
    <3>3. Caused(s, a, R, n)
      BY <2>6, <3>1 DEF Caused
    <3>4. \A j \in R \ a : j \in refused' \ accepted'
      BY <1>1, <2>1
    <3>5. Caused(s, a, refused', n)
      BY <2>1, <3>3, <3>4, <1>1 DEF Caused
    <3> QED BY <1>1, <2>1, <2>2, <3>5
  <2> QED BY <2>8, <2>9
<1> QED BY <1>4, <1>5

\* Refusals have causes at each step, as the file is what Returned says.
LEMMA ExplainedStep == TypeInv /\ Fresh /\ Returned /\ Explained /\ [Next]_vars => Explained'
<1> SUFFICES ASSUME TypeInv, Fresh, Returned, Explained, [Next]_vars PROVE Explained'
  OBVIOUS
<1>1. CASE AgentEdits
  <2>1. stage' # "entry"
    BY <1>1 DEF AgentEdits
  <2> QED BY <2>1 DEF Explained
<1>2. CASE Save
  <2>1. stage' # "entry"
    BY <1>2 DEF Save
  <2> QED BY <2>1 DEF Explained
<1>3. CASE UserAccepts
  <2>1. stage' # "entry"
    BY <1>3 DEF UserAccepts
  <2> QED BY <2>1 DEF Explained
<1>4. CASE Enter
  <2>1. stage = "outside" /\ refused' = refused
    BY <1>4 DEF Enter
  <2>2. refused' = {}
    BY <2>1 DEF Fresh
  <2> QED BY <2>2 DEF Explained
<1>5. CASE Begin \/ ParseFails
  <2>1. stage' # "entry"
    BY <1>5 DEF Begin, ParseFails
  <2> QED BY <2>1 DEF Explained
<1>6. CASE UNCHANGED vars
  <2>1. UNCHANGED <<stage, patches, saved, refused, accepted>>
    BY <1>6 DEF vars
  <2>2. Distinct' <=> Distinct
    BY <2>1 DEF Distinct
  <2> QED BY <2>1, <2>2 DEF Explained
<1> QED BY <1>1, <1>2, <1>3, <1>4, <1>5, <1>6, ExplainedApply DEF Next

\* If no line is in the file twice, the next context refuses a patch only because the user
\* accepted it, because it leaves out a line of its stretch, because it shows a line of the
\* file otherwise than it is, or because it shows an earlier annotation that was itself
\* refused.
THEOREM RefusalsExplained == Spec => []RefusedHasCause
<1>1. Init => TypeInv /\ Fresh /\ Returned /\ Explained
  <2>1. Init => Explained
    BY DEF Init, Explained
  <2> QED BY <2>1, TypeInvInit, FreshInit, ReturnedInit
<1>2. TypeInv /\ Fresh /\ Returned /\ Explained /\ [Next]_vars
        => TypeInv' /\ Fresh' /\ Returned' /\ Explained'
  BY TypeInvStep, FreshStep, ReturnedStep, ExplainedStep
<1>3. Explained => RefusedHasCause
  BY ExplainedSo
<1> QED BY <1>1, <1>2, <1>3, PTL DEF Spec
=============================================================================
