--------------------------- MODULE Timeline_proofs ---------------------------
(* What the lists of module Timeline are, for any list and any set: in order,  *)
(* with every element, each once. Where a proof needs a loop over a list, it    *)
(* takes the first index at which something would be wrong (LeastNumber).      *)
EXTENDS Timeline, FiniteSetTheorems, TLAPS

-----------------------------------------------------------------------------
(***************************************************************************)
(* Lists in order. Before[x] is the set of the elements of S before x; in   *)
(* a total order the number of them tells the elements apart, and takes     *)
(* every value from 0 up, so that InOrder lists every element once.         *)
(***************************************************************************)
TotalOrder(S, Before) ==
    /\ Before \in [S -> SUBSET S]
    /\ \A x \in S : x \notin Before[x]
    /\ \A x, y \in S : x \in Before[y] => Before[x] \subseteq Before[y]
    /\ \A x, y \in S : x = y \/ x \in Before[y] \/ y \in Before[x]

LEMMA RanksGrow ==
  ASSUME NEW S, IsFiniteSet(S), NEW Before, TotalOrder(S, Before), NEW x \in S, NEW y \in S
  PROVE  /\ Cardinality(Before[x]) \in 0..(Cardinality(S) - 1)
         /\ x \in Before[y] <=> Cardinality(Before[x]) < Cardinality(Before[y])
<1>1. ASSUME NEW a \in S, NEW b \in S, a \in Before[b]
      PROVE  Cardinality(Before[a]) < Cardinality(Before[b])
  <2>1. Before[a] \subseteq Before[b] \ {a} /\ Before[b] \subseteq S
    BY <1>1 DEF TotalOrder
  <2>2. IsFiniteSet(Before[b]) /\ IsFiniteSet(Before[b] \ {a})
    BY <2>1, FS_Subset
  <2>3. Cardinality(Before[b] \ {a}) = Cardinality(Before[b]) - 1 /\ Cardinality(Before[b]) \in Nat
    BY <1>1, <2>2, FS_RemoveElement, FS_CardinalityType
  <2>4. Cardinality(Before[a]) =< Cardinality(Before[b] \ {a}) /\ Cardinality(Before[a]) \in Nat
    BY <2>1, <2>2, FS_Subset, FS_CardinalityType
  <2>5. QED BY <2>3, <2>4
<1>2. Cardinality(Before[x]) \in Nat /\ Cardinality(Before[y]) \in Nat
  BY FS_Subset, FS_CardinalityType DEF TotalOrder
<1>3. Cardinality(Before[x]) < Cardinality(S)
  <2>1. Before[x] \subseteq S \ {x} /\ IsFiniteSet(S \ {x})
    BY FS_RemoveElement DEF TotalOrder
  <2>2. Cardinality(S \ {x}) = Cardinality(S) - 1 /\ Cardinality(S) \in Nat
    BY FS_RemoveElement, FS_CardinalityType
  <2>3. Cardinality(Before[x]) =< Cardinality(S \ {x})
    BY <2>1, FS_Subset
  <2>4. QED BY <1>2, <2>2, <2>3
<1>4. CASE x \in Before[y]
  BY <1>1, <1>2, <1>3, <1>4, FS_CardinalityType
<1>5. CASE y \in Before[x]
  <2>1. Cardinality(Before[y]) < Cardinality(Before[x])
    BY <1>1, <1>5
  <2>2. x \notin Before[y]
    BY <1>5 DEF TotalOrder
  <2>3. QED BY <1>2, <1>3, <2>1, <2>2, FS_CardinalityType
<1>6. CASE x = y
  BY <1>2, <1>3, <1>6, FS_CardinalityType DEF TotalOrder
<1>7. QED BY <1>4, <1>5, <1>6 DEF TotalOrder

LEMMA EveryRank ==
  ASSUME NEW S, IsFiniteSet(S), NEW Before, TotalOrder(S, Before), NEW k \in 1..Cardinality(S)
  PROVE  \E x \in S : Cardinality(Before[x]) = k - 1
<1> DEFINE n == Cardinality(S)
           rank == [x \in S |-> Cardinality(Before[x])]
<1>1. n \in Nat /\ IsFiniteSet(0..(n - 1)) /\ Cardinality(0..(n - 1)) = n
  <2>1. n \in Nat /\ 0 =< n - 1 /\ n - 1 \in Int
    BY FS_CardinalityType
  <2>2. QED BY <2>1, FS_Interval
<1>2. rank \in [S -> 0..(n - 1)]
  BY RanksGrow
<1>3. ASSUME NEW x \in S, NEW y \in S, rank[x] = rank[y] PROVE x = y
  <2>1. ~(rank[x] < rank[y]) /\ ~(rank[y] < rank[x])
    BY <1>1, <1>2, <1>3
  <2>2. x \notin Before[y] /\ y \notin Before[x]
    BY <2>1, RanksGrow
  <2>3. QED BY <2>2 DEF TotalOrder
<1>4. rank \in Injection(S, 0..(n - 1))
  BY <1>2, <1>3 DEF Injection, IsInjective
<1>5. rank \in Surjection(S, 0..(n - 1))
  BY <1>1, <1>4, FS_Injection
<1>6. \A i \in 0..(n - 1) : \E x \in S : rank[x] = i
  BY <1>5 DEF Surjection
<1>7. k - 1 \in 0..(n - 1)
  BY <1>1
<1> HIDE DEF n, rank
<1>8. PICK x \in S : rank[x] = k - 1
  BY <1>6, <1>7
<1>9. QED BY <1>8 DEF rank

(* The elements of S, each once, each after those before it *)
Lists(s, S, Before) ==
    /\ s \in [1..Cardinality(S) -> S]
    /\ \A k \in 1..Cardinality(S) : Cardinality(Before[s[k]]) = k - 1

LEMMA ListsAll ==
  ASSUME NEW S, IsFiniteSet(S), NEW Before, TotalOrder(S, Before), NEW s, Lists(s, S, Before)
  PROVE  /\ s \in Seq(S) /\ Len(s) = Cardinality(S) /\ DOMAIN s = 1..Cardinality(S)
         /\ \A x \in S : \E k \in DOMAIN s : s[k] = x
         /\ \A i, j \in DOMAIN s : i < j => s[i] \in Before[s[j]]
<1>1. Cardinality(S) \in Nat
  BY FS_CardinalityType
<1>2. s \in Seq(S) /\ Len(s) = Cardinality(S) /\ DOMAIN s = 1..Cardinality(S)
  BY <1>1 DEF Lists
<1>3. ASSUME NEW x \in S PROVE \E k \in DOMAIN s : s[k] = x
  <2> DEFINE k == Cardinality(Before[x]) + 1
  <2>1. k \in 1..Cardinality(S) /\ k - 1 = Cardinality(Before[x])
    BY <1>1, RanksGrow
  <2>2. s[k] \in S /\ Cardinality(Before[s[k]]) = Cardinality(Before[x])
    BY <2>1 DEF Lists
  <2>3. s[k] \notin Before[x] /\ x \notin Before[s[k]]
    BY <2>2, <2>1, RanksGrow
  <2>4. QED BY <1>2, <2>1, <2>2, <2>3 DEF TotalOrder
<1>4. ASSUME NEW i \in DOMAIN s, NEW j \in DOMAIN s, i < j PROVE s[i] \in Before[s[j]]
  <2>1. s[i] \in S /\ s[j] \in S
    BY <1>2 DEF Lists
  <2>2. Cardinality(Before[s[i]]) < Cardinality(Before[s[j]])
    BY <1>1, <1>2, <1>4 DEF Lists
  <2>3. QED BY <2>1, <2>2, RanksGrow
<1>5. QED BY <1>2, <1>3, <1>4

LEMMA ListsUnique ==
  ASSUME NEW S, IsFiniteSet(S), NEW Before, TotalOrder(S, Before),
         NEW s, Lists(s, S, Before), NEW t, Lists(t, S, Before)
  PROVE  s = t
<1>1. ASSUME NEW k \in 1..Cardinality(S) PROVE s[k] = t[k]
  <2>1. s[k] \in S /\ t[k] \in S /\ Cardinality(Before[s[k]]) = Cardinality(Before[t[k]])
    BY DEF Lists
  <2>2. s[k] \notin Before[t[k]] /\ t[k] \notin Before[s[k]]
    BY <2>1, RanksGrow
  <2>3. QED BY <2>1, <2>2 DEF TotalOrder
<1>2. s = [k \in 1..Cardinality(S) |-> s[k]] /\ t = [k \in 1..Cardinality(S) |-> t[k]]
  BY DEF Lists
<1>3. QED BY <1>1, <1>2

(* The orders in use: by start, by index, and by start where equal starts keep
   another order. *)
DistinctStarts(S) ==
    /\ \A x \in S : x.from \in Int
    /\ \A x, y \in S : x.from = y.from => x = y

Sooner(S) == [x \in S |-> {y \in S : Earlier(y, x)}]

LEMMA EarlierLists ==
  ASSUME NEW S, IsFiniteSet(S), DistinctStarts(S)
  PROVE  TotalOrder(S, Sooner(S)) /\ Lists(InOrder(S, Earlier), S, Sooner(S))
<1>1. TotalOrder(S, Sooner(S))
  BY DEF DistinctStarts, TotalOrder, Sooner, Earlier
<1>2. ASSUME NEW k \in 1..Cardinality(S)
      PROVE  /\ InOrder(S, Earlier)[k] \in S
             /\ Cardinality(Sooner(S)[InOrder(S, Earlier)[k]]) = k - 1
  <2>1. PICK x \in S : Cardinality(Sooner(S)[x]) = k - 1
    BY <1>1, EveryRank
  <2>2. \E y \in S : Cardinality({z \in S : Earlier(z, y)}) = k - 1
    BY <2>1 DEF Sooner
  <2>3. QED BY <2>2 DEF InOrder, Sooner
<1>3. InOrder(S, Earlier) \in [1..Cardinality(S) -> S]
  BY <1>2 DEF InOrder
<1>4. QED BY <1>1, <1>2, <1>3 DEF Lists

Lower(I) == [i \in I |-> {j \in I : j < i}]

LEMMA IndexLists ==
  ASSUME NEW I \in SUBSET Nat, IsFiniteSet(I)
  PROVE  TotalOrder(I, Lower(I)) /\ Lists(InOrder(I, <), I, Lower(I))
<1>1. TotalOrder(I, Lower(I))
  <2>1. \A x, y \in I : x \in Lower(I)[y] <=> x < y
    BY DEF Lower
  <2>2. Lower(I) \in [I -> SUBSET I]
    BY DEF Lower
  <2>3. ASSUME NEW x \in I, NEW y \in I, x \in Lower(I)[y], NEW z \in Lower(I)[x]
        PROVE  z \in Lower(I)[y]
    <3>1. z \in I /\ z < x /\ x < y
      BY <2>1, <2>2, <2>3
    <3>2. z < y
      BY <3>1
    <3>3. QED BY <2>1, <3>1, <3>2
  <2>4. \A x, y \in I : x = y \/ x < y \/ y < x
    OBVIOUS
  <2>5. QED BY <2>1, <2>2, <2>3, <2>4 DEF TotalOrder
<1>2. ASSUME NEW k \in 1..Cardinality(I)
      PROVE  /\ InOrder(I, <)[k] \in I
             /\ Cardinality(Lower(I)[InOrder(I, <)[k]]) = k - 1
  <2>1. PICK x \in I : Cardinality(Lower(I)[x]) = k - 1
    BY <1>1, EveryRank
  <2>2. \E y \in I : Cardinality({z \in I : z < y}) = k - 1
    BY <2>1 DEF Lower
  <2>3. QED BY <2>2 DEF InOrder, Lower
<1>3. InOrder(I, <) \in [1..Cardinality(I) -> I]
  BY <1>2 DEF InOrder
<1>4. QED BY <1>1, <1>2, <1>3 DEF Lists

(* What is kept of a list is what stands at the indices, in their order. *)
Places(I) == InOrder(I, <)

LEMMA KeptIs ==
  ASSUME NEW X, NEW s \in Seq(X), NEW I \in SUBSET (DOMAIN s)
  PROVE  /\ Kept(s, I) \in Seq(X)
         /\ \A i \in I : \E k \in DOMAIN Kept(s, I) : Kept(s, I)[k] = s[i]
         /\ Places(I) \in [DOMAIN Kept(s, I) -> I]
         /\ \A k, l \in DOMAIN Kept(s, I) :
               Kept(s, I)[k] = s[Places(I)[k]] /\ (Places(I)[k] = Places(I)[l] => k = l)
<1>1. DOMAIN s = 1..Len(s) /\ Len(s) \in Nat
  OBVIOUS
<1>2. IsFiniteSet(I) /\ I \in SUBSET Nat
  <2>1. IsFiniteSet(1..Len(s)) /\ I \in SUBSET (1..Len(s))
    BY <1>1, FS_Interval
  <2>2. QED BY <2>1, FS_Subset
<1> DEFINE order == Places(I)
<1>3. TotalOrder(I, Lower(I)) /\ Lists(order, I, Lower(I))
  BY <1>2, IndexLists DEF Places
<1> HIDE DEF order
<1>4. Cardinality(I) \in Nat /\ order \in [1..Cardinality(I) -> I]
  BY <1>2, <1>3, FS_CardinalityType DEF Lists
<1>5. /\ DOMAIN order = 1..Cardinality(I)
      /\ \A i \in I : \E k \in DOMAIN order : order[k] = i
      /\ \A k, l \in DOMAIN order : k < l => order[k] \in Lower(I)[order[l]]
  <2>1. IsFiniteSet(I)
    BY <1>2
  <2>2. QED BY <1>3, <2>1, ListsAll
<1>6. Kept(s, I) = [k \in 1..Cardinality(I) |-> s[order[k]]]
  BY DEF Kept, Places, order
<1>7. \A k \in 1..Cardinality(I) : order[k] \in I /\ s[order[k]] \in X
  BY <1>1, <1>4
<1>8. Kept(s, I) \in Seq(X) /\ DOMAIN Kept(s, I) = 1..Cardinality(I)
  BY <1>4, <1>6, <1>7
<1>9. ASSUME NEW k \in 1..Cardinality(I), NEW l \in 1..Cardinality(I), order[k] = order[l]
      PROVE  k = l
  <2>1. ASSUME NEW a \in 1..Cardinality(I), NEW b \in 1..Cardinality(I), a < b
        PROVE  order[a] # order[b]
    <3>1. order[a] \in Lower(I)[order[b]] /\ order[b] \in I
      BY <1>4, <1>5, <2>1
    <3>2. order[a] < order[b] /\ order[b] \in Nat
      BY <1>2, <3>1 DEF Lower
    <3>3. QED BY <3>2
  <2>2. ~(k < l) /\ ~(l < k)
    BY <1>9, <2>1
  <2>3. QED BY <1>4, <2>2
<1>10. /\ order \in [DOMAIN Kept(s, I) -> I]
       /\ \A k, l \in DOMAIN Kept(s, I) : Kept(s, I)[k] = s[order[k]] /\ (order[k] = order[l] => k = l)
  BY <1>4, <1>6, <1>8, <1>9
<1>11. \A i \in I : \E k \in DOMAIN Kept(s, I) : Kept(s, I)[k] = s[i]
  BY <1>5, <1>6, <1>8
<1>12. QED BY <1>8, <1>10, <1>11 DEF order

(* A sequence that has every element, each after those before it, is the list. *)
LEMMA ListedIs ==
  ASSUME NEW S, IsFiniteSet(S), NEW Before, TotalOrder(S, Before), NEW s, NEW n \in Nat,
         s \in [1..n -> S],
         \A x \in S : \E i \in 1..n : s[i] = x,
         \A i, j \in 1..n : s[i] \in Before[s[j]] <=> i < j
  PROVE  Lists(s, S, Before)
<1>1. ASSUME NEW k \in 0..n, NEW T, T = {s[i] : i \in 1..k} PROVE Cardinality(T) = k
  <2> DEFINE f == [i \in 1..k |-> s[i]]
  <2>1. IsFiniteSet(1..k) /\ Cardinality(1..k) = k
    BY FS_Interval
  <2>2. ASSUME NEW i \in 1..k, NEW j \in 1..k, s[i] = s[j] PROVE i = j
    <3>1. i \in 1..n /\ j \in 1..n /\ s[i] \in S
      OBVIOUS
    <3>2. s[i] \notin Before[s[i]]
      BY <3>1 DEF TotalOrder
    <3>3. ~(i < j) /\ ~(j < i)
      BY <2>2, <3>1, <3>2
    <3>4. QED BY <3>1, <3>3
  <2>3. f \in Bijection(1..k, T)
    BY <1>1, <2>2 DEF Bijection, Injection, Surjection, IsInjective
  <2>4. ExistsBijection(1..k, T)
    BY <2>3 DEF ExistsBijection
  <2>5. QED BY <2>1, <2>4, FS_Bijection
<1>2. S = {s[i] : i \in 1..n}
  OBVIOUS
<1>3. Cardinality(S) = n
  BY <1>1, <1>2
<1>4. ASSUME NEW k \in 1..n PROVE Cardinality(Before[s[k]]) = k - 1
  <2>1. Before[s[k]] = {s[i] : i \in 1..(k - 1)}
    <3>1. Before[s[k]] \subseteq S
      BY DEF TotalOrder
    <3>2. ASSUME NEW x \in Before[s[k]] PROVE \E i \in 1..(k - 1) : x = s[i]
      <4>1. PICK i \in 1..n : s[i] = x
        BY <3>1
      <4>2. i < k
        BY <4>1
      <4>3. QED BY <4>1, <4>2
    <3>3. ASSUME NEW i \in 1..(k - 1) PROVE s[i] \in Before[s[k]]
      BY <3>3
    <3>4. QED BY <3>2, <3>3
  <2>2. k - 1 \in 0..n
    OBVIOUS
  <2>3. QED BY <1>1, <2>1, <2>2
<1>5. QED BY <1>3, <1>4 DEF Lists

LEMMA Joined ==
  ASSUME NEW X, NEW s \in Seq(X), NEW t \in Seq(X)
  PROVE  /\ s \o t \in Seq(X)
         /\ Len(s \o t) = Len(s) + Len(t)
         /\ \A i \in DOMAIN s : i \in DOMAIN (s \o t) /\ (s \o t)[i] = s[i]
         /\ \A j \in DOMAIN t : Len(s) + j \in DOMAIN (s \o t) /\ (s \o t)[Len(s) + j] = t[j]
         /\ \A k \in DOMAIN (s \o t) :
               \/ k \in DOMAIN s
               \/ k > Len(s) /\ k - Len(s) \in DOMAIN t /\ (s \o t)[k] = t[k - Len(s)]
OBVIOUS

LEMMA FewStarts ==
  ASSUME NEW S, NEW n \in Nat, DistinctStarts(S), \A x \in S : x.from \in 0..n
  PROVE  IsFiniteSet(S)
<1> DEFINE start == [x \in S |-> x.from]
<1>1. start \in Injection(S, 0..n)
  BY DEF DistinctStarts, Injection, IsInjective
<1>2. QED BY <1>1, FS_Interval, FS_Injection

IsList(s) == s \in Seq(Range(s))

LEMMA EveryListIs ==
  ASSUME NEW s, NEW n \in Nat, s = [k \in 1..n |-> s[k]]
  PROVE  IsList(s)
<1>1. s \in [1..n -> Range(s)]
  BY DEF Range
<1>2. QED BY <1>1 DEF IsList

(* Any numbers have a least one. *)
LEMMA LeastNumber ==
  ASSUME NEW I \in SUBSET Nat, I # {}
  PROVE  Min(I) \in I /\ \A j \in I : Min(I) =< j
<1>1. PICK top \in I : TRUE
  OBVIOUS
<1> DEFINE Low == {j \in I : j =< top}
<1>2. Low \in SUBSET (0..top) /\ Low \in SUBSET Nat /\ top \in Low /\ IsFiniteSet(0..top)
  <2>1. top \in Nat /\ 0 \in Int
    BY <1>1
  <2>2. IsFiniteSet(0..top)
    BY <2>1, FS_Interval
  <2>3. \A j \in Low : j \in Nat /\ j \in 0..top
    BY <2>1
  <2>4. top \in Low
    BY <2>1
  <2> HIDE DEF Low
  <2>5. QED BY <2>2, <2>3, <2>4
<1>3. IsFiniteSet(Low) /\ Low # {}
  BY <1>2, FS_Subset
<1> HIDE DEF Low
<1>4. Cardinality(Low) \in Nat /\ Cardinality(Low) # 0
  BY <1>3, FS_CardinalityType, FS_EmptySet
<1>5. TotalOrder(Low, Lower(Low))
  BY <1>2, <1>3, IndexLists
<1>6. 1 \in 1..Cardinality(Low)
  BY <1>4
<1>7. PICK i \in Low : Cardinality(Lower(Low)[i]) = 1 - 1
  BY <1>3, <1>5, <1>6, EveryRank
<1>8. Lower(Low)[i] = {}
  <2>1. Lower(Low)[i] \subseteq Low
    BY DEF Lower
  <2>2. IsFiniteSet(Lower(Low)[i])
    BY <1>3, <2>1, FS_Subset
  <2>3. QED BY <1>7, <2>2, FS_EmptySet
<1>9. \A j \in Low : i =< j
  BY <1>2, <1>8 DEF Lower
<1>10. i \in I /\ \A j \in I : i =< j
  BY <1>1, <1>2, <1>9 DEF Low
<1>11. QED BY <1>10 DEF Min

(* Sorting a list changes neither its length nor what is in it. *)
LEMMA SortedIs ==
  ASSUME NEW s, IsList(s), \A i \in DOMAIN s : s[i].from \in Nat
  PROVE  LET t == SortedByStart(s) IN
         /\ IsList(t) /\ DOMAIN t = DOMAIN s
         /\ \A k \in DOMAIN t : \E i \in DOMAIN s : t[k] = s[i]
         /\ \A i \in DOMAIN s : \E k \in DOMAIN t : t[k] = s[i]
<1> DEFINE I == DOMAIN s
           First(i, j) == s[i].from < s[j].from \/ (s[i].from = s[j].from /\ i < j)
           Before == [j \in I |-> {i \in I : First(i, j)}]
           order == InOrder(I, First)
           t == SortedByStart(s)
<1>1. I = 1..Len(s) /\ Len(s) \in Nat /\ \A i \in I : i \in Nat
  BY DEF IsList
<1>2. IsFiniteSet(I) /\ Cardinality(I) = Len(s)
  BY <1>1, FS_Interval
<1>3. TotalOrder(I, Before)
  <2> HIDE DEF I
  <2>1. Before \in [I -> SUBSET I] /\ \A i, j \in I : i \in Before[j] <=> First(i, j)
    OBVIOUS
  <2>2. \A i \in I : s[i].from \in Nat
    BY DEF I
  <2>3. \A i \in I : ~First(i, i)
    BY <1>1, <2>2
  <2>4. \A i, j \in I : i = j \/ First(i, j) \/ First(j, i)
    BY <1>1, <2>2
  <2>5. ASSUME NEW i \in I, NEW j \in I, NEW k \in I, First(i, j), First(j, k) PROVE First(i, k)
    BY <1>1, <2>2, <2>5
  <2> HIDE DEF Before, First
  <2>6. \A j, k \in I : j \in Before[k] => Before[j] \subseteq Before[k]
    <3> SUFFICES ASSUME NEW j \in I, NEW k \in I, j \in Before[k], NEW i \in Before[j] PROVE i \in Before[k]
      OBVIOUS
    <3>1. i \in I
      BY <2>1
    <3>2. QED BY <2>1, <2>5, <3>1
  <2>7. QED BY <2>1, <2>3, <2>4, <2>6 DEF TotalOrder
<1>4. ASSUME NEW k \in 1..Cardinality(I)
      PROVE  order[k] \in I /\ Cardinality(Before[order[k]]) = k - 1
  <2> HIDE DEF I, Before, First
  <2>1. PICK i \in I : Cardinality(Before[i]) = k - 1
    BY <1>2, <1>3, EveryRank
  <2>2. \E j \in I : Cardinality({x \in I : First(x, j)}) = k - 1
    BY <2>1 DEF Before
  <2>3. QED BY <2>2 DEF InOrder, Before
<1>5. order \in [1..Cardinality(I) -> I]
  BY <1>4 DEF InOrder
<1>6. t = [k \in I |-> s[order[k]]]
  BY DEF SortedByStart
<1> HIDE DEF order, t, Before, I
<1>7. Lists(order, I, Before)
  BY <1>4, <1>5 DEF Lists
<1>8. \A i \in I : \E k \in DOMAIN order : order[k] = i
  BY <1>2, <1>3, <1>7, ListsAll
<1>9. order \in [I -> I] /\ \A i \in I : \E k \in I : order[k] = i
  BY <1>1, <1>2, <1>5, <1>8
<1>10. IsList(t)
  <2>1. t = [k \in 1..Len(s) |-> t[k]]
    BY <1>1, <1>6
  <2>2. QED BY <1>1, <2>1, EveryListIs
<1>11. QED BY <1>6, <1>9, <1>10 DEF I, t

(* Finitely many numbers have a greatest one. *)
LEMMA GreatestNumber ==
  ASSUME NEW I \in SUBSET Nat, IsFiniteSet(I), I # {}
  PROVE  Max(I) \in I /\ \A j \in I : j =< Max(I)
<1>1. TotalOrder(I, Lower(I))
  BY IndexLists
<1>2. Cardinality(I) \in Nat /\ Cardinality(I) # 0
  BY FS_CardinalityType, FS_EmptySet
<1> DEFINE n == Cardinality(I)
<1>3. n \in 1..Cardinality(I)
  BY <1>2
<1> HIDE DEF n
<1>4. PICK i \in I : Cardinality(Lower(I)[i]) = n - 1
  BY <1>1, <1>3, EveryRank
<1>5. ASSUME NEW j \in I PROVE j =< i
  <2>1. /\ Cardinality(Lower(I)[j]) \in 0..(Cardinality(I) - 1)
        /\ i \in Lower(I)[j] <=> Cardinality(Lower(I)[i]) < Cardinality(Lower(I)[j])
    BY <1>1, RanksGrow
  <2>2. i \notin Lower(I)[j]
    BY <1>2, <1>4, <2>1 DEF n
  <2>3. QED BY <2>2 DEF Lower
<1>6. \E x \in I : \A y \in I : x >= y
  BY <1>5
<1>7. Max(I) \in I /\ \A y \in I : Max(I) >= y
  BY <1>6 DEF Max
<1>8. QED BY <1>7

LEMMA GreatestIs ==
  ASSUME NEW S \in SUBSET Int, NEW m \in S, \A x \in S : x =< m
  PROVE  Max(S) = m
<1>1. \E x \in S : \A y \in S : x >= y
  OBVIOUS
<1>2. Max(S) \in S /\ \A y \in S : Max(S) >= y
  BY <1>1 DEF Max
<1>3. Max(S) \in Int /\ m \in Int /\ Max(S) =< m /\ m =< Max(S)
  BY <1>2
<1>4. QED BY <1>3

LEMMA LeastIs ==
  ASSUME NEW S \in SUBSET Int, NEW m \in S, \A x \in S : m =< x
  PROVE  Min(S) = m
<1>1. \E x \in S : \A y \in S : x =< y
  OBVIOUS
<1>2. Min(S) \in S /\ \A y \in S : Min(S) =< y
  BY <1>1 DEF Min
<1>3. Min(S) \in Int /\ m \in Int /\ Min(S) =< m /\ m =< Min(S)
  BY <1>2
<1>4. QED BY <1>3

(* A list cut before each of the indices first, as Stretches cuts it, falls into
   parts that follow one another, none of them empty. *)
CutBefore(s, first) ==
    LET firsts == InOrder(first, <)
        last(i) == Max({j \in i..Len(s) : (i + 1)..j \cap first = {}})
    IN [k \in DOMAIN firsts |-> SubSeq(s, firsts[k], last(firsts[k]))]

PartsOf(X, s, first, parts, n) ==
    /\ n \in Nat /\ parts \in Seq(Seq(X)) /\ DOMAIN parts = 1..n /\ Len(parts) = n
    /\ \E cut \in [0..n -> 0..Len(s)] :
          /\ cut[0] = 0 /\ cut[n] = Len(s)
          /\ \A k \in 1..n :
                /\ cut[k - 1] < cut[k]
                /\ parts[k] = SubSeq(s, cut[k - 1] + 1, cut[k])
                /\ \A i \in (cut[k - 1] + 2)..cut[k] : i \notin first

LEMMA PartsAre ==
  ASSUME NEW X, NEW s \in Seq(X), NEW first \in SUBSET (DOMAIN s),
         Len(s) > 0 => 1 \in first
  PROVE  PartsOf(X, s, first, CutBefore(s, first), Cardinality(first))
<1> DEFINE parts == CutBefore(s, first)
           n == Cardinality(first)
           order == InOrder(first, <)
           last(i) == Max({j \in i..Len(s) : (i + 1)..j \cap first = {}})
           cut == [k \in 0..n |-> IF k = n THEN Len(s) ELSE order[k + 1] - 1]
<1>1. DOMAIN s = 1..Len(s) /\ Len(s) \in Nat
  OBVIOUS
<1>2. IsFiniteSet(first) /\ first \in SUBSET Nat /\ first \subseteq 1..Len(s)
  <2>1. IsFiniteSet(1..Len(s)) /\ first \in SUBSET (1..Len(s))
    BY <1>1, FS_Interval
  <2>2. QED BY <2>1, FS_Subset
<1>3. TotalOrder(first, Lower(first)) /\ Lists(order, first, Lower(first))
  BY <1>2, IndexLists
<1>4. n \in Nat
  BY <1>2, FS_CardinalityType
<1>5. /\ order \in Seq(first) /\ DOMAIN order = 1..n
      /\ \A i \in first : \E k \in DOMAIN order : order[k] = i
      /\ \A k, l \in DOMAIN order : k < l => order[k] \in Lower(first)[order[l]]
  <2> HIDE DEF order
  <2>1. QED BY <1>2, <1>3, ListsAll
<1>6. parts = [k \in DOMAIN order |-> SubSeq(s, order[k], last(order[k]))]
  BY DEF CutBefore
<1> HIDE DEF order
<1>7. \A k \in 1..n : order[k] \in first /\ order[k] \in 1..Len(s)
  BY <1>2, <1>3 DEF Lists
<1>8. ASSUME NEW k \in 1..n, NEW l \in 1..n, k < l
      PROVE  order[k] < order[l]
  BY <1>5, <1>7, <1>8 DEF Lower
<1>9. \A k \in 0..n : k = n \/ (k + 1 \in 1..n /\ n > 0)
  BY <1>4
<1>10. cut \in [0..n -> 0..Len(s)]
  BY <1>1, <1>7, <1>9
<1>11. cut[n] = Len(s) /\ \A k \in 0..n : k # n => cut[k] = order[k + 1] - 1
  BY <1>4
<1>12. cut[0] = 0
  <2>1. CASE Len(s) = 0
    BY <1>4, <1>10, <2>1
  <2>2. CASE Len(s) > 0
    <3>1. PICK j \in 1..n : order[j] = 1
      BY <1>5, <2>2
    <3>2. 1 \in 1..n /\ n # 0 /\ 0 \in 0..n
      BY <1>4, <3>1
    <3>3. order[1] = 1
      BY <1>7, <1>8, <3>1, <3>2
    <3>4. QED BY <1>11, <3>2, <3>3
  <2>3. QED BY <1>1, <2>1, <2>2
<1> HIDE DEF cut, n
<1>13. ASSUME NEW k \in 1..n
       PROVE  /\ cut[k - 1] + 1 = order[k] /\ order[k] =< cut[k] /\ cut[k] =< Len(s)
              /\ \A i \in first : i =< order[k] \/ i > cut[k]
              /\ k # n => cut[k] + 1 \in first
              /\ cut[k] \in Int
  <2>1. k - 1 \in 0..n /\ k \in 0..n /\ k - 1 # n /\ (k - 1) + 1 = k
    BY <1>4
  <2>2. cut[k - 1] + 1 = order[k]
    BY <1>7, <1>11, <2>1
  <2>3. CASE k = n
    <3>1. cut[k] = Len(s)
      BY <1>11, <2>3
    <3>2. \A i \in first : i =< order[k]
      <4>1. SUFFICES ASSUME NEW i \in first PROVE i =< order[k]
        OBVIOUS
      <4>2. PICK j \in 1..n : order[j] = i
        BY <1>5
      <4>3. j < k \/ j = k
        BY <1>4, <2>3
      <4>4. QED BY <1>7, <1>8, <4>2, <4>3
    <3>3. QED BY <1>1, <1>7, <2>2, <2>3, <3>1, <3>2
  <2>4. CASE k # n
    <3>1. k + 1 \in 1..n /\ k < k + 1
      BY <1>4, <2>4
    <3>2. cut[k] = order[k + 1] - 1
      BY <1>11, <2>1, <2>4
    <3>3. order[k] < order[k + 1] /\ order[k + 1] \in first /\ order[k + 1] \in 1..Len(s)
      BY <1>7, <1>8, <3>1
    <3>4. \A i \in first : i =< order[k] \/ i > cut[k]
      <4>1. SUFFICES ASSUME NEW i \in first PROVE i =< order[k] \/ i > cut[k]
        OBVIOUS
      <4>2. PICK j \in 1..n : order[j] = i
        BY <1>5
      <4>3. j < k \/ j = k \/ j = k + 1 \/ k + 1 < j
        BY <1>4
      <4>4. CASE j < k \/ j = k
        BY <1>7, <1>8, <4>2, <4>4
      <4>5. CASE j = k + 1 \/ k + 1 < j
        <5>1. order[k + 1] =< i
          BY <1>7, <1>8, <3>1, <4>2, <4>5
        <5>2. i \in 1..Len(s)
          BY <1>2
        <5>3. QED BY <3>2, <3>3, <5>1, <5>2
      <4>6. QED BY <4>3, <4>4, <4>5
    <3>5. QED BY <1>1, <1>7, <2>2, <3>2, <3>3, <3>4
  <2>5. QED BY <2>3, <2>4
<1>14. ASSUME NEW k \in 1..n
       PROVE  last(order[k]) = cut[k]
  <2> DEFINE i == order[k]
             S == {j \in i..Len(s) : (i + 1)..j \cap first = {}}
  <2>1. i \in 1..Len(s) /\ i \in Int /\ Len(s) \in Int
    BY <1>1, <1>7
  <2>2. /\ i =< cut[k] /\ cut[k] =< Len(s) /\ cut[k] \in Int
        /\ \A a \in first : a =< i \/ a > cut[k]
        /\ k # n => cut[k] + 1 \in first
    BY <1>13
  <2> HIDE DEF i
  <2>3. cut[k] \in S
    <3>1. cut[k] \in i..Len(s)
      BY <2>1, <2>2
    <3>2. ASSUME NEW a \in (i + 1)..cut[k] PROVE a \notin first
      BY <2>1, <2>2
    <3>3. QED BY <3>1, <3>2
  <2>4. ASSUME NEW j \in S PROVE j =< cut[k]
    <3>1. j \in i..Len(s) /\ (i + 1)..j \cap first = {}
      OBVIOUS
    <3>2. j \in Int /\ i =< j /\ j =< Len(s)
      BY <2>1, <3>1
    <3>3. CASE k = n
      BY <1>11, <3>2, <3>3
    <3>4. CASE k # n
      <4>1. cut[k] + 1 \notin (i + 1)..j
        BY <2>2, <3>1, <3>4
      <4>2. QED BY <2>1, <2>2, <3>2, <4>1
    <3>5. QED BY <3>3, <3>4
  <2>5. S \in SUBSET Int
    BY <2>1
  <2> HIDE DEF S
  <2>6. Max(S) = cut[k]
    BY <2>3, <2>4, <2>5, GreatestIs
  <2>7. QED BY <2>6 DEF S, i
<1> HIDE DEF last
<1>15. ASSUME NEW k \in 1..n
       PROVE  /\ cut[k - 1] < cut[k]
              /\ parts[k] = SubSeq(s, cut[k - 1] + 1, cut[k])
              /\ \A i \in (cut[k - 1] + 2)..cut[k] : i \notin first
  <2>1. parts[k] = SubSeq(s, order[k], last(order[k]))
    BY <1>5, <1>6
  <2>2. /\ cut[k - 1] + 1 = order[k] /\ order[k] =< cut[k] /\ order[k] \in Int
        /\ cut[k] \in Int /\ cut[k - 1] \in Int
        /\ \A i \in first : i =< order[k] \/ i > cut[k]
    <3>1. k - 1 \in 0..n
      BY <1>4
    <3>2. cut[k - 1] \in Int
      BY <1>1, <1>10, <3>1
    <3>3. QED BY <1>7, <1>13, <3>2
  <2>3. parts[k] = SubSeq(s, cut[k - 1] + 1, cut[k])
    BY <1>14, <2>1, <2>2
  <2>4. cut[k - 1] < cut[k]
    BY <2>2
  <2>5. ASSUME NEW i \in (cut[k - 1] + 2)..cut[k] PROVE i \notin first
    BY <2>2
  <2>6. QED BY <2>3, <2>4, <2>5
<1>16. \A k \in 1..n : SubSeq(s, cut[k - 1] + 1, cut[k]) \in Seq(X)
  <2>1. SUFFICES ASSUME NEW k \in 1..n PROVE SubSeq(s, cut[k - 1] + 1, cut[k]) \in Seq(X)
    OBVIOUS
  <2>2. cut[k - 1] + 1 \in 1..(Len(s) + 1) /\ cut[k] \in 0..Len(s)
    <3>1. k - 1 \in 0..n /\ k \in 0..n
      BY <1>4
    <3>2. cut[k - 1] \in 0..Len(s) /\ cut[k] \in 0..Len(s)
      BY <1>10, <3>1
    <3>3. QED BY <1>1, <3>2
  <2>3. QED BY <1>1, <2>2
<1>17. parts \in [1..n -> Seq(X)]
  <2>1. \A k \in 1..n : parts[k] \in Seq(X)
    BY <1>15, <1>16
  <2>2. parts = [k \in 1..n |-> SubSeq(s, order[k], last(order[k]))]
    BY <1>5, <1>6
  <2>3. parts = [k \in 1..n |-> parts[k]]
    BY <2>2
  <2> HIDE DEF parts
  <2>4. QED BY <2>1, <2>3
<1>18. parts \in Seq(Seq(X)) /\ DOMAIN parts = 1..n /\ Len(parts) = n
  BY <1>4, <1>17
<1> HIDE DEF parts
<1>19. PartsOf(X, s, first, parts, n)
  BY <1>4, <1>10, <1>11, <1>12, <1>15, <1>18 DEF PartsOf
<1>20. QED BY <1>19 DEF parts, n

=============================================================================
