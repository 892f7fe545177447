--------------------------- MODULE CatalogueProofs ---------------------------
(***************************************************************************)
(* Proofs about Catalogue for any feeds, thresholds, limits, views and     *)
(* number of refreshes: all invariants that its run checks.                *)
(*                                                                         *)
(* The pipeline works on lists of any length.  Each map or filter of it is *)
(* a recursive function whose results, one after every item, the lemmas    *)
(* ...Steps name; what holds after each item is proved by induction over   *)
(* the items (ItemInduction).  That these functions exist at all follows   *)
(* from Recursion.  The sort is not recursive: Places shows that the       *)
(* numbers of items ahead give each item a place of its own.               *)
(*                                                                         *)
(*   Discovered  - merge, filter, rank and deduplicate: nothing is lost;   *)
(*   Aggregated  - there is one token for each address, with its sums;     *)
(*   Detected    - the opportunities are the best of the good pairs;       *)
(*   PageStep    - one more page of a list adds to a beginning of it;      *)
(*   Invariance  - the inductive invariant, Cached and Walk.               *)
(***************************************************************************)
EXTENDS Catalogue, FiniteSetTheorems, SequenceTheorems, TLAPS

-----------------------------------------------------------------------------
(* Induction and recursion.                                                *)

(* What holds of 0, and of n + 1 if of n, holds of all numbers.            *)
LEMMA NumberInduction ==
    ASSUME NEW N \in SUBSET Nat, 0 \in N, \A n \in N : n + 1 \in N
    PROVE  \A n \in Nat : n \in N
<1> SUFFICES ASSUME Nat \ N /= {} PROVE FALSE
  OBVIOUS
<1>1. PICK m \in Nat \ N : \A k \in Nat \ N : <<k, m>> \notin OpToRel(<, Nat)
  <2>1. Nat \ N \subseteq Nat
    OBVIOUS
  <2> QED
    BY <2>1, NatLessThanWellFounded, WFMin
<1>2. m /= 0 /\ m - 1 \in Nat /\ m - 1 < m /\ (m - 1) + 1 = m
  OBVIOUS
<1>3. <<m - 1, m>> \in OpToRel(<, Nat)
  BY <1>2 DEF OpToRel
<1> QED
  BY <1>1, <1>2, <1>3

(* Induction over the items of a sequence.                                 *)
LEMMA ItemInduction ==
    ASSUME NEW N \in Nat, NEW S, 0 \in S, \A n \in 1 .. N : n - 1 \in S => n \in S
    PROVE  \A n \in 0 .. N : n \in S
<1> DEFINE T == {n \in Nat : n <= N => n \in S}
<1>1. T \in SUBSET Nat /\ 0 \in T
  OBVIOUS
<1>2. ASSUME NEW n \in T PROVE n + 1 \in T
  <2> SUFFICES ASSUME n + 1 <= N PROVE n + 1 \in S
    OBVIOUS
  <2>1. n + 1 \in 1 .. N /\ (n + 1) - 1 = n /\ n <= N
    OBVIOUS
  <2> QED
    BY <2>1
<1>3. \A n \in Nat : n \in T
  <2> HIDE DEF T
  <2> QED
    BY <1>1, <1>2, NumberInduction
<1> QED
  BY <1>3

(* A recursion over the items of a sequence has a result for each.         *)
Repeated(A, N, first, step) ==
    \E f \in [0 .. N -> A] : f[0] = first /\ \A n \in 1 .. N : f[n] = step[n][f[n - 1]]

(* A step that maps A to A can be repeated from any first result.          *)
LEMMA Recursion ==
    ASSUME NEW A, NEW N \in Nat, NEW first \in A, NEW step \in [1 .. N -> [A -> A]]
    PROVE  Repeated(A, N, first, step)
<1> DEFINE Upto(f, n) == /\ f \in [0 .. n -> A]
                         /\ f[0] = first
                         /\ \A i \in 1 .. n : f[i] = step[i][f[i - 1]]
           S == {n \in 0 .. N : \E f : Upto(f, n)}
<1>1. 0 \in S
  <2> DEFINE g == [i \in 0 .. 0 |-> first]
  <2>1. g \in [0 .. 0 -> A] /\ g[0] = first
    OBVIOUS
  <2> HIDE DEF g
  <2>2. Upto(g, 0)
    BY <2>1
  <2> QED
    BY <2>2
<1>2. ASSUME NEW n \in 1 .. N, n - 1 \in S PROVE n \in S
  <2>1. PICK f : Upto(f, n - 1)
    BY <1>2
  <2> DEFINE g == [i \in 0 .. n |-> IF i = n THEN step[n][f[n - 1]] ELSE f[i]]
  <2>2. f[n - 1] \in A /\ step[n][f[n - 1]] \in A
    BY <2>1
  <2>3. /\ g \in [0 .. n -> A]
        /\ g[n] = step[n][f[n - 1]]
        /\ \A i \in 0 .. n - 1 : g[i] = f[i]
    BY <2>1, <2>2
  <2> HIDE DEF g
  <2>4. g[0] = first
    BY <2>1, <2>3
  <2>5. ASSUME NEW i \in 1 .. n PROVE g[i] = step[i][g[i - 1]]
    <3>1. i - 1 \in 0 .. n - 1 /\ g[i - 1] = f[i - 1]
      BY <2>3
    <3>2. CASE i = n
      BY <3>1, <3>2, <2>3
    <3>3. CASE i /= n
      <4>1. i \in 1 .. n - 1 /\ g[i] = f[i]
        BY <3>3, <2>3
      <4> QED
        BY <4>1, <3>1, <2>1
    <3> QED
      BY <3>2, <3>3
  <2>6. Upto(g, n)
    BY <2>3, <2>4, <2>5
  <2> QED
    BY <2>6
<1>3. \A n \in 0 .. N : n \in S
  <2> HIDE DEF S
  <2> QED
    BY <1>1, <1>2, ItemInduction
<1>4. N \in S
  BY <1>3
<1> QED
  BY <1>4 DEF Repeated

-----------------------------------------------------------------------------
(* Sorting.                                                                *)

(* If of any two numbers one is ahead of the other, the number of those    *)
(* ahead of it tells each its place.                                       *)
LEMMA Places ==
    ASSUME NEW n \in Nat, NEW ahead \in [1 .. n -> SUBSET (1 .. n)],
           \A i \in 1 .. n : i \notin ahead[i],
           \A i, j \in 1 .. n : i /= j => i \in ahead[j] \/ j \in ahead[i],
           \A i, j, k \in 1 .. n : i \in ahead[j] /\ j \in ahead[k] => i \in ahead[k]
    PROVE  /\ \A i \in 1 .. n : /\ Cardinality(ahead[i]) \in Nat
                                /\ Cardinality(ahead[i]) + 1 \in 1 .. n
           /\ \A k \in 1 .. n : \E i \in 1 .. n : Cardinality(ahead[i]) = k - 1
           /\ \A i, j \in 1 .. n :
                Cardinality(ahead[i]) < Cardinality(ahead[j]) <=> i \in ahead[j]
<1> DEFINE D == 1 .. n
           C(i) == Cardinality(ahead[i])
<1>1. IsFiniteSet(D) /\ Cardinality(D) = n
  BY FS_Interval
<1>2. \A i \in D : ahead[i] \subseteq D /\ IsFiniteSet(ahead[i]) /\ C(i) \in Nat
  BY <1>1, FS_Subset, FS_CardinalityType
<1>3. ASSUME NEW i \in D, NEW j \in D, i \in ahead[j]
      PROVE  C(i) < C(j)
  <2>1. ahead[i] \subseteq ahead[j] \ {i}
    BY <1>2, <1>3
  <2>2. IsFiniteSet(ahead[j] \ {i}) /\ Cardinality(ahead[j] \ {i}) = C(j) - 1
    BY <1>2, <1>3, FS_RemoveElement
  <2>3. C(i) <= Cardinality(ahead[j] \ {i})
    BY <2>1, <2>2, FS_Subset
  <2> QED
    BY <1>2, <2>2, <2>3
<1>4. ASSUME NEW i \in D PROVE C(i) + 1 \in D
  <2>1. ahead[i] \subseteq D \ {i}
    BY <1>2
  <2>2. IsFiniteSet(D \ {i}) /\ Cardinality(D \ {i}) = n - 1
    BY <1>1, FS_RemoveElement
  <2>3. C(i) <= n - 1
    BY <2>1, <2>2, FS_Subset
  <2> QED
    BY <1>2, <2>3
<1>5. ASSUME NEW i \in D, NEW j \in D, C(i) < C(j)
      PROVE  i \in ahead[j]
  <2>1. i /= j /\ j \notin ahead[i]
    BY <1>2, <1>3, <1>5
  <2> QED
    BY <2>1
<1> DEFINE place == [i \in D |-> C(i) + 1]
<1>6. place \in Injection(D, D)
  <2>1. place \in [D -> D]
    BY <1>4
  <2>2. ASSUME NEW i \in D, NEW j \in D, place[i] = place[j] PROVE i = j
    <3>1. C(i) = C(j)
      BY <2>2, <1>2
    <3> QED
      BY <3>1, <1>2, <1>3
  <2> QED
    BY <2>1, <2>2 DEF Injection, IsInjective
<1>7. \A k \in D : \E i \in D : C(i) + 1 = k
  <2>1. place \in Surjection(D, D)
    BY <1>1, <1>6, FS_Injection
  <2>2. \A k \in D : \E i \in D : place[i] = k
    BY <2>1 DEF Surjection
  <2>3. \A i \in D : place[i] = C(i) + 1
    OBVIOUS
  <2> HIDE DEF place, D
  <2> QED
    BY <2>2, <2>3
<1>8. ASSUME NEW k \in D PROVE \E i \in D : C(i) = k - 1
  <2>1. PICK i \in D : C(i) + 1 = k
    BY <1>7
  <2>2. C(i) = k - 1
    BY <2>1, <1>2
  <2> QED
    BY <2>2
<1> QED
  BY <1>2, <1>3, <1>4, <1>5, <1>8

(* pos names the item of list, at one of the places D, that sorted has in  *)
(* each place.                                                             *)
Arranged(sorted, list, key, pos, D) ==
    /\ pos \in [D -> D]
    /\ DOMAIN sorted = D
    /\ \A k \in D : sorted[k] = list[pos[k]]
    /\ \A k, l \in D : k < l => key[pos[k]] <= key[pos[l]]
    /\ \A i \in D : \E k \in D : pos[k] = i

(* What StableSort makes of a list that is compared by a number: all of    *)
(* its items, in the order of their numbers.                               *)
InOrder(sorted, list, key) ==
    \E pos : Arranged(sorted, list, key, pos, DOMAIN list)

(* Ahead of an item are those of a smaller number, and those of the same   *)
(* number that come before it.                                             *)
AheadBy(list, ahead, key) ==
    /\ ahead \in [DOMAIN list -> SUBSET DOMAIN list]
    /\ \A i, j \in DOMAIN list :
         j \in ahead[i] <=> (key[j] < key[i] \/ (~(key[i] < key[j]) /\ j < i))

(* sorted has in each place an item of list that has so many ahead of it.  *)
PlacedBy(sorted, list, ahead) ==
    /\ DOMAIN sorted = DOMAIN list
    /\ \A k \in DOMAIN list :
         (\E i \in DOMAIN list : Cardinality(ahead[i]) = k - 1)
           => \E i \in DOMAIN list : Cardinality(ahead[i]) = k - 1 /\ sorted[k] = list[i]

(* Such a list is list itself, in the order of the numbers.                *)
LEMMA SortedByNumber ==
    ASSUME NEW T, NEW list \in Seq(T), NEW key \in [DOMAIN list -> Int], NEW sorted,
           NEW ahead, AheadBy(list, ahead, key), PlacedBy(sorted, list, ahead)
    PROVE  InOrder(sorted, list, key)
<1> DEFINE n == Len(list)
           D == 1 .. n
           pos == [k \in D |-> CHOOSE i \in D : /\ Cardinality(ahead[i]) = k - 1
                                                /\ sorted[k] = list[i]]
<1>1. n \in Nat /\ DOMAIN list = D
  OBVIOUS
<1>2. ahead \in [D -> SUBSET D]
  BY <1>1 DEF AheadBy
<1>3. \A i, j \in D :
        j \in ahead[i] <=> (key[j] < key[i] \/ (~(key[i] < key[j]) /\ j < i))
  BY <1>1 DEF AheadBy
<1>4. \A i \in D : key[i] \in Int
  BY <1>1
<1>5. /\ \A i \in D : i \notin ahead[i]
      /\ \A i, j \in D : i /= j => i \in ahead[j] \/ j \in ahead[i]
      /\ \A i, j, k \in D : i \in ahead[j] /\ j \in ahead[k] => i \in ahead[k]
  <2> HIDE DEF n
  <2> QED
    BY <1>1, <1>3, <1>4
<1>6. /\ \A i \in D : Cardinality(ahead[i]) \in Nat /\ Cardinality(ahead[i]) + 1 \in D
      /\ \A k \in D : \E i \in D : Cardinality(ahead[i]) = k - 1
      /\ \A i, j \in D :
           Cardinality(ahead[i]) < Cardinality(ahead[j]) <=> i \in ahead[j]
  <2> HIDE DEF n
  <2> QED
    BY <1>1, <1>2, <1>5, Places
<1>7. \A k \in D : /\ pos[k] \in D
                   /\ Cardinality(ahead[pos[k]]) = k - 1
                   /\ sorted[k] = list[pos[k]]
  <2>1. \A k \in D : \E i \in D : Cardinality(ahead[i]) = k - 1 /\ sorted[k] = list[i]
    BY <1>1, <1>6 DEF PlacedBy
  <2> HIDE DEF n
  <2> QED
    BY <2>1
<1>8. DOMAIN sorted = D /\ \A k \in D : sorted[k] = list[pos[k]]
  BY <1>1, <1>7 DEF PlacedBy
<1>9. pos \in [D -> D]
  BY <1>7
<1> HIDE DEF n, pos
<1>10. ASSUME NEW k \in D, NEW l \in D, k < l PROVE key[pos[k]] <= key[pos[l]]
  <2>1. /\ pos[k] \in D /\ Cardinality(ahead[pos[k]]) = k - 1
        /\ pos[l] \in D /\ Cardinality(ahead[pos[l]]) = l - 1
    BY <1>7
  <2>2. k - 1 < l - 1
    BY <1>1, <1>10
  <2>3. pos[k] \in ahead[pos[l]]
    BY <2>1, <2>2, <1>6
  <2> QED
    BY <2>1, <2>3, <1>3, <1>4
<1>11. ASSUME NEW i \in D PROVE \E k \in D : pos[k] = i
  <2> DEFINE k == Cardinality(ahead[i]) + 1
  <2>1. k \in D
    BY <1>6
  <2>2. pos[k] \in D /\ Cardinality(ahead[pos[k]]) = k - 1
    BY <2>1, <1>7
  <2>3. Cardinality(ahead[i]) = k - 1 /\ Cardinality(ahead[i]) \in Int
    BY <1>6
  <2>4. pos[k] \notin ahead[i] /\ i \notin ahead[pos[k]]
    <3>1. /\ ~(Cardinality(ahead[i]) < Cardinality(ahead[pos[k]]))
          /\ ~(Cardinality(ahead[pos[k]]) < Cardinality(ahead[i]))
      BY <2>2, <2>3
    <3> QED
      BY <3>1, <2>2, <1>6
  <2> HIDE DEF k
  <2> QED
    BY <2>1, <2>2, <2>4, <1>5
<1>12. Arranged(sorted, list, key, pos, D)
  BY <1>8, <1>9, <1>10, <1>11 DEF Arranged
<1> QED
  BY <1>1, <1>12 DEF InOrder

-----------------------------------------------------------------------------
(* Scores.                                                                 *)

(* What is used of the division by a positive number.                      *)
LEMMA Division ==
    ASSUME NEW c \in Int, c > 0, NEW x \in Int
    PROVE  /\ x \div c \in Int
           /\ \A y \in Int : x <= y => x \div c <= y \div c
           /\ \A n \in Int : 0 <= x /\ x <= n * c => 0 <= x \div c /\ x \div c <= n
  OBVIOUS

(* The three cases of normalize, below, above and within the bounds.       *)
LEMMA NormalizeCases ==
    ASSUME NEW v \in Int, NEW min \in Int, NEW max \in Int, min < max
    PROVE  /\ v <= min => normalize(v, min, max) = 0
           /\ v >= max => normalize(v, min, max) = 1000
           /\ v > min /\ v < max =>
                normalize(v, min, max) = ((v - min) * 1000) \div (max - min)
<1>1. \/ v <= min /\ ~(v >= max) /\ ~(v > min)
      \/ v >= max /\ ~(v <= min) /\ ~(v < max)
      \/ v > min /\ v < max /\ ~(v <= min) /\ ~(v >= max)
  OBVIOUS
<1>2. CASE v <= min /\ ~(v >= max) /\ ~(v > min)
  <2>1. normalize(v, min, max) = 0
    BY <1>2, ZenonT(60) DEF normalize
  <2> QED
    BY <2>1, <1>2
<1>3. CASE v >= max /\ ~(v <= min) /\ ~(v < max)
  <2>1. normalize(v, min, max) = 1000
    BY <1>3, ZenonT(60) DEF normalize
  <2> QED
    BY <2>1, <1>3
<1>4. CASE v > min /\ v < max /\ ~(v <= min) /\ ~(v >= max)
  <2>1. normalize(v, min, max) = ((v - min) * 1000) \div (max - min)
    BY <1>4, ZenonT(60) DEF normalize
  <2> QED
    BY <2>1, <1>4
<1> QED
  BY <1>1, <1>2, <1>3, <1>4

(* The shares a score is made of: between 0 and 1000, growing.             *)
Share(min, max) ==
    \A v \in Int :
        /\ normalize(v, min, max) \in Int
        /\ 0 <= normalize(v, min, max) /\ normalize(v, min, max) <= 1000
        /\ \A w \in Int : v <= w => normalize(v, min, max) <= normalize(w, min, max)

(* Each share is one.                                                      *)
LEMMA Shares == \A min, max \in Int : min < max => Share(min, max)
<1> SUFFICES ASSUME NEW min \in Int, NEW max \in Int, min < max
             PROVE  Share(min, max)
  OBVIOUS
<1> DEFINE c == max - min
           S(x) == normalize(x, min, max)
           Q(x) == ((x - min) * 1000) \div c
<1>1. \A x \in Int : /\ x <= min => S(x) = 0
                     /\ x >= max => S(x) = 1000
                     /\ x > min /\ x < max => S(x) = Q(x)
  BY NormalizeCases
<1>2. c \in Int /\ c > 0
  OBVIOUS
<1>3. ASSUME NEW x \in Int, x > min, x < max
      PROVE  Q(x) \in Int /\ 0 <= Q(x) /\ Q(x) <= 1000
  <2>1. (x - min) * 1000 \in Int /\ 0 <= (x - min) * 1000 /\ (x - min) * 1000 <= 1000 * c
    BY <1>3
  <2> HIDE DEF c
  <2> QED
    BY <2>1, <1>2, Division, SMT
<1>4. ASSUME NEW x \in Int, NEW y \in Int, x <= y
      PROVE  Q(x) <= Q(y)
  <2>1. /\ (x - min) * 1000 \in Int /\ (y - min) * 1000 \in Int
        /\ (x - min) * 1000 <= (y - min) * 1000
    BY <1>4
  <2> HIDE DEF c
  <2> QED
    BY <2>1, <1>2, Division, SMT
<1> HIDE DEF S, Q, c
<1>5. \A x \in Int : S(x) \in Int /\ 0 <= S(x) /\ S(x) <= 1000
  BY <1>1, <1>3
<1>6. ASSUME NEW v \in Int, NEW w \in Int, v <= w PROVE S(v) <= S(w)
  BY <1>1, <1>3, <1>4, <1>5, <1>6
<1> QED
  BY <1>5, <1>6 DEF S, Share

(* A score is a percentage, and no lower for no lower figures.             *)
LEMMA Scores ==
    ASSUME NEW r \in Reports
    PROVE  /\ calculate(r) \in Int /\ 0 <= calculate(r) /\ calculate(r) <= 100
           /\ \A m \in Reports :
                (/\ r.liquidity <= m.liquidity /\ r.volume <= m.volume
                 /\ r.age <= m.age /\ r.txns <= m.txns)
                  => calculate(r) <= calculate(m)
<1> DEFINE L(m) == normalize(m.liquidity, 5000, 500000)
           V(m) == normalize(m.volume, 1000, 250000)
           A(m) == normalize(m.age, 7, 365)
           T(m) == normalize(m.txns, 10, 1000)
           W(m) == 350 * L(m) + 300 * V(m) + 150 * A(m) + 100 * T(m) + 5000
<1>1. \A m \in Reports : m.liquidity \in Int /\ m.volume \in Int /\ m.age \in Int /\ m.txns \in Int
  BY DEF Reports
<1>2. \A m \in Reports : calculate(m) = W(m) \div 10000
  BY DEF calculate
<1>3. ASSUME NEW m \in Reports
      PROVE  /\ L(m) \in Int /\ 0 <= L(m) /\ L(m) <= 1000
             /\ V(m) \in Int /\ 0 <= V(m) /\ V(m) <= 1000
             /\ A(m) \in Int /\ 0 <= A(m) /\ A(m) <= 1000
             /\ T(m) \in Int /\ 0 <= T(m) /\ T(m) <= 1000
             /\ r.liquidity <= m.liquidity => L(r) <= L(m)
             /\ r.volume <= m.volume => V(r) <= V(m)
             /\ r.age <= m.age => A(r) <= A(m)
             /\ r.txns <= m.txns => T(r) <= T(m)
  <2>1. /\ m.liquidity \in Int /\ m.volume \in Int /\ m.age \in Int /\ m.txns \in Int
        /\ r.liquidity \in Int /\ r.volume \in Int /\ r.age \in Int /\ r.txns \in Int
    BY <1>1
  <2>2. /\ L(m) \in Int /\ 0 <= L(m) /\ L(m) <= 1000
        /\ r.liquidity <= m.liquidity => L(r) <= L(m)
    <3>1. Share(5000, 500000)
      BY Shares
    <3> QED
      BY <3>1, <2>1, SMT DEF Share
  <2>3. /\ V(m) \in Int /\ 0 <= V(m) /\ V(m) <= 1000
        /\ r.volume <= m.volume => V(r) <= V(m)
    <3>1. Share(1000, 250000)
      BY Shares
    <3> QED
      BY <3>1, <2>1, SMT DEF Share
  <2>4. /\ A(m) \in Int /\ 0 <= A(m) /\ A(m) <= 1000
        /\ r.age <= m.age => A(r) <= A(m)
    <3>1. Share(7, 365)
      BY Shares
    <3> QED
      BY <3>1, <2>1, SMT DEF Share
  <2>5. /\ T(m) \in Int /\ 0 <= T(m) /\ T(m) <= 1000
        /\ r.txns <= m.txns => T(r) <= T(m)
    <3>1. Share(10, 1000)
      BY Shares
    <3> QED
      BY <3>1, <2>1, SMT DEF Share
  <2> QED
    BY <2>2, <2>3, <2>4, <2>5
<1> HIDE DEF L, V, A, T
<1>4. ASSUME NEW m \in Reports
      PROVE  W(m) \in Int /\ 0 <= W(m) /\ W(m) <= 1000000
  BY <1>3, SMT
<1>5. ASSUME NEW m \in Reports, r.liquidity <= m.liquidity, r.volume <= m.volume,
             r.age <= m.age, r.txns <= m.txns
      PROVE  W(r) <= W(m)
  BY <1>3, <1>5, SMT
<1> HIDE DEF W
<1>6. calculate(r) \in Int /\ 0 <= calculate(r) /\ calculate(r) <= 100
  BY <1>2, <1>4, Division, SMT
<1>7. ASSUME NEW m \in Reports, r.liquidity <= m.liquidity, r.volume <= m.volume,
             r.age <= m.age, r.txns <= m.txns
      PROVE  calculate(r) <= calculate(m)
  <2>1. W(r) \in Int /\ W(m) \in Int /\ W(r) <= W(m)
    BY <1>4, <1>5, <1>7
  <2> QED
    BY <2>1, <1>2, Division, SMT
<1> QED
  BY <1>6, <1>7

-----------------------------------------------------------------------------
(* What the maps and filters of the pipeline contain, item after item.     *)

Percents == 0 .. 100
Labels  == {recognize(id) : id \in Seq(STRING)}
Scoreds == {Scored(r) : r \in Reports}
Tokens  == [address: STRING, spelling: STRING, liquidity: Int, volume: Int, score: Percents,
            exchanges: SUBSET Labels, pairs: SUBSET STRING]

Passed(rs)   == Filtered(rs, filter)
Gathered(ts) == Collect(ts, LAMBDA t : t.address, AddPair)
Good(ps)     == Filtered(ps, LAMBDA p : p.score >= OpportunityScore)

PutReport(entries, r) == Put(entries, r, LAMBDA x : <<x.chain, x.address>>, MergeReport)
PutBest(entries, x)   == Put(entries, x, LAMBDA y : y.address, Better)
PutToken(entries, t)  == Put(entries, t, LAMBDA x : x.address, AddPair)

(* A map of reports remains one.                                           *)
LEMMA PutReportType ==
    ASSUME NEW s \in Seq(Reports), NEW r \in Reports
    PROVE  PutReport(s, r) \in Seq(Reports)
<1>1. \A m \in Reports : MergeReport(m, r) \in Reports
  BY DEF Reports, MergeReport, Larger
<1>2. \A i \in DOMAIN s : s[i] \in Reports
  OBVIOUS
<1> HIDE DEF Reports
<1>3. CASE \E i \in DOMAIN s : <<s[i].chain, s[i].address>> = <<r.chain, r.address>>
  <2>1. PutReport(s, r) =
          [i \in DOMAIN s |-> IF <<s[i].chain, s[i].address>> = <<r.chain, r.address>>
                                THEN MergeReport(s[i], r) ELSE s[i]]
    BY <1>3 DEF PutReport, Put
  <2>2. DOMAIN s = 1 .. Len(s) /\ Len(s) \in Nat
    OBVIOUS
  <2> QED
    BY <2>1, <2>2, <1>1, <1>2
<1>4. CASE ~ \E i \in DOMAIN s : <<s[i].chain, s[i].address>> = <<r.chain, r.address>>
  <2>1. PutReport(s, r) = Append(s, r)
    BY <1>4 DEF PutReport, Put
  <2> QED
    BY <2>1
<1> QED
  BY <1>3, <1>4

(* The maps that merge goes through, one after each report.                *)
LEMMA MergeSteps ==
    ASSUME NEW rs \in Seq(Reports)
    PROVE  \E f \in [0 .. Len(rs) -> Seq(Reports)] :
             /\ merge(rs) = f[Len(rs)]
             /\ f[0] = <<>>
             /\ \A n \in 1 .. Len(rs) : f[n] = PutReport(f[n - 1], rs[n])
<1> DEFINE N == Len(rs)
           A == Seq(Reports)
           step == [n \in 1 .. N |-> [a \in A |-> PutReport(a, rs[n])]]
           Steps(f) == f = [n \in 0 .. N |-> IF n = 0 THEN <<>> ELSE PutReport(f[n - 1], rs[n])]
           F == CHOOSE f : Steps(f)
<1>1. N \in Nat /\ (\A n \in 1 .. N : rs[n] \in Reports) /\ <<>> \in A
  OBVIOUS
<1>2. step \in [1 .. N -> [A -> A]]
  BY <1>1, PutReportType
<1>3. \A n \in 1 .. N, a \in A : step[n][a] = PutReport(a, rs[n])
  OBVIOUS
<1>4. merge(rs) = F[N]
  BY DEF merge, Collect, PutReport
<1> HIDE DEF N, A, step, F
<1>5. PICK f \in [0 .. N -> A] : f[0] = <<>> /\ \A n \in 1 .. N : f[n] = step[n][f[n - 1]]
  <2>1. Repeated(A, N, <<>>, step)
    BY <1>1, <1>2, Recursion
  <2> QED
    BY <2>1 DEF Repeated
<1>6. Steps(f)
  <2>1. \A n \in 1 .. N : n - 1 \in 0 .. N /\ f[n] = PutReport(f[n - 1], rs[n])
    BY <1>1, <1>3, <1>5
  <2> QED
    BY <2>1, <1>1, <1>5
<1>7. Steps(F)
  BY <1>6 DEF F
<1>8. F[0] = <<>> /\ \A n \in 1 .. N : F[n] = PutReport(F[n - 1], rs[n])
  BY <1>1, <1>7
<1>9. \A n \in 0 .. N : F[n] \in A
  <2> DEFINE S == {n \in 0 .. N : F[n] \in A}
  <2>1. 0 \in S
    BY <1>1, <1>8
  <2>2. ASSUME NEW n \in 1 .. N, n - 1 \in S PROVE n \in S
    <3>1. F[n - 1] \in A /\ rs[n] \in Reports /\ F[n] = PutReport(F[n - 1], rs[n])
      BY <1>1, <1>8, <2>2
    <3>2. PutReport(F[n - 1], rs[n]) \in A
      BY <3>1, PutReportType DEF A
    <3> QED
      BY <3>1, <3>2
  <2>3. \A n \in 0 .. N : n \in S
    <3> HIDE DEF S
    <3> QED
      BY <1>1, <2>1, <2>2, ItemInduction
  <2> QED
    BY <2>3
<1>10. F \in [0 .. N -> A]
  BY <1>7, <1>9
<1> QED
  BY <1>4, <1>8, <1>10 DEF N, A


(* Putting an item into a map whose keys are addresses.                    *)
Joined(s, x, t) ==
    /\ DOMAIN t = DOMAIN s
    /\ \A i \in DOMAIN s :
         t[i] = IF s[i].address = x.address /\ x.score > s[i].score THEN x ELSE s[i]

(* The entry of the same address is replaced by a better item, or the item *)
(* is added.                                                               *)
LEMMA PutBestCases ==
    ASSUME NEW T, NEW s \in Seq(T), NEW x \in T
    PROVE  /\ PutBest(s, x) \in Seq(T)
           /\ (\E i \in DOMAIN s : s[i].address = x.address) => Joined(s, x, PutBest(s, x))
           /\ (\A i \in DOMAIN s : s[i].address /= x.address) => PutBest(s, x) = Append(s, x)
<1>1. DOMAIN s = 1 .. Len(s) /\ Len(s) \in Nat /\ \A i \in DOMAIN s : s[i] \in T
  OBVIOUS
<1>2. CASE \E i \in DOMAIN s : s[i].address = x.address
  <2>1. PutBest(s, x) = [i \in DOMAIN s |-> IF s[i].address = x.address
                                              THEN IF x.score > s[i].score THEN x ELSE s[i]
                                              ELSE s[i]]
    BY <1>2 DEF PutBest, Put, Better
  <2>2. PutBest(s, x) \in Seq(T)
    BY <2>1, <1>1
  <2>3. Joined(s, x, PutBest(s, x))
    BY <2>1 DEF Joined
  <2> QED
    BY <2>2, <2>3, <1>2
<1>3. CASE \A i \in DOMAIN s : s[i].address /= x.address
  <2>1. PutBest(s, x) = Append(s, x)
    BY <1>3 DEF PutBest, Put
  <2> QED
    BY <2>1, <1>3
<1> QED
  BY <1>2, <1>3

(* A map of items remains one.                                             *)
LEMMA PutBestType ==
    ASSUME NEW T, NEW s \in Seq(T), NEW x \in T
    PROVE  PutBest(s, x) \in Seq(T)
  BY PutBestCases

(* The maps that deduplication goes through, one after each item.          *)
LEMMA BestSteps ==
    ASSUME NEW T, NEW xs \in Seq(T)
    PROVE  \E f \in [0 .. Len(xs) -> Seq(T)] :
             /\ deduplicatePairs(xs) = f[Len(xs)]
             /\ deduplicateTokens(xs) = f[Len(xs)]
             /\ f[0] = <<>>
             /\ \A n \in 1 .. Len(xs) : f[n] = PutBest(f[n - 1], xs[n])
<1> DEFINE N == Len(xs)
           A == Seq(T)
           step == [n \in 1 .. N |-> [a \in A |-> PutBest(a, xs[n])]]
           Steps(f) == f = [n \in 0 .. N |-> IF n = 0 THEN <<>> ELSE PutBest(f[n - 1], xs[n])]
           F == CHOOSE f : Steps(f)
<1>1. N \in Nat /\ (\A n \in 1 .. N : xs[n] \in T) /\ <<>> \in A
  OBVIOUS
<1>2. step \in [1 .. N -> [A -> A]]
  BY <1>1, PutBestType
<1>3. \A n \in 1 .. N, a \in A : step[n][a] = PutBest(a, xs[n])
  OBVIOUS
<1>4. deduplicatePairs(xs) = F[N] /\ deduplicateTokens(xs) = F[N]
  BY DEF deduplicatePairs, deduplicateTokens, Collect, PutBest
<1> HIDE DEF N, A, step, F
<1>5. PICK f \in [0 .. N -> A] : f[0] = <<>> /\ \A n \in 1 .. N : f[n] = step[n][f[n - 1]]
  <2>1. Repeated(A, N, <<>>, step)
    BY <1>1, <1>2, Recursion
  <2> QED
    BY <2>1 DEF Repeated
<1>6. Steps(f)
  <2>1. \A n \in 1 .. N : n - 1 \in 0 .. N /\ f[n] = PutBest(f[n - 1], xs[n])
    BY <1>1, <1>3, <1>5
  <2> QED
    BY <2>1, <1>1, <1>5
<1>7. Steps(F)
  BY <1>6 DEF F
<1>8. F[0] = <<>> /\ \A n \in 1 .. N : F[n] = PutBest(F[n - 1], xs[n])
  BY <1>1, <1>7
<1>9. \A n \in 0 .. N : F[n] \in A
  <2> DEFINE S == {n \in 0 .. N : F[n] \in A}
  <2>1. 0 \in S
    BY <1>1, <1>8
  <2>2. ASSUME NEW n \in 1 .. N, n - 1 \in S PROVE n \in S
    <3>1. F[n - 1] \in A /\ xs[n] \in T /\ F[n] = PutBest(F[n - 1], xs[n])
      BY <1>1, <1>8, <2>2
    <3>2. PutBest(F[n - 1], xs[n]) \in A
      BY <3>1, PutBestType DEF A
    <3> QED
      BY <3>1, <3>2
  <2>3. \A n \in 0 .. N : n \in S
    <3> HIDE DEF S
    <3> QED
      BY <1>1, <2>1, <2>2, ItemInduction
  <2> QED
    BY <2>3
<1>10. F \in [0 .. N -> A]
  BY <1>7, <1>9
<1> QED
  BY <1>4, <1>8, <1>10 DEF N, A

(* A map of tokens remains one.                                            *)
LEMMA PutTokenType ==
    ASSUME NEW s \in Seq(Tokens), NEW t \in Tokens
    PROVE  PutToken(s, t) \in Seq(Tokens)
<1>1. ASSUME NEW u \in Tokens PROVE AddPair(u, t) \in Tokens
  <2>1. /\ u.liquidity + t.liquidity \in Int
        /\ u.volume + t.volume \in Int
        /\ Larger(u.score, t.score) \in Percents
    BY DEF Tokens, Larger
  <2>2. /\ u.exchanges \cup t.exchanges \in SUBSET Labels
        /\ u.pairs \cup t.pairs \in SUBSET STRING
    BY DEF Tokens
  <2> DEFINE l == u.liquidity + t.liquidity
             v == u.volume + t.volume
             m == Larger(u.score, t.score)
             e == u.exchanges \cup t.exchanges
             p == u.pairs \cup t.pairs
  <2>3. AddPair(u, t) = [u EXCEPT !.liquidity = l, !.volume = v, !.score = m,
                                  !.exchanges = e, !.pairs = p]
    BY DEF AddPair
  <2> HIDE DEF l, v, m, e, p
  <2>4. [u EXCEPT !.liquidity = l, !.volume = v, !.score = m,
                  !.exchanges = e, !.pairs = p] \in Tokens
    BY <2>1, <2>2 DEF Tokens, l, v, m, e, p
  <2> QED
    BY <2>3, <2>4
<1>2. DOMAIN s = 1 .. Len(s) /\ Len(s) \in Nat /\ \A i \in DOMAIN s : s[i] \in Tokens
  OBVIOUS
<1> HIDE DEF Tokens
<1>3. CASE \E i \in DOMAIN s : s[i].address = t.address
  <2>1. PutToken(s, t) =
          [i \in DOMAIN s |-> IF s[i].address = t.address THEN AddPair(s[i], t) ELSE s[i]]
    BY <1>3 DEF PutToken, Put
  <2> QED
    BY <2>1, <1>1, <1>2
<1>4. CASE ~ \E i \in DOMAIN s : s[i].address = t.address
  <2>1. PutToken(s, t) = Append(s, t)
    BY <1>4 DEF PutToken, Put
  <2> QED
    BY <2>1
<1> QED
  BY <1>3, <1>4

(* The maps that aggregate goes through, one after each occurrence.        *)
LEMMA TokenSteps ==
    ASSUME NEW ts \in Seq(Tokens)
    PROVE  \E f \in [0 .. Len(ts) -> Seq(Tokens)] :
             /\ Gathered(ts) = f[Len(ts)]
             /\ f[0] = <<>>
             /\ \A n \in 1 .. Len(ts) : f[n] = PutToken(f[n - 1], ts[n])
<1> DEFINE N == Len(ts)
           A == Seq(Tokens)
           step == [n \in 1 .. N |-> [a \in A |-> PutToken(a, ts[n])]]
           Steps(f) == f = [n \in 0 .. N |-> IF n = 0 THEN <<>> ELSE PutToken(f[n - 1], ts[n])]
           F == CHOOSE f : Steps(f)
<1>1. N \in Nat /\ (\A n \in 1 .. N : ts[n] \in Tokens) /\ <<>> \in A
  OBVIOUS
<1>2. step \in [1 .. N -> [A -> A]]
  BY <1>1, PutTokenType
<1>3. \A n \in 1 .. N, a \in A : step[n][a] = PutToken(a, ts[n])
  OBVIOUS
<1>4. Gathered(ts) = F[N]
  BY DEF Gathered, Collect, PutToken
<1> HIDE DEF N, A, step, F
<1>5. PICK f \in [0 .. N -> A] : f[0] = <<>> /\ \A n \in 1 .. N : f[n] = step[n][f[n - 1]]
  <2>1. Repeated(A, N, <<>>, step)
    BY <1>1, <1>2, Recursion
  <2> QED
    BY <2>1 DEF Repeated
<1>6. Steps(f)
  <2>1. \A n \in 1 .. N : n - 1 \in 0 .. N /\ f[n] = PutToken(f[n - 1], ts[n])
    BY <1>1, <1>3, <1>5
  <2> QED
    BY <2>1, <1>1, <1>5
<1>7. Steps(F)
  BY <1>6 DEF F
<1>8. F[0] = <<>> /\ \A n \in 1 .. N : F[n] = PutToken(F[n - 1], ts[n])
  BY <1>1, <1>7
<1>9. \A n \in 0 .. N : F[n] \in A
  <2> DEFINE S == {n \in 0 .. N : F[n] \in A}
  <2>1. 0 \in S
    BY <1>1, <1>8
  <2>2. ASSUME NEW n \in 1 .. N, n - 1 \in S PROVE n \in S
    <3>1. F[n - 1] \in A /\ ts[n] \in Tokens /\ F[n] = PutToken(F[n - 1], ts[n])
      BY <1>1, <1>8, <2>2
    <3>2. PutToken(F[n - 1], ts[n]) \in A
      BY <3>1, PutTokenType DEF A
    <3> QED
      BY <3>1, <3>2
  <2>3. \A n \in 0 .. N : n \in S
    <3> HIDE DEF S
    <3> QED
      BY <1>1, <2>1, <2>2, ItemInduction
  <2> QED
    BY <2>3
<1>10. F \in [0 .. N -> A]
  BY <1>7, <1>9
<1> QED
  BY <1>4, <1>8, <1>10 DEF N, A

KeepReport(kept, r) == IF filter(r) THEN Append(kept, r) ELSE kept
KeepGood(kept, p)   == IF p.score >= OpportunityScore THEN Append(kept, p) ELSE kept

(* A list of reports remains one.                                          *)
LEMMA KeepReportType ==
    ASSUME NEW s \in Seq(Reports), NEW r \in Reports
    PROVE  KeepReport(s, r) \in Seq(Reports)
  BY DEF KeepReport

(* A list of pairs remains one.                                            *)
LEMMA KeepGoodType ==
    ASSUME NEW T, NEW s \in Seq(T), NEW p \in T
    PROVE  KeepGood(s, p) \in Seq(T)
  BY DEF KeepGood

(* The lists that the filters go through, one after each report.           *)
LEMMA FilterSteps ==
    ASSUME NEW rs \in Seq(Reports)
    PROVE  \E f \in [0 .. Len(rs) -> Seq(Reports)] :
             /\ Passed(rs) = f[Len(rs)]
             /\ f[0] = <<>>
             /\ \A n \in 1 .. Len(rs) : f[n] = KeepReport(f[n - 1], rs[n])
<1> DEFINE N == Len(rs)
           A == Seq(Reports)
           step == [n \in 1 .. N |-> [a \in A |-> KeepReport(a, rs[n])]]
           Steps(f) == f = [n \in 0 .. N |-> IF n = 0 THEN <<>> ELSE KeepReport(f[n - 1], rs[n])]
           F == CHOOSE f : Steps(f)
<1>1. N \in Nat /\ (\A n \in 1 .. N : rs[n] \in Reports) /\ <<>> \in A
  OBVIOUS
<1>2. step \in [1 .. N -> [A -> A]]
  BY <1>1, KeepReportType
<1>3. \A n \in 1 .. N, a \in A : step[n][a] = KeepReport(a, rs[n])
  OBVIOUS
<1>4. Passed(rs) = F[N]
  BY DEF Passed, Filtered, KeepReport
<1> HIDE DEF N, A, step, F
<1>5. PICK f \in [0 .. N -> A] : f[0] = <<>> /\ \A n \in 1 .. N : f[n] = step[n][f[n - 1]]
  <2>1. Repeated(A, N, <<>>, step)
    BY <1>1, <1>2, Recursion
  <2> QED
    BY <2>1 DEF Repeated
<1>6. Steps(f)
  <2>1. \A n \in 1 .. N : n - 1 \in 0 .. N /\ f[n] = KeepReport(f[n - 1], rs[n])
    BY <1>1, <1>3, <1>5
  <2> QED
    BY <2>1, <1>1, <1>5
<1>7. Steps(F)
  BY <1>6 DEF F
<1>8. F[0] = <<>> /\ \A n \in 1 .. N : F[n] = KeepReport(F[n - 1], rs[n])
  BY <1>1, <1>7
<1>9. \A n \in 0 .. N : F[n] \in A
  <2> DEFINE S == {n \in 0 .. N : F[n] \in A}
  <2>1. 0 \in S
    BY <1>1, <1>8
  <2>2. ASSUME NEW n \in 1 .. N, n - 1 \in S PROVE n \in S
    <3>1. F[n - 1] \in A /\ rs[n] \in Reports /\ F[n] = KeepReport(F[n - 1], rs[n])
      BY <1>1, <1>8, <2>2
    <3>2. KeepReport(F[n - 1], rs[n]) \in A
      BY <3>1, KeepReportType DEF A
    <3> QED
      BY <3>1, <3>2
  <2>3. \A n \in 0 .. N : n \in S
    <3> HIDE DEF S
    <3> QED
      BY <1>1, <2>1, <2>2, ItemInduction
  <2> QED
    BY <2>3
<1>10. F \in [0 .. N -> A]
  BY <1>7, <1>9
<1> QED
  BY <1>4, <1>8, <1>10 DEF N, A

(* The lists that the detection of opportunities goes through.             *)
LEMMA GoodSteps ==
    ASSUME NEW T, NEW ps \in Seq(T)
    PROVE  \E f \in [0 .. Len(ps) -> Seq(T)] :
             /\ Good(ps) = f[Len(ps)]
             /\ f[0] = <<>>
             /\ \A n \in 1 .. Len(ps) : f[n] = KeepGood(f[n - 1], ps[n])
<1> DEFINE N == Len(ps)
           A == Seq(T)
           step == [n \in 1 .. N |-> [a \in A |-> KeepGood(a, ps[n])]]
           Steps(f) == f = [n \in 0 .. N |-> IF n = 0 THEN <<>> ELSE KeepGood(f[n - 1], ps[n])]
           F == CHOOSE f : Steps(f)
<1>1. N \in Nat /\ (\A n \in 1 .. N : ps[n] \in T) /\ <<>> \in A
  OBVIOUS
<1>2. step \in [1 .. N -> [A -> A]]
  BY <1>1, KeepGoodType
<1>3. \A n \in 1 .. N, a \in A : step[n][a] = KeepGood(a, ps[n])
  OBVIOUS
<1>4. Good(ps) = F[N]
  BY DEF Good, Filtered, KeepGood
<1> HIDE DEF N, A, step, F
<1>5. PICK f \in [0 .. N -> A] : f[0] = <<>> /\ \A n \in 1 .. N : f[n] = step[n][f[n - 1]]
  <2>1. Repeated(A, N, <<>>, step)
    BY <1>1, <1>2, Recursion
  <2> QED
    BY <2>1 DEF Repeated
<1>6. Steps(f)
  <2>1. \A n \in 1 .. N : n - 1 \in 0 .. N /\ f[n] = KeepGood(f[n - 1], ps[n])
    BY <1>1, <1>3, <1>5
  <2> QED
    BY <2>1, <1>1, <1>5
<1>7. Steps(F)
  BY <1>6 DEF F
<1>8. F[0] = <<>> /\ \A n \in 1 .. N : F[n] = KeepGood(F[n - 1], ps[n])
  BY <1>1, <1>7
<1>9. \A n \in 0 .. N : F[n] \in A
  <2> DEFINE S == {n \in 0 .. N : F[n] \in A}
  <2>1. 0 \in S
    BY <1>1, <1>8
  <2>2. ASSUME NEW n \in 1 .. N, n - 1 \in S PROVE n \in S
    <3>1. F[n - 1] \in A /\ ps[n] \in T /\ F[n] = KeepGood(F[n - 1], ps[n])
      BY <1>1, <1>8, <2>2
    <3>2. KeepGood(F[n - 1], ps[n]) \in A
      BY <3>1, KeepGoodType DEF A
    <3> QED
      BY <3>1, <3>2
  <2>3. \A n \in 0 .. N : n \in S
    <3> HIDE DEF S
    <3> QED
      BY <1>1, <2>1, <2>2, ItemInduction
  <2> QED
    BY <2>3
<1>10. F \in [0 .. N -> A]
  BY <1>7, <1>9
<1> QED
  BY <1>4, <1>8, <1>10 DEF N, A

-----------------------------------------------------------------------------
(* The pairs and the tokens of a refresh.                                  *)

(* The fields of a scored pair.                                            *)
LEMMA ScoredFields ==
    ASSUME NEW p \in Scoreds
    PROVE  /\ p.address \in STRING /\ p.base \in Spelled /\ p.quote \in Spelled
           /\ p.dex \in Labels
           /\ p.liquidity \in Int /\ p.volume \in Int
           /\ p.score \in Int /\ 0 <= p.score /\ p.score <= 100
<1>1. PICK r \in Reports : p = Scored(r)
  BY DEF Scoreds
<1>2. /\ p.address = r.address /\ p.base = r.base /\ p.quote = r.quote
      /\ p.dex = recognize(r.dex)
      /\ p.liquidity = r.liquidity /\ p.volume = r.volume
      /\ p.score = calculate(r)
  BY <1>1 DEF Scored
<1>3. /\ r.address \in STRING /\ r.base \in Spelled /\ r.quote \in Spelled
      /\ r.dex \in Seq(STRING) /\ r.liquidity \in Int /\ r.volume \in Int
  BY DEF Reports
<1>4. recognize(r.dex) \in Labels
  BY <1>3 DEF Labels
<1>5. calculate(r) \in Int /\ 0 <= calculate(r) /\ calculate(r) <= 100
  BY Scores
<1> QED
  BY <1>2, <1>3, <1>4, <1>5

Descending(ps) == \A i, j \in DOMAIN ps : i < j => ps[i].score >= ps[j].score
Unique(ps)     == \A i, j \in DOMAIN ps : i /= j => ps[i].address /= ps[j].address

(* Ranking scores all pairs and puts the best first.                       *)
LEMMA Ranked ==
    ASSUME NEW rs \in Seq(Reports)
    PROVE  /\ rankPairs(rs) \in Seq(Scoreds)
           /\ Descending(rankPairs(rs))
           /\ \A i \in DOMAIN rs :
                \E k \in DOMAIN rankPairs(rs) : rankPairs(rs)[k] = Scored(rs[i])
<1> DEFINE D == DOMAIN rs
           list == [i \in D |-> Scored(rs[i])]
           sorted == rankPairs(rs)
           Ahead(i) == {j \in D : \/ list[j].score > list[i].score
                                  \/ ~(list[i].score > list[j].score) /\ j < i}
           ahead == [i \in D |-> Ahead(i)]
           key == [i \in D |-> -(list[i].score)]
<1>1. D = 1 .. Len(rs) /\ Len(rs) \in Nat /\ \A i \in D : rs[i] \in Reports
  OBVIOUS
<1>2. \A i \in D : list[i] \in Scoreds
  BY <1>1 DEF Scoreds
<1>3. list \in Seq(Scoreds) /\ DOMAIN list = D
  BY <1>1, <1>2
<1>4. \A i \in D : list[i].score \in Int
  BY <1>2, ScoredFields
<1>5. sorted = [k \in D |-> list[CHOOSE i \in D : Cardinality(Ahead(i)) = k - 1]]
  BY <1>3 DEF rankPairs, StableSort
<1>6. PlacedBy(sorted, list, ahead)
  <2>1. DOMAIN sorted = DOMAIN list
    BY <1>3, <1>5
  <2>2. ASSUME NEW k \in D, \E i \in D : Cardinality(ahead[i]) = k - 1
        PROVE  \E i \in D : Cardinality(ahead[i]) = k - 1 /\ sorted[k] = list[i]
    <3> DEFINE i == CHOOSE i \in D : Cardinality(Ahead(i)) = k - 1
    <3> HIDE DEF Ahead
    <3>1. \A j \in D : ahead[j] = Ahead(j)
      OBVIOUS
    <3>2. \E j \in D : Cardinality(Ahead(j)) = k - 1
      BY <2>2, <3>1
    <3>3. i \in D /\ Cardinality(Ahead(i)) = k - 1
      BY <3>2
    <3>4. sorted[k] = list[i]
      BY <1>5
    <3> QED
      BY <3>1, <3>3, <3>4
  <2> HIDE DEF ahead, Ahead
  <2> QED
    BY <2>1, <2>2, <1>3 DEF PlacedBy
<1>7. AheadBy(list, ahead, key)
  <2>1. \A i, j \in D : key[j] < key[i] <=> list[j].score > list[i].score
    BY <1>4
  <2>2. \A i, j \in D : j \in ahead[i] <=> \/ list[j].score > list[i].score
                                           \/ ~(list[i].score > list[j].score) /\ j < i
    OBVIOUS
  <2>3. ahead \in [D -> SUBSET D]
    OBVIOUS
  <2> HIDE DEF ahead, list, key
  <2> QED
    BY <2>1, <2>2, <2>3, <1>3 DEF AheadBy
<1>8. key \in [D -> Int]
  BY <1>4
<1>9. sorted = [k \in D |-> sorted[k]]
  BY <1>5
<1>10. \A i \in D : list[i] = Scored(rs[i]) /\ key[i] = -(list[i].score)
  OBVIOUS
<1> HIDE DEF ahead, list, sorted, key, Ahead, D
<1>11. InOrder(sorted, list, key)
  BY <1>3, <1>6, <1>7, <1>8, SortedByNumber
<1>12. PICK pos : Arranged(sorted, list, key, pos, D)
  BY <1>3, <1>11 DEF InOrder
<1>13. /\ pos \in [D -> D]
       /\ DOMAIN sorted = D
       /\ \A k \in D : sorted[k] = list[pos[k]]
       /\ \A k, l \in D : k < l => key[pos[k]] <= key[pos[l]]
       /\ \A i \in D : \E k \in D : pos[k] = i
  BY <1>12 DEF Arranged
<1>14. Descending(sorted)
  <2>1. ASSUME NEW k \in D, NEW l \in D, k < l PROVE sorted[k].score >= sorted[l].score
    <3>1. key[pos[k]] <= key[pos[l]] /\ pos[k] \in D /\ pos[l] \in D
      BY <1>13, <2>1
    <3>2. key[pos[k]] = -(list[pos[k]].score) /\ key[pos[l]] = -(list[pos[l]].score)
      BY <3>1, <1>10
    <3>3. list[pos[k]].score >= list[pos[l]].score
      BY <3>1, <3>2, <1>4
    <3> QED
      BY <3>3, <1>13
  <2> QED
    BY <2>1, <1>13 DEF Descending
<1>15. sorted \in Seq(Scoreds)
  <2>1. \A k \in D : sorted[k] \in Scoreds
    BY <1>2, <1>13
  <2> QED
    BY <2>1, <1>1, <1>9
<1>16. ASSUME NEW i \in D PROVE \E k \in DOMAIN sorted : sorted[k] = Scored(rs[i])
  BY <1>13, <1>10
<1> QED
  BY <1>14, <1>15, <1>16 DEF sorted, D

(* Deduplication keeps the first, and so the best, of a ranked list.       *)
LEMMA Deduplicated ==
    ASSUME NEW T, \A x \in T : x.score \in Int, NEW xs \in Seq(T), Descending(xs)
    PROVE  /\ deduplicatePairs(xs) \in Seq(T)
           /\ Descending(deduplicatePairs(xs)) /\ Unique(deduplicatePairs(xs))
           /\ \A i \in DOMAIN xs :
                \E k \in DOMAIN deduplicatePairs(xs) :
                  /\ deduplicatePairs(xs)[k].address = xs[i].address
                  /\ deduplicatePairs(xs)[k].score >= xs[i].score
<1> DEFINE N == Len(xs)
           A == Seq(T)
           First(s, n) ==
             /\ \A k \in DOMAIN s : \E i \in 1 .. n : s[k] = xs[i]
             /\ Descending(s)
             /\ Unique(s)
             /\ \A i \in 1 .. n : \E k \in DOMAIN s : /\ s[k].address = xs[i].address
                                                      /\ s[k].score >= xs[i].score
<1>1. /\ N \in Nat /\ DOMAIN xs = 1 .. N
      /\ \A i \in 1 .. N : xs[i] \in T /\ xs[i].score \in Int
  OBVIOUS
<1>2. PICK f \in [0 .. N -> A] :
        /\ deduplicatePairs(xs) = f[N]
        /\ f[0] = <<>>
        /\ \A n \in 1 .. N : f[n] = PutBest(f[n - 1], xs[n])
  BY BestSteps
<1>3. \A i, j \in 1 .. N : i < j => xs[i].score >= xs[j].score
  BY <1>1 DEF Descending
<1> HIDE DEF N
<1>4. First(f[0], 0)
  BY <1>2 DEF Descending, Unique
<1>5. ASSUME NEW n \in 1 .. N, First(f[n - 1], n - 1)
      PROVE  First(f[n], n)
  <2> DEFINE s == f[n - 1]
             x == xs[n]
             t == f[n]
  <2>1. n - 1 \in 0 .. N /\ n \in 0 .. N /\ n \in Nat /\ 1 .. n - 1 \subseteq 1 .. N
    BY <1>1
  <2>2. s \in Seq(T) /\ x \in T /\ t = PutBest(s, x)
    BY <1>1, <1>2, <2>1
  <2>3. DOMAIN s = 1 .. Len(s) /\ Len(s) \in Nat
    BY <2>2
  <2>4. \A k \in DOMAIN s : s[k].score \in Int /\ s[k].score >= x.score
    BY <1>1, <1>3, <1>5, <2>1
  <2>5. x.score \in Int
    BY <1>1
  <2> HIDE DEF s, x, t
  <2>6. First(s, n - 1)
    BY <1>5 DEF s
  <2>7. CASE \E i \in DOMAIN s : s[i].address = x.address
    <3>1. DOMAIN t = DOMAIN s /\ \A k \in DOMAIN s : t[k] = s[k]
      <4>1. /\ DOMAIN t = DOMAIN s
            /\ \A k \in DOMAIN s : t[k] = IF s[k].address = x.address /\ x.score > s[k].score
                                           THEN x ELSE s[k]
        <5>1. Joined(s, x, PutBest(s, x))
          BY <2>2, <2>7, PutBestCases
        <5> QED
          BY <5>1, <2>2 DEF Joined
      <4> QED
        BY <4>1, <2>4, <2>5
    <3>2. Descending(t)
      BY <3>1, <2>6 DEF Descending
    <3>3. Unique(t)
      BY <3>1, <2>6 DEF Unique
    <3>4. \A k \in DOMAIN t : \E i \in 1 .. n : t[k] = xs[i]
      BY <3>1, <2>6, <2>1
    <3>5. ASSUME NEW i \in 1 .. n
          PROVE  \E k \in DOMAIN t : t[k].address = xs[i].address /\ t[k].score >= xs[i].score
      <4>1. CASE i = n
        BY <4>1, <2>4, <2>7, <3>1 DEF x
      <4>2. CASE i /= n
        <5>1. i \in 1 .. n - 1
          BY <4>2, <2>1
        <5> QED
          BY <5>1, <3>1, <2>6
      <4> QED
        BY <4>1, <4>2
    <3> QED
      BY <3>2, <3>3, <3>4, <3>5 DEF t
  <2>8. CASE \A i \in DOMAIN s : s[i].address /= x.address
    <3>1. t = Append(s, x)
      BY <2>2, <2>8, PutBestCases
    <3>2. /\ DOMAIN t = 1 .. Len(s) + 1
          /\ \A k \in 1 .. Len(s) : t[k] = s[k]
          /\ t[Len(s) + 1] = x
      <4>1. /\ DOMAIN Append(s, x) = 1 .. Len(s) + 1
            /\ \A k \in 1 .. Len(s) : Append(s, x)[k] = s[k]
            /\ Append(s, x)[Len(s) + 1] = x
        BY <2>2
      <4> QED
        BY <4>1, <3>1
    <3>3. Descending(t)
      <4>1. ASSUME NEW k \in DOMAIN t, NEW l \in DOMAIN t, k < l
            PROVE  t[k].score >= t[l].score
        <5>1. k \in DOMAIN s /\ t[k] = s[k]
          BY <4>1, <3>2, <2>3
        <5>2. CASE l = Len(s) + 1
          BY <5>1, <5>2, <3>2, <2>4
        <5>3. CASE l /= Len(s) + 1
          <6>1. l \in DOMAIN s /\ t[l] = s[l]
            BY <5>3, <3>2, <2>3
          <6> QED
            BY <6>1, <5>1, <4>1, <2>6 DEF Descending
        <5> QED
          BY <5>2, <5>3
      <4> QED
        BY <4>1 DEF Descending
    <3>4. Unique(t)
      <4>1. ASSUME NEW k \in DOMAIN t, NEW l \in DOMAIN t, k < l
            PROVE  t[k].address /= t[l].address
        <5>1. k \in DOMAIN s /\ t[k] = s[k]
          BY <4>1, <3>2, <2>3
        <5>2. CASE l = Len(s) + 1
          BY <5>1, <5>2, <3>2, <2>8
        <5>3. CASE l /= Len(s) + 1
          <6>1. l \in DOMAIN s /\ t[l] = s[l] /\ k /= l
            BY <5>3, <3>2, <2>3, <4>1
          <6> QED
            BY <6>1, <5>1, <2>6 DEF Unique
        <5> QED
          BY <5>2, <5>3
      <4>2. \A k, l \in DOMAIN t : k /= l => k < l \/ l < k
        BY <3>2, <2>3
      <4> QED
        BY <4>1, <4>2 DEF Unique
    <3>5. ASSUME NEW k \in DOMAIN t PROVE \E i \in 1 .. n : t[k] = xs[i]
      <4>1. CASE k = Len(s) + 1
        BY <4>1, <3>2, <2>1 DEF x
      <4>2. CASE k /= Len(s) + 1
        <5>1. k \in DOMAIN s /\ t[k] = s[k]
          BY <4>2, <3>2, <2>3
        <5>2. PICK i \in 1 .. n - 1 : s[k] = xs[i]
          BY <5>1, <2>6
        <5> QED
          BY <5>1, <5>2, <2>1
      <4> QED
        BY <4>1, <4>2
    <3>6. ASSUME NEW i \in 1 .. n
          PROVE  \E k \in DOMAIN t : t[k].address = xs[i].address /\ t[k].score >= xs[i].score
      <4>1. CASE i = n
        <5>1. Len(s) + 1 \in DOMAIN t /\ t[Len(s) + 1] = xs[i]
          BY <4>1, <3>2, <2>3 DEF x
        <5>2. xs[i].score \in Int
          BY <4>1, <1>1
        <5> QED
          BY <5>1, <5>2
      <4>2. CASE i /= n
        <5>1. i \in 1 .. n - 1
          BY <4>2, <2>1
        <5>2. PICK k \in DOMAIN s : s[k].address = xs[i].address /\ s[k].score >= xs[i].score
          BY <5>1, <2>6
        <5>3. k \in DOMAIN t /\ t[k] = s[k]
          BY <3>2, <2>3
        <5> QED
          BY <5>2, <5>3
      <4> QED
        BY <4>1, <4>2
    <3> QED
      BY <3>3, <3>4, <3>5, <3>6 DEF t
  <2> QED
    BY <2>7, <2>8
<1> DEFINE S == {n \in 0 .. N : First(f[n], n)}
<1>6. 0 \in S /\ \A n \in 1 .. N : n - 1 \in S => n \in S
  <2> HIDE DEF First
  <2> QED
    BY <1>1, <1>4, <1>5
<1>7. \A n \in 0 .. N : n \in S
  <2> HIDE DEF S
  <2> QED
    BY <1>1, <1>6, ItemInduction
<1>8. First(f[N], N)
  <2> HIDE DEF First
  <2> QED
    BY <1>1, <1>7
<1>9. f[N] \in A
  BY <1>1, <1>2
<1> QED
  BY <1>1, <1>2, <1>8, <1>9

(* A merged report keeps what its first report says, with figures that are *)
(* no smaller.                                                             *)
KeyOf(r) == <<r.chain, r.address>>

Covers(m, r) ==
    /\ m.chain = r.chain /\ m.address = r.address /\ m.dex = r.dex
    /\ m.valid = r.valid /\ m.age = r.age
    /\ m.liquidity >= r.liquidity /\ m.volume >= r.volume /\ m.txns >= r.txns

FirstOf(rs, i) == \A h \in 1 .. i - 1 : KeyOf(rs[h]) /= KeyOf(rs[i])

(* Merging a further report into m changes none of that.                   *)
LEMMA CoversMerged ==
    ASSUME NEW m \in Reports, NEW r \in Reports, NEW x \in Reports
    PROVE  /\ KeyOf(MergeReport(m, x)) = KeyOf(m)
           /\ Covers(m, r) => Covers(MergeReport(m, x), r)
           /\ Covers(r, r)
<1> DEFINE l == IF m.usd THEN m.liquidity ELSE Larger(m.liquidity, x.liquidity)
           v == Larger(m.volume, x.volume)
           t == Larger(m.txns, x.txns)
           u == MergeReport(m, x)
<1>1. u = [m EXCEPT !.liquidity = l, !.volume = v, !.txns = t]
  BY DEF MergeReport
<1>2. /\ l \in Int /\ v \in Int /\ t \in Int
      /\ l >= m.liquidity /\ v >= m.volume /\ t >= m.txns
  BY DEF Reports, Larger
<1> HIDE DEF l, v, t, u
<1>3. /\ u.chain = m.chain /\ u.address = m.address /\ u.dex = m.dex
      /\ u.valid = m.valid /\ u.age = m.age
      /\ u.liquidity = l /\ u.volume = v /\ u.txns = t
  BY <1>1 DEF Reports
<1>4. /\ r.liquidity \in Int /\ r.volume \in Int /\ r.txns \in Int
      /\ m.liquidity \in Int /\ m.volume \in Int /\ m.txns \in Int
  BY DEF Reports
<1>5. Covers(m, r) => Covers(u, r)
  BY <1>2, <1>3, <1>4 DEF Covers
<1>6. KeyOf(u) = KeyOf(m)
  BY <1>3 DEF KeyOf
<1>7. Covers(r, r)
  BY <1>4 DEF Covers
<1> QED
  BY <1>5, <1>6, <1>7 DEF u

MergedReport(s, x, t) ==
    /\ DOMAIN t = DOMAIN s
    /\ \A i \in DOMAIN s : t[i] = s[i] \/ t[i] = MergeReport(s[i], x)

(* A report is merged into the entries of its key, or becomes an entry.    *)
LEMMA PutReportCases ==
    ASSUME NEW s \in Seq(Reports), NEW x \in Reports
    PROVE  \/ /\ \E i \in DOMAIN s : KeyOf(s[i]) = KeyOf(x)
              /\ MergedReport(s, x, PutReport(s, x))
           \/ /\ \A i \in DOMAIN s : KeyOf(s[i]) /= KeyOf(x)
              /\ PutReport(s, x) = Append(s, x)
<1>1. CASE \E i \in DOMAIN s : KeyOf(s[i]) = KeyOf(x)
  <2>1. PutReport(s, x) = [i \in DOMAIN s |-> IF KeyOf(s[i]) = KeyOf(x)
                                                THEN MergeReport(s[i], x) ELSE s[i]]
    BY <1>1 DEF PutReport, Put, KeyOf
  <2>2. MergedReport(s, x, PutReport(s, x))
    BY <2>1 DEF MergedReport
  <2> QED
    BY <2>2, <1>1
<1>2. CASE \A i \in DOMAIN s : KeyOf(s[i]) /= KeyOf(x)
  <2>1. PutReport(s, x) = Append(s, x)
    BY <1>2 DEF PutReport, Put, KeyOf
  <2> QED
    BY <2>1, <1>2
<1> QED
  BY <1>1, <1>2

(* The first report of each key is covered by an entry of the merged list. *)
LEMMA Merged ==
    ASSUME NEW rs \in Seq(Reports)
    PROVE  /\ merge(rs) \in Seq(Reports)
           /\ \A i \in DOMAIN rs :
                FirstOf(rs, i) => \E k \in DOMAIN merge(rs) : Covers(merge(rs)[k], rs[i])
<1> DEFINE N == Len(rs)
           A == Seq(Reports)
           Kept(s, n) ==
             /\ \A k \in DOMAIN s : \E i \in 1 .. n : KeyOf(s[k]) = KeyOf(rs[i])
             /\ \A i \in 1 .. n : FirstOf(rs, i) => \E k \in DOMAIN s : Covers(s[k], rs[i])
<1>1. N \in Nat /\ DOMAIN rs = 1 .. N /\ \A i \in 1 .. N : rs[i] \in Reports
  OBVIOUS
<1>2. PICK f \in [0 .. N -> A] :
        /\ merge(rs) = f[N]
        /\ f[0] = <<>>
        /\ \A n \in 1 .. N : f[n] = PutReport(f[n - 1], rs[n])
  BY MergeSteps
<1> HIDE DEF N
<1>3. Kept(f[0], 0)
  BY <1>2
<1>4. ASSUME NEW n \in 1 .. N, Kept(f[n - 1], n - 1)
      PROVE  Kept(f[n], n)
  <2> DEFINE s == f[n - 1]
             x == rs[n]
             t == f[n]
  <2>1. n - 1 \in 0 .. N /\ n \in Nat /\ \A i \in 1 .. n : i = n \/ i \in 1 .. n - 1
    BY <1>1
  <2>2. s \in Seq(Reports) /\ x \in Reports /\ t = PutReport(s, x)
    BY <1>1, <1>2, <2>1
  <2>3. /\ DOMAIN s = 1 .. Len(s) /\ Len(s) \in Nat
        /\ \A k \in DOMAIN s : s[k] \in Reports
    BY <2>2
  <2>4. \A i \in 1 .. n : rs[i] \in Reports
    BY <1>1
  <2> HIDE DEF s, x, t
  <2>5. Kept(s, n - 1)
    BY <1>4 DEF s
  <2>6. CASE (\E i \in DOMAIN s : KeyOf(s[i]) = KeyOf(x)) /\ MergedReport(s, x, PutReport(s, x))
    <3>1. DOMAIN t = DOMAIN s /\ \A k \in DOMAIN s : t[k] = s[k] \/ t[k] = MergeReport(s[k], x)
      BY <2>2, <2>6 DEF MergedReport
    <3>2. ASSUME NEW k \in DOMAIN s
          PROVE  /\ KeyOf(t[k]) = KeyOf(s[k])
                 /\ \A r \in Reports : Covers(s[k], r) => Covers(t[k], r)
      BY <3>1, <2>2, <2>3, CoversMerged
    <3>3. ASSUME NEW k \in DOMAIN t PROVE \E i \in 1 .. n : KeyOf(t[k]) = KeyOf(rs[i])
      BY <3>1, <3>2, <2>5, <2>1
    <3>4. ASSUME NEW i \in 1 .. n, FirstOf(rs, i)
          PROVE  \E k \in DOMAIN t : Covers(t[k], rs[i])
      <4>1. i /= n
        <5>1. PICK k \in DOMAIN s : KeyOf(s[k]) = KeyOf(x)
          BY <2>6
        <5>2. PICK h \in 1 .. n - 1 : KeyOf(s[k]) = KeyOf(rs[h])
          BY <2>5
        <5> QED
          BY <5>1, <5>2, <3>4 DEF FirstOf, x
      <4>2. PICK k \in DOMAIN s : Covers(s[k], rs[i])
        BY <4>1, <3>4, <2>5, <2>1
      <4> QED
        BY <4>2, <3>1, <3>2, <2>4
    <3> QED
      BY <3>3, <3>4 DEF t
  <2>7. CASE (\A i \in DOMAIN s : KeyOf(s[i]) /= KeyOf(x)) /\ PutReport(s, x) = Append(s, x)
    <3>1. /\ DOMAIN t = 1 .. Len(s) + 1
          /\ \A k \in 1 .. Len(s) : t[k] = s[k]
          /\ t[Len(s) + 1] = x
      <4>1. /\ DOMAIN Append(s, x) = 1 .. Len(s) + 1
            /\ \A k \in 1 .. Len(s) : Append(s, x)[k] = s[k]
            /\ Append(s, x)[Len(s) + 1] = x
        BY <2>2
      <4> QED
        BY <4>1, <2>2, <2>7
    <3>2. \A k \in DOMAIN t : k = Len(s) + 1 \/ (k \in DOMAIN s /\ t[k] = s[k])
      BY <3>1, <2>3
    <3>3. ASSUME NEW k \in DOMAIN t PROVE \E i \in 1 .. n : KeyOf(t[k]) = KeyOf(rs[i])
      <4>1. CASE k = Len(s) + 1
        BY <4>1, <3>1, <2>1 DEF x
      <4>2. CASE k \in DOMAIN s /\ t[k] = s[k]
        BY <4>2, <2>5, <2>1
      <4> QED
        BY <4>1, <4>2, <3>2
    <3>4. ASSUME NEW i \in 1 .. n, FirstOf(rs, i)
          PROVE  \E k \in DOMAIN t : Covers(t[k], rs[i])
      <4>1. CASE i = n
        <5>1. Len(s) + 1 \in DOMAIN t /\ t[Len(s) + 1] = rs[i]
          BY <4>1, <3>1, <2>3 DEF x
        <5>2. Covers(rs[i], rs[i])
          BY <2>4, CoversMerged
        <5> QED
          BY <5>1, <5>2
      <4>2. CASE i /= n
        <5>1. PICK k \in DOMAIN s : Covers(s[k], rs[i])
          BY <4>2, <3>4, <2>5, <2>1
        <5>2. k \in DOMAIN t /\ t[k] = s[k]
          BY <3>1, <2>3
        <5> QED
          BY <5>1, <5>2
      <4> QED
        BY <4>1, <4>2
    <3> QED
      BY <3>3, <3>4 DEF t
  <2> QED
    BY <2>6, <2>7, <2>2, PutReportCases
<1> DEFINE S == {n \in 0 .. N : Kept(f[n], n)}
<1>5. 0 \in S /\ \A n \in 1 .. N : n - 1 \in S => n \in S
  <2> HIDE DEF Kept
  <2> QED
    BY <1>1, <1>3, <1>4
<1>6. \A n \in 0 .. N : n \in S
  <2> HIDE DEF S
  <2> QED
    BY <1>1, <1>5, ItemInduction
<1>7. Kept(f[N], N)
  <2> HIDE DEF Kept
  <2> QED
    BY <1>1, <1>6
<1>8. f[N] \in A
  BY <1>1, <1>2
<1> QED
  BY <1>1, <1>2, <1>7, <1>8

(* Whatever passes the filters is kept.                                    *)
LEMMA PassedKept ==
    ASSUME NEW rs \in Seq(Reports)
    PROVE  /\ Passed(rs) \in Seq(Reports)
           /\ \A i \in DOMAIN rs :
                filter(rs[i]) => \E k \in DOMAIN Passed(rs) : Passed(rs)[k] = rs[i]
<1> DEFINE N == Len(rs)
           A == Seq(Reports)
           Kept(s, n) ==
             \A i \in 1 .. n : filter(rs[i]) => \E k \in DOMAIN s : s[k] = rs[i]
<1>1. N \in Nat /\ DOMAIN rs = 1 .. N /\ \A i \in 1 .. N : rs[i] \in Reports
  OBVIOUS
<1>2. PICK f \in [0 .. N -> A] :
        /\ Passed(rs) = f[N]
        /\ f[0] = <<>>
        /\ \A n \in 1 .. N : f[n] = KeepReport(f[n - 1], rs[n])
  BY FilterSteps
<1> HIDE DEF N
<1>3. Kept(f[0], 0)
  OBVIOUS
<1>4. ASSUME NEW n \in 1 .. N, Kept(f[n - 1], n - 1)
      PROVE  Kept(f[n], n)
  <2> DEFINE s == f[n - 1]
             x == rs[n]
             t == f[n]
  <2>1. n - 1 \in 0 .. N /\ \A i \in 1 .. n : i = n \/ i \in 1 .. n - 1
    BY <1>1
  <2>2. s \in Seq(Reports) /\ x \in Reports /\ t = KeepReport(s, x)
    BY <1>1, <1>2, <2>1
  <2>3. DOMAIN s = 1 .. Len(s) /\ Len(s) \in Nat
    BY <2>2
  <2> HIDE DEF s, x, t
  <2>4. Kept(s, n - 1)
    BY <1>4 DEF s
  <2>5. CASE filter(x)
    <3>1. /\ DOMAIN t = 1 .. Len(s) + 1
          /\ \A k \in 1 .. Len(s) : t[k] = s[k]
          /\ t[Len(s) + 1] = x
      <4>1. /\ DOMAIN Append(s, x) = 1 .. Len(s) + 1
            /\ \A k \in 1 .. Len(s) : Append(s, x)[k] = s[k]
            /\ Append(s, x)[Len(s) + 1] = x
        BY <2>2
      <4>2. t = Append(s, x)
        BY <2>2, <2>5 DEF KeepReport
      <4> QED
        BY <4>1, <4>2
    <3>2. ASSUME NEW i \in 1 .. n, filter(rs[i])
          PROVE  \E k \in DOMAIN t : t[k] = rs[i]
      <4>1. CASE i = n
        <5>1. Len(s) + 1 \in DOMAIN t /\ t[Len(s) + 1] = rs[i]
          BY <4>1, <3>1, <2>3 DEF x
        <5> QED
          BY <5>1
      <4>2. CASE i \in 1 .. n - 1
        <5>1. PICK k \in DOMAIN s : s[k] = rs[i]
          BY <4>2, <3>2, <2>4
        <5>2. k \in DOMAIN t /\ t[k] = s[k]
          BY <3>1, <2>3
        <5> QED
          BY <5>1, <5>2
      <4> QED
        BY <4>1, <4>2, <2>1
    <3> QED
      BY <3>2 DEF t
  <2>6. CASE ~filter(x)
    <3>1. t = s
      BY <2>2, <2>6 DEF KeepReport
    <3>2. ASSUME NEW i \in 1 .. n, filter(rs[i])
          PROVE  \E k \in DOMAIN t : t[k] = rs[i]
      <4>1. i \in 1 .. n - 1
        BY <3>2, <2>1, <2>6 DEF x
      <4> QED
        BY <4>1, <3>1, <3>2, <2>4
    <3> QED
      BY <3>2 DEF t
  <2> QED
    BY <2>5, <2>6
<1> DEFINE S == {n \in 0 .. N : Kept(f[n], n)}
<1>5. 0 \in S /\ \A n \in 1 .. N : n - 1 \in S => n \in S
  <2> HIDE DEF Kept
  <2> QED
    BY <1>1, <1>3, <1>4
<1>6. \A n \in 0 .. N : n \in S
  <2> HIDE DEF S
  <2> QED
    BY <1>1, <1>5, ItemInduction
<1>7. Kept(f[N], N)
  <2> HIDE DEF Kept
  <2> QED
    BY <1>1, <1>6
<1>8. f[N] \in A
  BY <1>1, <1>2
<1> QED
  BY <1>1, <1>2, <1>7, <1>8

(* Of a ranked list those that are good enough are the first.              *)
LEMMA GoodFirst ==
    ASSUME NEW T, \A x \in T : x.score \in Int, NEW ps \in Seq(T), Descending(ps)
    PROVE  /\ Good(ps) \in Seq(T) /\ Len(Good(ps)) <= Len(ps)
           /\ \A k \in 1 .. Len(Good(ps)) : Good(ps)[k] = ps[k]
           /\ \A k \in 1 .. Len(ps) : k > Len(Good(ps)) => ps[k].score < OpportunityScore
<1> DEFINE N == Len(ps)
           A == Seq(T)
           First(s, n) ==
             /\ Len(s) <= n
             /\ \A k \in 1 .. Len(s) : s[k] = ps[k]
             /\ \A k \in 1 .. n : k > Len(s) => ps[k].score < OpportunityScore
<1>1. /\ N \in Nat /\ DOMAIN ps = 1 .. N
      /\ \A i \in 1 .. N : ps[i] \in T /\ ps[i].score \in Int
      /\ OpportunityScore \in Int
  BY ThresholdAssumption
<1>2. PICK f \in [0 .. N -> A] :
        /\ Good(ps) = f[N]
        /\ f[0] = <<>>
        /\ \A n \in 1 .. N : f[n] = KeepGood(f[n - 1], ps[n])
  BY GoodSteps
<1>3. \A i, j \in 1 .. N : i < j => ps[i].score >= ps[j].score
  BY <1>1 DEF Descending
<1> HIDE DEF N
<1>4. First(f[0], 0)
  BY <1>2
<1>5. ASSUME NEW n \in 1 .. N, First(f[n - 1], n - 1)
      PROVE  First(f[n], n)
  <2> DEFINE s == f[n - 1]
             x == ps[n]
             t == f[n]
  <2>1. /\ n - 1 \in 0 .. N /\ n \in Nat
        /\ \A i \in 1 .. n : i = n \/ (i \in 1 .. n - 1 /\ i \in 1 .. N /\ i < n)
    BY <1>1
  <2>2. s \in Seq(T) /\ x \in T /\ t = KeepGood(s, x)
    BY <1>1, <1>2, <2>1
  <2>3. Len(s) \in Nat
    BY <2>2
  <2> HIDE DEF s, x, t
  <2>4. First(s, n - 1)
    BY <1>5 DEF s
  <2>5. CASE x.score >= OpportunityScore
    <3>1. Len(s) = n - 1
      <4>1. n - 1 > 0 => ps[n - 1].score >= OpportunityScore
        <5> SUFFICES ASSUME n - 1 > 0 PROVE ps[n - 1].score >= OpportunityScore
          OBVIOUS
        <5>1. n - 1 \in 1 .. N /\ n - 1 < n
          BY <1>1
        <5>2. ps[n - 1].score >= ps[n].score /\ ps[n - 1].score \in Int /\ ps[n].score \in Int
          BY <5>1, <1>1, <1>3
        <5> QED
          BY <5>2, <2>5, <1>1 DEF x
      <4>2. n - 1 > 0 => ~(n - 1 > Len(s))
        <5>1. n - 1 > 0 => n - 1 \in 1 .. N /\ ps[n - 1].score \in Int
          BY <1>1
        <5> QED
          BY <4>1, <5>1, <2>4, <1>1
      <4> QED
        BY <4>2, <2>1, <2>3, <2>4
    <3>2. /\ Len(t) = n
          /\ \A k \in 1 .. n - 1 : t[k] = s[k]
          /\ t[n] = x
      <4>1. /\ Len(Append(s, x)) = Len(s) + 1
            /\ \A k \in 1 .. Len(s) : Append(s, x)[k] = s[k]
            /\ Append(s, x)[Len(s) + 1] = x
        BY <2>2
      <4>2. t = Append(s, x)
        BY <2>2, <2>5 DEF KeepGood
      <4> QED
        BY <4>1, <4>2, <3>1, <2>1
    <3>3. \A k \in 1 .. n : t[k] = ps[k]
      BY <3>1, <3>2, <2>1, <2>4 DEF x
    <3> QED
      BY <3>2, <3>3, <2>1 DEF t
  <2>6. CASE ~(x.score >= OpportunityScore)
    <3>1. t = s
      BY <2>2, <2>6 DEF KeepGood
    <3>2. x.score < OpportunityScore
      BY <2>6, <1>1 DEF x
    <3>3. Len(t) <= n
      BY <3>1, <2>4, <2>1, <2>3
    <3>4. ASSUME NEW k \in 1 .. n, k > Len(t) PROVE ps[k].score < OpportunityScore
      BY <3>1, <3>2, <3>4, <2>1, <2>4 DEF x
    <3> QED
      BY <3>1, <3>3, <3>4, <2>4 DEF t
  <2> QED
    BY <2>5, <2>6
<1> DEFINE S == {n \in 0 .. N : First(f[n], n)}
<1>6. 0 \in S /\ \A n \in 1 .. N : n - 1 \in S => n \in S
  <2> HIDE DEF First
  <2> QED
    BY <1>1, <1>4, <1>5
<1>7. \A n \in 0 .. N : n \in S
  <2> HIDE DEF S
  <2> QED
    BY <1>1, <1>6, ItemInduction
<1>8. First(f[N], N)
  <2> HIDE DEF First
  <2> QED
    BY <1>1, <1>7
<1>9. f[N] \in A
  BY <1>1, <1>2
<1> QED
  BY <1>2, <1>8, <1>9 DEF N

(* An exchange that a strategy supports has one of the labels.             *)
LEMMA Recognized ==
    ASSUME NEW id, NEW d \in DOMAIN Strategies, supports(d, id)
    PROVE  recognize(id) \in SUPPORTED_DEXS
<1> DEFINE found == {i \in DOMAIN Strategies : supports(i, id)}
<1>1. DOMAIN Strategies = 1 .. 6 /\ \A i \in 1 .. 6 : Strategies[i].label \in SUPPORTED_DEXS
  <2>1. /\ Strategies[1].label = "aerodrome" /\ Strategies[2].label = "uniswap v3"
        /\ Strategies[3].label = "pancakeswap" /\ Strategies[4].label = "sushiswap"
        /\ Strategies[5].label = "baseswap" /\ Strategies[6].label = "alien base"
    BY DEF Strategies
  <2>2. DOMAIN Strategies = 1 .. 6
    BY DEF Strategies
  <2>3. \A i \in 1 .. 6 : i = 1 \/ i = 2 \/ i = 3 \/ i = 4 \/ i = 5 \/ i = 6
    OBVIOUS
  <2> QED
    BY <2>1, <2>2, <2>3 DEF SUPPORTED_DEXS
<1>2. found /= {} /\ found \subseteq 1 .. 6
  BY <1>1
<1>3. recognize(id) = Strategies[Min(found)].label
  BY <1>2 DEF recognize
<1> HIDE DEF found
<1>4. \E i \in found : \A j \in found : i <= j
  <2>1. \A n \in 1 .. 6 : (\E i \in found : i <= n) => \E i \in found : \A j \in found : i <= j
    <3> DEFINE S == {n \in 0 .. 6 : (\E i \in found : i <= n)
                                      => \E i \in found : \A j \in found : i <= j}
    <3>1. 0 \in S
      BY <1>2
    <3>2. ASSUME NEW n \in 1 .. 6, n - 1 \in S PROVE n \in S
      <4>1. CASE \E i \in found : i <= n - 1
        BY <4>1, <3>2
      <4>2. CASE ~ \E i \in found : i <= n - 1
        BY <4>2, <1>2
      <4> QED
        BY <4>1, <4>2
    <3>3. \A n \in 0 .. 6 : n \in S
      <4> HIDE DEF S
      <4> QED
        BY <3>1, <3>2, ItemInduction
    <3> QED
      BY <3>3
  <2>2. \E i \in found : i <= 6
    <3>1. PICK i \in found : TRUE
      BY <1>2
    <3>2. i <= 6
      BY <1>2
    <3> QED
      BY <3>2
  <2> QED
    BY <2>1, <2>2
<1>5. Min(found) \in found
  BY <1>4 DEF Min
<1> QED
  BY <1>1, <1>2, <1>3, <1>5

(* A report that would do alone.                                           *)
Acceptable(r) ==
    /\ r.liquidity > 0
    /\ r.liquidity >= MinLiquidity
    /\ r.volume >= MinVolume
    /\ r.valid
    /\ r.chain \in {"base", "Base"}
    /\ \E d \in DOMAIN Strategies : supports(d, r.dex)

(* Whatever covers an acceptable report passes, with a score no lower.     *)
LEMMA CoverPasses ==
    ASSUME NEW m \in Reports, NEW r \in Reports, Covers(m, r), Acceptable(r)
    PROVE  filter(m) /\ calculate(m) >= calculate(r)
<1>1. /\ r.liquidity \in Int /\ r.volume \in Int /\ r.txns \in Int /\ r.age \in Int
      /\ m.liquidity \in Int /\ m.volume \in Int /\ m.txns \in Int /\ m.age \in Int
      /\ MinLiquidity \in Int /\ MinVolume \in Int
  BY ThresholdAssumption DEF Reports
<1>2. /\ m.chain = r.chain /\ m.address = r.address /\ m.dex = r.dex
      /\ m.valid = r.valid /\ m.age = r.age
      /\ m.liquidity >= r.liquidity /\ m.volume >= r.volume /\ m.txns >= r.txns
  BY DEF Covers
<1>3. LiquidityFilter(m)
  BY <1>1, <1>2 DEF Acceptable, LiquidityFilter
<1>4. ValidationFilter(m)
  BY <1>2, Recognized DEF Acceptable, ValidationFilter
<1>5. calculate(r) <= calculate(m)
  <2>1. /\ r.liquidity <= m.liquidity /\ r.volume <= m.volume
        /\ r.age <= m.age /\ r.txns <= m.txns
    BY <1>1, <1>2
  <2> QED
    BY <2>1, Scores
<1>6. calculate(r) \in Int /\ calculate(m) \in Int
  BY Scores
<1> QED
  BY <1>3, <1>4, <1>5, <1>6 DEF filter

(* The pairs of a refresh are ranked, have different addresses, and        *)
(* nothing acceptable is lost.                                             *)
LEMMA Discovered ==
    ASSUME NEW rs \in Seq(Reports)
    PROVE  /\ discover(rs) \in Seq(Scoreds)
           /\ Descending(discover(rs)) /\ Unique(discover(rs))
           /\ \A i \in DOMAIN rs :
                Acceptable(rs[i]) /\ FirstOf(rs, i) =>
                  \E k \in DOMAIN discover(rs) :
                    /\ discover(rs)[k].address = rs[i].address
                    /\ discover(rs)[k].score >= calculate(rs[i])
<1> DEFINE ms == merge(rs)
           fs == Passed(ms)
           ks == rankPairs(fs)
           ps == deduplicatePairs(ks)
<1>1. discover(rs) = ps
  BY DEF discover, Passed
<1> HIDE DEF ms, fs, ks, ps
<1>2. /\ ms \in Seq(Reports)
      /\ \A i \in DOMAIN rs : FirstOf(rs, i) => \E k \in DOMAIN ms : Covers(ms[k], rs[i])
  BY Merged DEF ms
<1>3. /\ fs \in Seq(Reports)
      /\ \A i \in DOMAIN ms : filter(ms[i]) => \E k \in DOMAIN fs : fs[k] = ms[i]
  BY <1>2, PassedKept DEF fs
<1>4. /\ ks \in Seq(Scoreds) /\ Descending(ks)
      /\ \A i \in DOMAIN fs : \E k \in DOMAIN ks : ks[k] = Scored(fs[i])
  BY <1>3, Ranked DEF ks
<1>5. /\ ps \in Seq(Scoreds) /\ Descending(ps) /\ Unique(ps)
      /\ \A i \in DOMAIN ks : \E k \in DOMAIN ps : /\ ps[k].address = ks[i].address
                                                   /\ ps[k].score >= ks[i].score
  <2>1. \A x \in Scoreds : x.score \in Int
    BY ScoredFields
  <2> QED
    BY <2>1, <1>4, Deduplicated DEF ps
<1>6. ASSUME NEW i \in DOMAIN rs, Acceptable(rs[i]), FirstOf(rs, i)
      PROVE  \E k \in DOMAIN ps : /\ ps[k].address = rs[i].address
                                  /\ ps[k].score >= calculate(rs[i])
  <2>1. PICK j \in DOMAIN ms : Covers(ms[j], rs[i])
    BY <1>2, <1>6
  <2>2. ms[j] \in Reports /\ rs[i] \in Reports
    BY <1>2
  <2>3. filter(ms[j]) /\ calculate(ms[j]) >= calculate(rs[i]) /\ ms[j].address = rs[i].address
    <3>1. ms[j].address = rs[i].address
      BY <2>1 DEF Covers
    <3> QED
      BY <3>1, <2>1, <2>2, <1>6, CoverPasses
  <2>4. PICK h \in DOMAIN fs : fs[h] = ms[j]
    BY <2>3, <1>3
  <2>5. PICK l \in DOMAIN ks : ks[l] = Scored(ms[j])
    BY <2>4, <1>4
  <2>6. ks[l].address = rs[i].address /\ ks[l].score = calculate(ms[j])
    BY <2>3, <2>5 DEF Scored
  <2>7. PICK k \in DOMAIN ps : ps[k].address = ks[l].address /\ ps[k].score >= ks[l].score
    BY <1>5
  <2>8. ps[k].score \in Int /\ calculate(ms[j]) \in Int /\ calculate(rs[i]) \in Int
    <3>1. ps[k] \in Scoreds
      BY <1>5
    <3> QED
      BY <3>1, <2>2, ScoredFields, Scores
  <2>9. ps[k].score >= calculate(rs[i])
    BY <2>3, <2>6, <2>7, <2>8
  <2> QED
    BY <2>6, <2>7, <2>9
<1> QED
  BY <1>1, <1>5, <1>6

(* The opportunities are the first of the good pairs, at most so many.     *)
LEMMA Detected ==
    ASSUME NEW ps \in Seq(Scoreds), Descending(ps)
    PROVE  /\ Len(detectOpportunities(ps)) <= MaxOpportunities
           /\ \A k \in DOMAIN ps :
                \/ \E i \in DOMAIN detectOpportunities(ps) : detectOpportunities(ps)[i] = ps[k]
                \/ ps[k].score < OpportunityScore
                \/ /\ Len(detectOpportunities(ps)) = MaxOpportunities
                   /\ \A i \in DOMAIN detectOpportunities(ps) :
                        detectOpportunities(ps)[i].score >= ps[k].score
<1> DEFINE good == Good(ps)
           n == Smaller(MaxOpportunities, Len(good))
           os == detectOpportunities(ps)
<1>1. os = SubSeq(good, 1, n)
  BY DEF detectOpportunities, Good
<1>2. /\ good \in Seq(Scoreds) /\ Len(good) <= Len(ps)
      /\ \A k \in 1 .. Len(good) : good[k] = ps[k]
      /\ \A k \in 1 .. Len(ps) : k > Len(good) => ps[k].score < OpportunityScore
  <2>1. \A x \in Scoreds : x.score \in Int
    BY ScoredFields
  <2> QED
    BY <2>1, GoodFirst
<1> HIDE DEF good, os
<1>3. Len(good) \in Nat /\ Len(ps) \in Nat /\ DOMAIN ps = 1 .. Len(ps) /\ MaxOpportunities \in Nat
  BY <1>2, KeepAssumption
<1>4. /\ n \in Nat /\ n <= Len(good) /\ n <= MaxOpportunities
      /\ (n < Len(good) => n = MaxOpportunities)
  BY <1>3 DEF Smaller
<1> HIDE DEF n
<1>5. Len(os) = n /\ DOMAIN os = 1 .. n /\ \A i \in 1 .. n : os[i] = ps[i]
  <2>1. Len(os) = n /\ DOMAIN os = 1 .. n /\ \A i \in 1 .. n : os[i] = good[i]
    BY <1>1, <1>2, <1>4
  <2> QED
    BY <2>1, <1>2, <1>4
<1>6. ASSUME NEW k \in DOMAIN ps
      PROVE  \/ \E i \in DOMAIN os : os[i] = ps[k]
             \/ ps[k].score < OpportunityScore
             \/ /\ Len(os) = MaxOpportunities
                /\ \A i \in DOMAIN os : os[i].score >= ps[k].score
  <2>1. CASE k <= n
    BY <2>1, <1>3, <1>4, <1>5
  <2>2. CASE k > Len(good)
    BY <2>2, <1>2, <1>3
  <2>3. CASE n < k /\ k <= Len(good)
    <3>1. n = MaxOpportunities
      BY <2>3, <1>3, <1>4
    <3>2. ASSUME NEW i \in 1 .. n PROVE os[i].score >= ps[k].score
      <4>1. i < k /\ i \in DOMAIN ps
        BY <2>3, <1>3, <1>4, <1>2
      <4> QED
        BY <4>1, <1>5 DEF Descending
    <3> QED
      BY <3>1, <3>2, <1>5
  <2> QED
    BY <2>1, <2>2, <2>3, <1>3, <1>4
<1> QED
  BY <1>4, <1>5, <1>6 DEF os

-----------------------------------------------------------------------------
(* The tokens.                                                             *)

(* A list without repetitions is left as it is.                            *)
LEMMA DeduplicatedUnique ==
    ASSUME NEW T, NEW xs \in Seq(T), Unique(xs)
    PROVE  deduplicateTokens(xs) = xs
<1> DEFINE N == Len(xs)
           A == Seq(T)
           Same(s, n) == Len(s) = n /\ \A k \in 1 .. n : s[k] = xs[k]
<1>1. N \in Nat /\ DOMAIN xs = 1 .. N /\ \A i \in 1 .. N : xs[i] \in T
  OBVIOUS
<1>2. PICK f \in [0 .. N -> A] :
        /\ deduplicateTokens(xs) = f[N]
        /\ f[0] = <<>>
        /\ \A n \in 1 .. N : f[n] = PutBest(f[n - 1], xs[n])
  BY BestSteps
<1> HIDE DEF N
<1>3. Same(f[0], 0)
  BY <1>2
<1>4. ASSUME NEW n \in 1 .. N, Same(f[n - 1], n - 1)
      PROVE  Same(f[n], n)
  <2> DEFINE s == f[n - 1]
             x == xs[n]
  <2>1. n - 1 \in 0 .. N /\ n \in Nat /\ (n - 1) + 1 = n
    BY <1>1
  <2>2. s \in Seq(T) /\ x \in T /\ f[n] = PutBest(s, x)
    BY <1>1, <1>2, <2>1
  <2>3. Len(s) = n - 1 /\ DOMAIN s = 1 .. n - 1 /\ \A k \in 1 .. n - 1 : s[k] = xs[k]
    BY <1>4, <2>2
  <2> HIDE DEF s
  <2>4. \A k \in DOMAIN s : s[k].address /= x.address
    <3>1. \A k \in 1 .. n - 1 : k \in DOMAIN xs /\ n \in DOMAIN xs /\ k /= n
      BY <1>1
    <3> QED
      BY <2>3, <3>1 DEF Unique
  <2>5. PutBest(s, x) = Append(s, x)
    BY <2>2, <2>4, PutBestCases
  <2>6. /\ Len(Append(s, x)) = n
        /\ \A k \in 1 .. n : Append(s, x)[k] = xs[k]
    BY <2>2, <2>3, <2>1
  <2> QED
    BY <2>2, <2>5, <2>6
<1> DEFINE S == {n \in 0 .. N : Same(f[n], n)}
<1>5. 0 \in S /\ \A n \in 1 .. N : n - 1 \in S => n \in S
  <2> HIDE DEF Same
  <2> QED
    BY <1>1, <1>3, <1>4
<1>6. \A n \in 0 .. N : n \in S
  <2> HIDE DEF S
  <2> QED
    BY <1>1, <1>5, ItemInduction
<1>7. Same(f[N], N) /\ f[N] \in A
  <2> HIDE DEF Same
  <2> QED
    BY <1>1, <1>2, <1>6
<1> QED
  BY <1>1, <1>2, <1>7 DEF N

(* The numbers of a token.                                                 *)
LEMMA TokenFields ==
    ASSUME NEW t \in Tokens
    PROVE  /\ t.liquidity \in Int
           /\ t.score \in Percents /\ t.score \in Int
<1>1. t.liquidity \in Int /\ t.score \in Percents
  BY DEF Tokens
<1>2. Percents \subseteq Int
  BY DEF Percents
<1> QED
  BY <1>1, <1>2

(* What the first n of ts contribute to the liquidity of address a.        *)
Step(ts, a, n)    == IF ts[n].address = a THEN ts[n].liquidity ELSE 0
IsSum(g, ts, a)   == /\ g \in [0 .. Len(ts) -> Int]
                     /\ g[0] = 0
                     /\ \A n \in 1 .. Len(ts) : g[n] = g[n - 1] + Step(ts, a, n)

(* There is a sum, of which Sums can speak.                                *)
LEMMA SumExists ==
    ASSUME NEW ts \in Seq(Tokens), NEW a
    PROVE  \E g : IsSum(g, ts, a)
<1> DEFINE N == Len(ts)
           step == [n \in 1 .. N |-> [m \in Int |-> m + Step(ts, a, n)]]
<1>1. N \in Nat /\ \A n \in 1 .. N : ts[n] \in Tokens
  OBVIOUS
<1>2. \A n \in 1 .. N : Step(ts, a, n) \in Int
  BY <1>1 DEF Step, Tokens
<1>3. step \in [1 .. N -> [Int -> Int]]
  BY <1>2
<1>4. \A n \in 1 .. N, m \in Int : step[n][m] = m + Step(ts, a, n)
  OBVIOUS
<1>5. Repeated(Int, N, 0, step)
  <2>1. 0 \in Int
    OBVIOUS
  <2> HIDE DEF N, step
  <2> QED
    BY <2>1, <1>1, <1>3, Recursion
<1> HIDE DEF step
<1>6. PICK g \in [0 .. N -> Int] : g[0] = 0 /\ \A n \in 1 .. N : g[n] = step[n][g[n - 1]]
  BY <1>5 DEF Repeated
<1>7. \A n \in 1 .. N : g[n] = g[n - 1] + Step(ts, a, n)
  <2>1. \A n \in 1 .. N : n - 1 \in 0 .. N
    BY <1>1
  <2> QED
    BY <2>1, <1>4, <1>6
<1> QED
  BY <1>6, <1>7 DEF IsSum

(* The token t stands for those of the first n of ts with its address.     *)
Sums(t, ts, n) ==
    /\ \A g : IsSum(g, ts, t.address) => t.liquidity = g[n]
    /\ \A d : d \in t.exchanges <=>
         \E i \in 1 .. n : ts[i].address = t.address /\ d \in ts[i].exchanges
    /\ \A p : p \in t.pairs <=>
         \E i \in 1 .. n : ts[i].address = t.address /\ p \in ts[i].pairs
    /\ \E i \in 1 .. n : ts[i].address = t.address /\ ts[i].score = t.score
    /\ \A i \in 1 .. n : ts[i].address = t.address => ts[i].score <= t.score

(* One more of them, of another address.                                   *)
LEMMA SumsOther ==
    ASSUME NEW ts \in Seq(Tokens), NEW n \in 1 .. Len(ts), NEW t \in Tokens,
           Sums(t, ts, n - 1), ts[n].address /= t.address
    PROVE  Sums(t, ts, n)
<1>1. n \in Nat /\ n - 1 \in 0 .. Len(ts) /\ \A i \in 1 .. n : i = n \/ i \in 1 .. n - 1
  OBVIOUS
<1>2. 1 .. n - 1 \subseteq 1 .. n
  BY <1>1
<1>3. \A g : IsSum(g, ts, t.address) => g[n] = g[n - 1]
  BY <1>1 DEF IsSum, Step
<1> QED
  BY <1>1, <1>2, <1>3 DEF Sums

(* A further one of its address is added to t.                             *)
LEMMA SumsAdded ==
    ASSUME NEW ts \in Seq(Tokens), NEW n \in 1 .. Len(ts), NEW t \in Tokens,
           Sums(t, ts, n - 1), ts[n].address = t.address
    PROVE  /\ AddPair(t, ts[n]).address = t.address
           /\ Sums(AddPair(t, ts[n]), ts, n)
<1> DEFINE x == ts[n]
           u == AddPair(t, x)
<1>1. n \in Nat /\ n - 1 \in 0 .. Len(ts) /\ \A i \in 1 .. n : i = n \/ i \in 1 .. n - 1
  OBVIOUS
<1>2. 1 .. n - 1 \subseteq 1 .. n /\ n \in 1 .. n /\ \A i \in 1 .. n : ts[i] \in Tokens
  BY <1>1
<1>3. x \in Tokens /\ x.address = t.address
  BY <1>1
<1>4. \A g : IsSum(g, ts, t.address) => g[n] = g[n - 1] + x.liquidity
  BY <1>1, <1>3 DEF IsSum, Step
<1> HIDE DEF x
<1>5. /\ u.address = t.address
      /\ u.liquidity = t.liquidity + x.liquidity
      /\ u.score = Larger(t.score, x.score)
      /\ u.exchanges = t.exchanges \cup x.exchanges
      /\ u.pairs = t.pairs \cup x.pairs
  BY <1>3 DEF AddPair, Tokens
<1> HIDE DEF u
<1>6. \A g : IsSum(g, ts, u.address) => u.liquidity = g[n]
  BY <1>4, <1>5 DEF Sums
<1>7. ASSUME NEW d
      PROVE  d \in u.exchanges <=>
               \E i \in 1 .. n : ts[i].address = u.address /\ d \in ts[i].exchanges
  <2>1. d \in u.exchanges <=> d \in t.exchanges \/ d \in x.exchanges
    BY <1>5
  <2>2. d \in t.exchanges <=>
          \E i \in 1 .. n - 1 : ts[i].address = t.address /\ d \in ts[i].exchanges
    BY DEF Sums
  <2> QED
    BY <2>1, <2>2, <1>1, <1>2, <1>3, <1>5 DEF x
<1>8. ASSUME NEW p
      PROVE  p \in u.pairs <=>
               \E i \in 1 .. n : ts[i].address = u.address /\ p \in ts[i].pairs
  <2>1. p \in u.pairs <=> p \in t.pairs \/ p \in x.pairs
    BY <1>5
  <2>2. p \in t.pairs <=>
          \E i \in 1 .. n - 1 : ts[i].address = t.address /\ p \in ts[i].pairs
    BY DEF Sums
  <2> QED
    BY <2>1, <2>2, <1>1, <1>2, <1>3, <1>5 DEF x
<1>9. /\ \E i \in 1 .. n : ts[i].address = u.address /\ ts[i].score = u.score
      /\ \A i \in 1 .. n : ts[i].address = u.address => ts[i].score <= u.score
  <2>1. t.score \in Int /\ x.score \in Int /\ \A i \in 1 .. n : ts[i].score \in Int
    BY <1>2, <1>3, TokenFields
  <2>2. /\ u.score = t.score \/ u.score = x.score
        /\ t.score <= u.score /\ x.score <= u.score /\ u.score \in Int
    BY <2>1, <1>5 DEF Larger
  <2>3. /\ \E i \in 1 .. n - 1 : ts[i].address = t.address /\ ts[i].score = t.score
        /\ \A i \in 1 .. n - 1 : ts[i].address = t.address => ts[i].score <= t.score
    BY DEF Sums
  <2>4. \E i \in 1 .. n : ts[i].address = u.address /\ ts[i].score = u.score
    BY <2>2, <2>3, <1>2, <1>3, <1>5 DEF x
  <2>5. ASSUME NEW i \in 1 .. n, ts[i].address = u.address PROVE ts[i].score <= u.score
    <3>1. CASE i = n
      BY <3>1, <2>2 DEF x
    <3>2. CASE i \in 1 .. n - 1
      <4>1. ts[i].score <= t.score
        BY <3>2, <2>3, <2>5, <1>5
      <4> QED
        BY <4>1, <2>1, <2>2
    <3> QED
      BY <3>1, <3>2, <1>1
  <2> QED
    BY <2>4, <2>5
<1> QED
  BY <1>5, <1>6, <1>7, <1>8, <1>9 DEF Sums, u, x

(* The first of its address stands for itself.                             *)
LEMMA SumsFirst ==
    ASSUME NEW ts \in Seq(Tokens), NEW n \in 1 .. Len(ts),
           \A i \in 1 .. n - 1 : ts[i].address /= ts[n].address
    PROVE  Sums(ts[n], ts, n)
<1> DEFINE x == ts[n]
<1>1. /\ n \in Nat /\ n - 1 \in Nat /\ n - 1 \in 0 .. Len(ts)
      /\ \A i \in 1 .. n : i = n \/ i \in 1 .. n - 1
  OBVIOUS
<1>2. n \in 1 .. n /\ x \in Tokens
  BY <1>1
<1>3. ASSUME NEW g, IsSum(g, ts, x.address) PROVE x.liquidity = g[n]
  <2> DEFINE S == {i \in 0 .. n - 1 : g[i] = 0}
  <2>1. 0 \in S
    BY <1>1, <1>3 DEF IsSum
  <2>2. ASSUME NEW i \in 1 .. n - 1, i - 1 \in S PROVE i \in S
    BY <2>2, <1>1, <1>3 DEF IsSum, Step
  <2>3. \A i \in 0 .. n - 1 : i \in S
    <3> HIDE DEF S
    <3> QED
      BY <1>1, <2>1, <2>2, ItemInduction
  <2>4. g[n - 1] = 0
    BY <2>3, <1>1
  <2>5. g[n] = g[n - 1] + x.liquidity
    BY <1>3 DEF IsSum, Step
  <2>6. x.liquidity \in Int
    BY <1>2 DEF Tokens
  <2> QED
    BY <2>4, <2>5, <2>6
<1>4. \A i \in 1 .. n : ts[i].address = x.address <=> i = n
  BY <1>1
<1>5. x.score <= x.score
  <2>1. x.score \in Int
    BY <1>2, TokenFields
  <2> QED
    BY <2>1
<1> QED
  BY <1>2, <1>3, <1>4, <1>5 DEF Sums

(* A token is added to the entry of its address, or becomes an entry.      *)
LEMMA PutTokenCases ==
    ASSUME NEW s \in Seq(Tokens), NEW x \in Tokens
    PROVE  \/ /\ \E i \in DOMAIN s : s[i].address = x.address
              /\ DOMAIN PutToken(s, x) = DOMAIN s
              /\ \A i \in DOMAIN s :
                   PutToken(s, x)[i] = IF s[i].address = x.address THEN AddPair(s[i], x)
                                                                   ELSE s[i]
           \/ /\ \A i \in DOMAIN s : s[i].address /= x.address
              /\ PutToken(s, x) = Append(s, x)
  BY DEF PutToken, Put

(* The tokens that the first n of ts are gathered into.                    *)
Totals(s, ts, n) ==
    /\ Unique(s)
    /\ \A k \in DOMAIN s : Sums(s[k], ts, n)
    /\ \A i \in 1 .. n : \E k \in DOMAIN s : s[k].address = ts[i].address

(* One more of them, gathered in.                                          *)
LEMMA TotalsStep ==
    ASSUME NEW ts \in Seq(Tokens), NEW n \in 1 .. Len(ts), NEW s \in Seq(Tokens),
           Totals(s, ts, n - 1)
    PROVE  Totals(PutToken(s, ts[n]), ts, n)
<1> DEFINE x == ts[n]
           t == PutToken(s, x)
<1>1. /\ n \in Nat /\ DOMAIN s = 1 .. Len(s) /\ Len(s) \in Nat
      /\ \A i \in 1 .. n : i = n \/ i \in 1 .. n - 1
      /\ \A i \in 1 .. n - 1 : i \in 1 .. n
  OBVIOUS
<1>2. x \in Tokens /\ \A k \in DOMAIN s : s[k] \in Tokens
  OBVIOUS
<1>3. /\ Unique(s)
      /\ \A k \in DOMAIN s : Sums(s[k], ts, n - 1)
      /\ \A i \in 1 .. n - 1 : \E k \in DOMAIN s : s[k].address = ts[i].address
  BY DEF Totals
<1>4. CASE \E i \in DOMAIN s : s[i].address = x.address
  <2>1. /\ DOMAIN t = DOMAIN s
        /\ \A i \in DOMAIN s : t[i] = IF s[i].address = x.address THEN AddPair(s[i], x)
                                                                  ELSE s[i]
    BY <1>2, <1>4, PutTokenCases
  <2> HIDE DEF t
  <2>2. \A k \in DOMAIN s : t[k].address = s[k].address /\ Sums(t[k], ts, n)
    <3> TAKE k \in DOMAIN s
    <3>1. CASE s[k].address = x.address
      BY <3>1, <2>1, <1>2, <1>3, SumsAdded
    <3>2. CASE s[k].address /= x.address
      BY <3>2, <2>1, <1>2, <1>3, SumsOther
    <3> QED
      BY <3>1, <3>2
  <2>3. Unique(t)
    BY <2>1, <2>2, <1>3 DEF Unique
  <2>4. \A i \in 1 .. n : \E k \in DOMAIN t : t[k].address = ts[i].address
    BY <2>1, <2>2, <1>1, <1>3, <1>4
  <2> QED
    BY <2>1, <2>2, <2>3, <2>4 DEF Totals, t
<1>5. CASE \A i \in DOMAIN s : s[i].address /= x.address
  <2>1. t = Append(s, x)
    BY <1>2, <1>5, PutTokenCases
  <2>2. /\ DOMAIN t = 1 .. Len(s) + 1
        /\ \A k \in DOMAIN s : t[k] = s[k]
        /\ t[Len(s) + 1] = x
    <3>1. /\ DOMAIN Append(s, x) = 1 .. Len(s) + 1
          /\ \A k \in DOMAIN s : Append(s, x)[k] = s[k]
          /\ Append(s, x)[Len(s) + 1] = x
      OBVIOUS
    <3> QED
      BY <3>1, <2>1
  <2> HIDE DEF t
  <2>3. /\ DOMAIN s \subseteq DOMAIN t /\ Len(s) + 1 \in DOMAIN t
        /\ \A k \in DOMAIN t : k = Len(s) + 1 \/ k \in DOMAIN s
    BY <2>2, <1>1
  <2>4. \A i \in 1 .. n - 1 : ts[i].address /= ts[n].address
    BY <1>3, <1>5
  <2>5. Sums(x, ts, n)
    BY <2>4, SumsFirst
  <2>6. ASSUME NEW k \in DOMAIN t PROVE Sums(t[k], ts, n)
    <3>1. CASE k = Len(s) + 1
      BY <3>1, <2>2, <2>5
    <3>2. CASE k \in DOMAIN s
      <4>1. s[k] \in Tokens /\ Sums(s[k], ts, n - 1) /\ ts[n].address /= s[k].address
        BY <3>2, <1>2, <1>3, <1>5
      <4>2. Sums(s[k], ts, n)
        BY <4>1, SumsOther
      <4> QED
        BY <3>2, <4>2, <2>2
    <3> QED
      BY <3>1, <3>2, <2>3
  <2>7. ASSUME NEW k \in DOMAIN t, NEW l \in DOMAIN t, k /= l
        PROVE  t[k].address /= t[l].address
    <3>1. CASE k \in DOMAIN s /\ l \in DOMAIN s
      BY <3>1, <2>2, <2>7, <1>3 DEF Unique
    <3>2. CASE k = Len(s) + 1 /\ l \in DOMAIN s
      BY <3>2, <2>2, <1>5
    <3>3. CASE l = Len(s) + 1 /\ k \in DOMAIN s
      BY <3>3, <2>2, <1>5
    <3> QED
      BY <2>3, <2>7, <3>1, <3>2, <3>3
  <2>8. Unique(t)
    BY <2>7 DEF Unique
  <2>9. \A i \in 1 .. n : \E k \in DOMAIN t : t[k].address = ts[i].address
    BY <2>2, <2>3, <1>1, <1>3
  <2> QED
    BY <2>6, <2>8, <2>9 DEF Totals, t
<1> QED
  BY <1>4, <1>5

(* Gathering leaves one token for each address, and what it stands for.    *)
LEMMA GatheredTotals ==
    ASSUME NEW ts \in Seq(Tokens)
    PROVE  /\ Gathered(ts) \in Seq(Tokens)
           /\ Totals(Gathered(ts), ts, Len(ts))
           /\ \A k \in DOMAIN Gathered(ts) :
                \E i \in 1 .. Len(ts) : ts[i].address = Gathered(ts)[k].address
<1> DEFINE N == Len(ts)
           A == Seq(Tokens)
<1>1. N \in Nat
  OBVIOUS
<1>2. PICK f \in [0 .. N -> A] :
        /\ Gathered(ts) = f[N]
        /\ f[0] = <<>>
        /\ \A n \in 1 .. N : f[n] = PutToken(f[n - 1], ts[n])
  BY TokenSteps
<1> DEFINE S == {n \in 0 .. N : Totals(f[n], ts, n)}
<1>3. 0 \in S
  <2>1. Totals(<<>>, ts, 0)
    BY DEF Totals, Unique
  <2> QED
    BY <2>1, <1>1, <1>2
<1>4. ASSUME NEW n \in 1 .. N, n - 1 \in S PROVE n \in S
  <2>1. n - 1 \in 0 .. N /\ f[n - 1] \in A /\ Totals(f[n - 1], ts, n - 1)
    BY <1>2, <1>4
  <2>2. Totals(PutToken(f[n - 1], ts[n]), ts, n)
    BY <2>1, TotalsStep
  <2> QED
    BY <2>2, <1>1, <1>2
<1>5. \A n \in 0 .. N : n \in S
  <2> HIDE DEF S, N
  <2> QED
    BY <1>1, <1>3, <1>4, ItemInduction
<1>6. f[N] \in A /\ Totals(f[N], ts, N)
  BY <1>1, <1>2, <1>5
<1>7. \A k \in DOMAIN f[N] : \E i \in 1 .. N : ts[i].address = f[N][k].address
  BY <1>6 DEF Totals, Sums
<1> HIDE DEF S
<1> QED
  BY <1>2, <1>6, <1>7

(* The two occurrences of each pair.                                       *)
Mirrors(ts, ps) ==
    /\ Len(ts) = 2 * Len(ps)
    /\ \A k \in 1 .. Len(ps) : /\ 2 * k - 1 \in 1 .. Len(ts) /\ 2 * k \in 1 .. Len(ts)
                               /\ ts[2 * k - 1] = TokenOf(ps[k].base, ps[k])
                               /\ ts[2 * k] = TokenOf(ps[k].quote, ps[k])
    /\ \A n \in 1 .. Len(ts) : \E k \in 1 .. Len(ps) : n = 2 * k - 1 \/ n = 2 * k

(* The occurrences are as many as the tokens of the pairs, two of each.    *)
LEMMA OccurrencesMirror ==
    ASSUME NEW ps \in Seq(Scoreds)
    PROVE  Occurrences(ps) \in Seq(Tokens) /\ Mirrors(Occurrences(ps), ps)
<1> DEFINE N == Len(ps)
           P(n) == ps[(n + 1) \div 2]
           ts == Occurrences(ps)
<1>1. N \in Nat /\ \A k \in 1 .. N : ps[k] \in Scoreds
  OBVIOUS
<1>2. ts = [n \in 1 .. 2 * N |-> TokenOf(IF n % 2 = 1 THEN P(n).base ELSE P(n).quote, P(n))]
  BY DEF Occurrences
<1>3. ASSUME NEW p \in Scoreds, NEW a \in Spelled PROVE TokenOf(a, p) \in Tokens
  <2>1. /\ p.address \in STRING /\ p.dex \in Labels /\ p.liquidity \in Int /\ p.volume \in Int
        /\ p.score \in Percents
    <3>1. p.score \in Int /\ 0 <= p.score /\ p.score <= 100
      BY ScoredFields
    <3>2. \A v \in Int : 0 <= v /\ v <= 100 => v \in Percents
      BY DEF Percents
    <3>3. p.score \in Percents
      BY <3>1, <3>2
    <3> QED
      BY <3>3, ScoredFields
  <2>2. {p.dex} \in SUBSET Labels /\ {p.address} \in SUBSET STRING
    BY <2>1
  <2>3. a.address \in STRING /\ a.spelling \in STRING
    BY DEF Spelled
  <2> QED
    BY <2>1, <2>2, <2>3 DEF TokenOf, Tokens
<1> HIDE DEF N, ts
<1>4. ASSUME NEW n \in 1 .. 2 * N
      PROVE  /\ (n + 1) \div 2 \in 1 .. N
             /\ n = 2 * ((n + 1) \div 2) - 1 \/ n = 2 * ((n + 1) \div 2)
  BY <1>1
<1>5. ASSUME NEW n \in 1 .. 2 * N PROVE ts[n] \in Tokens
  <2>1. P(n) \in Scoreds
    BY <1>1, <1>4
  <2>2. P(n).base \in Spelled /\ P(n).quote \in Spelled
    BY <2>1, ScoredFields
  <2>3. (IF n % 2 = 1 THEN P(n).base ELSE P(n).quote) \in Spelled
    BY <2>2
  <2> HIDE DEF P
  <2>4. TokenOf(IF n % 2 = 1 THEN P(n).base ELSE P(n).quote, P(n)) \in Tokens
    BY <2>1, <2>3, <1>3
  <2> QED
    BY <2>4, <1>2
<1>6. /\ ts \in Seq(Tokens)
      /\ Len(ts) = 2 * N
  <2>1. 2 * N \in Nat
    BY <1>1
  <2>2. ts = [n \in 1 .. 2 * N |-> ts[n]]
    BY <1>2
  <2> QED
    BY <2>1, <2>2, <1>5
<1>7. ASSUME NEW k \in 1 .. N
      PROVE  /\ 2 * k - 1 \in 1 .. 2 * N /\ 2 * k \in 1 .. 2 * N
             /\ ts[2 * k - 1] = TokenOf(ps[k].base, ps[k])
             /\ ts[2 * k] = TokenOf(ps[k].quote, ps[k])
  <2>1. 2 * k - 1 \in 1 .. 2 * N /\ 2 * k \in 1 .. 2 * N /\ k \in Nat
    BY <1>1
  <2>2. /\ (2 * k - 1) % 2 = 1 /\ ((2 * k - 1) + 1) \div 2 = k
        /\ ~((2 * k) % 2 = 1) /\ (2 * k + 1) \div 2 = k
    BY <2>1
  <2> QED
    BY <2>1, <2>2, <1>2
<1>8. \A n \in 1 .. 2 * N : \E k \in 1 .. N : n = 2 * k - 1 \/ n = 2 * k
  BY <1>4
<1> QED
  BY <1>6, <1>7, <1>8 DEF Mirrors, N, ts

(* What sums up the occurrences stands for the pairs.                      *)
LEMMA SumsStandsFor ==
    ASSUME NEW ps \in Seq(Scoreds), NEW ts \in Seq(Tokens), Mirrors(ts, ps),
           NEW t \in Tokens, Sums(t, ts, Len(ts))
    PROVE  StandsFor(t, ps)
<1> DEFINE N == Len(ps)
           a == t.address
           Of == {k \in DOMAIN ps : t.address \in {ps[k].base.address, ps[k].quote.address}}
           Steps(f) == f =
             [n \in 0 .. N |->
                IF n = 0 THEN 0
                ELSE f[n - 1]
                     + (IF ps[n].base.address  = t.address THEN ps[n].liquidity ELSE 0)
                     + (IF ps[n].quote.address = t.address THEN ps[n].liquidity ELSE 0)]
           F == CHOOSE f : Steps(f)
           B(n) == IF ps[n].base.address  = t.address THEN ps[n].liquidity ELSE 0
           Q(n) == IF ps[n].quote.address = t.address THEN ps[n].liquidity ELSE 0
<1>1. N \in Nat /\ DOMAIN ps = 1 .. N /\ \A k \in 1 .. N : ps[k] \in Scoreds
  OBVIOUS
<1>2. /\ Len(ts) = 2 * N
      /\ \A k \in 1 .. N : /\ 2 * k - 1 \in 1 .. 2 * N /\ 2 * k \in 1 .. 2 * N
                           /\ ts[2 * k - 1] = TokenOf(ps[k].base, ps[k])
                           /\ ts[2 * k] = TokenOf(ps[k].quote, ps[k])
      /\ \A n \in 1 .. 2 * N : \E k \in 1 .. N : n = 2 * k - 1 \/ n = 2 * k
  BY DEF Mirrors
<1>3. /\ \A g : IsSum(g, ts, a) => t.liquidity = g[2 * N]
      /\ \A d : d \in t.exchanges <=>
           \E i \in 1 .. 2 * N : ts[i].address = a /\ d \in ts[i].exchanges
      /\ \A p : p \in t.pairs <=>
           \E i \in 1 .. 2 * N : ts[i].address = a /\ p \in ts[i].pairs
      /\ \E i \in 1 .. 2 * N : ts[i].address = a /\ ts[i].score = t.score
      /\ \A i \in 1 .. 2 * N : ts[i].address = a => ts[i].score <= t.score
  <2>1. Sums(t, ts, 2 * N)
    BY <1>2
  <2> HIDE DEF N
  <2> QED
    BY <2>1 DEF Sums
<1>4. PICK g : IsSum(g, ts, a)
  BY SumExists
<1>5. /\ g \in [0 .. 2 * N -> Int]
      /\ g[0] = 0
      /\ \A n \in 1 .. 2 * N : g[n] = g[n - 1] + Step(ts, a, n)
  BY <1>2, <1>4 DEF IsSum
<1>6. ASSUME NEW k \in 1 .. N
      PROVE  /\ ts[2 * k - 1].address = ps[k].base.address
             /\ ts[2 * k].address = ps[k].quote.address
             /\ ts[2 * k - 1].liquidity = ps[k].liquidity
             /\ ts[2 * k].liquidity = ps[k].liquidity
             /\ ts[2 * k - 1].score = ps[k].score
             /\ ts[2 * k].score = ps[k].score
             /\ ts[2 * k - 1].exchanges = {ps[k].dex}
             /\ ts[2 * k].exchanges = {ps[k].dex}
             /\ ts[2 * k - 1].pairs = {ps[k].address}
             /\ ts[2 * k].pairs = {ps[k].address}
  <2>1. ts[2 * k - 1] = TokenOf(ps[k].base, ps[k]) /\ ts[2 * k] = TokenOf(ps[k].quote, ps[k])
    BY <1>2
  <2> QED
    BY <2>1 DEF TokenOf
<1> DEFINE h == [k \in 0 .. N |-> g[2 * k]]
<1>7. h[0] = 0 /\ h[N] = g[2 * N] /\ \A k \in 1 .. N : h[k] = h[k - 1] + B(k) + Q(k)
  <2>1. h[0] = 0 /\ h[N] = g[2 * N]
    BY <1>1, <1>5
  <2>2. ASSUME NEW k \in 1 .. N PROVE h[k] = h[k - 1] + B(k) + Q(k)
    <3>1. /\ h[k] = g[2 * k] /\ h[k - 1] = g[2 * k - 2]
          /\ 2 * k - 1 \in 1 .. 2 * N /\ 2 * k \in 1 .. 2 * N
          /\ (2 * k) - 1 = 2 * k - 1 /\ (2 * k - 1) - 1 = 2 * k - 2
      BY <1>1
    <3>2. Step(ts, a, 2 * k - 1) = B(k) /\ Step(ts, a, 2 * k) = Q(k)
      BY <1>6 DEF Step
    <3> HIDE DEF h, B, Q
    <3>3. g[2 * k] = g[2 * k - 1] + Q(k) /\ g[2 * k - 1] = g[2 * k - 2] + B(k)
      BY <3>1, <3>2, <1>5
    <3> QED
      BY <3>1, <3>3
  <2> QED
    BY <2>1, <2>2
<1>8. Steps(h)
  <2>1. h = [n \in 0 .. N |-> h[n]]
    OBVIOUS
  <2>2. ASSUME NEW n \in 0 .. N
        PROVE  h[n] = IF n = 0 THEN 0 ELSE h[n - 1] + B(n) + Q(n)
    <3> HIDE DEF h, B, Q
    <3>1. n = 0 \/ n \in 1 .. N
      BY <1>1
    <3> QED
      BY <3>1, <1>7
  <2> HIDE DEF h, N
  <2> QED
    BY <2>1, <2>2
<1>9. Steps(F)
  <2> HIDE DEF Steps, h
  <2> QED
    BY <1>8
<1> HIDE DEF F, h
<1>10. F[0] = 0 /\ \A k \in 1 .. N : F[k] = F[k - 1] + B(k) + Q(k)
  BY <1>1, <1>9
<1> HIDE DEF B, Q, Steps
<1>11. F[N] = t.liquidity
  <2> DEFINE S == {k \in 0 .. N : F[k] = h[k]}
  <2>1. 0 \in S
    BY <1>1, <1>7, <1>10
  <2>2. ASSUME NEW k \in 1 .. N, k - 1 \in S PROVE k \in S
    BY <2>2, <1>1, <1>7, <1>10
  <2>3. \A k \in 0 .. N : k \in S
    <3> HIDE DEF S, N
    <3> QED
      BY <1>1, <2>1, <2>2, ItemInduction
  <2> QED
    BY <2>3, <1>1, <1>3, <1>4, <1>7
<1>12. \A k : k \in Of <=> k \in 1 .. N /\ (ps[k].base.address = a \/ ps[k].quote.address = a)
  BY <1>1
<1> HIDE DEF N, Of
<1>13. t.exchanges = {ps[k].dex : k \in Of}
  <2>1. ASSUME NEW d \in t.exchanges PROVE \E k \in Of : d = ps[k].dex
    <3>1. PICK i \in 1 .. 2 * N : ts[i].address = a /\ d \in ts[i].exchanges
      BY <1>3
    <3>2. PICK k \in 1 .. N : i = 2 * k - 1 \/ i = 2 * k
      BY <1>2
    <3>3. (ps[k].base.address = a \/ ps[k].quote.address = a) /\ d \in {ps[k].dex}
      BY <3>1, <3>2, <1>6
    <3> QED
      BY <3>3, <1>12
  <2>2. ASSUME NEW k \in Of PROVE ps[k].dex \in t.exchanges
    <3>1. k \in 1 .. N /\ (ps[k].base.address = a \/ ps[k].quote.address = a)
      BY <1>12
    <3>2. /\ 2 * k - 1 \in 1 .. 2 * N /\ ts[2 * k - 1].address = ps[k].base.address
          /\ 2 * k \in 1 .. 2 * N /\ ts[2 * k].address = ps[k].quote.address
          /\ ps[k].dex \in ts[2 * k - 1].exchanges /\ ps[k].dex \in ts[2 * k].exchanges
      BY <3>1, <1>2, <1>6
    <3>3. \E i \in 1 .. 2 * N : ts[i].address = a /\ ps[k].dex \in ts[i].exchanges
      BY <3>1, <3>2
    <3> QED
      BY <3>3, <1>3
  <2> QED
    BY <2>1, <2>2
<1>14. t.pairs = {ps[k].address : k \in Of}
  <2>1. ASSUME NEW p \in t.pairs PROVE \E k \in Of : p = ps[k].address
    <3>1. PICK i \in 1 .. 2 * N : ts[i].address = a /\ p \in ts[i].pairs
      BY <1>3
    <3>2. PICK k \in 1 .. N : i = 2 * k - 1 \/ i = 2 * k
      BY <1>2
    <3>3. (ps[k].base.address = a \/ ps[k].quote.address = a) /\ p \in {ps[k].address}
      BY <3>1, <3>2, <1>6
    <3> QED
      BY <3>3, <1>12
  <2>2. ASSUME NEW k \in Of PROVE ps[k].address \in t.pairs
    <3>1. k \in 1 .. N /\ (ps[k].base.address = a \/ ps[k].quote.address = a)
      BY <1>12
    <3>2. /\ 2 * k - 1 \in 1 .. 2 * N /\ ts[2 * k - 1].address = ps[k].base.address
          /\ 2 * k \in 1 .. 2 * N /\ ts[2 * k].address = ps[k].quote.address
          /\ ps[k].address \in ts[2 * k - 1].pairs /\ ps[k].address \in ts[2 * k].pairs
      BY <3>1, <1>2, <1>6
    <3>3. \E i \in 1 .. 2 * N : ts[i].address = a /\ ps[k].address \in ts[i].pairs
      BY <3>1, <3>2
    <3> QED
      BY <3>3, <1>3
  <2> QED
    BY <2>1, <2>2
<1>15. \E k \in Of : ps[k].score = t.score
  <2>1. PICK i \in 1 .. 2 * N : ts[i].address = a /\ ts[i].score = t.score
    BY <1>3
  <2>2. PICK k \in 1 .. N : i = 2 * k - 1 \/ i = 2 * k
    BY <1>2
  <2>3. (ps[k].base.address = a \/ ps[k].quote.address = a) /\ ps[k].score = t.score
    BY <2>1, <2>2, <1>6
  <2> QED
    BY <2>3, <1>12
<1>16. ASSUME NEW k \in Of PROVE ps[k].score <= t.score
  <2>1. k \in 1 .. N /\ (ps[k].base.address = a \/ ps[k].quote.address = a)
    BY <1>12
  <2>2. \E i \in 1 .. 2 * N : ts[i].address = a /\ ts[i].score = ps[k].score
    BY <2>1, <1>2, <1>6
  <2> QED
    BY <2>2, <1>3
<1> QED
  BY <1>11, <1>13, <1>14, <1>15, <1>16 DEF StandsFor, N, Of, F, Steps

(* There is a token for each address in ps, and it stands for its pairs.   *)
Reflect(ts, ps) ==
    /\ Unique(ts)
    /\ \A i \in DOMAIN ts : StandsFor(ts[i], ps)
    /\ {ps[k].base.address : k \in DOMAIN ps} \cup {ps[k].quote.address : k \in DOMAIN ps}
         = Addresses(ts)

(* Aggregation makes one token of each address; deduplication leaves them. *)
LEMMA Aggregated ==
    ASSUME NEW ps \in Seq(Scoreds), NEW ts, ts = deduplicateTokens(aggregate(ps))
    PROVE  ts \in Seq(Tokens) /\ Reflect(ts, ps)
<1> DEFINE os == Occurrences(ps)
<1>1. os \in Seq(Tokens) /\ Mirrors(os, ps)
  BY OccurrencesMirror
<1>2. aggregate(ps) = Gathered(os)
  BY DEF aggregate, Gathered
<1> HIDE DEF os
<1>3. /\ Gathered(os) \in Seq(Tokens)
      /\ Unique(Gathered(os))
      /\ \A k \in DOMAIN Gathered(os) : Sums(Gathered(os)[k], os, Len(os))
      /\ \A i \in 1 .. Len(os) :
           \E k \in DOMAIN Gathered(os) : Gathered(os)[k].address = os[i].address
      /\ \A k \in DOMAIN Gathered(os) :
           \E i \in 1 .. Len(os) : os[i].address = Gathered(os)[k].address
  BY <1>1, GatheredTotals DEF Totals
<1>4. ts = Gathered(os)
  BY <1>2, <1>3, DeduplicatedUnique
<1>5. /\ ts \in Seq(Tokens) /\ Unique(ts)
      /\ \A k \in DOMAIN ts : Sums(ts[k], os, Len(os))
      /\ \A i \in 1 .. Len(os) : \E k \in DOMAIN ts : ts[k].address = os[i].address
      /\ \A k \in DOMAIN ts : \E i \in 1 .. Len(os) : os[i].address = ts[k].address
  BY <1>3, <1>4
<1>6. ASSUME NEW i \in DOMAIN ts PROVE StandsFor(ts[i], ps)
  <2>1. ts[i] \in Tokens /\ Sums(ts[i], os, Len(os))
    BY <1>5
  <2> QED
    BY <2>1, <1>1, SumsStandsFor
<1>7. /\ DOMAIN ps = 1 .. Len(ps)
      /\ \A k \in 1 .. Len(ps) :
           /\ 2 * k - 1 \in 1 .. Len(os) /\ 2 * k \in 1 .. Len(os)
           /\ os[2 * k - 1] = TokenOf(ps[k].base, ps[k])
           /\ os[2 * k] = TokenOf(ps[k].quote, ps[k])
      /\ \A n \in 1 .. Len(os) : \E k \in 1 .. Len(ps) : n = 2 * k - 1 \/ n = 2 * k
  BY <1>1 DEF Mirrors
<1>8. ASSUME NEW k \in DOMAIN ps
      PROVE  /\ os[2 * k - 1].address = ps[k].base.address
             /\ os[2 * k].address = ps[k].quote.address
             /\ \E i \in DOMAIN ts : ts[i].address = ps[k].base.address
             /\ \E i \in DOMAIN ts : ts[i].address = ps[k].quote.address
  <2>1. /\ 2 * k - 1 \in 1 .. Len(os) /\ 2 * k \in 1 .. Len(os)
        /\ os[2 * k - 1] = TokenOf(ps[k].base, ps[k])
        /\ os[2 * k] = TokenOf(ps[k].quote, ps[k])
    BY <1>7
  <2>2. os[2 * k - 1].address = ps[k].base.address /\ os[2 * k].address = ps[k].quote.address
    BY <2>1 DEF TokenOf
  <2>3. \E i \in DOMAIN ts : ts[i].address = os[2 * k - 1].address
    BY <2>1, <1>5
  <2>4. \E i \in DOMAIN ts : ts[i].address = os[2 * k].address
    BY <2>1, <1>5
  <2> QED
    BY <2>2, <2>3, <2>4
<1>9. ASSUME NEW i \in DOMAIN ts
      PROVE  \E k \in DOMAIN ps : \/ ts[i].address = ps[k].base.address
                                \/ ts[i].address = ps[k].quote.address
  <2>1. PICK n \in 1 .. Len(os) : os[n].address = ts[i].address
    BY <1>5
  <2>2. PICK k \in 1 .. Len(ps) : n = 2 * k - 1 \/ n = 2 * k
    BY <1>7
  <2>3. ts[i].address = ps[k].base.address \/ ts[i].address = ps[k].quote.address
    BY <2>1, <2>2, <1>7, <1>8
  <2> QED
    BY <2>3, <1>7
<1>10. {ps[k].base.address : k \in DOMAIN ps} \cup {ps[k].quote.address : k \in DOMAIN ps}
         = Addresses(ts)
  <2> DEFINE L == {ps[k].base.address : k \in DOMAIN ps}
                  \cup {ps[k].quote.address : k \in DOMAIN ps}
             R == {ts[i].address : i \in DOMAIN ts}
  <2>1. ASSUME NEW a \in L PROVE a \in R
    <3>1. PICK k \in DOMAIN ps : a = ps[k].base.address \/ a = ps[k].quote.address
      OBVIOUS
    <3>2. \E i \in DOMAIN ts : ts[i].address = a
      BY <3>1, <1>8
    <3> QED
      BY <3>2
  <2>2. ASSUME NEW a \in R PROVE a \in L
    <3>1. PICK i \in DOMAIN ts : a = ts[i].address
      OBVIOUS
    <3>2. PICK k \in DOMAIN ps : \/ ts[i].address = ps[k].base.address
                                \/ ts[i].address = ps[k].quote.address
      BY <1>9
    <3> QED
      BY <3>1, <3>2
  <2> HIDE DEF L, R
  <2>3. L = R
    BY <2>1, <2>2
  <2> QED
    BY <2>3 DEF L, R, Addresses
<1> QED
  BY <1>5, <1>6, <1>10 DEF Reflect

-----------------------------------------------------------------------------
(* The listing and its pages.                                              *)

(* The lists a client may walk through.                                    *)
Fields == {"score", "liquidity", "volume"}
Orders == {"asc", "desc"}

(* The fields a client may sort by are numbers.                            *)
LEMMA FieldNumbers ==
    ASSUME NEW p \in Scoreds, NEW field \in Fields
    PROVE  p[field] \in Int
  BY ScoredFields DEF Fields

(* Sorting by a field leaves all pairs, in the order asked for.            *)
LEMMA SortedPairs ==
    ASSUME NEW ps \in Seq(Scoreds), NEW field \in Fields, NEW order \in Orders,
           NEW sorted, sorted = sortPairs(ps, field, order)
    PROVE  /\ sorted \in Seq(Scoreds)
           /\ Len(sorted) = Len(ps) /\ ToSet(sorted) = ToSet(ps)
           /\ \A i, j \in DOMAIN sorted : i < j =>
                IF order = "asc" THEN sorted[i][field] <= sorted[j][field]
                                 ELSE sorted[i][field] >= sorted[j][field]
<1> DEFINE D == DOMAIN ps
           Before(j, i) == IF order = "asc" THEN ps[j][field] < ps[i][field]
                                            ELSE ps[j][field] > ps[i][field]
           Ahead(i) == {j \in D : \/ Before(j, i)
                                  \/ ~Before(i, j) /\ j < i}
           ahead == [i \in D |-> Ahead(i)]
           key == [i \in D |-> IF order = "asc" THEN ps[i][field] ELSE -(ps[i][field])]
<1>1. D = 1 .. Len(ps) /\ Len(ps) \in Nat /\ \A i \in D : ps[i] \in Scoreds
  OBVIOUS
<1>2. \A i \in D : ps[i][field] \in Int
  BY <1>1, FieldNumbers
<1>3. sorted = [k \in D |-> ps[CHOOSE i \in D : Cardinality(Ahead(i)) = k - 1]]
  <2>1. field /= "lastUpdated"
    BY DEF Fields
  <2> QED
    BY <2>1 DEF sortPairs, StableSort
<1>4. DOMAIN sorted = D /\ sorted = [k \in D |-> sorted[k]]
  BY <1>3
<1>5. PlacedBy(sorted, ps, ahead)
  <2>1. ASSUME NEW k \in D, \E i \in D : Cardinality(ahead[i]) = k - 1
        PROVE  \E i \in D : Cardinality(ahead[i]) = k - 1 /\ sorted[k] = ps[i]
    <3> DEFINE i == CHOOSE i \in D : Cardinality(Ahead(i)) = k - 1
    <3> HIDE DEF Ahead
    <3>1. \A j \in D : ahead[j] = Ahead(j)
      OBVIOUS
    <3>2. \E j \in D : Cardinality(Ahead(j)) = k - 1
      BY <2>1, <3>1
    <3>3. i \in D /\ Cardinality(Ahead(i)) = k - 1
      BY <3>2
    <3>4. sorted[k] = ps[i]
      BY <1>3
    <3> QED
      BY <3>1, <3>3, <3>4
  <2> HIDE DEF ahead, Ahead
  <2> QED
    BY <2>1, <1>4 DEF PlacedBy
<1>6. key \in [D -> Int] /\ \A i, j \in D : key[j] < key[i] <=> Before(j, i)
  BY <1>2
<1>7. AheadBy(ps, ahead, key)
  <2>1. /\ ahead \in [D -> SUBSET D]
        /\ \A i, j \in D : j \in ahead[i] <=> (Before(j, i) \/ (~Before(i, j) /\ j < i))
    <3> HIDE DEF Before
    <3> QED
      OBVIOUS
  <2> HIDE DEF ahead, key, Before, Ahead
  <2> QED
    BY <2>1, <1>6 DEF AheadBy
<1>8. \A i \in D : key[i] = IF order = "asc" THEN ps[i][field] ELSE -(ps[i][field])
  OBVIOUS
<1> HIDE DEF ahead, key, Before, Ahead
<1>9. InOrder(sorted, ps, key)
  BY <1>5, <1>6, <1>7, SortedByNumber
<1> HIDE DEF D
<1>10. PICK pos : Arranged(sorted, ps, key, pos, D)
  BY <1>9 DEF InOrder, D
<1>11. /\ pos \in [D -> D]
       /\ \A k \in D : sorted[k] = ps[pos[k]]
       /\ \A k, l \in D : k < l => key[pos[k]] <= key[pos[l]]
       /\ \A i \in D : \E k \in D : pos[k] = i
  BY <1>10 DEF Arranged
<1>12. /\ \A k \in D : \E i \in D : sorted[k] = ps[i]
       /\ \A i \in D : \E k \in D : sorted[k] = ps[i]
  BY <1>11
<1>13. sorted \in Seq(Scoreds)
  <2>1. \A k \in D : sorted[k] \in Scoreds
    BY <1>1, <1>12
  <2> QED
    BY <2>1, <1>1, <1>4
<1>14. ToSet(sorted) = ToSet(ps)
  <2>1. ToSet(sorted) = {sorted[k] : k \in D} /\ ToSet(ps) = {ps[k] : k \in D}
    BY <1>4 DEF ToSet, D
  <2>2. ASSUME NEW x PROVE x \in ToSet(sorted) <=> x \in ToSet(ps)
    <3>1. /\ x \in ToSet(sorted) <=> \E k \in D : x = sorted[k]
          /\ x \in ToSet(ps) <=> \E k \in D : x = ps[k]
      BY <2>1
    <3> QED
      BY <3>1, <1>12
  <2> QED
    BY <2>2
<1>15. ASSUME NEW i \in D, NEW j \in D, i < j
       PROVE  IF order = "asc" THEN sorted[i][field] <= sorted[j][field]
                               ELSE sorted[i][field] >= sorted[j][field]
  <2>1. /\ pos[i] \in D /\ pos[j] \in D /\ key[pos[i]] <= key[pos[j]]
        /\ sorted[i] = ps[pos[i]] /\ sorted[j] = ps[pos[j]]
    BY <1>11, <1>15
  <2>2. ps[pos[i]][field] \in Int /\ ps[pos[j]][field] \in Int
    BY <2>1, <1>2
  <2>3. IF order = "asc" THEN ps[pos[i]][field] <= ps[pos[j]][field]
                         ELSE ps[pos[i]][field] >= ps[pos[j]][field]
    BY <2>1, <2>2, <1>8
  <2> QED
    BY <2>1, <2>3
<1>16. Len(sorted) = Len(ps)
  <2>1. DOMAIN sorted = 1 .. Len(sorted) /\ Len(sorted) \in Nat
    BY <1>13
  <2>2. 1 .. Len(sorted) = 1 .. Len(ps)
    BY <2>1, <1>1, <1>4
  <2> QED
    BY <2>1, <2>2, <1>1
<1> QED
  BY <1>4, <1>13, <1>14, <1>15, <1>16

(* A limit that is a number is at least 1, whatever is asked for.          *)
LEMMA LimitType ==
    ASSUME NEW l \in Limits, l /= NoNumber
    PROVE  Limit(l) \in Nat /\ Limit(l) >= 1
<1>1. l[1] \in Int
  BY LimitAssumption
<1> QED
  BY <1>1 DEF Limit, Smaller, Larger

(* The n-th page of a list ends within it if there is a further page, and  *)
(* at its end or beyond if there is none.                                  *)
LEMMA PageBounds ==
    ASSUME NEW len \in Nat, NEW limit \in Nat, limit >= 1, NEW n \in Nat, n >= 1,
           NEW count, count = (len + limit - 1) \div limit
    PROVE  /\ count \in Int
           /\ (n - 1) * limit \in Nat /\ n * limit = (n - 1) * limit + limit
           /\ n < count => n * limit < len
           /\ ~(n < count) => len <= n * limit
<1> DEFINE x == len + limit - 1
<1>1. x \in Int /\ count \in Int /\ count * limit <= x /\ x < count * limit + limit
  OBVIOUS
<1>2. (n - 1) * limit \in Nat /\ n * limit = (n - 1) * limit + limit /\ n * limit \in Nat
  OBVIOUS
<1>3. ASSUME n < count PROVE n * limit < len
  <2>1. (n + 1) * limit <= count * limit
    BY <1>1, <1>3
  <2>2. (n + 1) * limit = n * limit + limit
    OBVIOUS
  <2> QED
    BY <2>1, <2>2, <1>1, <1>2
<1>4. ASSUME ~(n < count) PROVE len <= n * limit
  <2>1. count * limit <= n * limit
    BY <1>1, <1>4
  <2> QED
    BY <2>1, <1>1, <1>2
<1> QED
  BY <1>1, <1>2, <1>3, <1>4

(* What a client that is to ask for page n next (0: none) has had of its   *)
(* list; held are the places that have had the same address all along, and *)
(* same says that the list has not changed.                                *)
Walked(xs, list, held, n, limit, same) ==
    /\ held \subseteq DOMAIN list
    /\ n > 0 => Len(xs) = (n - 1) * limit
    /\ \A k \in held : k <= Len(xs) => xs[k].address = list[k].address
    /\ n = 0 => \A k \in held : k <= Len(xs)
    /\ same => Len(xs) <= Len(list) /\ \A k \in 1 .. Len(xs) : xs[k] = list[k]
    /\ same /\ n = 0 => Len(xs) = Len(list)
    /\ same /\ n > 1 => Len(xs) < Len(list)

(* The addresses that such a client is owed, it has had or will have.      *)
Owed(xs, list, owed, n) ==
    \A a \in owed :
        \/ a \in Addresses(xs)
        \/ n > 0 /\ \E k \in DOMAIN list : k > Len(xs) /\ list[k].address = a

(* The next page goes on where the last one ended.                         *)
LEMMA PageStep ==
    ASSUME NEW T, NEW list \in Seq(T), NEW xs \in Seq(T), NEW held, NEW same \in BOOLEAN,
           NEW n \in Nat, n > 0, NEW limit \in Nat, limit >= 1,
           Walked(xs, list, held, n, limit, same), NEW owed, Owed(xs, list, owed, n),
           NEW r, r = paginate(list, n, limit),
           NEW m, m = IF n < r.pages THEN n + 1 ELSE 0
    PROVE  /\ r.items \in Seq(T) /\ m \in Nat
           /\ Walked(xs \o r.items, list, held, m, limit, same)
           /\ Owed(xs \o r.items, list, owed, m)
<1> DEFINE N == Len(list)
           lo == (n - 1) * limit
           hi == n * limit
           end == Smaller(hi, N)
           count == (N + limit - 1) \div limit
           ys == r.items
           zs == xs \o ys
<1>1. /\ N \in Nat /\ DOMAIN list = 1 .. N
      /\ ys = SubSeq(list, lo + 1, end)
      /\ r.pages = count
  <2>1. limit /= 0
    OBVIOUS
  <2> DEFINE cut == SubSeq(list, lo + 1, end)
  <2>2. r = [items |-> cut, pages |-> count]
    BY <2>1, Zenon DEF paginate, Pages
  <2>3. N \in Nat /\ DOMAIN list = 1 .. N
    OBVIOUS
  <2> HIDE DEF lo, end, count, cut
  <2>4. r.items = cut /\ r.pages = count
    BY <2>2
  <2> QED
    BY <2>3, <2>4 DEF cut
<1>2. /\ count \in Int /\ lo \in Nat /\ hi = lo + limit
      /\ n < count => hi < N
      /\ ~(n < count) => N <= hi
  <2>1. n >= 1
    OBVIOUS
  <2> HIDE DEF N
  <2> QED
    BY <2>1, <1>1, PageBounds, SMTT(30)
<1>3. /\ held \subseteq 1 .. N
      /\ Len(xs) = lo
      /\ \A k \in held : k <= Len(xs) => xs[k].address = list[k].address
      /\ same => Len(xs) <= N /\ \A k \in 1 .. Len(xs) : xs[k] = list[k]
  BY DEF Walked
<1> HIDE DEF N, lo, hi, count
<1>4. end \in Int /\ end <= N /\ end <= hi /\ (end = N \/ end = hi)
  BY <1>1, <1>2 DEF Smaller
<1> HIDE DEF end
<1>5. /\ ys \in Seq(T)
      /\ Len(ys) = IF lo + 1 <= end THEN end - lo ELSE 0
      /\ \A k \in 1 .. Len(ys) : ys[k] = list[lo + k]
  <2>1. CASE lo + 1 <= end
    <3>1. lo + 1 \in 1 .. N + 1 /\ end \in 0 .. N /\ lo + 1 <= end + 1
      BY <2>1, <1>1, <1>2, <1>4
    <3>2. /\ SubSeq(list, lo + 1, end) \in Seq(T)
          /\ Len(SubSeq(list, lo + 1, end)) = end - lo
          /\ \A k \in 1 .. end - lo : SubSeq(list, lo + 1, end)[k] = list[lo + k]
      BY <3>1, <2>1, <1>1, <1>2, <1>4
    <3> HIDE DEF ys
    <3> QED
      BY <3>2, <2>1, <1>1
  <2>2. CASE ~(lo + 1 <= end)
    <3>1. SubSeq(list, lo + 1, end) = <<>>
      BY <2>2, <1>1, <1>2, <1>4
    <3>2. ys = <<>>
      BY <3>1, <1>1
    <3> HIDE DEF ys
    <3> QED
      BY <3>2, <2>2
  <2> QED
    BY <2>1, <2>2
<1>6. m \in Nat /\ (n < count => m = n + 1) /\ (~(n < count) => m = 0)
  BY <1>1, <1>2
<1> HIDE DEF ys
<1>7. /\ zs \in Seq(T)
      /\ Len(zs) = lo + Len(ys)
      /\ \A k \in 1 .. lo : zs[k] = xs[k]
      /\ \A k \in 1 .. Len(ys) : zs[lo + k] = list[lo + k]
  <2>1. /\ zs \in Seq(T)
        /\ Len(zs) = Len(xs) + Len(ys)
        /\ \A k \in 1 .. Len(xs) : zs[k] = xs[k]
        /\ \A k \in 1 .. Len(ys) : zs[Len(xs) + k] = ys[k]
    BY <1>5
  <2> HIDE DEF zs
  <2> QED
    BY <2>1, <1>3, <1>5
<1> HIDE DEF zs
<1>8. \A k \in 1 .. Len(zs) : k <= lo \/ zs[k] = list[k]
  <2> TAKE k \in 1 .. Len(zs)
  <2> SUFFICES ASSUME k > lo PROVE zs[k] = list[k]
    BY <1>2
  <2>1. Len(ys) \in Nat
    BY <1>5
  <2>2. k - lo \in 1 .. Len(ys) /\ lo + (k - lo) = k
    BY <2>1, <1>2, <1>7
  <2> QED
    BY <2>2, <1>7
<1>9. n < count => Len(zs) = hi
  BY <1>1, <1>2, <1>4, <1>5, <1>7
<1>10. ~(n < count) => Len(zs) = (IF lo <= N THEN N ELSE lo)
  BY <1>1, <1>2, <1>4, <1>5, <1>7
<1>11. m > 0 => Len(zs) = (m - 1) * limit
  <2>1. m > 0 => n < count /\ m = n + 1
    BY <1>6
  <2>2. (n + 1) - 1 = n
    OBVIOUS
  <2> QED
    BY <2>1, <2>2, <1>9 DEF hi
<1>12. ASSUME NEW k \in held, k <= Len(zs) PROVE zs[k].address = list[k].address
  <2>1. k \in 1 .. N /\ k \in 1 .. Len(zs)
    BY <1>1, <1>3, <1>12
  <2>2. CASE k <= lo
    <3>1. k \in 1 .. lo
      BY <2>1, <2>2, <1>2
    <3> QED
      BY <3>1, <1>3, <1>7
  <2>3. CASE ~(k <= lo)
    BY <2>1, <2>3, <1>8
  <2> QED
    BY <2>2, <2>3
<1>13. m = 0 => \A k \in held : k <= Len(zs)
  <2>1. m = 0 => Len(zs) = (IF lo <= N THEN N ELSE lo)
    BY <1>6, <1>10
  <2> QED
    BY <2>1, <1>1, <1>2, <1>3
<1>14. same => /\ Len(zs) <= N
               /\ \A k \in 1 .. Len(zs) : zs[k] = list[k]
               /\ m = 0 => Len(zs) = N
  <2> SUFFICES ASSUME same
               PROVE  /\ Len(zs) <= N
                      /\ \A k \in 1 .. Len(zs) : zs[k] = list[k]
                      /\ m = 0 => Len(zs) = N
    OBVIOUS
  <2>1. lo <= N /\ \A k \in 1 .. lo : zs[k] = list[k]
    BY <1>3, <1>7
  <2>2. \A k \in 1 .. Len(zs) : zs[k] = list[k]
    BY <2>1, <1>2, <1>8
  <2>3. Len(zs) <= N /\ (m = 0 => Len(zs) = N)
    BY <2>1, <1>1, <1>2, <1>6, <1>9, <1>10
  <2> QED
    BY <2>2, <2>3
<1>15. same /\ m > 1 => Len(zs) < N
  BY <1>2, <1>6, <1>9
<1>16. ASSUME NEW a \in owed
       PROVE  \/ a \in Addresses(zs)
              \/ m > 0 /\ \E k \in DOMAIN list : k > Len(zs) /\ list[k].address = a
  <2>1. DOMAIN zs = 1 .. Len(zs) /\ Len(zs) \in Nat /\ Len(ys) \in Nat
    BY <1>5, <1>7
  <2>2. CASE a \in Addresses(xs)
    <3>1. PICK k \in 1 .. lo : xs[k].address = a
      BY <2>2, <1>3 DEF Addresses
    <3>2. zs[k].address = a /\ k \in DOMAIN zs
      BY <3>1, <2>1, <1>2, <1>7
    <3> QED
      BY <3>2 DEF Addresses
  <2>3. CASE \E k \in DOMAIN list : k > Len(xs) /\ list[k].address = a
    <3>1. PICK k \in 1 .. N : k > lo /\ list[k].address = a
      BY <2>3, <1>1, <1>3
    <3>2. CASE k <= Len(zs)
      <4>1. k \in DOMAIN zs /\ zs[k] = list[k]
        BY <3>1, <3>2, <2>1, <1>2, <1>8
      <4> QED
        BY <4>1, <3>1 DEF Addresses
    <3>3. CASE ~(k <= Len(zs))
      <4>1. ~(n < count) => Len(zs) >= N
        BY <1>1, <1>2, <1>10
      <4>2. N \in Nat /\ Len(zs) \in Nat /\ k \in Nat /\ k <= N /\ ~(k <= Len(zs))
        BY <3>1, <3>3, <2>1, <1>1
      <4>3. n < count
        BY <4>1, <4>2
      <4> QED
        BY <4>2, <4>3, <3>1, <1>1, <1>6
    <3> QED
      BY <3>2, <3>3
  <2> QED
    BY <2>2, <2>3 DEF Owed
<1>17. Owed(zs, list, owed, m)
  BY <1>16 DEF Owed
<1> QED
  BY <1>1, <1>3, <1>5, <1>6, <1>11, <1>12, <1>13, <1>14, <1>15, <1>17 DEF Walked, zs, ys, N

(* A page that begins within the list has something on it.                 *)
LEMMA PageFilled ==
    ASSUME NEW T, NEW list \in Seq(T), NEW n \in Nat, n > 0, NEW limit \in Nat, limit >= 1,
           (n - 1) * limit < Len(list)
    PROVE  paginate(list, n, limit).items /= <<>>
<1> DEFINE N == Len(list)
           lo == (n - 1) * limit
           end == Smaller(n * limit, N)
           cut == SubSeq(list, lo + 1, end)
<1>1. lo \in Nat /\ n * limit = lo + limit /\ N \in Nat
  OBVIOUS
<1>2. paginate(list, n, limit).items = cut
  BY DEF paginate
<1> HIDE DEF lo
<1>3. end \in Nat /\ lo + 1 <= end /\ end <= N
  BY <1>1 DEF Smaller, lo
<1> HIDE DEF end
<1>4. Len(cut) = end - lo
  BY <1>1, <1>3
<1> HIDE DEF cut
<1>5. Len(cut) /= 0
  BY <1>1, <1>3, <1>4
<1>6. cut /= <<>>
  BY <1>5
<1> QED
  BY <1>2, <1>6

(* When the list changes, what keeps its place remains held.               *)
LEMMA RefreshedList ==
    ASSUME NEW T, NEW old \in Seq(T), NEW new \in Seq(T), NEW xs, NEW held,
           NEW same \in BOOLEAN, NEW n, NEW limit, Walked(xs, old, held, n, limit, same),
           NEW rest, rest = {k \in held : k <= Len(new) /\ new[k].address = old[k].address}
    PROVE  Walked(xs, new, rest, n, limit, same /\ new = old)
<1>1. held \subseteq 1 .. Len(old) /\ Len(old) \in Nat /\ Len(new) \in Nat
  BY DEF Walked
<1>2. rest \subseteq DOMAIN new
  <2>1. DOMAIN new = 1 .. Len(new) /\ \A k \in rest : k \in held /\ k <= Len(new)
    OBVIOUS
  <2>2. ASSUME NEW k \in rest PROVE k \in 1 .. Len(new)
    <3>1. k \in 1 .. Len(old) /\ k <= Len(new)
      BY <2>1, <1>1
    <3> QED
      BY <3>1, <1>1
  <2> QED
    BY <2>1, <2>2
<1>3. \A k \in rest : k \in held /\ new[k].address = old[k].address
  OBVIOUS
<1> QED
  BY <1>2, <1>3 DEF Walked

(* When the list changes, what it still has in the part to come is owed.   *)
LEMMA RefreshedOwed ==
    ASSUME NEW xs, NEW old, NEW new, NEW n, NEW owed, Owed(xs, old, owed, n),
           NEW left,
           \A a \in left : /\ a \in owed
                           /\ \/ a \in Addresses(xs)
                              \/ \E k \in DOMAIN new : k > Len(xs) /\ new[k].address = a
    PROVE  Owed(xs, new, left, n)
  BY DEF Owed

Items == Scoreds \cup Tokens

(* All items have an address.                                              *)
LEMMA ItemAddresses ==
    ASSUME NEW list \in Seq(Items)
    PROVE  Addresses(list) \subseteq STRING
<1>1. \A x \in Items : x.address \in STRING
  BY ScoredFields DEF Items, Tokens
<1>2. \A k \in DOMAIN list : list[k] \in Items
  OBVIOUS
<1> QED
  BY <1>1, <1>2 DEF Addresses

(* A view is of the tokens, or of the pairs by a field or a date.          *)
LEMMA ViewCases ==
    ASSUME NEW view \in Views
    PROVE  \/ view[1] = "tokens"
           \/ /\ view[1] = "pairs" /\ view[1] /= "tokens"
              /\ view[2] \in Fields \cup {"lastUpdated"} /\ view[3] \in Orders
<1>1. CASE view = <<"tokens">>
  BY <1>1
<1>2. CASE \E sortBy \in {"score", "liquidity", "volume", "lastUpdated"},
              order \in {"asc", "desc"} : view = <<"pairs", sortBy, order>>
  <2>1. PICK sortBy \in {"score", "liquidity", "volume", "lastUpdated"},
             order \in {"asc", "desc"} : view = <<"pairs", sortBy, order>>
    BY <1>2
  <2>2. view[1] = "pairs" /\ view[2] = sortBy /\ view[3] = order
    BY <2>1
  <2> QED
    BY <2>2 DEF Fields, Orders
<1> QED
  BY <1>1, <1>2, ViewAssumption

(* A listing shows all tokens, or all pairs in the order asked for.        *)
LEMMA Listed ==
    ASSUME NEW ps \in Seq(Scoreds), NEW ts \in Seq(Tokens), NEW view \in Views,
           NEW list, list = Listing(ps, ts, view)
    PROVE  /\ list \in Seq(Items)
           /\ LET all == IF view[1] = "tokens" THEN ts ELSE ps
              IN  /\ Len(list) = Len(all) /\ ToSet(list) = ToSet(all)
                  /\ IF view[1] = "tokens" \/ view[2] = "lastUpdated" THEN list = all
                     ELSE \A i, j \in DOMAIN list : i < j =>
                            IF view[3] = "asc" THEN list[i][view[2]] <= list[j][view[2]]
                                               ELSE list[i][view[2]] >= list[j][view[2]]
<1>1. CASE view[1] = "tokens"
  <2>1. list = ts
    BY <1>1 DEF Listing
  <2>2. ts \in Seq(Items)
    BY DEF Items
  <2> QED
    BY <2>1, <2>2, <1>1
<1>2. CASE view[1] = "pairs" /\ view[1] /= "tokens" /\ view[2] = "lastUpdated"
  <2>1. list = ps
    BY <1>2 DEF Listing, sortPairs
  <2>2. ps \in Seq(Items)
    BY DEF Items
  <2> QED
    BY <2>1, <2>2, <1>2
<1>3. CASE view[1] = "pairs" /\ view[1] /= "tokens" /\ view[2] \in Fields /\ view[3] \in Orders
  <2>1. list = sortPairs(ps, view[2], view[3])
    BY <1>3 DEF Listing
  <2>2. /\ list \in Seq(Scoreds)
        /\ Len(list) = Len(ps) /\ ToSet(list) = ToSet(ps)
        /\ \A i, j \in DOMAIN list : i < j =>
             IF view[3] = "asc" THEN list[i][view[2]] <= list[j][view[2]]
                                ELSE list[i][view[2]] >= list[j][view[2]]
    BY <2>1, <1>3, SortedPairs
  <2>3. list \in Seq(Items)
    BY <2>2 DEF Items
  <2>4. view[2] /= "lastUpdated"
    BY <1>3 DEF Fields
  <2> QED
    BY <2>2, <2>3, <2>4, <1>3
<1> QED
  BY <1>1, <1>2, <1>3, ViewCases

-----------------------------------------------------------------------------
(* The invariant: what is cached is what the last feed makes of it, and    *)
(* the client has had of its list what its page number says.               *)

Cached ==
    /\ feed \in Feeds \cup {<<>>}
    /\ pairs \in Seq(Scoreds) /\ Descending(pairs) /\ Unique(pairs)
    /\ tokens \in Seq(Tokens)
    /\ Len(opportunities) <= MaxOpportunities
    /\ refreshes \in 0 .. MaxRefreshes
    /\ NothingLost
    /\ TokensReflectPairs
    /\ OpportunitiesAreTop

Walk ==
    /\ query \in {NoQuery} \cup (Limits \X Views)
    /\ page \in Nat
    /\ items \in Seq(Items)
    /\ due \subseteq STRING
    /\ steady \subseteq Nat
    /\ undisturbed \in BOOLEAN
    /\ query /= NoQuery /\ query[1] = NoNumber => page <= 1
    /\ query /= NoQuery /\ query[1] /= NoNumber =>
         /\ Walked(items, Listing(pairs, tokens, query[2]), steady, page, Limit(query[1]),
                   undisturbed)
         /\ Owed(items, Listing(pairs, tokens, query[2]), due, page)

IInv == Cached /\ Walk

(* At first nothing is cached and nothing is asked for.                    *)
LEMMA Initially == Init => IInv
<1> SUFFICES ASSUME Init PROVE IInv
  OBVIOUS
<1>1. feed = <<>> /\ pairs = <<>> /\ tokens = <<>> /\ opportunities = <<>> /\ refreshes = 0
  BY DEF Init
<1>2. NothingLost /\ TokensReflectPairs /\ OpportunitiesAreTop
  BY <1>1 DEF NothingLost, TokensReflectPairs, OpportunitiesAreTop, Addresses
<1>3. Cached
  BY <1>1, <1>2, KeepAssumption, RefreshAssumption DEF Cached, Descending, Unique
<1>4. Walk
  <2>1. /\ query = NoQuery /\ page = 1 /\ items = <<>>
        /\ due = {} /\ steady = {} /\ undisturbed = FALSE
    BY DEF Init
  <2>2. items \in Seq(Items)
    BY <2>1
  <2> QED
    BY <2>1, <2>2 DEF Walk
<1> QED
  BY <1>3, <1>4 DEF IInv

(* All feeds are lists of reports.                                         *)
LEMMA FeedTypes == \A rs \in Feeds \cup {<<>>} : rs \in Seq(Reports)
<1>1. <<>> \in Seq(Reports)
  OBVIOUS
<1> QED
  BY <1>1, FeedAssumption

(* What a refresh caches, it has from its feed.                            *)
LEMMA Refreshed ==
    ASSUME Cached, Refresh
    PROVE  Cached'
<1>1. /\ refreshes < MaxRefreshes
      /\ feed' \in Feeds
      /\ pairs' = discover(feed')
      /\ tokens' = deduplicateTokens(aggregate(pairs'))
      /\ opportunities' = detectOpportunities(pairs')
      /\ refreshes' = refreshes + 1
  BY DEF Refresh
<1>2. feed' \in Seq(Reports)
  BY <1>1, FeedTypes
<1>3. /\ pairs' \in Seq(Scoreds) /\ Descending(pairs') /\ Unique(pairs')
      /\ \A i \in DOMAIN feed' :
           Acceptable(feed'[i]) /\ FirstOf(feed', i) =>
             \E k \in DOMAIN pairs' : /\ pairs'[k].address = feed'[i].address
                                      /\ pairs'[k].score >= calculate(feed'[i])
  BY <1>1, <1>2, Discovered
<1>4. NothingLost'
  BY <1>3 DEF NothingLost, Acceptable, FirstOf, KeyOf
<1>5. tokens' \in Seq(Tokens) /\ TokensReflectPairs'
  <2>1. tokens' \in Seq(Tokens) /\ Reflect(tokens', pairs')
    BY <1>1, <1>3, Aggregated
  <2> QED
    BY <2>1 DEF TokensReflectPairs, Reflect, Unique
<1>6. Len(opportunities') <= MaxOpportunities /\ OpportunitiesAreTop'
  <2>1. /\ Len(opportunities') <= MaxOpportunities
        /\ \A k \in DOMAIN pairs' :
             \/ \E i \in DOMAIN opportunities' : opportunities'[i] = pairs'[k]
             \/ pairs'[k].score < OpportunityScore
             \/ /\ Len(opportunities') = MaxOpportunities
                /\ \A i \in DOMAIN opportunities' : opportunities'[i].score >= pairs'[k].score
    BY <1>1, <1>3, Detected
  <2> QED
    BY <2>1 DEF OpportunitiesAreTop
<1>7. refreshes' \in 0 .. MaxRefreshes
  BY <1>1, RefreshAssumption DEF Cached
<1> QED
  BY <1>1, <1>3, <1>4, <1>5, <1>6, <1>7 DEF Cached

(* A refresh leaves the client what it has had.                            *)
LEMMA WalkRefreshed ==
    ASSUME Cached, Walk, Refresh, Cached'
    PROVE  Walk'
<1>1. query' = query /\ page' = page /\ items' = items
  BY DEF Refresh
<1>2. CASE query = NoQuery
  <2>1. due' = due /\ steady' = steady /\ undisturbed' = undisturbed
    BY <1>2 DEF Refresh
  <2> QED
    BY <1>1, <1>2, <2>1 DEF Walk
<1>3. CASE query /= NoQuery
  <2> DEFINE old == Listing(pairs, tokens, query[2])
             new == Listing(pairs', tokens', query[2])
  <2>1. query[1] \in Limits /\ query[2] \in Views /\ query \in Limits \X Views
    BY <1>3 DEF Walk
  <2>2. /\ steady' = {k \in steady : k <= Len(new) /\ new[k].address = old[k].address}
        /\ undisturbed' = (undisturbed /\ new = old)
        /\ due' = {a \in due : \/ a \in Addresses(items)
                               \/ \E k \in DOMAIN new : /\ k > Len(items)
                                                       /\ new[k].address = a}
    BY <1>3 DEF Refresh
  <2>3. old \in Seq(Items) /\ new \in Seq(Items)
    BY <2>1, Listed DEF Cached
  <2> HIDE DEF old, new
  <2>4. \A a \in due' : /\ a \in due
                        /\ \/ a \in Addresses(items)
                           \/ \E k \in DOMAIN new : k > Len(items) /\ new[k].address = a
    BY <2>2
  <2>5. due' \subseteq STRING /\ steady' \subseteq Nat /\ undisturbed' \in BOOLEAN
    BY <2>2 DEF Walk
  <2>6. ASSUME query[1] /= NoNumber
        PROVE  /\ Walked(items, new, steady', page, Limit(query[1]), undisturbed')
               /\ Owed(items, new, due', page)
    <3>1. /\ Walked(items, old, steady, page, Limit(query[1]), undisturbed)
          /\ Owed(items, old, due, page)
      BY <1>3, <2>6 DEF Walk, old
    <3>2. undisturbed \in BOOLEAN
      BY DEF Walk
    <3>3. Walked(items, new, steady', page, Limit(query[1]), undisturbed /\ new = old)
      BY <3>1, <3>2, <2>2, <2>3, RefreshedList
    <3>4. Owed(items, new, due', page)
      BY <3>1, <2>4, RefreshedOwed
    <3> QED
      BY <3>3, <3>4, <2>2
  <2> QED
    BY <1>1, <2>5, <2>6 DEF Walk, new
<1> QED
  BY <1>2, <1>3

(* A walk begins with nothing.                                             *)
LEMMA WalkStarted ==
    ASSUME Cached, Walk, StartWalk
    PROVE  Walk'
<1>1. /\ query' \in Limits \X Views
      /\ page' = 1 /\ items' = <<>> /\ undisturbed' = TRUE
      /\ due' = Addresses(Listing(pairs, tokens, query'[2]))
      /\ steady' = DOMAIN Listing(pairs, tokens, query'[2])
      /\ pairs' = pairs /\ tokens' = tokens
  BY DEF StartWalk
<1>2. query'[1] \in Limits /\ query'[2] \in Views
  BY <1>1
<1> DEFINE list == Listing(pairs, tokens, query'[2])
<1>3. list \in Seq(Items)
  BY <1>2, Listed DEF Cached
<1>4. /\ due' = Addresses(list) /\ steady' = DOMAIN list
      /\ list = Listing(pairs', tokens', query'[2])
  BY <1>1
<1> HIDE DEF list
<1>5. ASSUME NEW limit \in Nat
      PROVE  /\ Walked(<<>>, list, DOMAIN list, 1, limit, TRUE)
             /\ Owed(<<>>, list, Addresses(list), 1)
  <2>1. DOMAIN list = 1 .. Len(list) /\ Len(list) \in Nat /\ (1 - 1) * limit = 0
    BY <1>3
  <2>2. Owed(<<>>, list, Addresses(list), 1)
    BY <2>1 DEF Owed, Addresses
  <2> QED
    BY <2>1, <2>2 DEF Walked
<1>6. query'[1] /= NoNumber =>
        /\ Walked(items', list, steady', page', Limit(query'[1]), undisturbed')
        /\ Owed(items', list, due', page')
  <2>1. query'[1] /= NoNumber => Limit(query'[1]) \in Nat
    BY <1>2, LimitType
  <2> QED
    BY <2>1, <1>1, <1>4, <1>5
<1>7. /\ items' \in Seq(Items) /\ due' \subseteq STRING /\ steady' \subseteq Nat
      /\ page' \in Nat /\ page' <= 1 /\ undisturbed' \in BOOLEAN
  BY <1>1, <1>3, <1>4, ItemAddresses
<1> QED
  BY <1>1, <1>4, <1>6, <1>7 DEF Walk

(* A page more.                                                            *)
LEMMA WalkContinued ==
    ASSUME Cached, Walk, NextPage
    PROVE  Walk'
<1> DEFINE list == Listing(pairs, tokens, query[2])
           limit == Limit(query[1])
           r == Response
<1>1. /\ query /= NoQuery /\ page > 0 /\ page \in Nat
      /\ items' = items \o r.items
      /\ page' = IF page < r.pages THEN page + 1 ELSE 0
      /\ query' = query /\ due' = due /\ steady' = steady /\ undisturbed' = undisturbed
      /\ pairs' = pairs /\ tokens' = tokens
  BY DEF NextPage, Walk
<1>2. query \in Limits \X Views /\ query[1] \in Limits /\ query[2] \in Views
  BY <1>1 DEF Walk
<1>3. list \in Seq(Items)
  BY <1>2, Listed DEF Cached
<1>4. /\ items \in Seq(Items) /\ undisturbed \in BOOLEAN
      /\ due \subseteq STRING /\ steady \subseteq Nat
  BY DEF Walk
<1>5. list = Listing(pairs', tokens', query'[2]) /\ limit = Limit(query'[1])
  BY <1>1
<1>6. /\ query[1] = NoNumber => r = [items |-> <<>>, pages |-> 0]
      /\ query[1] /= NoNumber => r = paginate(list, page, limit)
  BY DEF Response
<1> HIDE DEF list, limit, r
<1>7. CASE query[1] = NoNumber
  <2> DEFINE none == [items |-> <<>>, pages |-> 0]
  <2>1. items' = items \o <<>> /\ page' = 0
    <3>1. r = none /\ none.items = <<>> /\ none.pages = 0
      BY <1>6, <1>7
    <3> HIDE DEF none
    <3>2. r.items = <<>> /\ r.pages = 0
      BY <3>1
    <3> QED
      BY <3>2, <1>1
  <2>2. items' \in Seq(Items)
    BY <2>1, <1>4
  <2> QED
    BY <2>1, <2>2, <1>1, <1>2, <1>4, <1>7 DEF Walk
<1>8. CASE query[1] /= NoNumber
  <2>1. limit \in Nat /\ limit >= 1
    BY <1>2, <1>8, LimitType DEF limit
  <2>2. /\ Walked(items, list, steady, page, limit, undisturbed)
        /\ Owed(items, list, due, page)
    BY <1>1, <1>8 DEF Walk, list, limit
  <2>3. r = paginate(list, page, limit)
    BY <1>6, <1>8
  <2>4. /\ r.items \in Seq(Items) /\ page' \in Nat
        /\ Walked(items \o r.items, list, steady, page', limit, undisturbed)
        /\ Owed(items \o r.items, list, due, page')
    BY <1>1, <1>3, <1>4, <2>1, <2>2, <2>3, PageStep
  <2>5. items' \in Seq(Items)
    BY <2>4, <1>1, <1>4
  <2>6. /\ Walked(items', list, steady', page', limit, undisturbed')
        /\ Owed(items', list, due', page')
    BY <2>4, <1>1
  <2>7. /\ Walked(items', Listing(pairs', tokens', query'[2]), steady', page',
                  Limit(query'[1]), undisturbed')
        /\ Owed(items', Listing(pairs', tokens', query'[2]), due', page')
    BY <2>6, <1>5
  <2> QED
    BY <2>4, <2>5, <2>7, <1>1, <1>2, <1>4, <1>8 DEF Walk
<1> QED
  BY <1>7, <1>8

(* A walk ends.                                                            *)
LEMMA WalkEnded ==
    ASSUME Walk, EndWalk
    PROVE  Walk'
<1>1. /\ query' = NoQuery /\ page' = 1 /\ items' = <<>>
      /\ due' = {} /\ steady' = {} /\ undisturbed' = FALSE
  BY DEF EndWalk
<1>2. items' \in Seq(Items)
  BY <1>1
<1> QED
  BY <1>1, <1>2 DEF Walk

(* What is cached does not depend on the client.                           *)
LEMMA CachedKept ==
    ASSUME Cached, UNCHANGED <<feed, pairs, tokens, opportunities, refreshes>>
    PROVE  Cached'
<1>1. /\ feed' = feed /\ pairs' = pairs /\ tokens' = tokens
      /\ opportunities' = opportunities /\ refreshes' = refreshes
  OBVIOUS
<1>2. NothingLost'
  BY <1>1 DEF Cached, NothingLost
<1>3. TokensReflectPairs'
  BY <1>1 DEF Cached, TokensReflectPairs
<1>4. OpportunitiesAreTop'
  BY <1>1 DEF Cached, OpportunitiesAreTop
<1> QED
  BY <1>1, <1>2, <1>3, <1>4 DEF Cached

(* Every step preserves the invariant.                                     *)
LEMMA Inductive == IInv /\ [Next]_vars => IInv'
<1> SUFFICES ASSUME Cached, Walk, [Next]_vars PROVE Cached' /\ Walk'
  BY DEF IInv
<1>1. CASE Refresh
  <2>1. Cached'
    BY <1>1, Refreshed
  <2> QED
    BY <1>1, <2>1, WalkRefreshed
<1>2. CASE StartWalk
  <2>1. UNCHANGED <<feed, pairs, tokens, opportunities, refreshes>>
    BY <1>2 DEF StartWalk
  <2> QED
    BY <1>2, <2>1, CachedKept, WalkStarted
<1>3. CASE NextPage
  <2>1. UNCHANGED <<feed, pairs, tokens, opportunities, refreshes>>
    BY <1>3 DEF NextPage
  <2> QED
    BY <1>3, <2>1, CachedKept, WalkContinued
<1>4. CASE EndWalk
  <2>1. UNCHANGED <<feed, pairs, tokens, opportunities, refreshes>>
    BY <1>4 DEF EndWalk
  <2> QED
    BY <1>4, <2>1, CachedKept, WalkEnded
<1>5. CASE UNCHANGED vars
  <2>1. UNCHANGED <<feed, pairs, tokens, opportunities, refreshes>>
    BY <1>5 DEF vars
  <2>2. UNCHANGED <<pairs, tokens, query, page, items, due, steady, undisturbed>>
    BY <1>5 DEF vars
  <2>3. Walk'
    BY <2>2 DEF Walk
  <2> QED
    BY <2>1, <2>3, CachedKept
<1> QED
  BY <1>1, <1>2, <1>3, <1>4, <1>5 DEF Next

(* The invariant holds always: the cache is what the pipeline makes of the *)
(* last feed, and a client's pages add up to a beginning of its list       *)
(* (DiscoveryEngine.ts:83-119, routes/discovery.ts:80-112).                *)
THEOREM Invariance == Spec => []IInv
<1>1. Init => IInv
  BY Initially
<1>2. IInv /\ [Next]_vars => IInv'
  BY Inductive
<1> QED
  BY <1>1, <1>2, PTL DEF Spec

(* All scores are percentages, and no more opportunities are kept than     *)
(* asked for (OpportunityDetectionEngine.ts:9-12).                         *)
THEOREM TypeCorrect == Spec => []TypeOK
<1>1. IInv => TypeOK
  <2> SUFFICES ASSUME Cached, Walk PROVE TypeOK
    BY DEF IInv
  <2>1. ASSUME NEW i \in DOMAIN pairs PROVE pairs[i].score \in 0 .. 100
    <3>1. pairs[i] \in Scoreds
      BY DEF Cached
    <3>2. pairs[i].score \in Int /\ 0 <= pairs[i].score /\ pairs[i].score <= 100
      BY <3>1, ScoredFields
    <3> QED
      BY <3>2
  <2>2. ASSUME NEW i \in DOMAIN tokens PROVE tokens[i].score \in 0 .. 100
    <3>1. tokens[i] \in Tokens
      BY DEF Cached
    <3> QED
      BY <3>1, TokenFields DEF Percents
  <2> QED
    BY <2>1, <2>2 DEF TypeOK, Cached, Walk
<1> QED
  BY <1>1, Invariance, PTL

(* The cached pairs are ranked by their scores and no address occurs twice *)
(* (RankingEngine, deduplicate.ts:7-19).                                   *)
THEOREM RankingCorrect == Spec => []RankedUnique
<1>1. IInv => RankedUnique
  <2> SUFFICES ASSUME Cached, NEW i \in DOMAIN pairs, NEW j \in DOMAIN pairs, i < j
               PROVE  pairs[i].score >= pairs[j].score /\ pairs[i].address /= pairs[j].address
    BY DEF IInv, RankedUnique
  <2>1. i /= j
    <3>1. pairs \in Seq(Scoreds)
      BY DEF Cached
    <3> QED
      BY <3>1
  <2> QED
    BY <2>1 DEF Cached, Descending, Unique
<1> QED
  BY <1>1, Invariance, PTL

(* A pair whose first report would do alone is in the catalogue, with a    *)
(* score no lower than that report's, whatever else was reported and in    *)
(* whatever order (ProviderMerger.ts:21-59, ValidationFilter.ts:12-16).    *)
THEOREM NothingLostCorrect == Spec => []NothingLost
<1>1. IInv => NothingLost
  BY DEF IInv, Cached
<1> QED
  BY <1>1, Invariance, PTL

(* There is one token for each address in the pairs, with the sum of their *)
(* liquidities and the best of their scores (TokenAggregator.ts:8-53).     *)
THEOREM TokensCorrect == Spec => []TokensReflectPairs
<1>1. IInv => TokensReflectPairs
  BY DEF IInv, Cached
<1> QED
  BY <1>1, Invariance, PTL

(* The opportunities are the best of the pairs that are good enough        *)
(* (OpportunityDetectionEngine.ts:9-12).                                   *)
THEOREM OpportunitiesCorrect == Spec => []OpportunitiesAreTop
<1>1. IInv => OpportunitiesAreTop
  BY DEF IInv, Cached
<1> QED
  BY <1>1, Invariance, PTL

(* The pages of a list that stays as it is, cut by any limit that is a     *)
(* number, add up to the list: the tokens as they are cached, the pairs    *)
(* sorted by score, liquidity or volume, up or down, as asked for, and the *)
(* pairs asked for by lastUpdated as they are cached, since the code does  *)
(* not sort by it (routes/discovery.ts:26-47).                             *)
THEOREM PagesCorrect == Spec => []WalkComplete
<1>1. IInv => WalkComplete
  <2> SUFFICES ASSUME Cached, Walk, query /= NoQuery, page = 0, undisturbed,
                      query[1] /= NoNumber
               PROVE  LET view == query[2]
                          all  == IF view[1] = "tokens" THEN tokens ELSE pairs
                      IN  /\ Len(items) = Len(all) /\ ToSet(items) = ToSet(all)
                          /\ IF view[1] = "tokens" \/ view[2] = "lastUpdated"
                               THEN items = all
                               ELSE \A i, j \in DOMAIN items : i < j =>
                                      IF view[3] = "asc"
                                        THEN items[i][view[2]] <= items[j][view[2]]
                                        ELSE items[i][view[2]] >= items[j][view[2]]
    BY DEF IInv, WalkComplete
  <2> DEFINE view == query[2]
             list == Listing(pairs, tokens, view)
             all  == IF view[1] = "tokens" THEN tokens ELSE pairs
  <2>1. view \in Views
    BY DEF Walk
  <2>2. /\ list \in Seq(Items)
        /\ Len(list) = Len(all) /\ ToSet(list) = ToSet(all)
        /\ IF view[1] = "tokens" \/ view[2] = "lastUpdated" THEN list = all
           ELSE \A i, j \in DOMAIN list : i < j =>
                  IF view[3] = "asc" THEN list[i][view[2]] <= list[j][view[2]]
                                     ELSE list[i][view[2]] >= list[j][view[2]]
    BY <2>1, Listed DEF Cached
  <2>3. Walked(items, list, steady, page, Limit(query[1]), undisturbed) /\ items \in Seq(Items)
    BY DEF Walk
  <2> HIDE DEF list, view, all
  <2>4. Len(items) = Len(list) /\ \A k \in 1 .. Len(items) : items[k] = list[k]
    BY <2>3 DEF Walked
  <2>5. items = list
    BY <2>2, <2>3, <2>4
  <2> QED
    BY <2>2, <2>5 DEF list, view, all
<1> QED
  BY <1>1, Invariance, PTL

(* No page of a list that stays as it is that a client is sent on to is    *)
(* empty, for any list and any limit: the clamp keeps the number of pages  *)
(* finite and right (routes/discovery.ts:26-36, :84).                      *)
THEOREM FilledCorrect == Spec => []PagesFilled
<1>1. IInv => PagesFilled
  <2> SUFFICES ASSUME Cached, Walk, query /= NoQuery, page > 1, undisturbed
               PROVE  Response.items /= <<>>
    BY DEF IInv, PagesFilled
  <2> DEFINE list == Listing(pairs, tokens, query[2])
             limit == Limit(query[1])
  <2>1. /\ page \in Nat /\ query[1] /= NoNumber
        /\ query[1] \in Limits /\ query[2] \in Views
    BY DEF Walk
  <2>2. list \in Seq(Items) /\ limit \in Nat /\ limit >= 1
    BY <2>1, Listed, LimitType DEF Cached
  <2>3. Walked(items, list, steady, page, limit, undisturbed)
    BY <2>1 DEF Walk
  <2>4. Response = paginate(list, page, limit)
    BY <2>1 DEF Response
  <2> HIDE DEF list, limit
  <2>5. (page - 1) * limit < Len(list)
    BY <2>1, <2>3 DEF Walked
  <2> QED
    BY <2>1, <2>2, <2>4, <2>5, PageFilled
<1> QED
  BY <1>1, Invariance, PTL

(* A client misses nothing of a changing list but what a refresh took out  *)
(* of the part that it had not fetched yet (routes/discovery.ts:88-90).    *)
THEOREM NoneSkippedCorrect == Spec => []NoneSkipped
<1>1. IInv => NoneSkipped
  <2> SUFFICES ASSUME Walk, query /= NoQuery, page = 0, query[1] /= NoNumber
               PROVE  due \subseteq Addresses(items)
    BY DEF IInv, NoneSkipped
  <2>1. Owed(items, Listing(pairs, tokens, query[2]), due, page)
    BY DEF Walk
  <2> QED
    BY <2>1 DEF Owed
<1> QED
  BY <1>1, Invariance, PTL

(* What keeps its place in the list is served in that place, whatever      *)
(* refreshes do to the rest (routes/discovery.ts:88-90).                   *)
THEOREM SteadyCorrect == Spec => []SteadyServed
<1>1. IInv => SteadyServed
  <2> SUFFICES ASSUME Walk, query /= NoQuery, page = 0, query[1] /= NoNumber
               PROVE  LET list == Listing(pairs, tokens, query[2])
                      IN  \A k \in steady : /\ k <= Len(items)
                                            /\ items[k].address = list[k].address
    BY DEF IInv, SteadyServed
  <2>1. Walked(items, Listing(pairs, tokens, query[2]), steady, page, Limit(query[1]),
               undisturbed)
    BY DEF Walk
  <2> QED
    BY <2>1 DEF Walked
<1> QED
  BY <1>1, Invariance, PTL
=============================================================================
