------------------------ MODULE DiscoveryEventsProofs ------------------------
(***************************************************************************)
(* Proofs about DiscoveryEvents for any slots, snapshots, thresholds and   *)
(* number of refreshes: type correctness, AnnouncedBeforeAdopted,          *)
(* CountsFollowEvents and DeltaLeadsToSnapshot.                            *)
(*                                                                         *)
(* The changes and the events of a refresh are sequences put together by   *)
(* Each, that is by FlattenSeq, a recursive function.  What it computes is *)
(* proved by induction over sets of numbers (SetInduction), since the      *)
(* library's induction theorems take operators as parameters.              *)
(***************************************************************************)
EXTENDS DiscoveryEvents, FiniteSetTheorems, WellFoundedInduction, TLAPS

-----------------------------------------------------------------------------
(* Induction.                                                              *)

LEMMA SetInduction ==
    ASSUME NEW N \in SUBSET Nat, 0 \in N, \A n \in N : n + 1 \in N
    PROVE  \A n \in Nat : n \in N
<1> SUFFICES ASSUME Nat \ N /= {} PROVE FALSE
  OBVIOUS
<1>1. PICK m \in Nat \ N : \A k \in Nat \ N : <<k, m>> \notin OpToRel(<, Nat)
  <2>1. Nat \ N \subseteq Nat
    OBVIOUS
  <2> QED
    BY <2>1, NatLessThanWellFounded, WFMin
<1>2. m /= 0 /\ m - 1 \in Nat /\ m - 1 < m /\ (m - 1) + 1 = m
  OBVIOUS
<1>3. <<m - 1, m>> \in OpToRel(<, Nat)
  BY <1>2 DEF OpToRel
<1> QED
  BY <1>1, <1>2, <1>3

(* FlattenSeq is what its recursive definition says.                       *)
LEMMA FlattenDefined ==
    ASSUME NEW T, NEW ss \in Seq(Seq(T)), ss /= <<>>
    PROVE  \E f : /\ FlattenSeq(ss) = f[Len(ss)]
                  /\ \A i \in 1 .. Len(ss) : f[i] = IF i = 1 THEN ss[i] ELSE f[i - 1] \o ss[i]
<1> DEFINE Grows(f, n) == f = [i \in 1 .. n |-> IF i = 1 THEN ss[i] ELSE f[i - 1] \o ss[i]]
           Ns == {n \in Nat : n <= Len(ss) => \E f : Grows(f, n)}
<1> HIDE DEF Grows
<1>1. 0 \in Ns
  <2>1. Grows(<<>>, 0)
    BY DEF Grows
  <2> QED
    BY <2>1
<1>2. ASSUME NEW n \in Ns
      PROVE  n + 1 \in Ns
  <2> n \in Nat
    OBVIOUS
  <2> SUFFICES ASSUME n + 1 <= Len(ss)
               PROVE  \E f : Grows(f, n + 1)
    OBVIOUS
  <2>1. PICK f : Grows(f, n)
    OBVIOUS
  <2> DEFINE g == [i \in 1 .. n + 1 |-> IF i <= n THEN f[i]
                                        ELSE IF i = 1 THEN ss[i] ELSE f[i - 1] \o ss[i]]
             h == [i \in 1 .. n + 1 |-> IF i = 1 THEN ss[i] ELSE g[i - 1] \o ss[i]]
  <2>2. ASSUME NEW i \in 1 .. n + 1
        PROVE  g[i] = IF i = 1 THEN ss[i] ELSE g[i - 1] \o ss[i]
    <3>1. CASE i <= n
      <4>1. i \in 1 .. n /\ g[i] = f[i]
        BY <3>1
      <4>2. f[i] = IF i = 1 THEN ss[i] ELSE f[i - 1] \o ss[i]
        BY <2>1, <4>1 DEF Grows
      <4>3. i /= 1 => g[i - 1] = f[i - 1]
        BY <3>1
      <4> QED
        BY <4>1, <4>2, <4>3
    <3>2. CASE i = n + 1
      <4>1. g[i] = IF i = 1 THEN ss[i] ELSE f[i - 1] \o ss[i]
        BY <3>2
      <4>2. i /= 1 => g[i - 1] = f[i - 1]
        BY <3>2
      <4> QED
        BY <4>1, <4>2
    <3> QED
      BY <3>1, <3>2
  <2>3. g = h
    BY <2>2
  <2>4. Grows(g, n + 1)
    BY <2>3 DEF Grows
  <2> HIDE DEF g
  <2> QED
    BY <2>4
<1>3. \A n \in Nat : n \in Ns
  <2> HIDE DEF Ns
  <2>1. Ns \in SUBSET Nat
    BY DEF Ns
  <2> QED
    BY <1>1, <1>2, <2>1, SetInduction
<1>4. \E f : Grows(f, Len(ss))
  <2>1. Len(ss) \in Nat
    OBVIOUS
  <2> QED
    BY <1>3, <2>1
<1> DEFINE F == CHOOSE f : Grows(f, Len(ss))
<1>5. Grows(F, Len(ss))
  BY <1>4
<1>6. FlattenSeq(ss) = F[Len(ss)]
  <2>1. Len(ss) /= 0
    OBVIOUS
  <2> QED
    BY <2>1 DEF FlattenSeq, Grows
<1> HIDE DEF F
<1>7. \A i \in 1 .. Len(ss) : F[i] = IF i = 1 THEN ss[i] ELSE F[i - 1] \o ss[i]
  BY <1>5 DEF Grows
<1> QED
  BY <1>6, <1>7

LEMMA ConcatElements ==
    ASSUME NEW T, NEW s \in Seq(T), NEW t \in Seq(T)
    PROVE  s \o t \in Seq(T) /\ ToSet(s \o t) = ToSet(s) \cup ToSet(t)
<1>1. /\ s \o t \in Seq(T) /\ Len(s \o t) = Len(s) + Len(t) /\ Len(s) \in Nat /\ Len(t) \in Nat
      /\ \A i \in 1 .. Len(s) + Len(t) : (s \o t)[i] = IF i <= Len(s) THEN s[i] ELSE t[i - Len(s)]
  OBVIOUS
<1> DEFINE u == s \o t
<1>2. /\ DOMAIN s = 1 .. Len(s) /\ DOMAIN t = 1 .. Len(t) /\ DOMAIN u = 1 .. Len(s) + Len(t)
  BY <1>1
<1>3. ASSUME NEW i \in 1 .. Len(s) PROVE s[i] \in ToSet(u)
  <2>1. i \in DOMAIN u /\ u[i] = s[i]
    BY <1>1, <1>2
  <2> QED
    BY <2>1 DEF ToSet
<1>4. ASSUME NEW i \in 1 .. Len(t) PROVE t[i] \in ToSet(u)
  <2>1. /\ Len(s) + i \in 1 .. Len(s) + Len(t) /\ ~(Len(s) + i <= Len(s))
        /\ (Len(s) + i) - Len(s) = i
    BY <1>1
  <2>2. u[Len(s) + i] = t[i]
    BY <1>1, <2>1
  <2> QED
    BY <1>2, <2>1, <2>2 DEF ToSet
<1>5. ASSUME NEW i \in 1 .. Len(s) + Len(t) PROVE u[i] \in ToSet(s) \cup ToSet(t)
  <2>1. CASE i <= Len(s)
    <3>1. i \in DOMAIN s /\ u[i] = s[i]
      BY <1>1, <1>2, <2>1
    <3> QED
      BY <3>1 DEF ToSet
  <2>2. CASE ~(i <= Len(s))
    <3>1. i - Len(s) \in DOMAIN t /\ u[i] = t[i - Len(s)]
      BY <1>1, <1>2, <2>2
    <3> QED
      BY <3>1 DEF ToSet
  <2> QED
    BY <2>1, <2>2
<1> HIDE DEF u
<1>6. ToSet(u) = ToSet(s) \cup ToSet(t)
  BY <1>2, <1>3, <1>4, <1>5 DEF ToSet
<1> QED
  BY <1>1, <1>6 DEF u

(* Flattening keeps every element and adds none.                           *)
LEMMA FlattenElements ==
    ASSUME NEW T, NEW ss \in Seq(Seq(T))
    PROVE  /\ FlattenSeq(ss) \in Seq(T)
           /\ ToSet(FlattenSeq(ss)) = UNION {ToSet(ss[i]) : i \in DOMAIN ss}
<1>1. CASE ss = <<>>
  <2>1. FlattenSeq(ss) = <<>>
    <3>1. Len(ss) = 0
      BY <1>1
    <3> QED
      BY <1>1, <3>1 DEF FlattenSeq
  <2>2. <<>> \in Seq(T) /\ ToSet(<<>>) = {} /\ DOMAIN ss = {}
    BY <1>1 DEF ToSet
  <2> QED
    BY <2>1, <2>2
<1>2. CASE ss /= <<>>
  <2>1. PICK f : /\ FlattenSeq(ss) = f[Len(ss)]
                 /\ \A i \in 1 .. Len(ss) : f[i] = IF i = 1 THEN ss[i] ELSE f[i - 1] \o ss[i]
    BY <1>2, FlattenDefined
  <2>2. /\ Len(ss) \in Nat \ {0} /\ DOMAIN ss = 1 .. Len(ss)
        /\ \A i \in 1 .. Len(ss) : ss[i] \in Seq(T)
    BY <1>2
  <2> DEFINE Holds(n) == f[n] \in Seq(T) /\ ToSet(f[n]) = UNION {ToSet(ss[i]) : i \in 1 .. n}
             N == {n \in Nat : n \in 1 .. Len(ss) => Holds(n)}
  <2> HIDE DEF Holds
  <2>3. 0 \in N
    OBVIOUS
  <2>4. ASSUME NEW n \in N PROVE n + 1 \in N
    <3> n \in Nat
      OBVIOUS
    <3> SUFFICES ASSUME n + 1 \in 1 .. Len(ss) PROVE Holds(n + 1)
      OBVIOUS
    <3>1. CASE n = 0
      <4>1. f[n + 1] = ss[n + 1] /\ ss[n + 1] \in Seq(T)
        BY <2>1, <2>2, <3>1
      <4>2. 1 .. n + 1 = {n + 1}
        BY <3>1
      <4> QED
        BY <4>1, <4>2 DEF Holds
    <3>2. CASE n /= 0
      <4>1. n \in 1 .. Len(ss)
        BY <2>2, <3>2
      <4>2. f[n] \in Seq(T) /\ ToSet(f[n]) = UNION {ToSet(ss[i]) : i \in 1 .. n}
        BY <4>1 DEF Holds
      <4>3. f[n + 1] = f[n] \o ss[n + 1] /\ ss[n + 1] \in Seq(T)
        <5>1. n + 1 /= 1 /\ (n + 1) - 1 = n /\ n + 1 \in 1 .. Len(ss)
          BY <3>2
        <5>2. f[n + 1] = IF n + 1 = 1 THEN ss[n + 1] ELSE f[(n + 1) - 1] \o ss[n + 1]
          BY <2>1, <5>1
        <5>3. ss[n + 1] \in Seq(T)
          BY <2>2, <5>1
        <5> QED
          BY <5>1, <5>2, <5>3
      <4>4. /\ f[n + 1] \in Seq(T)
            /\ ToSet(f[n + 1]) = ToSet(f[n]) \cup ToSet(ss[n + 1])
        BY <4>2, <4>3, ConcatElements
      <4>5. 1 .. n + 1 = (1 .. n) \cup {n + 1}
        OBVIOUS
      <4> QED
        BY <4>2, <4>4, <4>5 DEF Holds
    <3> QED
      BY <3>1, <3>2
  <2>5. \A n \in Nat : n \in N
    <3>1. N \in SUBSET Nat
      OBVIOUS
    <3> HIDE DEF N
    <3> QED
      BY <2>3, <2>4, <3>1, SetInduction
  <2>6. Holds(Len(ss))
    BY <2>2, <2>5
  <2> QED
    BY <2>1, <2>2, <2>6 DEF Holds
<1> QED
  BY <1>1, <1>2

-----------------------------------------------------------------------------
(* The delta.                                                              *)

LEMMA SingleElement ==
    ASSUME NEW x
    PROVE  ToSet(<<x>>) = {x} /\ ToSet(<<>>) = {}
  BY DEF ToSet

LEMMA FunctionIsSequence ==
    ASSUME NEW S, NEW n \in Nat, NEW f \in [1 .. n -> S]
    PROVE  f \in Seq(S)
  OBVIOUS

LEMMA AddressElements ==
    ASSUME NEW items
    PROVE  Addresses(items) = {x.address : x \in ToSet(items)}
  BY DEF Addresses, ToSet

(* Items that contribute themselves or nothing.                            *)
Kept(items, K) ==
    FlattenSeq([i \in DOMAIN items |-> IF items[i] \in K THEN <<items[i]>> ELSE <<>>])

LEMMA KeptElements ==
    ASSUME NEW T, NEW items \in Seq(T), NEW K
    PROVE  Kept(items, K) \in Seq(T) /\ ToSet(Kept(items, K)) = ToSet(items) \cap K
<1> DEFINE ss == [i \in DOMAIN items |-> IF items[i] \in K THEN <<items[i]>> ELSE <<>>]
<1>1. DOMAIN items = 1 .. Len(items) /\ Len(items) \in Nat /\ \A i \in DOMAIN items : items[i] \in T
  OBVIOUS
<1>2. \A i \in DOMAIN items :
        ss[i] = IF items[i] \in K THEN <<items[i]>> ELSE <<>>
  OBVIOUS
<1>3. ss \in Seq(Seq(T)) /\ DOMAIN ss = DOMAIN items
  <2>1. ASSUME NEW i \in DOMAIN items PROVE ss[i] \in Seq(T)
    <3>1. ss[i] = <<items[i]>> \/ ss[i] = <<>>
      BY <1>2
    <3>2. <<items[i]>> \in Seq(T) /\ <<>> \in Seq(T)
      BY <1>1
    <3> QED
      BY <3>1, <3>2
  <2>2. ss \in [1 .. Len(items) -> Seq(T)] /\ DOMAIN ss = DOMAIN items
    BY <1>1, <2>1
  <2> QED
    BY <1>1, <2>2, FunctionIsSequence
<1>4. \A i \in DOMAIN items :
        ToSet(ss[i]) = IF items[i] \in K THEN {items[i]} ELSE {}
  BY <1>2, SingleElement
<1>5. FlattenSeq(ss) \in Seq(T) /\ ToSet(FlattenSeq(ss)) = UNION {ToSet(ss[i]) : i \in DOMAIN items}
  BY <1>3, FlattenElements
<1>6. ToSet(items) = {items[i] : i \in DOMAIN items}
  BY DEF ToSet
<1> HIDE DEF ss
<1>7. UNION {ToSet(ss[i]) : i \in DOMAIN items} = ToSet(items) \cap K
  BY <1>4, <1>6
<1> QED
  BY <1>5, <1>7 DEF Kept, ss

(* Known and Unknown split the items by their addresses.                   *)
LEMMA KnownElements ==
    ASSUME NEW T, NEW items \in Seq(T), NEW others
    PROVE  /\ Known(items, others) \in Seq(T)
           /\ ToSet(Known(items, others)) = {x \in ToSet(items) : x.address \in Addresses(others)}
<1> DEFINE K == {x \in ToSet(items) : x.address \in Addresses(others)}
<1>1. \A i \in DOMAIN items : items[i] \in K <=> items[i].address \in Addresses(others)
  BY DEF ToSet
<1> HIDE DEF K
<1>2. Known(items, others) = Kept(items, K)
  BY <1>1 DEF Known, Each, If, Kept
<1>3. Kept(items, K) \in Seq(T) /\ ToSet(Kept(items, K)) = ToSet(items) \cap K
  BY KeptElements
<1> QED
  BY <1>2, <1>3 DEF K

LEMMA UnknownElements ==
    ASSUME NEW T, NEW items \in Seq(T), NEW others
    PROVE  /\ Unknown(items, others) \in Seq(T)
           /\ ToSet(Unknown(items, others)) = {x \in ToSet(items) : x.address \notin Addresses(others)}
<1> DEFINE K == {x \in ToSet(items) : x.address \notin Addresses(others)}
<1>1. \A i \in DOMAIN items : items[i] \in K <=> items[i].address \notin Addresses(others)
  BY DEF ToSet
<1> HIDE DEF K
<1>2. Unknown(items, others) = Kept(items, K)
  BY <1>1 DEF Unknown, Each, If, Kept
<1>3. Kept(items, K) \in Seq(T) /\ ToSet(Kept(items, K)) = ToSet(items) \cap K
  BY KeptElements
<1> QED
  BY <1>2, <1>3 DEF K

(* In terms of addresses, intersection and difference.                     *)
LEMMA SplitAddresses ==
    ASSUME NEW T, NEW items \in Seq(T), NEW others
    PROVE  /\ Addresses(Known(items, others)) = Addresses(items) \cap Addresses(others)
           /\ Addresses(Unknown(items, others)) = Addresses(items) \ Addresses(others)
<1>1. /\ Addresses(Known(items, others)) = {x.address : x \in ToSet(Known(items, others))}
      /\ Addresses(Unknown(items, others)) = {x.address : x \in ToSet(Unknown(items, others))}
      /\ Addresses(items) = {x.address : x \in ToSet(items)}
  BY AddressElements
<1>2. /\ ToSet(Known(items, others)) = {x \in ToSet(items) : x.address \in Addresses(others)}
      /\ ToSet(Unknown(items, others)) = {x \in ToSet(items) : x.address \notin Addresses(others)}
  BY KnownElements, UnknownElements
<1> DEFINE A == Addresses(others)
<1>3. {x.address : x \in {y \in ToSet(items) : y.address \in A}} = {x.address : x \in ToSet(items)} \cap A
  OBVIOUS
<1>4. {x.address : x \in {y \in ToSet(items) : y.address \notin A}} = {x.address : x \in ToSet(items)} \ A
  OBVIOUS
<1> QED
  BY <1>1, <1>2, <1>3, <1>4

Snaps == Snapshots \cup {Empty}

LEMMA SnapshotSequences ==
    ASSUME NEW s \in Snaps
    PROVE  s.pairs \in Seq(ToSet(s.pairs)) /\ s.tokens \in Seq(ToSet(s.tokens))
<1>1. CASE s \in Snapshots
  BY <1>1, SnapshotAssumption
<1>2. CASE s = Empty
  <2>1. s.pairs = <<>> /\ s.tokens = <<>>
    BY <1>2 DEF Empty
  <2> QED
    BY <2>1
<1> QED
  BY <1>1, <1>2 DEF Snaps

(* The changes of one pair and of one token.                               *)
PairMoves(p, q) ==
    {Change("LIQUIDITY_CHANGED", q.address, p.liquidity, q.liquidity),
     Change("VOLUME_CHANGED", q.address, p.volume, q.volume),
     Change("SCORE_CHANGED", q.address, p.score, q.score)}

TokenMoves(t, u) == {Change("HOLDER_CHANGED", u.address, t.holders, u.holders)}

LEMMA MoveSequences ==
    ASSUME NEW p, NEW q
    PROVE  PairChanges(p, q) \in Seq(PairMoves(p, q)) /\ TokenChanges(p, q) \in Seq(TokenMoves(p, q))
<1>1. ASSUME NEW T, NEW x \in T, NEW s, s = <<x>> \/ s = <<>> PROVE s \in Seq(T)
  <2>1. <<x>> \in Seq(T) /\ <<>> \in Seq(T)
    OBVIOUS
  <2> QED
    BY <1>1, <2>1
<1>2. TokenChanges(p, q) \in Seq(TokenMoves(p, q))
  BY <1>1 DEF TokenChanges, TokenMoves, If
<1> DEFINE l == Change("LIQUIDITY_CHANGED", q.address, p.liquidity, q.liquidity)
           v == Change("VOLUME_CHANGED", q.address, p.volume, q.volume)
           z == Change("SCORE_CHANGED", q.address, p.score, q.score)
           far == (IF q.score > p.score THEN q.score - p.score ELSE p.score - q.score) >= ScoreStep
           a == If(Moved(p.liquidity, q.liquidity, LiquidityPct), l)
           b == If(Moved(p.volume, q.volume, VolumePct), v)
           c == If(far, z)
<1>3. PairChanges(p, q) = a \o b \o c
  BY DEF PairChanges
<1>4. l \in PairMoves(p, q) /\ v \in PairMoves(p, q) /\ z \in PairMoves(p, q)
  BY DEF PairMoves
<1> HIDE DEF l, v, z, far
<1>5. (a = <<l>> \/ a = <<>>) /\ (b = <<v>> \/ b = <<>>) /\ (c = <<z>> \/ c = <<>>)
  BY DEF If
<1> HIDE DEF a, b, c
<1>6. a \in Seq(PairMoves(p, q)) /\ b \in Seq(PairMoves(p, q)) /\ c \in Seq(PairMoves(p, q))
  BY <1>1, <1>4, <1>5
<1>7. a \o b \o c \in Seq(PairMoves(p, q))
  BY <1>6
<1> QED
  BY <1>2, <1>3, <1>7

(* Changes that may be between two snapshots.                              *)
NewPools(cur) == {Change("NEW_POOL", q.address, 0, 0) : q \in ToSet(cur.pairs)}
RemovedPools(prev) == {Change("REMOVED_POOL", p.address, 0, 0) : p \in ToSet(prev.pairs)}
PairsMoved(prev, cur) ==
    UNION {PairMoves(Find(prev.pairs, q.address), q) : q \in ToSet(cur.pairs)}
TokensMoved(prev, cur) ==
    UNION {TokenMoves(Find(prev.tokens, u.address), u) : u \in ToSet(cur.tokens)}

Possible(prev, cur) ==
    NewPools(cur) \cup RemovedPools(prev) \cup PairsMoved(prev, cur) \cup TokensMoved(prev, cur)

LEMMA SequenceMembers ==
    ASSUME NEW T, NEW s \in Seq(T)
    PROVE  /\ DOMAIN s = 1 .. Len(s) /\ Len(s) \in Nat
           /\ \A i \in DOMAIN s : s[i] \in T /\ s[i] \in ToSet(s)
  BY DEF ToSet

LEMMA LargerSequence ==
    ASSUME NEW S, NEW T, S \subseteq T, NEW s \in Seq(S)
    PROVE  s \in Seq(T)
  OBVIOUS

LEMMA ChangesElements ==
    ASSUME NEW prev \in Snaps, NEW cur \in Snaps
    PROVE  /\ Changes(prev, cur) \in Seq(Possible(prev, cur))
           /\ \A q \in ToSet(Unknown(cur.pairs, prev.pairs)) :
                Change("NEW_POOL", q.address, 0, 0) \in ToSet(Changes(prev, cur))
<1> DEFINE C == Possible(prev, cur)
           U == Unknown(cur.pairs, prev.pairs)
           V == Unknown(prev.pairs, cur.pairs)
           K == Known(cur.pairs, prev.pairs)
           L == Known(cur.tokens, prev.tokens)
           uu == [i \in DOMAIN U |-> <<Change("NEW_POOL", U[i].address, 0, 0)>>]
           vv == [i \in DOMAIN V |-> <<Change("REMOVED_POOL", V[i].address, 0, 0)>>]
           kk == [i \in DOMAIN K |-> PairChanges(Find(prev.pairs, K[i].address), K[i])]
           ll == [i \in DOMAIN L |-> TokenChanges(Find(prev.tokens, L[i].address), L[i])]
<1>1. Changes(prev, cur) = FlattenSeq(uu) \o FlattenSeq(vv) \o FlattenSeq(kk) \o FlattenSeq(ll)
  BY DEF Changes, Each
<1>2. /\ U \in Seq(ToSet(cur.pairs)) /\ V \in Seq(ToSet(prev.pairs))
      /\ K \in Seq(ToSet(cur.pairs)) /\ L \in Seq(ToSet(cur.tokens))
  BY SnapshotSequences, KnownElements, UnknownElements
<1> HIDE DEF U, V, K, L
<1>3. /\ \A q \in ToSet(cur.pairs) : Change("NEW_POOL", q.address, 0, 0) \in C
      /\ \A p \in ToSet(prev.pairs) : Change("REMOVED_POOL", p.address, 0, 0) \in C
      /\ \A q \in ToSet(cur.pairs) : PairMoves(Find(prev.pairs, q.address), q) \subseteq C
      /\ \A u \in ToSet(cur.tokens) : TokenMoves(Find(prev.tokens, u.address), u) \subseteq C
  <2>1. \A q \in ToSet(cur.pairs) : Change("NEW_POOL", q.address, 0, 0) \in NewPools(cur)
    BY DEF NewPools
  <2>2. \A p \in ToSet(prev.pairs) : Change("REMOVED_POOL", p.address, 0, 0) \in RemovedPools(prev)
    BY DEF RemovedPools
  <2>3. \A q \in ToSet(cur.pairs) :
          PairMoves(Find(prev.pairs, q.address), q) \subseteq PairsMoved(prev, cur)
    BY DEF PairsMoved
  <2>4. \A u \in ToSet(cur.tokens) :
          TokenMoves(Find(prev.tokens, u.address), u) \subseteq TokensMoved(prev, cur)
    BY DEF TokensMoved
  <2>5. /\ NewPools(cur) \subseteq C /\ RemovedPools(prev) \subseteq C
        /\ PairsMoved(prev, cur) \subseteq C /\ TokensMoved(prev, cur) \subseteq C
    BY DEF Possible
  <2> HIDE DEF C
  <2> QED
    BY <2>1, <2>2, <2>3, <2>4, <2>5
<1> HIDE DEF C
<1>4. uu \in Seq(Seq(C))
  <2>1. \A i \in DOMAIN U : <<Change("NEW_POOL", U[i].address, 0, 0)>> \in Seq(C)
    BY <1>2, <1>3, SequenceMembers
  <2>2. uu \in [1 .. Len(U) -> Seq(C)] /\ Len(U) \in Nat
    BY <1>2, <2>1, SequenceMembers
  <2> HIDE DEF uu
  <2> QED
    BY <2>2, FunctionIsSequence
<1>5. vv \in Seq(Seq(C))
  <2>1. \A i \in DOMAIN V : <<Change("REMOVED_POOL", V[i].address, 0, 0)>> \in Seq(C)
    BY <1>2, <1>3, SequenceMembers
  <2>2. vv \in [1 .. Len(V) -> Seq(C)] /\ Len(V) \in Nat
    BY <1>2, <2>1, SequenceMembers
  <2> HIDE DEF vv
  <2> QED
    BY <2>2, FunctionIsSequence
<1>6. kk \in Seq(Seq(C))
  <2>1. ASSUME NEW i \in DOMAIN K
        PROVE  PairChanges(Find(prev.pairs, K[i].address), K[i]) \in Seq(C)
    <3>1. K[i] \in ToSet(cur.pairs)
      BY <1>2, SequenceMembers
    <3> QED
      BY <1>3, <3>1, MoveSequences, LargerSequence
  <2>2. kk \in [1 .. Len(K) -> Seq(C)] /\ Len(K) \in Nat
    BY <1>2, <2>1, SequenceMembers
  <2> HIDE DEF kk
  <2> QED
    BY <2>2, FunctionIsSequence
<1>7. ll \in Seq(Seq(C))
  <2>1. ASSUME NEW i \in DOMAIN L
        PROVE  TokenChanges(Find(prev.tokens, L[i].address), L[i]) \in Seq(C)
    <3>1. L[i] \in ToSet(cur.tokens)
      BY <1>2, SequenceMembers
    <3> QED
      BY <1>3, <3>1, MoveSequences, LargerSequence
  <2>2. ll \in [1 .. Len(L) -> Seq(C)] /\ Len(L) \in Nat
    BY <1>2, <2>1, SequenceMembers
  <2> HIDE DEF ll
  <2> QED
    BY <2>2, FunctionIsSequence
<1>8. ASSUME NEW q \in ToSet(U)
      PROVE  Change("NEW_POOL", q.address, 0, 0) \in ToSet(FlattenSeq(uu))
  <2>1. PICK i \in DOMAIN U : U[i] = q
    BY DEF ToSet
  <2>2. uu[i] = <<Change("NEW_POOL", q.address, 0, 0)>> /\ i \in DOMAIN uu
    BY <2>1
  <2>3. Change("NEW_POOL", q.address, 0, 0) \in ToSet(uu[i])
    BY <2>2, SingleElement
  <2> HIDE DEF uu
  <2>4. ToSet(FlattenSeq(uu)) = UNION {ToSet(uu[j]) : j \in DOMAIN uu}
    BY <1>4, FlattenElements
  <2> QED
    BY <2>2, <2>3, <2>4
<1> HIDE DEF uu, vv, kk, ll
<1>9. /\ FlattenSeq(uu) \in Seq(C) /\ FlattenSeq(vv) \in Seq(C)
      /\ FlattenSeq(kk) \in Seq(C) /\ FlattenSeq(ll) \in Seq(C)
  BY <1>4, <1>5, <1>6, <1>7, FlattenElements
<1> DEFINE x == FlattenSeq(uu) \o FlattenSeq(vv)
           y == x \o FlattenSeq(kk)
<1>10. x \in Seq(C) /\ ToSet(FlattenSeq(uu)) \subseteq ToSet(x)
  BY <1>9, ConcatElements
<1> HIDE DEF x
<1>11. y \in Seq(C) /\ ToSet(x) \subseteq ToSet(y)
  BY <1>9, <1>10, ConcatElements
<1> HIDE DEF y
<1>12. y \o FlattenSeq(ll) \in Seq(C) /\ ToSet(y) \subseteq ToSet(y \o FlattenSeq(ll))
  BY <1>9, <1>11, ConcatElements
<1>13. Changes(prev, cur) = y \o FlattenSeq(ll)
  BY <1>1 DEF x, y
<1> QED
  BY <1>8, <1>10, <1>11, <1>12, <1>13 DEF C, U

-----------------------------------------------------------------------------
(* The events.                                                             *)

(* A new pair is announced for a new pool, and for nothing else.           *)
LEMMA PossibleChanges ==
    ASSUME NEW prev \in Snaps, NEW cur \in Snaps, NEW c \in Possible(prev, cur),
           c.type /= "REMOVED_POOL", EventType(c) = "NEW_PAIR"
    PROVE  c.address \in Addresses(cur.pairs)
<1>1. CASE c \in NewPools(cur)
  <2>1. PICK q \in ToSet(cur.pairs) : c = Change("NEW_POOL", q.address, 0, 0)
    BY <1>1 DEF NewPools
  <2>2. c.address = q.address
    BY <2>1 DEF Change
  <2> QED
    BY <2>2, AddressElements
<1>2. CASE c \in RemovedPools(prev)
  BY <1>2 DEF RemovedPools, Change
<1>3. CASE c \in PairsMoved(prev, cur)
  <2>1. c.type = "LIQUIDITY_CHANGED" \/ c.type = "VOLUME_CHANGED" \/ c.type = "SCORE_CHANGED"
    BY <1>3 DEF PairsMoved, PairMoves, Change
  <2>2. CASE c.type = "LIQUIDITY_CHANGED"
    <3>1. EventType(c) = "LIQUIDITY_SPIKE" \/ EventType(c) = "LIQUIDITY_DROP"
      BY <2>2, Zenon DEF EventType
    <3> QED
      BY <3>1
  <2>3. CASE c.type = "VOLUME_CHANGED"
    <3>1. EventType(c) = "VOLUME_SPIKE"
      BY <2>3, Zenon DEF EventType
    <3> QED
      BY <3>1
  <2>4. CASE c.type = "SCORE_CHANGED"
    <3>1. EventType(c) = "SCORE_CHANGED"
      BY <2>4, Zenon DEF EventType
    <3> QED
      BY <3>1
  <2> QED
    BY <2>1, <2>2, <2>3, <2>4
<1>4. CASE c \in TokensMoved(prev, cur)
  <2>1. c.type = "HOLDER_CHANGED"
    BY <1>4 DEF TokensMoved, TokenMoves, Change
  <2>2. EventType(c) = "HOLDER_GROWTH"
    BY <2>1, Zenon DEF EventType
  <2> QED
    BY <2>2
<1> QED
  BY <1>1, <1>2, <1>3, <1>4 DEF Possible

EventOf(c) == [type |-> EventType(c), of |-> c]

(* The events are those of the changes that are not removals, and one      *)
(* MARKET_ALERT.                                                           *)
LEMMA EventsElements ==
    ASSUME NEW C, NEW changes \in Seq(C)
    PROVE  /\ Events(changes) \in Seq(ToSet(Events(changes)))
           /\ \A c \in ToSet(changes) :
                c.type /= "REMOVED_POOL" => EventOf(c) \in ToSet(Events(changes))
           /\ \A e \in ToSet(Events(changes)) :
                \/ e.type = "MARKET_ALERT"
                \/ e.of \in C /\ e = EventOf(e.of) /\ e.of.type /= "REMOVED_POOL"
<1> DEFINE T == {EventOf(c) : c \in C}
           items == [i \in DOMAIN changes |-> EventOf(changes[i])]
           K == {e \in T : e.of.type /= "REMOVED_POOL"}
           ss == [i \in DOMAIN items |-> IF items[i] \in K THEN <<items[i]>> ELSE <<>>]
           alert == [type |-> "MARKET_ALERT", of |-> changes[1]]
           last == If(changes /= <<>>, alert)
           S == T \cup {alert}
<1>1. /\ DOMAIN changes = 1 .. Len(changes) /\ Len(changes) \in Nat
      /\ \A i \in DOMAIN changes : changes[i] \in C
  OBVIOUS
<1>2. \A c \in C : EventOf(c) \in T /\ EventOf(c).of = c
  BY DEF EventOf
<1>3. /\ DOMAIN items = DOMAIN changes
      /\ \A i \in DOMAIN changes : items[i] = EventOf(changes[i])
  OBVIOUS
<1>4. \A i \in DOMAIN changes : items[i] \in K <=> changes[i].type /= "REMOVED_POOL"
  BY <1>1, <1>2, <1>3
<1>5. items \in Seq(T)
  <2>1. items \in [1 .. Len(changes) -> T]
    BY <1>1, <1>2
  <2> HIDE DEF items, T
  <2> QED
    BY <1>1, <2>1, FunctionIsSequence
<1>6. Events(changes) = Kept(items, K) \o last
  <2>1. [i \in DOMAIN changes |-> If(changes[i].type /= "REMOVED_POOL", EventOf(changes[i]))] = ss
    <3> HIDE DEF items, K
    <3> QED
      BY <1>3, <1>4 DEF If
  <2>2. Kept(items, K) = FlattenSeq(ss)
    BY DEF Kept
  <2> HIDE DEF ss
  <2> QED
    BY <2>1, <2>2 DEF Events, Each, EventOf
<1> HIDE DEF items
<1>7. Kept(items, K) \in Seq(T) /\ ToSet(Kept(items, K)) = ToSet(items) \cap K
  <2> HIDE DEF K, T
  <2> QED
    BY <1>5, KeptElements
<1>8. last \in Seq({alert}) /\ ToSet(last) \subseteq {alert}
  <2> HIDE DEF alert
  <2>1. <<alert>> \in Seq({alert}) /\ <<>> \in Seq({alert})
    OBVIOUS
  <2> QED
    BY <2>1, SingleElement DEF If
<1>9. last \in Seq(S) /\ Kept(items, K) \in Seq(S)
  <2> HIDE DEF last, alert, T
  <2>1. {alert} \subseteq S /\ T \subseteq S
    OBVIOUS
  <2> HIDE DEF S
  <2> QED
    BY <1>7, <1>8, <2>1, LargerSequence
<1>10. /\ Events(changes) \in Seq(S)
       /\ ToSet(Events(changes)) = (ToSet(items) \cap K) \cup ToSet(last)
  <2> HIDE DEF last, S, K
  <2> QED
    BY <1>6, <1>7, <1>9, ConcatElements
<1>11. Events(changes) \in Seq(ToSet(Events(changes)))
  <2> HIDE DEF S
  <2>1. /\ Events(changes) \in [1 .. Len(Events(changes)) -> ToSet(Events(changes))]
        /\ Len(Events(changes)) \in Nat
    BY <1>10 DEF ToSet
  <2> QED
    BY <2>1, FunctionIsSequence
<1>12. ASSUME NEW c \in ToSet(changes), c.type /= "REMOVED_POOL"
       PROVE  EventOf(c) \in ToSet(Events(changes))
  <2>1. PICK i \in DOMAIN changes : changes[i] = c
    BY DEF ToSet
  <2>2. items[i] = EventOf(c) /\ items[i] \in K /\ i \in DOMAIN items
    BY <1>3, <1>4, <1>12, <2>1
  <2>3. EventOf(c) \in ToSet(items)
    BY <2>2 DEF ToSet
  <2> QED
    BY <1>10, <2>2, <2>3
<1>13. ASSUME NEW e \in ToSet(Events(changes))
       PROVE  \/ e.type = "MARKET_ALERT"
              \/ e.of \in C /\ e = EventOf(e.of) /\ e.of.type /= "REMOVED_POOL"
  <2>1. CASE e \in K
    BY <1>2, <2>1
  <2>2. CASE e = alert
    BY <2>2
  <2> HIDE DEF K, last, alert
  <2> QED
    BY <1>8, <1>10, <2>1, <2>2
<1> QED
  BY <1>11, <1>12, <1>13

(* The events of a delta: each of its new pairs is announced, and only     *)
(* pairs of the new snapshot are.                                          *)
Announces(events, prev, cur) ==
    /\ events \in Seq(ToSet(events))
    /\ \A i \in OfType(events, "NEW_PAIR") : events[i].of.address \in Addresses(cur.pairs)
    /\ \A a \in Addresses(cur.pairs) \ Addresses(prev.pairs) :
         \E i \in OfType(events, "NEW_PAIR") : events[i].of.address = a

EventsOf(prev, cur) == Events(detect(prev, cur).changes)

LEMMA AnnouncedAddresses ==
    ASSUME NEW prev \in Snaps, NEW cur \in Snaps
    PROVE  Announces(EventsOf(prev, cur), prev, cur)
<1> DEFINE events == EventsOf(prev, cur)
<1> DEFINE C == Possible(prev, cur)
           changes == Changes(prev, cur)
<1>1. /\ changes \in Seq(C)
      /\ \A q \in ToSet(Unknown(cur.pairs, prev.pairs)) :
           Change("NEW_POOL", q.address, 0, 0) \in ToSet(changes)
  BY ChangesElements
<1>2. events = Events(changes)
  BY DEF EventsOf, detect
<1> HIDE DEF changes, C, events
<1>3. /\ events \in Seq(ToSet(events))
      /\ \A c \in ToSet(changes) : c.type /= "REMOVED_POOL" => EventOf(c) \in ToSet(events)
      /\ \A e \in ToSet(events) :
           \/ e.type = "MARKET_ALERT"
           \/ e.of \in C /\ e = EventOf(e.of) /\ e.of.type /= "REMOVED_POOL"
  BY <1>1, <1>2, EventsElements
<1>4. ASSUME NEW i \in OfType(events, "NEW_PAIR")
      PROVE  events[i].of.address \in Addresses(cur.pairs)
  <2> DEFINE e == events[i]
  <2>1. e \in ToSet(events) /\ e.type = "NEW_PAIR"
    BY DEF OfType, ToSet
  <2> HIDE DEF e
  <2>2. e.of \in C /\ e = EventOf(e.of) /\ e.of.type /= "REMOVED_POOL"
    BY <1>3, <2>1
  <2>3. EventType(e.of) = "NEW_PAIR"
    BY <2>1, <2>2 DEF EventOf
  <2>4. e.of.address \in Addresses(cur.pairs)
    BY <2>2, <2>3, PossibleChanges DEF C
  <2> QED
    BY <2>4 DEF e
<1>5. ASSUME NEW a \in Addresses(cur.pairs) \ Addresses(prev.pairs)
      PROVE  \E i \in OfType(events, "NEW_PAIR") : events[i].of.address = a
  <2>1. a \in {x.address : x \in ToSet(Unknown(cur.pairs, prev.pairs))}
    <3>1. cur.pairs \in Seq(ToSet(cur.pairs))
      BY SnapshotSequences
    <3>2. a \in Addresses(Unknown(cur.pairs, prev.pairs))
      BY <3>1, SplitAddresses
    <3> QED
      BY <3>2, AddressElements
  <2>2. PICK q \in ToSet(Unknown(cur.pairs, prev.pairs)) : q.address = a
    BY <2>1
  <2> DEFINE c == Change("NEW_POOL", a, 0, 0)
  <2>3. c \in ToSet(changes) /\ c.type = "NEW_POOL" /\ c.address = a
    BY <1>1, <2>2 DEF Change
  <2> HIDE DEF c
  <2>4. EventOf(c) \in ToSet(events)
    BY <1>3, <2>3
  <2>5. PICK i \in DOMAIN events : events[i] = EventOf(c)
    BY <2>4 DEF ToSet
  <2>6. EventType(c) = "NEW_PAIR"
    BY <2>3, Zenon DEF EventType
  <2>7. events[i].type = "NEW_PAIR" /\ events[i].of = c
    BY <2>5, <2>6 DEF EventOf
  <2> QED
    BY <2>3, <2>7 DEF OfType
<1>6. Announces(events, prev, cur)
  BY <1>3, <1>4, <1>5, Zenon DEF Announces
<1> QED
  BY <1>6 DEF events

-----------------------------------------------------------------------------
(* How many events of a type are emitted and counted.                      *)

Upto(events, t, k)   == Cardinality({i \in OfType(events, t) : i <= k})
Before(events, t, k) == Cardinality({i \in OfType(events, t) : i < k})

LEMMA EventNumbers ==
    ASSUME NEW T, NEW events \in Seq(T), NEW t, NEW I \in SUBSET OfType(events, t)
    PROVE  IsFiniteSet(I) /\ Cardinality(I) \in Nat
<1>1. DOMAIN events = 1 .. Len(events) /\ Len(events) \in Nat
  OBVIOUS
<1>2. I \subseteq 1 .. Len(events)
  BY <1>1 DEF OfType
<1>3. IsFiniteSet(1 .. Len(events))
  BY <1>1, FS_Interval
<1>4. IsFiniteSet(I)
  BY <1>2, <1>3, FS_Subset
<1> QED
  BY <1>4, FS_CardinalityType

LEMMA CountsAreNumbers ==
    ASSUME NEW T, NEW events \in Seq(T), NEW t, NEW k
    PROVE  Upto(events, t, k) \in Nat /\ Before(events, t, k) \in Nat
  BY EventNumbers DEF Upto, Before

(* A refresh that gets through counts what it emits; one that a listener   *)
(* ends at event n counts all it has emitted but that one.                 *)
LEMMA AllCounted ==
    ASSUME NEW T, NEW events \in Seq(T), NEW t
    PROVE  Upto(events, t, Len(events)) = Before(events, t, Len(events) + 1)
<1>1. \A i \in OfType(events, t) : i \in Int /\ Len(events) \in Int
  BY DEF OfType
<1>2. {i \in OfType(events, t) : i <= Len(events)} = {i \in OfType(events, t) : i < Len(events) + 1}
  BY <1>1
<1> QED
  BY <1>2 DEF Upto, Before

LEMMA AllButOneCounted ==
    ASSUME NEW T, NEW events \in Seq(T), NEW t, NEW n \in DOMAIN events, NEW had \in {n - 1, n}
    PROVE  /\ Before(events, t, n) <= Upto(events, t, had)
           /\ Upto(events, t, had) <= Before(events, t, n) + 1
           /\ events[n].type /= t => Upto(events, t, had) = Before(events, t, n)
<1> DEFINE A == {i \in OfType(events, t) : i <= had}
           B == {i \in OfType(events, t) : i < n}
<1>1. /\ n \in Int /\ had \in Int /\ (had = n - 1 \/ had = n)
      /\ \A i \in OfType(events, t) : i \in Int /\ events[i].type = t
  BY DEF OfType
<1>2. IsFiniteSet(A) /\ IsFiniteSet(B) /\ Cardinality(A) \in Nat /\ Cardinality(B) \in Nat
  BY EventNumbers
<1>3. Upto(events, t, had) = Cardinality(A) /\ Before(events, t, n) = Cardinality(B)
  BY DEF Upto, Before
<1>4. B \subseteq A /\ A \subseteq B \cup {n} /\ (events[n].type /= t => n \notin A) /\ n \notin B
  BY <1>1
<1> HIDE DEF A, B
<1>5. Cardinality(B) <= Cardinality(A)
  BY <1>2, <1>4, FS_Subset
<1>6. CASE n \in A
  <2>1. A = B \cup {n}
    BY <1>4, <1>6
  <2>2. Cardinality(B \cup {n}) = Cardinality(B) + 1
    BY <1>2, <1>4, FS_AddElement
  <2> QED
    BY <1>2, <1>3, <1>4, <1>5, <1>6, <2>1, <2>2
<1>7. CASE n \notin A
  <2>1. A = B
    BY <1>4, <1>7
  <2> QED
    BY <1>2, <1>3, <2>1
<1> QED
  BY <1>6, <1>7

(* One more refresh that a listener has ended, at an event of type u.      *)
LEMMA OneMoreCut ==
    ASSUME NEW k \in Nat, NEW u \in EventTypes, NEW last \in [1 .. k -> EventTypes]
    PROVE  \E longer \in [1 .. k + 1 -> EventTypes] :
             \A t : LET M == Cardinality({r \in 1 .. k : last[r] = t})
                        N == Cardinality({r \in 1 .. k + 1 : longer[r] = t})
                    IN  M \in Nat /\ N = IF u = t THEN M + 1 ELSE M
<1> DEFINE longer == [r \in 1 .. k + 1 |-> IF r = k + 1 THEN u ELSE last[r]]
<1>1. longer \in [1 .. k + 1 -> EventTypes]
  OBVIOUS
<1>2. /\ longer[k + 1] = u /\ k + 1 \notin 1 .. k /\ 1 .. k + 1 = (1 .. k) \cup {k + 1}
      /\ \A r \in 1 .. k : longer[r] = last[r]
  OBVIOUS
<1> HIDE DEF longer
<1>3. ASSUME NEW t
      PROVE  LET M == Cardinality({r \in 1 .. k : last[r] = t})
                 N == Cardinality({r \in 1 .. k + 1 : longer[r] = t})
             IN  M \in Nat /\ N = IF u = t THEN M + 1 ELSE M
  <2> DEFINE A == {r \in 1 .. k : last[r] = t}
             B == {r \in 1 .. k + 1 : longer[r] = t}
  <2>1. A \subseteq 1 .. k /\ k + 1 \notin A
    BY <1>2
  <2>2. B = IF u = t THEN A \cup {k + 1} ELSE A
    BY <1>2
  <2> HIDE DEF A, B
  <2>3. IsFiniteSet(1 .. k)
    BY FS_Interval
  <2>4. IsFiniteSet(A)
    BY <2>1, <2>3, FS_Subset
  <2>5. Cardinality(A) \in Nat
    BY <2>4, FS_CardinalityType
  <2>6. Cardinality(A \cup {k + 1}) = Cardinality(A) + 1
    BY <2>1, <2>4, FS_AddElement
  <2>7. Cardinality(A) \in Nat /\ Cardinality(B) = IF u = t THEN Cardinality(A) + 1 ELSE Cardinality(A)
    BY <2>2, <2>5, <2>6
  <2> QED
    BY <2>7 DEF A, B
<1> QED
  BY <1>1, <1>3

-----------------------------------------------------------------------------
(* The inductive invariant.                                                *)

Active == {s \in Slots : pc[s] /= "idle"}

Numbers ==
    /\ announced \subseteq UNION {Addresses(s.pairs) : s \in Snapshots}
    /\ eventCounts \in [EventTypes -> Nat]
    /\ heard \in [EventTypes -> Nat]
    /\ cut \in Nat
    /\ runs \in 0 .. MaxRuns

Typed ==
    /\ pc \in [Slots -> {"idle", "fetched", "saving"}]
    /\ found \in [Slots -> Snaps]
    /\ previous \in Snaps
    /\ Len(latestDelta) <= 1

(* A refresh that a listener ended is over: those and the ones under way   *)
(* have all been started.                                                  *)
RefreshesAccounted == IsFiniteSet(Active) /\ cut + Cardinality(Active) <= runs

IInv == Typed /\ Numbers /\ RefreshesAccounted /\ AnnouncedBeforeAdopted /\ CountsFollowEvents

LEMMA InitInv == Init => IInv
<1> SUFFICES ASSUME Init PROVE IInv
  OBVIOUS
<1>1. Typed
  BY DEF Init, Typed, Snaps, Nothing
<1>2. Numbers
  BY RunAssumption DEF Init, Numbers
<1>3. RefreshesAccounted
  <2>1. Active = {}
    BY DEF Init, Active
  <2>2. cut = 0 /\ runs = 0
    BY DEF Init
  <2> QED
    BY <2>1, <2>2, FS_EmptySet DEF RefreshesAccounted
<1>4. AnnouncedBeforeAdopted
  BY DEF Init, AnnouncedBeforeAdopted, Addresses, Empty
<1>5. CountsFollowEvents
  <2>1. <<>> \in [1 .. 0 -> EventTypes]
    OBVIOUS
  <2>2. ASSUME NEW t \in EventTypes
        PROVE  heard[t] - eventCounts[t] <= Cardinality({r \in 1 .. 0 : <<>>[r] = t})
    <3>1. {r \in 1 .. 0 : <<>>[r] = t} = {}
      OBVIOUS
    <3>2. heard[t] = 0 /\ eventCounts[t] = 0
      BY DEF Init
    <3> QED
      BY <3>1, <3>2, FS_EmptySet
  <2>3. cut = 0 /\ \A t \in EventTypes : eventCounts[t] <= heard[t]
    BY DEF Init
  <2> QED
    BY <2>1, <2>2, <2>3 DEF CountsFollowEvents
<1> QED
  BY <1>1, <1>2, <1>3, <1>4, <1>5 DEF IInv

(* What a refresh tells its listeners.                                     *)
LEMMA EmitFacts ==
    ASSUME Numbers, NEW T, NEW events \in Seq(T), NEW had, NEW thrown, Emit(events, had, thrown)
    PROVE  /\ heard' \in [EventTypes -> Nat]
           /\ eventCounts' \in [EventTypes -> Nat]
           /\ \A t \in EventTypes : heard'[t] = heard[t] + Upto(events, t, had)
           /\ \A t \in EventTypes : eventCounts'[t] = eventCounts[t] + Before(events, t, thrown)
<1>1. /\ heard' = [t \in EventTypes |-> heard[t] + Upto(events, t, had)]
      /\ eventCounts' = [t \in EventTypes |-> eventCounts[t] + Before(events, t, thrown)]
  BY DEF Emit, Upto, Before
<1>2. \A t \in EventTypes :
        /\ heard[t] \in Nat /\ eventCounts[t] \in Nat
        /\ Upto(events, t, had) \in Nat /\ Before(events, t, thrown) \in Nat
  BY CountsAreNumbers DEF Numbers
<1>3. \A t \in EventTypes :
        /\ heard[t] + Upto(events, t, had) \in Nat
        /\ eventCounts[t] + Before(events, t, thrown) \in Nat
  BY <1>2
<1> QED
  BY <1>1, <1>3

LEMMA AnnouncedGrows ==
    ASSUME Numbers, NEW prev \in Snaps, NEW cur \in Snaps, NEW events,
           Announces(events, prev, cur), NEW had, NEW thrown, Emit(events, had, thrown)
    PROVE  /\ announced \subseteq announced'
           /\ announced' \subseteq UNION {Addresses(s.pairs) : s \in Snapshots}
           /\ had = Len(events) => Addresses(cur.pairs) \ Addresses(prev.pairs) \subseteq announced'
<1> DEFINE told == {i \in OfType(events, "NEW_PAIR") : i <= had}
<1>1. announced' = announced \cup {events[i].of.address : i \in told}
  BY DEF Emit
<1>2. /\ events \in Seq(ToSet(events))
      /\ \A i \in OfType(events, "NEW_PAIR") : events[i].of.address \in Addresses(cur.pairs)
      /\ \A a \in Addresses(cur.pairs) \ Addresses(prev.pairs) :
           \E i \in OfType(events, "NEW_PAIR") : events[i].of.address = a
  BY DEF Announces
<1>3. Addresses(cur.pairs) \subseteq UNION {Addresses(s.pairs) : s \in Snapshots}
  <2>1. CASE cur \in Snapshots
    BY <2>1
  <2>2. CASE cur = Empty
    BY <2>2 DEF Empty, Addresses
  <2> QED
    BY <2>1, <2>2 DEF Snaps
<1>4. announced' \subseteq UNION {Addresses(s.pairs) : s \in Snapshots}
  <2>1. {events[i].of.address : i \in told} \subseteq Addresses(cur.pairs)
    BY <1>2
  <2> HIDE DEF told
  <2> QED
    BY <1>1, <1>3, <2>1 DEF Numbers
<1>5. ASSUME had = Len(events), NEW a \in Addresses(cur.pairs) \ Addresses(prev.pairs)
      PROVE  a \in announced'
  <2>1. PICK i \in OfType(events, "NEW_PAIR") : events[i].of.address = a
    BY <1>2
  <2>2. i \in 1 .. Len(events)
    BY <1>2 DEF OfType
  <2>3. i \in told
    BY <1>5, <2>2
  <2> QED
    BY <1>1, <2>1, <2>3
<1> QED
  BY <1>1, <1>4, <1>5

(* A refresh that computes, to the end or until a listener throws.         *)
LEMMA ComputeCase ==
    ASSUME Typed, NEW s \in Slots, Compute(s)
    PROVE  \E cur \in Snaps : \E events :
             /\ previous \in Snaps
             /\ Announces(events, previous, cur)
             /\ latestDelta' = <<detect(previous, cur)>>
             /\ Emit(events, Len(events), Len(events) + 1)
             /\ previous' = cur
<1>1. previous \in Snaps /\ found[s] \in Snaps
  BY DEF Typed
<1>2. Announces(EventsOf(previous, found[s]), previous, found[s])
  BY <1>1, AnnouncedAddresses
<1> DEFINE events == EventsOf(previous, found[s])
<1>3. /\ latestDelta' = <<detect(previous, found[s])>>
      /\ Emit(events, Len(events), Len(events) + 1)
      /\ previous' = found[s]
  BY Zenon DEF Compute, EventsOf
<1> QED
  BY <1>1, <1>2, <1>3, Zenon

LEMMA ThrowCase ==
    ASSUME Typed, NEW s \in Slots, ListenerThrows(s)
    PROVE  \E cur \in Snaps : \E events :
             /\ previous \in Snaps
             /\ Announces(events, previous, cur)
             /\ latestDelta' = <<detect(previous, cur)>>
             /\ \E n \in DOMAIN events : \E had \in {n - 1, n} : Emit(events, had, n)
<1>1. previous \in Snaps /\ found[s] \in Snaps
  BY DEF Typed
<1>2. Announces(EventsOf(previous, found[s]), previous, found[s])
  BY <1>1, AnnouncedAddresses
<1> DEFINE events == EventsOf(previous, found[s])
<1>3. /\ latestDelta' = <<detect(previous, found[s])>>
      /\ \E n \in DOMAIN events : \E had \in {n - 1, n} : Emit(events, had, n)
  BY Zenon DEF ListenerThrows, EventsOf
<1> QED
  BY <1>1, <1>2, <1>3, Zenon

LEMMA TypedStep == Typed /\ [Next]_vars => Typed'
<1> SUFFICES ASSUME Typed, [Next]_vars PROVE Typed'
  OBVIOUS
<1>1. ASSUME NEW s \in Slots, Fetch(s) PROVE Typed'
  BY <1>1 DEF Typed, Fetch, Snaps
<1>2. ASSUME NEW s \in Slots, Compute(s) PROVE Typed'
  <2>1. pc' \in [Slots -> {"idle", "fetched", "saving"}] /\ found' \in [Slots -> Snaps]
    BY <1>2 DEF Typed, Compute
  <2>2. previous' \in Snaps /\ \E d : latestDelta' = <<d>>
    BY <1>2, ComputeCase, Zenon
  <2>3. Len(latestDelta') <= 1
    BY <2>2
  <2> QED
    BY <2>1, <2>2, <2>3 DEF Typed
<1>3. ASSUME NEW s \in Slots, ListenerThrows(s) PROVE Typed'
  <2>1. /\ pc' \in [Slots -> {"idle", "fetched", "saving"}] /\ found' \in [Slots -> Snaps]
        /\ previous' \in Snaps
    BY <1>3 DEF Typed, ListenerThrows, Snaps
  <2>2. \E d : latestDelta' = <<d>>
    BY <1>3, ThrowCase, Zenon
  <2>3. Len(latestDelta') <= 1
    BY <2>2
  <2> QED
    BY <2>1, <2>3 DEF Typed
<1>4. ASSUME NEW s \in Slots, Saved(s) PROVE Typed'
  BY <1>4 DEF Typed, Saved, Snaps
<1>5. CASE UNCHANGED vars
  BY <1>5 DEF Typed, vars
<1> QED
  BY <1>1, <1>2, <1>3, <1>4, <1>5 DEF Next

LEMMA NumbersStep == Typed /\ Numbers /\ [Next]_vars => Numbers'
<1> SUFFICES ASSUME Typed, Numbers, [Next]_vars PROVE Numbers'
  OBVIOUS
<1>1. ASSUME NEW s \in Slots, Fetch(s) PROVE Numbers'
  BY <1>1, RunAssumption DEF Numbers, Fetch, eventVars
<1>2. ASSUME NEW s \in Slots, Compute(s) PROVE Numbers'
  <2>1. PICK cur, events :
          /\ cur \in Snaps
          /\ previous \in Snaps
          /\ Announces(events, previous, cur)
          /\ Emit(events, Len(events), Len(events) + 1)
    BY <1>2, ComputeCase, Zenon
  <2>2. announced' \subseteq UNION {Addresses(x.pairs) : x \in Snapshots}
    BY <2>1, AnnouncedGrows
  <2>3. heard' \in [EventTypes -> Nat] /\ eventCounts' \in [EventTypes -> Nat]
    BY <2>1, EmitFacts DEF Announces
  <2>4. cut' = cut /\ runs' = runs
    BY <1>2 DEF Compute
  <2> QED
    BY <2>2, <2>3, <2>4 DEF Numbers
<1>3. ASSUME NEW s \in Slots, ListenerThrows(s) PROVE Numbers'
  <2>1. PICK cur, events :
          /\ cur \in Snaps
          /\ previous \in Snaps
          /\ Announces(events, previous, cur)
          /\ \E n \in DOMAIN events : \E had \in {n - 1, n} : Emit(events, had, n)
    BY <1>3, ThrowCase, Zenon
  <2>2. PICK n, had : Emit(events, had, n)
    BY <2>1
  <2>3. announced' \subseteq UNION {Addresses(x.pairs) : x \in Snapshots}
    BY <2>1, <2>2, AnnouncedGrows
  <2>4. heard' \in [EventTypes -> Nat] /\ eventCounts' \in [EventTypes -> Nat]
    BY <2>1, <2>2, EmitFacts DEF Announces
  <2>5. cut' = cut + 1 /\ runs' = runs
    BY <1>3 DEF ListenerThrows
  <2> QED
    BY <2>3, <2>4, <2>5 DEF Numbers
<1>4. ASSUME NEW s \in Slots, Saved(s) PROVE Numbers'
  BY <1>4 DEF Numbers, Saved, eventVars
<1>5. CASE UNCHANGED vars
  BY <1>5 DEF Numbers, vars, eventVars
<1> QED
  BY <1>1, <1>2, <1>3, <1>4, <1>5 DEF Next

LEMMA RefreshesStep == Typed /\ Numbers /\ RefreshesAccounted /\ [Next]_vars => RefreshesAccounted'
<1> SUFFICES ASSUME Typed, Numbers, RefreshesAccounted, [Next]_vars PROVE RefreshesAccounted'
  OBVIOUS
<1>1. /\ IsFiniteSet(Active) /\ Cardinality(Active) \in Nat /\ cut + Cardinality(Active) <= runs
      /\ cut \in Nat /\ runs \in Nat
  BY FS_CardinalityType, RunAssumption DEF RefreshesAccounted, Numbers
<1>2. ASSUME NEW s \in Slots, Fetch(s) PROVE RefreshesAccounted'
  <2>1. Active' = Active \cup {s} /\ runs' = runs + 1 /\ cut' = cut
    BY <1>2 DEF Active, Fetch, Typed, eventVars
  <2>2. /\ IsFiniteSet(Active \cup {s})
        /\ Cardinality(Active \cup {s}) = IF s \in Active THEN Cardinality(Active)
                                                         ELSE Cardinality(Active) + 1
    BY <1>1, FS_AddElement
  <2> QED
    BY <1>1, <2>1, <2>2 DEF RefreshesAccounted
<1>3. ASSUME NEW s \in Slots, Compute(s) PROVE RefreshesAccounted'
  <2>1. Active' = Active /\ runs' = runs /\ cut' = cut
    BY <1>3 DEF Active, Compute, Typed
  <2> QED
    BY <1>1, <2>1 DEF RefreshesAccounted
<1>4. ASSUME NEW s \in Slots, ListenerThrows(s) PROVE RefreshesAccounted'
  <2>1. Active' = Active \ {s} /\ s \in Active /\ runs' = runs /\ cut' = cut + 1
    BY <1>4 DEF Active, ListenerThrows, Typed
  <2>2. /\ IsFiniteSet(Active \ {s})
        /\ Cardinality(Active \ {s}) = IF s \in Active THEN Cardinality(Active) - 1
                                                      ELSE Cardinality(Active)
    BY <1>1, FS_RemoveElement
  <2> QED
    BY <1>1, <2>1, <2>2 DEF RefreshesAccounted
<1>5. ASSUME NEW s \in Slots, Saved(s) PROVE RefreshesAccounted'
  <2>1. Active' = Active \ {s} /\ runs' = runs /\ cut' = cut
    BY <1>5 DEF Active, Saved, Typed, eventVars
  <2>2. /\ IsFiniteSet(Active \ {s})
        /\ Cardinality(Active \ {s}) = IF s \in Active THEN Cardinality(Active) - 1
                                                      ELSE Cardinality(Active)
    BY <1>1, FS_RemoveElement
  <2> QED
    BY <1>1, <2>1, <2>2 DEF RefreshesAccounted
<1>6. CASE UNCHANGED vars
  <2>1. Active' = Active /\ runs' = runs /\ cut' = cut
    BY <1>6 DEF Active, vars, eventVars
  <2> QED
    BY <1>1, <2>1 DEF RefreshesAccounted
<1> QED
  BY <1>2, <1>3, <1>4, <1>5, <1>6 DEF Next

LEMMA AdoptionStep ==
    Typed /\ Numbers /\ AnnouncedBeforeAdopted /\ [Next]_vars => AnnouncedBeforeAdopted'
<1> SUFFICES ASSUME Typed, Numbers, AnnouncedBeforeAdopted, [Next]_vars
             PROVE  AnnouncedBeforeAdopted'
  OBVIOUS
<1>1. ASSUME NEW s \in Slots, Compute(s) PROVE AnnouncedBeforeAdopted'
  <2>1. PICK cur, events :
          /\ cur \in Snaps
          /\ previous \in Snaps
          /\ Announces(events, previous, cur)
          /\ Emit(events, Len(events), Len(events) + 1)
          /\ previous' = cur
    BY <1>1, ComputeCase, Zenon
  <2>2. /\ announced \subseteq announced'
        /\ Addresses(cur.pairs) \ Addresses(previous.pairs) \subseteq announced'
    BY <2>1, AnnouncedGrows
  <2> QED
    BY <2>1, <2>2 DEF AnnouncedBeforeAdopted
<1>2. ASSUME NEW s \in Slots, ListenerThrows(s) PROVE AnnouncedBeforeAdopted'
  <2>1. PICK cur, events :
          /\ cur \in Snaps
          /\ previous \in Snaps
          /\ Announces(events, previous, cur)
          /\ \E n \in DOMAIN events : \E had \in {n - 1, n} : Emit(events, had, n)
    BY <1>2, ThrowCase, Zenon
  <2>2. PICK n, had : Emit(events, had, n)
    BY <2>1
  <2>3. announced \subseteq announced'
    BY <2>1, <2>2, AnnouncedGrows
  <2>4. previous' = previous
    BY <1>2 DEF ListenerThrows
  <2> QED
    BY <2>3, <2>4 DEF AnnouncedBeforeAdopted
<1>3. ASSUME NEW s \in Slots, Fetch(s) \/ Saved(s) PROVE AnnouncedBeforeAdopted'
  BY <1>3 DEF AnnouncedBeforeAdopted, Fetch, Saved, eventVars
<1>4. CASE UNCHANGED vars
  BY <1>4 DEF AnnouncedBeforeAdopted, vars, eventVars
<1> QED
  BY <1>1, <1>2, <1>3, <1>4 DEF Next

LEMMA CountsStep == Typed /\ Numbers /\ CountsFollowEvents /\ [Next]_vars => CountsFollowEvents'
<1> SUFFICES ASSUME Typed, Numbers, CountsFollowEvents, [Next]_vars PROVE CountsFollowEvents'
  OBVIOUS
<1>1. PICK last \in [1 .. cut -> EventTypes] : \A t \in EventTypes :
        heard[t] - eventCounts[t] <= Cardinality({r \in 1 .. cut : last[r] = t})
  BY DEF CountsFollowEvents
<1>2. /\ cut \in Nat
      /\ \A t \in EventTypes : /\ heard[t] \in Nat /\ eventCounts[t] \in Nat
                               /\ eventCounts[t] <= heard[t]
  BY DEF Numbers, CountsFollowEvents
<1>3. ASSUME NEW s \in Slots, Compute(s) PROVE CountsFollowEvents'
  <2>1. PICK cur, events :
          /\ cur \in Snaps
          /\ Announces(events, previous, cur)
          /\ Emit(events, Len(events), Len(events) + 1)
    BY <1>3, ComputeCase, Zenon
  <2>2. events \in Seq(ToSet(events))
    BY <2>1 DEF Announces
  <2>3. ASSUME NEW t \in EventTypes
        PROVE  eventCounts'[t] <= heard'[t] /\ heard'[t] - eventCounts'[t] = heard[t] - eventCounts[t]
    <3> DEFINE n == Before(events, t, Len(events) + 1)
    <3>1. n \in Nat /\ Upto(events, t, Len(events)) = n
      BY <2>2, CountsAreNumbers, AllCounted
    <3>2. heard'[t] = heard[t] + Upto(events, t, Len(events)) /\ eventCounts'[t] = eventCounts[t] + n
      BY <2>1, <2>2, EmitFacts
    <3> HIDE DEF n
    <3> QED
      BY <1>2, <3>1, <3>2
  <2>4. cut' = cut
    BY <1>3 DEF Compute
  <2>5. \A t \in EventTypes : heard'[t] - eventCounts'[t] <= Cardinality({r \in 1 .. cut : last[r] = t})
    BY <1>1, <2>3
  <2> QED
    BY <2>3, <2>4, <2>5 DEF CountsFollowEvents
<1>4. ASSUME NEW s \in Slots, ListenerThrows(s) PROVE CountsFollowEvents'
  <2>1. PICK cur, events :
          /\ cur \in Snaps
          /\ Announces(events, previous, cur)
          /\ \E n \in DOMAIN events : \E had \in {n - 1, n} : Emit(events, had, n)
    BY <1>4, ThrowCase, Zenon
  <2>2. events \in Seq(ToSet(events))
    BY <2>1 DEF Announces
  <2>3. PICK n, had : n \in DOMAIN events /\ had \in {n - 1, n} /\ Emit(events, had, n)
    BY <2>1
  <2> DEFINE u == IF events[n].type \in EventTypes THEN events[n].type ELSE "NEW_PAIR"
  <2>4. u \in EventTypes
    BY DEF EventTypes
  <2>5. PICK longer \in [1 .. cut + 1 -> EventTypes] :
          \A t : LET M == Cardinality({r \in 1 .. cut : last[r] = t})
                     N == Cardinality({r \in 1 .. cut + 1 : longer[r] = t})
                 IN  M \in Nat /\ N = IF u = t THEN M + 1 ELSE M
    <3> HIDE DEF u
    <3> QED
      BY <1>2, <2>4, OneMoreCut
  <2>6. ASSUME NEW t \in EventTypes
        PROVE  /\ eventCounts'[t] <= heard'[t]
               /\ heard'[t] - eventCounts'[t] <= Cardinality({r \in 1 .. cut + 1 : longer[r] = t})
    <3> DEFINE M == Cardinality({r \in 1 .. cut : last[r] = t})
               N == Cardinality({r \in 1 .. cut + 1 : longer[r] = t})
               h == Upto(events, t, had)
               c == Before(events, t, n)
    <3>1. h \in Nat /\ c \in Nat
      BY <2>2, CountsAreNumbers
    <3>2. c <= h /\ h <= c + 1 /\ (events[n].type /= t => h = c)
      BY <2>2, <2>3, AllButOneCounted
    <3>3. heard'[t] = heard[t] + h /\ eventCounts'[t] = eventCounts[t] + c
      BY <2>2, <2>3, EmitFacts
    <3>4. M \in Nat /\ N = IF u = t THEN M + 1 ELSE M
      <4> HIDE DEF u
      <4> QED
        BY <2>5
    <3>5. heard[t] - eventCounts[t] <= M
      BY <1>1
    <3>6. events[n].type = t => u = t
      OBVIOUS
    <3> HIDE DEF M, N, h, c, u
    <3>7. heard[t] \in Nat /\ eventCounts[t] \in Nat /\ eventCounts[t] <= heard[t]
      BY <1>2
    <3>8. ASSUME NEW x \in Nat, NEW y \in Nat, NEW v \in Nat, NEW w \in Nat, NEW z \in Int,
                 y <= x, w <= v, x - y <= z, v - w <= 1
          PROVE  y + w <= x + v /\ (x + v) - (y + w) <= z + 1
      BY <3>8
    <3>9. ASSUME NEW x \in Nat, NEW y \in Nat, NEW v \in Nat, y <= x
          PROVE  y + v <= x + v /\ (x + v) - (y + v) = x - y
      BY <3>9
    <3>10. CASE h = c
      <4>1. eventCounts'[t] <= heard'[t] /\ heard'[t] - eventCounts'[t] = heard[t] - eventCounts[t]
        BY <3>1, <3>3, <3>7, <3>9, <3>10
      <4>2. M <= N
        BY <3>4
      <4>3. heard[t] - eventCounts[t] \in Int /\ N \in Int
        BY <3>4, <3>7
      <4> QED
        BY <3>4, <3>5, <4>1, <4>2, <4>3 DEF N
    <3>11. CASE h /= c
      <4>1. N = M + 1
        BY <3>2, <3>4, <3>6, <3>11
      <4>2. h - c <= 1
        BY <3>1, <3>2
      <4>3. /\ eventCounts[t] + c <= heard[t] + h
            /\ (heard[t] + h) - (eventCounts[t] + c) <= M + 1
        BY <3>1, <3>2, <3>4, <3>5, <3>7, <3>8, <4>2
      <4> QED
        BY <3>3, <4>1, <4>3 DEF N
    <3> QED
      BY <3>10, <3>11
  <2>7. cut' = cut + 1
    BY <1>4 DEF ListenerThrows
  <2> QED
    BY <2>6, <2>7 DEF CountsFollowEvents
<1>5. ASSUME heard' = heard, eventCounts' = eventCounts, cut' = cut PROVE CountsFollowEvents'
  BY <1>5 DEF CountsFollowEvents
<1>6. ASSUME NEW s \in Slots, Fetch(s) \/ Saved(s) PROVE CountsFollowEvents'
  BY <1>5, <1>6 DEF Fetch, Saved, eventVars
<1>7. CASE UNCHANGED vars
  BY <1>5, <1>7 DEF vars, eventVars
<1> QED
  BY <1>3, <1>4, <1>6, <1>7 DEF Next

LEMMA IInvCorrect == Spec => []IInv
<1>1. Init => IInv
  BY InitInv
<1>2. IInv /\ [Next]_vars => IInv'
  BY TypedStep, NumbersStep, RefreshesStep, AdoptionStep, CountsStep DEF IInv
<1> QED
  BY <1>1, <1>2, PTL DEF Spec

-----------------------------------------------------------------------------
(* Every variable keeps its type, and no more refreshes are cut short than *)
(* were started (DiscoveryEngine.ts:112-171).                              *)
THEOREM TypeCorrect == Spec => []TypeOK
<1>1. IInv => TypeOK
  <2> SUFFICES ASSUME IInv PROVE TypeOK
    OBVIOUS
  <2>1. Cardinality(Active) \in Nat /\ cut + Cardinality(Active) <= runs
    BY FS_CardinalityType DEF IInv, RefreshesAccounted
  <2>2. cut \in 0 .. runs
    BY <2>1, RunAssumption DEF IInv, Numbers
  <2> QED
    BY <2>2 DEF IInv, Typed, Numbers, Snaps, TypeOK
<1> QED
  BY <1>1, IInvCorrect, PTL

(* Whatever discovery finds, whichever slot computes and whenever a        *)
(* listener throws, no pair becomes known to the engine without every      *)
(* listener having had its NEW_PAIR event (DiscoveryEngine.ts:118-171).    *)
THEOREM AdoptionCorrect == Spec => []AnnouncedBeforeAdopted
<1>1. IInv => AnnouncedBeforeAdopted
  BY DEF IInv
<1> QED
  BY <1>1, IInvCorrect, PTL

(* The event counters follow the events to within the one at which each    *)
(* refresh was cut short (DiscoveryEngine.ts:121-168).                     *)
THEOREM CountsCorrect == Spec => []CountsFollowEvents
<1>1. IInv => CountsFollowEvents
  BY DEF IInv
<1> QED
  BY <1>1, IInvCorrect, PTL

(* The kept delta leads from the previous snapshot to the adopted one, for *)
(* any two snapshots (DeltaEngine.ts:11-47, DiscoveryEngine.ts:112-171).   *)
THEOREM DeltaCorrect == Spec => DeltaLeadsToSnapshot
<1> DEFINE Leads == previous' /= previous =>
                      LET d == latestDelta'[1]
                          before == Addresses(previous.pairs)
                          now    == Addresses(previous'.pairs)
                      IN  /\ (before \ Addresses(d.removedPairs)) \cup Addresses(d.newPairs) = now
                          /\ Addresses(d.removedPairs) \cap now = {}
                          /\ Addresses(d.updatedPairs) = before \cap now
<1>1. Typed /\ [Next]_vars => [Leads]_vars
  <2> SUFFICES ASSUME Typed, Next PROVE Leads
    BY Zenon
  <2>1. ASSUME NEW s \in Slots, Compute(s) PROVE Leads
    <3>1. PICK cur \in Snaps :
            /\ previous \in Snaps
            /\ latestDelta' = <<detect(previous, cur)>>
            /\ previous' = cur
      BY <2>1, ComputeCase, Zenon
    <3> DEFINE d == latestDelta'[1]
               before == Addresses(previous.pairs)
               now == Addresses(previous'.pairs)
    <3>2. previous.pairs \in Seq(ToSet(previous.pairs)) /\ cur.pairs \in Seq(ToSet(cur.pairs))
      BY <3>1, SnapshotSequences
    <3>3. d = detect(previous, cur)
      BY <3>1
    <3>4. /\ d.removedPairs = Unknown(previous.pairs, cur.pairs)
          /\ d.newPairs = Unknown(cur.pairs, previous.pairs)
          /\ d.updatedPairs = Known(cur.pairs, previous.pairs)
      <4> HIDE DEF d
      <4> QED
        BY <3>3 DEF detect
    <3> HIDE DEF d
    <3>5. /\ Addresses(d.removedPairs) = before \ now
          /\ Addresses(d.newPairs) = now \ before
          /\ Addresses(d.updatedPairs) = now \cap before
      BY <3>1, <3>2, <3>4, SplitAddresses
    <3> HIDE DEF before, now
    <3>6. /\ (before \ Addresses(d.removedPairs)) \cup Addresses(d.newPairs) = now
          /\ Addresses(d.removedPairs) \cap now = {}
          /\ Addresses(d.updatedPairs) = before \cap now
      BY <3>5
    <3> QED
      BY <3>6 DEF d, before, now
  <2>2. ASSUME NEW s \in Slots, Fetch(s) \/ ListenerThrows(s) \/ Saved(s) PROVE Leads
    <3>1. previous' = previous
      BY <2>2 DEF Fetch, ListenerThrows, Saved
    <3> QED
      BY <3>1
  <2> QED
    BY <2>1, <2>2, Zenon DEF Next
<1>2. IInv => Typed
  BY DEF IInv
<1> QED
  BY <1>1, <1>2, IInvCorrect, PTL DEF Spec, DeltaLeadsToSnapshot
=============================================================================
