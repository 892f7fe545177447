----------------------------- MODULE DeltaEngine -----------------------------
(***************************************************************************)
(* DeltaEngine.detect (discovery/DeltaEngine.ts): the changes between two  *)
(* snapshots.  A snapshot is a sequence of pairs, ranked and without       *)
(* duplicate addresses, and a sequence of tokens; an address stands for    *)
(* its lower-case form.  Percentages are compared without being divided.   *)
(***************************************************************************)
EXTENDS Integers, Sequences, SequencesExt

CONSTANTS
    LiquidityPct,   \* liquidityThresholdPct (15)
    VolumePct,      \* volumeThresholdPct (20)
    ScoreStep,      \* scoreThreshold (5)
    HolderPct       \* holderThresholdPct (20)

Addresses(items) == {items[i].address : i \in DOMAIN items}
Find(items, a)   == items[CHOOSE i \in DOMAIN items : items[i].address = a]

(* What the items contribute, one after the other.                         *)
Each(items, Contribution(_)) ==
    FlattenSeq([i \in DOMAIN items |-> Contribution(items[i])])

If(cond, x) == IF cond THEN <<x>> ELSE <<>>

Known(items, others) ==
    Each(items, LAMBDA x : If(x.address \in Addresses(others), x))
Unknown(items, others) ==
    Each(items, LAMBDA x : If(x.address \notin Addresses(others), x))

(* |computePercentChange(v, w)| >= pct for v, w >= 0: from zero, any value *)
(* is a change of 100 percent.                                             *)
Moved(v, w, pct) ==
    IF v = 0 THEN (IF w > 0 THEN 100 ELSE 0) >= pct
             ELSE (IF w > v THEN w - v ELSE v - w) * 100 >= pct * v

Change(type, a, v, w) == [type |-> type, address |-> a, previous |-> v, current |-> w]

(* The changes of a pair, or of a token, that was there before.            *)
PairChanges(p, q) ==
    If(Moved(p.liquidity, q.liquidity, LiquidityPct),
       Change("LIQUIDITY_CHANGED", q.address, p.liquidity, q.liquidity))
    \o If(Moved(p.volume, q.volume, VolumePct),
          Change("VOLUME_CHANGED", q.address, p.volume, q.volume))
    \o If((IF q.score > p.score THEN q.score - p.score ELSE p.score - q.score) >= ScoreStep,
          Change("SCORE_CHANGED", q.address, p.score, q.score))

TokenChanges(t, u) ==
    If(Moved(t.holders, u.holders, HolderPct),
       Change("HOLDER_CHANGED", u.address, t.holders, u.holders))

(* New pools, removed pools, then what moved, pairs before tokens.         *)
Changes(prev, cur) ==
    Each(Unknown(cur.pairs, prev.pairs), LAMBDA q : <<Change("NEW_POOL", q.address, 0, 0)>>)
    \o Each(Unknown(prev.pairs, cur.pairs), LAMBDA p : <<Change("REMOVED_POOL", p.address, 0, 0)>>)
    \o Each(Known(cur.pairs, prev.pairs), LAMBDA q : PairChanges(Find(prev.pairs, q.address), q))
    \o Each(Known(cur.tokens, prev.tokens), LAMBDA u : TokenChanges(Find(prev.tokens, u.address), u))

(* Mutant of detect: removed pools are looked for among the new ones.      *)
detectRemovedAmongNew(prev, cur) ==
    [changes       |-> Changes(prev, cur),
     newPairs      |-> Unknown(cur.pairs, prev.pairs),
     removedPairs  |-> Unknown(cur.pairs, prev.pairs),
     updatedPairs  |-> Known(cur.pairs, prev.pairs),
     newTokens     |-> Unknown(cur.tokens, prev.tokens),
     updatedTokens |-> Known(cur.tokens, prev.tokens)]

detect(prev, cur) ==
    [changes       |-> Changes(prev, cur),
     newPairs      |-> Unknown(cur.pairs, prev.pairs),
     removedPairs  |-> Unknown(prev.pairs, cur.pairs),
     updatedPairs  |-> Known(cur.pairs, prev.pairs),
     newTokens     |-> Unknown(cur.tokens, prev.tokens),
     updatedTokens |-> Known(cur.tokens, prev.tokens)]
=============================================================================
