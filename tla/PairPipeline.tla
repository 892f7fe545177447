----------------------------- MODULE PairPipeline -----------------------------
(***************************************************************************)
(* What a refresh makes of the pairs its providers report                  *)
(* (DiscoveryEngine.ts:83-119): merged, filtered, scored and ranked,       *)
(* deduplicated, gathered into tokens, and searched for opportunities.     *)
(*                                                                         *)
(* An address, of a pair or of one of its tokens, is its lower-case form;  *)
(* spelling tells apart two ways to write it.  dex is the exchange's id,   *)
(* as the sequence of the words in it.  usd says whether the report has a  *)
(* liquidityUsd, valid whether ScamFilter accepts it and its addresses are *)
(* well formed.  A date (lastUpdated) is counted in days from now.         *)
(* Prices, of which nothing below depends, are left out.                   *)
(***************************************************************************)
EXTENDS Integers, Sequences, SequencesExt, FiniteSets

CONSTANTS
    MinLiquidity,       \* config.minLiquidity (5000)
    MinVolume,          \* config.minVolume (1000)
    OpportunityScore,   \* least score of an opportunity (60)
    MaxOpportunities    \* opportunities kept (10)

ASSUME ThresholdAssumption == {MinLiquidity, MinVolume, OpportunityScore} \subseteq Int
ASSUME KeepAssumption      == MaxOpportunities \in Nat

(* An address as a pair names its tokens, in some spelling.                *)
Spelled == [address: STRING, spelling: STRING]

(* What a provider may say of a pair.                                      *)
Reports == [address: STRING, spelling: STRING, chain: STRING, usd: BOOLEAN,
            valid: BOOLEAN, dex: Seq(STRING), liquidity: Int, volume: Int,
            txns: Int, age: Int, base: Spelled, quote: Spelled]

Larger(m, n)  == IF m > n THEN m ELSE n
Smaller(m, n) == IF m < n THEN m ELSE n

(* A Map filled in order: x is joined to the entry of its key, or becomes  *)
(* the last entry.                                                         *)
Put(entries, x, Key(_), Join(_, _)) ==
    IF \E i \in DOMAIN entries : Key(entries[i]) = Key(x)
      THEN [i \in DOMAIN entries |->
              IF Key(entries[i]) = Key(x) THEN Join(entries[i], x) ELSE entries[i]]
      ELSE Append(entries, x)

Collect(items, Key(_), Join(_, _)) ==
    LET entries[n \in 0 .. Len(items)] ==
          IF n = 0 THEN <<>> ELSE Put(entries[n - 1], items[n], Key, Join)
    IN  entries[Len(items)]

(* Array.prototype.filter.                                                 *)
Filtered(items, Test(_)) ==
    LET kept[n \in 0 .. Len(items)] ==
          IF n = 0 THEN <<>>
          ELSE IF Test(items[n]) THEN Append(kept[n - 1], items[n]) ELSE kept[n - 1]
    IN  kept[Len(items)]

(* Array.prototype.sort, which is stable: an item's place is given by the  *)
(* number of those ahead of it.                                            *)
StableSort(items, Before(_, _)) ==
    LET Ahead(i) == {j \in DOMAIN items : \/ Before(items[j], items[i])
                                          \/ ~Before(items[i], items[j]) /\ j < i}
    IN  [k \in DOMAIN items |->
           items[CHOOSE i \in DOMAIN items : Cardinality(Ahead(i)) = k - 1]]

-----------------------------------------------------------------------------
(* Mutant of MergeReport: the later report replaces the earlier one.       *)
MergeReportLatest(m, r) == r

(* A further report of a pair: the largest figures count, except that the  *)
(* liquidityUsd of the first report is kept.                               *)
MergeReport(m, r) ==
    [m EXCEPT !.liquidity = IF m.usd THEN @ ELSE Larger(@, r.liquidity),
              !.volume    = Larger(@, r.volume),
              !.txns      = Larger(@, r.txns)]

(* The key of a pair has its chain as it is written.                       *)
merge(reports) == Collect(reports, LAMBDA r : <<r.chain, r.address>>, MergeReport)

(* The strategies, with their labels in lower case as ValidationFilter     *)
(* compares them.  The first recognises one id, the others a word.         *)
Strategies == <<[label |-> "aerodrome",   word |-> "aerodrome"],
                [label |-> "uniswap v3",  word |-> "uniswap"],
                [label |-> "pancakeswap", word |-> "pancakeswap"],
                [label |-> "sushiswap",   word |-> "sushiswap"],
                [label |-> "baseswap",    word |-> "baseswap"],
                [label |-> "alien base",  word |-> "alien base"]>>

SUPPORTED_DEXS == {"aerodrome", "uniswap v3", "pancakeswap", "sushiswap",
                   "baseswap", "alien base"}

supports(i, id) == IF i = 1 THEN id = <<Strategies[1].word>>
                            ELSE Strategies[i].word \in ToSet(id)

(* The label of the first strategy that supports the id, or the id itself, *)
(* which is then none of the labels.                                       *)
recognize(id) ==
    LET found == {i \in DOMAIN Strategies : supports(i, id)}
    IN  IF found = {} THEN "unknown" ELSE Strategies[Min(found)].label

(* Mutant of LiquidityFilter: the least volume does not do.                *)
LiquidityFilterAbove(pair) ==
    /\ pair.liquidity > 0
    /\ pair.liquidity >= MinLiquidity
    /\ pair.volume > MinVolume

LiquidityFilter(pair) ==
    /\ pair.liquidity > 0
    /\ pair.liquidity >= MinLiquidity
    /\ pair.volume >= MinVolume

(* Mutant of ValidationFilter: the id counts, not the label.               *)
ValidationFilterRaw(pair) ==
    /\ \E d \in SUPPORTED_DEXS : pair.dex = <<d>>
    /\ pair.valid
    /\ pair.chain \in {"base", "Base"}

(* The exchange by its label; the chain in whatever spelling.              *)
ValidationFilter(pair) ==
    /\ recognize(pair.dex) \in SUPPORTED_DEXS
    /\ pair.valid
    /\ pair.chain \in {"base", "Base"}

filter(pair) == LiquidityFilter(pair) /\ ValidationFilter(pair)

(* Thousandths of the way from min to max.                                 *)
normalize(v, min, max) ==
    CASE v <= min -> 0
      [] v >= max -> 1000
      [] OTHER    -> ((v - min) * 1000) \div (max - min)

(* The weighted sum in percent; a pair has one exchange, which counts 0.   *)
calculate(pair) ==
    (350 * normalize(pair.liquidity, 5000, 500000)
     + 300 * normalize(pair.volume, 1000, 250000)
     + 150 * normalize(pair.age, 7, 365)
     + 100 * normalize(pair.txns, 10, 1000)
     + 5000) \div 10000

Scored(pair) ==
    [address |-> pair.address, spelling |-> pair.spelling,
     dex |-> recognize(pair.dex), base |-> pair.base, quote |-> pair.quote,
     liquidity |-> pair.liquidity, volume |-> pair.volume, lastUpdated |-> -pair.age,
     score |-> calculate(pair)]

rankPairs(pairs) ==
    StableSort([i \in DOMAIN pairs |-> Scored(pairs[i])], LAMBDA p, q : p.score > q.score)

Better(old, new) == IF new.score > old.score THEN new ELSE old

(* Mutant of deduplicatePairs: addresses are compared as they are written. *)
deduplicateSpelled(pairs) ==
    Collect(pairs, LAMBDA p : <<p.address, p.spelling>>, Better)

deduplicatePairs(pairs) == Collect(pairs, LAMBDA p : p.address, Better)

discover(reports) ==
    deduplicatePairs(rankPairs(Filtered(merge(reports), filter)))

-----------------------------------------------------------------------------
(* What a pair says of one of its tokens, in the pair's spelling.          *)
TokenOf(token, pair) ==
    [address |-> token.address, spelling |-> token.spelling,
     liquidity |-> pair.liquidity, volume |-> pair.volume,
     score |-> pair.score, exchanges |-> {pair.dex}, pairs |-> {pair.address}]

(* Mutant of AddPair: the liquidity of the last pair counts.               *)
AddPairLast(token, t) ==
    [token EXCEPT !.liquidity = t.liquidity, !.volume = @ + t.volume,
                  !.score = Larger(@, t.score), !.exchanges = @ \cup t.exchanges,
                  !.pairs = @ \cup t.pairs]

AddPair(token, t) ==
    [token EXCEPT !.liquidity = @ + t.liquidity, !.volume = @ + t.volume,
                  !.score = Larger(@, t.score), !.exchanges = @ \cup t.exchanges,
                  !.pairs = @ \cup t.pairs]

(* Both tokens of each pair, in turn.                                      *)
Occurrences(pairs) ==
    [n \in 1 .. 2 * Len(pairs) |->
       LET pair == pairs[(n + 1) \div 2]
       IN  TokenOf(IF n % 2 = 1 THEN pair.base ELSE pair.quote, pair)]

(* Mutant of aggregate: addresses are compared as they are written.        *)
aggregateSpelled(pairs) ==
    Collect(Occurrences(pairs), LAMBDA t : <<t.address, t.spelling>>, AddPair)

(* The entry of an address keeps the spelling it was first seen in.        *)
aggregate(pairs) == Collect(Occurrences(pairs), LAMBDA t : t.address, AddPair)

deduplicateTokens(tokens) == Collect(tokens, LAMBDA t : t.address, Better)

(* Mutants of detectOpportunities: the list is not cut; the least score    *)
(* does not do.                                                            *)
detectOpportunitiesUncut(pairs) == Filtered(pairs, LAMBDA p : p.score >= OpportunityScore)

detectOpportunitiesAbove(pairs) ==
    LET good == Filtered(pairs, LAMBDA p : p.score > OpportunityScore)
    IN  SubSeq(good, 1, Smaller(MaxOpportunities, Len(good)))

(* The first pairs that are good enough: the list is not sorted again.     *)
detectOpportunities(pairs) ==
    LET good == Filtered(pairs, LAMBDA p : p.score >= OpportunityScore)
    IN  SubSeq(good, 1, Smaller(MaxOpportunities, Len(good)))
=============================================================================
