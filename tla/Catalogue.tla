------------------------------ MODULE Catalogue ------------------------------
(***************************************************************************)
(* The catalogue of pairs and the requests that list it: refreshes replace *)
(* the cached pairs and tokens, and a client fetches GET                   *)
(* /discovery/pairs/filtered or /discovery/tokens/filtered page after page *)
(* (routes/discovery.ts:80-112), each page from what is cached then.       *)
(***************************************************************************)
EXTENDS PairPipeline

CONSTANTS
    Feeds,          \* what the providers may report (sequences of reports)
    Limits,         \* the query parameter limit: <<n>>, or NoNumber
    Views,          \* <<"pairs", sortBy, order>> or <<"tokens">>
    MaxRefreshes    \* bound: refreshes

VARIABLES
    feed,           \* the reports of the last refresh
    pairs,          \* the cached pairs
    tokens,         \* the cached tokens
    opportunities,  \* latestOpportunities
    refreshes,      \* refreshes so far
    query,          \* <<limit, view>> of the client's walk, or NoQuery
    page,           \* the page it asks for next, 0 after the last
    items,          \* the items it has had
    due,            \* addresses of its list, less those that a refresh took
                    \*   out of the part it has not fetched yet
    steady,         \* positions of its list that have had the same address
                    \*   ever since its walk began
    undisturbed     \* its list has not changed at all since then

vars == <<feed, pairs, tokens, opportunities, refreshes, query, page, items, due,
          steady, undisturbed>>

NoQuery  == <<>>
NoNumber == <<>>         \* a limit such as "1x", which the schema lets through

ASSUME FeedAssumption    == Feeds \subseteq Seq(Reports)
ASSUME LimitAssumption   == \A l \in Limits \ {NoNumber} : l \in Seq(Int) /\ Len(l) = 1
ASSUME ViewAssumption    ==
    \A view \in Views :
        \/ view = <<"tokens">>
        \/ \E sortBy \in {"score", "liquidity", "volume", "lastUpdated"},
              order \in {"asc", "desc"} : view = <<"pairs", sortBy, order>>
ASSUME RefreshAssumption == MaxRefreshes \in Nat

-----------------------------------------------------------------------------
(* Mutant of Limit: a limit of 0 passes.                                   *)
LimitUnclamped(l) == Smaller(500, l[1])

(* min(500, max(1, Number(limit))), of a limit that is a number.           *)
Limit(l) == Smaller(500, Larger(1, l[1]))

(* sortPairs: a comparison of dates yields NaN and leaves the order as it is. *)
sortPairs(ps, sortBy, order) ==
    IF sortBy = "lastUpdated" THEN ps
    ELSE StableSort(ps, LAMBDA p, q : IF order = "asc" THEN p[sortBy] < q[sortBy]
                                                       ELSE p[sortBy] > q[sortBy])

(* Math.ceil(total / limit), seen from page n: for a limit of 0 it is NaN  *)
(* (there is no next page) or Infinity (there is one after any).           *)
Pages(total, n, limit) ==
    IF limit /= 0 THEN (total + limit - 1) \div limit
    ELSE IF total = 0 THEN 0 ELSE n + 1

(* Mutant of paginate: the number of pages is rounded down.                *)
paginateFloor(ps, n, limit) ==
    [items |-> SubSeq(ps, (n - 1) * limit + 1, Smaller(n * limit, Len(ps))),
     pages |-> Len(ps) \div limit]

(* Mutant of paginate: pages are counted from 0.                           *)
paginateFromZero(ps, n, limit) ==
    [items |-> SubSeq(ps, n * limit + 1, Smaller((n + 1) * limit, Len(ps))),
     pages |-> Pages(Len(ps), n, limit)]

(* Mutant of paginate: a page begins with the last item of the one before. *)
paginateOverlapping(ps, n, limit) ==
    [items |-> SubSeq(ps, IF n = 1 THEN 1 ELSE (n - 1) * limit, Smaller(n * limit, Len(ps))),
     pages |-> Pages(Len(ps), n, limit)]

(* slice((n - 1) * limit, n * limit), and the number of pages.             *)
paginate(ps, n, limit) ==
    [items |-> SubSeq(ps, (n - 1) * limit + 1, Smaller(n * limit, Len(ps))),
     pages |-> Pages(Len(ps), n, limit)]

(* The list a client walks through: pairs in its order, tokens as they are. *)
Listing(ps, ts, view) ==
    IF view[1] = "tokens" THEN ts ELSE sortPairs(ps, view[2], view[3])

-----------------------------------------------------------------------------
TypeOK ==
    /\ feed \in Feeds \cup {<<>>}
    /\ \A i \in DOMAIN pairs : pairs[i].score \in 0 .. 100
    /\ \A i \in DOMAIN tokens : tokens[i].score \in 0 .. 100
    /\ Len(opportunities) <= MaxOpportunities
    /\ refreshes \in 0 .. MaxRefreshes
    /\ query \in {NoQuery} \cup (Limits \X Views)
    /\ page \in Nat
    /\ due \subseteq STRING
    /\ steady \subseteq Nat
    /\ undisturbed \in BOOLEAN

Init ==
    /\ feed = <<>>
    /\ pairs = <<>>
    /\ tokens = <<>>
    /\ opportunities = <<>>
    /\ refreshes = 0
    /\ query = NoQuery
    /\ page = 1
    /\ items = <<>>
    /\ due = {}
    /\ steady = {}
    /\ undisturbed = FALSE

Addresses(list) == {list[k].address : k \in DOMAIN list}

(* A refresh from what the providers reported, saved (RefreshCycle models  *)
(* how the saves may fail or overlap).                                     *)
Refresh ==
    /\ refreshes < MaxRefreshes
    /\ feed' \in Feeds
    /\ pairs' = discover(feed')
    /\ tokens' = deduplicateTokens(aggregate(pairs'))
    /\ opportunities' = detectOpportunities(pairs')
    /\ refreshes' = refreshes + 1
    /\ IF query = NoQuery THEN UNCHANGED <<due, steady, undisturbed>>
       ELSE LET old == Listing(pairs, tokens, query[2])
                new == Listing(pairs', tokens', query[2])
            IN  /\ due' = {a \in due :
                             \/ a \in Addresses(items)
                             \/ \E k \in DOMAIN new : /\ k > Len(items)
                                                     /\ new[k].address = a}
                /\ steady' = {k \in steady : /\ k <= Len(new)
                                             /\ new[k].address = old[k].address}
                /\ undisturbed' = (undisturbed /\ new = old)
    /\ UNCHANGED <<query, page, items>>

(* A client begins to walk through the pages ...                           *)
StartWalk ==
    /\ query = NoQuery
    /\ query' \in Limits \X Views
    /\ page' = 1
    /\ items' = <<>>
    /\ due' = Addresses(Listing(pairs, tokens, query'[2]))
    /\ steady' = DOMAIN Listing(pairs, tokens, query'[2])
    /\ undisturbed' = TRUE
    /\ UNCHANGED <<feed, pairs, tokens, opportunities, refreshes>>

(* The answer to a request, once something is cached.  A limit that is no  *)
(* number cuts an empty page, and the number of pages is no number either, *)
(* shown as 0: no page is before it.                                       *)
Response ==
    IF query[1] = NoNumber THEN [items |-> <<>>, pages |-> 0]
    ELSE paginate(Listing(pairs, tokens, query[2]), page, Limit(query[1]))

(* ... and goes on as long as the answer names further pages.  While       *)
(* nothing is cached it is told so (500), and may ask again or give up.    *)
NextPage ==
    /\ query /= NoQuery
    /\ page > 0
    /\ refreshes > 0
    /\ items' = items \o Response.items
    /\ page' = IF page < Response.pages THEN page + 1 ELSE 0
    /\ UNCHANGED <<feed, pairs, tokens, opportunities, refreshes, query, due, steady,
                   undisturbed>>

EndWalk ==
    /\ query /= NoQuery
    /\ page = 0 \/ refreshes = 0
    /\ query' = NoQuery
    /\ page' = 1
    /\ items' = <<>>
    /\ due' = {}
    /\ steady' = {}
    /\ undisturbed' = FALSE
    /\ UNCHANGED <<feed, pairs, tokens, opportunities, refreshes>>

Next == Refresh \/ StartWalk \/ NextPage \/ EndWalk

Spec == Init /\ [][Next]_vars

-----------------------------------------------------------------------------
(* The cached pairs are ranked and no address occurs twice, however often  *)
(* and in whatever spelling it was reported: detectOpportunities takes its *)
(* first ones for the best, and DeltaEngine keys them by address           *)
(* (DiscoveryEngine.ts:112-119).                                           *)
RankedUnique ==
    \A i, j \in DOMAIN pairs : i < j =>
        /\ pairs[i].score >= pairs[j].score
        /\ pairs[i].address /= pairs[j].address

(* A pair of any exchange that a strategy supports is in the catalogue if  *)
(* its first report would do alone, and no other report of it lowers its   *)
(* score: labels, filters, merge and deduplication agree, and the least    *)
(* liquidity and volume do (DexStrategyRegistry.ts:23-42,                  *)
(* LiquidityFilter.ts:9-23, ValidationFilter.ts:12-16,                     *)
(* ProviderMerger.ts:21-59, deduplicate.ts:7-19).                          *)
NothingLost ==
    \A i \in DOMAIN feed :
        (/\ feed[i].liquidity > 0
         /\ feed[i].liquidity >= MinLiquidity
         /\ feed[i].volume >= MinVolume
         /\ feed[i].valid
         /\ feed[i].chain \in {"base", "Base"}
         /\ \E d \in DOMAIN Strategies : supports(d, feed[i].dex)
         /\ \A h \in 1 .. i - 1 : <<feed[h].chain, feed[h].address>>
                                    /= <<feed[i].chain, feed[i].address>>)
          => \E k \in DOMAIN pairs : /\ pairs[k].address = feed[i].address
                                     /\ pairs[k].score >= calculate(feed[i])

(* What a token says of the pairs that it occurs in: its liquidity is the  *)
(* sum of theirs (twice for a pair of a token with itself) and its score   *)
(* the best.                                                               *)
StandsFor(t, ps) ==
    LET Of == {k \in DOMAIN ps : t.address \in {ps[k].base.address, ps[k].quote.address}}
        sum[n \in 0 .. Len(ps)] ==
          IF n = 0 THEN 0
          ELSE sum[n - 1] + (IF ps[n].base.address  = t.address THEN ps[n].liquidity ELSE 0)
                          + (IF ps[n].quote.address = t.address THEN ps[n].liquidity ELSE 0)
    IN  /\ t.liquidity = sum[Len(ps)]
        /\ t.exchanges = {ps[k].dex : k \in Of}
        /\ t.pairs = {ps[k].address : k \in Of}
        /\ \E k \in Of : ps[k].score = t.score
        /\ \A k \in Of : ps[k].score <= t.score

(* There is one token for each address that occurs in a pair, in whatever  *)
(* spellings, and it stands for all of its pairs (TokenAggregator.ts:8-53).*)
TokensReflectPairs ==
    /\ \A i \in DOMAIN tokens : StandsFor(tokens[i], pairs)
    /\ \A i, j \in DOMAIN tokens : i /= j => tokens[i].address /= tokens[j].address
    /\ {pairs[k].base.address : k \in DOMAIN pairs}
         \cup {pairs[k].quote.address : k \in DOMAIN pairs} = Addresses(tokens)

(* The opportunities are the best pairs of the catalogue: a pair that is   *)
(* good enough and left out is no better than any that is in               *)
(* (OpportunityDetectionEngine.ts:9-12 cuts a list it does not sort).      *)
OpportunitiesAreTop ==
    \A k \in DOMAIN pairs :
        \/ \E i \in DOMAIN opportunities : opportunities[i] = pairs[k]
        \/ pairs[k].score < OpportunityScore
        \/ /\ Len(opportunities) = MaxOpportunities
           /\ \A i \in DOMAIN opportunities : opportunities[i].score >= pairs[k].score

(* A client that walked through all pages of a list that stayed as it was, *)
(* refreshes that found the same included, with a limit that is a number,  *)
(* has had every item once: tokens in the order of the cache, and pairs in *)
(* the order it asked for, except by lastUpdated.  Dates are subtracted as *)
(* strings, which orders nothing (routes/discovery.ts:44): those pairs it  *)
(* has had in the order of the cache, whatever their dates (DatesInOrder   *)
(* is what it asked for).                                                  *)
WalkComplete ==
    (query /= NoQuery /\ page = 0 /\ undisturbed /\ query[1] /= NoNumber) =>
        LET view == query[2]
            all  == IF view[1] = "tokens" THEN tokens ELSE pairs
        IN  /\ Len(items) = Len(all) /\ ToSet(items) = ToSet(all)
            /\ IF view[1] = "tokens" \/ view[2] = "lastUpdated" THEN items = all
               ELSE \A i, j \in DOMAIN items : i < j =>
                      IF view[3] = "asc" THEN items[i][view[2]] <= items[j][view[2]]
                                         ELSE items[i][view[2]] >= items[j][view[2]]

(* What tests/api-pagination.test.ts:107 ("should sort by lastUpdated      *)
(* descending") expects of a client's pages by descending date.  The code  *)
(* does not do it (routes/discovery.ts:38-47).                             *)
DatesInOrder ==
    (query /= NoQuery /\ page = 0 /\ undisturbed /\ query[1] /= NoNumber
       /\ query[2] = <<"pairs", "lastUpdated", "desc">>) =>
        \A i, j \in DOMAIN items : i < j => items[i].lastUpdated >= items[j].lastUpdated

(* A client that follows the pages of a list that stays as it is never     *)
(* asks for one in vain: the page it is sent on to has something on it,    *)
(* whatever its limit (routes/discovery.ts:26-36, :84).                    *)
PagesFilled ==
    (query /= NoQuery /\ page > 1 /\ undisturbed) => Response.items /= <<>>

(* A client whose list changes under it misses nothing but what a refresh  *)
(* took out of the part that it had not fetched yet: pages follow on each  *)
(* other, and the last one is at the end of the list as it is by then      *)
(* (routes/discovery.ts:26-36, :88-90).                                    *)
NoneSkipped ==
    (query /= NoQuery /\ page = 0 /\ query[1] /= NoNumber) => due \subseteq Addresses(items)

(* Refreshes between two pages shift the cuts, but what keeps its place in *)
(* the list is served in that place, however the list grows, shrinks or is *)
(* reordered around it (routes/discovery.ts:88-90).                        *)
SteadyServed ==
    (query /= NoQuery /\ page = 0 /\ query[1] /= NoNumber) =>
        LET list == Listing(pairs, tokens, query[2])
        IN  \A k \in steady : k <= Len(items) /\ items[k].address = list[k].address
=============================================================================
