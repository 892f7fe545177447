----------------------------- MODULE MCCatalogue -----------------------------
(* Model checking of Catalogue: up to three reports of up to three pools,   *)
(* repeated, misspelt, on chains written in two ways, at the thresholds of  *)
(* the filters and of the score.                                            *)
EXTENDS Catalogue

Report(a, spelling, chain, usd, liquidity, volume) ==
    [address |-> a, spelling |-> spelling, chain |-> chain, usd |-> usd, valid |-> TRUE,
     dex |-> IF a = "p1" THEN <<"aerodrome">> ELSE <<"uniswap", "v2">>,
     liquidity |-> liquidity, volume |-> volume, txns |-> 505,
     age |-> IF a = "p3" THEN 365 ELSE 186,
     base |-> [address |-> IF a = "p3" THEN "weth" ELSE a, spelling |-> spelling],
     quote |-> [address |-> "weth", spelling |-> spelling]]

First ==
    {Report("p1", "lower", "base", TRUE, 252500, 250000),
     Report("p1", "lower", "base", FALSE, 5000, 1000),
     Report("p2", "lower", "Base", TRUE, 500000, 999)}
Second ==
    {Report("p1", "upper", "base", FALSE, 500000, 125500),
     Report("p1", "upper", "Base", TRUE, 500000, 250000),
     Report("p1", "lower", "base", TRUE, 4999, 1000),
     Report("p2", "upper", "Base", TRUE, 252500, 250000),
     [Report("p2", "lower", "base", TRUE, 500000, 250000) EXCEPT !.valid = FALSE],
     [Report("p2", "lower", "base", TRUE, 500000, 250000)
        EXCEPT !.dex = <<"aerodrome", "slipstream">>]}
Third ==
    {Report("p2", "lower", "base", TRUE, 500000, 250000),
     Report("p3", "lower", "base", TRUE, 500000, 250000),
     Report("p3", "lower", "base", TRUE, 252500, 250000),
     Report("p3", "lower", "ethereum", TRUE, 500000, 250000)}

MCFeeds == {<<>>} \cup {<<r>> : r \in First}
           \cup {<<q, r, s>> : q \in First, r \in Second, s \in Third}

MCLimits   == {NoNumber, <<0>>, <<2>>, <<1000>>}
MCViews    == {<<"pairs", "score", "desc">>, <<"pairs", "liquidity", "asc">>,
               <<"pairs", "lastUpdated", "desc">>, <<"tokens">>}
MCDateViews == {<<"pairs", "lastUpdated", "desc">>}
=============================================================================
