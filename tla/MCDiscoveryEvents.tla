-------------------------- MODULE MCDiscoveryEvents --------------------------
(* Model checking of DiscoveryEvents: two pools that come, go and move just *)
(* below, at and beyond the thresholds.                                     *)
EXTENDS DiscoveryEvents

Level(l, v, s) == [liquidity |-> l, volume |-> v, score |-> s]

Pool(a, x) == [address |-> a, liquidity |-> x.liquidity, volume |-> x.volume,
               score |-> x.score]

(* Ranked by score; every snapshot has the token all pools are against.     *)
Snap(pools) == [pairs |-> pools, tokens |-> <<[address |-> "weth", holders |-> 0]>>]

Levels1 == {Level(100, 100, 60), Level(114, 81, 64), Level(115, 80, 65)}
Levels2 == {Level(100, 100, 50), Level(80, 130, 45)}

MCSnapshots ==
    {Snap(<<>>)}
    \cup {Snap(<<Pool("p1", x)>>) : x \in Levels1}
    \cup {Snap(<<Pool("p2", y)>>) : y \in Levels2}
    \cup {Snap(<<Pool("p1", x), Pool("p2", y)>>) : x \in Levels1, y \in Levels2}
=============================================================================
