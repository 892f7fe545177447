--------------------------- MODULE OpportunityScore ---------------------------
(***************************************************************************)
(* The market opportunity score (ranking/MarketOpportunityScore.ts): five  *)
(* shares of a pair's metrics, weighted and rounded to 0 .. 100, and the   *)
(* classes of a score.                                                     *)
(*                                                                         *)
(* Shares are whole numbers of their natural unit (thousandths, twelfths,  *)
(* hundredths, four hundredths), so that the weighted sum is exact; the    *)
(* logarithms between the thresholds are two constant curves.  A metric    *)
(* that is not given has the value the code takes for it: holders 0, risk  *)
(* 50, taxes 0.                                                            *)
(***************************************************************************)
EXTENDS Integers, TLAPS

CONSTANTS
    LiquidityCurve,   \* 1000 * log(l / 1000 + 1) / log(501), rounded
    VolumeCurve       \* 1000 * log(v / 100 + 1) / log(1001), rounded

Metrics == [liquidity : Nat, volume : Nat, dexes : Nat, sources : Nat, age : Nat,
            holders : Nat, pools : Nat, risk : Nat, tax : Nat]

(* What is used of a logarithm.                                            *)
IsCurve(f) ==
    /\ f \in [Nat -> 0 .. 1000]
    /\ \A m, n \in Nat : m <= n => f[m] <= f[n]

Least(m, n) == IF m < n THEN m ELSE n

scoreLiquidity(l) == IF l < 1000 THEN 0 ELSE IF l > 500000 THEN 1000 ELSE LiquidityCurve[l]

scoreVolume(v) == IF v < 100 THEN 0 ELSE IF v > 100000 THEN 1000 ELSE VolumeCurve[v]

(* In twelfths: the mean of thirds and halves.                             *)
scoreCoverage(dexes, sources) == 2 * Least(3, dexes) + 3 * Least(2, sources)

(* In hundredths: a bonus for passing one threshold, a larger one for both. *)
Bonus(x, low, small, high, large) ==
    IF x > high THEN large ELSE IF x > low THEN small ELSE 0

scoreHealth(age, holders, pools) ==
    50 + Bonus(age, 7, 10, 30, 20) + Bonus(holders, 20, 8, 100, 15) + Bonus(pools, 1, 8, 2, 15)

(* In four hundredths; tax is the larger one of buying and selling.        *)
TaxFactor(tax) == IF tax > 15 THEN 2 ELSE IF tax > 5 THEN 3 ELSE 4

scoreRisk(risk, tax) == (100 - Least(100, risk)) * TaxFactor(tax)

(* In thousandths of a point: the weights of the five shares.              *)
Sum5(liquidity, volume, coverage, health, risk) ==
    40 * liquidity + 25 * volume + 1250 * coverage + 100 * health + 25 * risk

Weighted(m) ==
    Sum5(scoreLiquidity(m.liquidity), scoreVolume(m.volume),
         scoreCoverage(m.dexes, m.sources),
         scoreHealth(m.age, m.holders, m.pools), scoreRisk(m.risk, m.tax))

(* Rounded to a point, and clamped.                                        *)
calculate(m) == LET rounded == (Weighted(m) + 500) \div 1000
                IN  IF rounded < 0 THEN 0 ELSE Least(100, rounded)

isHighOpportunity(score)   == score >= 70
isMediumOpportunity(score) == score >= 50 /\ score < 70
isLowOpportunity(score)    == score < 50

-----------------------------------------------------------------------------
(* Rounding and clamping keep the order of sums.                           *)
LEMMA Rounding ==
    ASSUME NEW x \in Int, NEW y \in Int, x <= y
    PROVE  (x + 500) \div 1000 <= (y + 500) \div 1000
  OBVIOUS

(* A product grows with both factors.                                      *)
LEMMA Products ==
    ASSUME NEW a \in 0 .. 100, NEW b \in 0 .. 100, a <= b,
           NEW s \in {2, 3, 4}, NEW t \in {2, 3, 4}, s <= t
    PROVE  a * s <= b * t
<1>1. CASE s = 2 /\ t = 2
  BY <1>1
<1>2. CASE s = 2 /\ t = 3
  BY <1>2
<1>3. CASE s = 2 /\ t = 4
  BY <1>3
<1>4. CASE s = 3 /\ t = 3
  BY <1>4
<1>5. CASE s = 3 /\ t = 4
  BY <1>5
<1>6. CASE s = 4 /\ t = 4
  BY <1>6
<1> QED
  BY <1>1, <1>2, <1>3, <1>4, <1>5, <1>6

(* A curve keeps to its values and to its order.                           *)
LEMMA Curve ==
    ASSUME NEW f, IsCurve(f), NEW x \in Nat, NEW y \in Nat
    PROVE  /\ f[x] \in Int /\ 0 <= f[x] /\ f[x] <= 1000
           /\ x <= y => f[x] <= f[y]
<1>1. f[x] \in 0 .. 1000
  BY DEF IsCurve
<1>2. \A k \in 0 .. 1000 : k \in Int /\ 0 <= k /\ k <= 1000
  OBVIOUS
<1>3. x <= y => f[x] <= f[y]
  BY DEF IsCurve
<1> QED
  BY <1>1, <1>2, <1>3

(* The two shares that follow a curve.                                     *)
Thousandths == 0 .. 1000

LEMMA Curves ==
    ASSUME IsCurve(LiquidityCurve), IsCurve(VolumeCurve), NEW x \in Nat, NEW y \in Nat
    PROVE  /\ scoreLiquidity(x) \in Thousandths /\ scoreVolume(x) \in Thousandths
           /\ x <= y => /\ scoreLiquidity(x) <= scoreLiquidity(y)
                        /\ scoreVolume(x) <= scoreVolume(y)
<1> DEFINE lx == LiquidityCurve[x]
           ly == LiquidityCurve[y]
           vx == VolumeCurve[x]
           vy == VolumeCurve[y]
           sx == scoreLiquidity(x)
           sy == scoreLiquidity(y)
           tx == scoreVolume(x)
           ty == scoreVolume(y)
<1>1. /\ lx \in Int /\ 0 <= lx /\ lx <= 1000 /\ ly \in Int /\ 0 <= ly /\ ly <= 1000
      /\ x <= y => lx <= ly
  BY Curve
<1>2. /\ vx \in Int /\ 0 <= vx /\ vx <= 1000 /\ vy \in Int /\ 0 <= vy /\ vy <= 1000
      /\ x <= y => vx <= vy
  BY Curve
<1>3. /\ sx = IF x < 1000 THEN 0 ELSE IF x > 500000 THEN 1000 ELSE lx
      /\ sy = IF y < 1000 THEN 0 ELSE IF y > 500000 THEN 1000 ELSE ly
  BY DEF scoreLiquidity
<1>4. /\ tx = IF x < 100 THEN 0 ELSE IF x > 100000 THEN 1000 ELSE vx
      /\ ty = IF y < 100 THEN 0 ELSE IF y > 100000 THEN 1000 ELSE vy
  BY DEF scoreVolume
<1> HIDE DEF lx, ly, vx, vy, sx, sy, tx, ty
<1>5. sx \in Thousandths /\ (x <= y => sx <= sy)
  BY <1>1, <1>3 DEF Thousandths
<1>6. tx \in Thousandths /\ (x <= y => tx <= ty)
  BY <1>2, <1>4 DEF Thousandths
<1> QED
  BY <1>5, <1>6 DEF sx, sy, tx, ty

LEMMA CurveShares ==
    ASSUME IsCurve(LiquidityCurve), IsCurve(VolumeCurve)
    PROVE  \A x \in Nat : scoreLiquidity(x) \in Thousandths /\ scoreVolume(x) \in Thousandths
<1> SUFFICES ASSUME NEW x \in Nat
             PROVE  scoreLiquidity(x) \in Thousandths /\ scoreVolume(x) \in Thousandths
  OBVIOUS
<1> QED
  BY Curves

(* The five shares stay within their units.                                *)
LEMMA Shares ==
    ASSUME IsCurve(LiquidityCurve), IsCurve(VolumeCurve), NEW m \in Metrics
    PROVE  /\ scoreLiquidity(m.liquidity) \in 0 .. 1000
           /\ scoreVolume(m.volume) \in 0 .. 1000
           /\ scoreCoverage(m.dexes, m.sources) \in 0 .. 12
           /\ scoreHealth(m.age, m.holders, m.pools) \in 50 .. 100
           /\ scoreRisk(m.risk, m.tax) \in 0 .. 400
<1>0. m.liquidity \in Nat /\ m.volume \in Nat
  BY DEF Metrics
<1>1. scoreLiquidity(m.liquidity) \in 0 .. 1000
  <2>1. scoreLiquidity(m.liquidity) \in Thousandths
    BY <1>0, CurveShares
  <2> QED
    BY <2>1 DEF Thousandths
<1>2. scoreVolume(m.volume) \in 0 .. 1000
  <2>1. scoreVolume(m.volume) \in Thousandths
    BY <1>0, CurveShares
  <2> QED
    BY <2>1 DEF Thousandths
<1>3. scoreCoverage(m.dexes, m.sources) \in 0 .. 12
  BY DEF Metrics, scoreCoverage, Least
<1>4. scoreHealth(m.age, m.holders, m.pools) \in 50 .. 100
  BY DEF Metrics, scoreHealth, Bonus
<1>5. scoreRisk(m.risk, m.tax) \in 0 .. 400
  <2>1. 100 - Least(100, m.risk) \in 0 .. 100
    BY DEF Metrics, Least
  <2>2. TaxFactor(m.tax) \in {2, 3, 4}
    BY DEF Metrics, TaxFactor
  <2>3. \A a \in 0 .. 100, t \in {2, 3, 4} : a * t \in 0 .. 400
    OBVIOUS
  <2>4. (100 - Least(100, m.risk)) * TaxFactor(m.tax) \in 0 .. 400
    BY <2>1, <2>2, <2>3
  <2> QED
    BY <2>4 DEF scoreRisk
<1> QED
  BY <1>1, <1>2, <1>3, <1>4, <1>5

(* Every weighted sum is between the baseline of health and all its parts. *)
LEMMA WeightedBounds ==
    ASSUME IsCurve(LiquidityCurve), IsCurve(VolumeCurve), NEW m \in Metrics
    PROVE  /\ Weighted(m) \in Int /\ 5000 <= Weighted(m) /\ Weighted(m) <= 100000
           /\ scoreLiquidity(m.liquidity) = 0 => Weighted(m) <= 60000
           /\ scoreLiquidity(m.liquidity) = 0 /\ scoreVolume(m.volume) = 0
                => Weighted(m) <= 35000
           /\ scoreLiquidity(m.liquidity) = 1000 /\ scoreVolume(m.volume) = 1000
                => 70000 <= Weighted(m)
<1> DEFINE l == scoreLiquidity(m.liquidity)
           v == scoreVolume(m.volume)
           c == scoreCoverage(m.dexes, m.sources)
           h == scoreHealth(m.age, m.holders, m.pools)
           r == scoreRisk(m.risk, m.tax)
<1>1. /\ l \in 0 .. 1000 /\ v \in 0 .. 1000 /\ c \in 0 .. 12
      /\ h \in 50 .. 100 /\ r \in 0 .. 400
  BY Shares
<1>2. Weighted(m) = Sum5(l, v, c, h, r)
  BY DEF Weighted
<1> HIDE DEF l, v, c, h, r
<1>3. /\ l \in Int /\ 0 <= l /\ l <= 1000 /\ v \in Int /\ 0 <= v /\ v <= 1000
      /\ c \in Int /\ 0 <= c /\ c <= 12 /\ h \in Int /\ 50 <= h /\ h <= 100
      /\ r \in Int /\ 0 <= r /\ r <= 400
  BY <1>1
<1> DEFINE s == Sum5(l, v, c, h, r)
<1>4. /\ s \in Int /\ 5000 <= s /\ s <= 100000
      /\ l = 0 => s <= 60000
      /\ l = 0 /\ v = 0 => s <= 35000
      /\ l = 1000 /\ v = 1000 => 70000 <= s
  <2>1. 5000 <= s /\ s <= 100000
    BY <1>3, SMT DEF Sum5
  <2>2. l = 0 => s <= 60000
    BY <1>3, SMT DEF Sum5
  <2>3. l = 0 /\ v = 0 => s <= 35000
    BY <1>3, SMT DEF Sum5
  <2>4. l = 1000 /\ v = 1000 => 70000 <= s
    BY <1>3, SMT DEF Sum5
  <2>5. s \in Int
    BY <1>3, SMT DEF Sum5
  <2> QED
    BY <2>1, <2>2, <2>3, <2>4, <2>5
<1> QED
  BY <1>2, <1>4 DEF l, v

(* No score is clamped: the weights add up to 100, and every pair scores   *)
(* between 5, the baseline of its health, and 100                          *)
(* (MarketOpportunityScore.ts:39-46, :83).                                 *)
THEOREM ScoreInRange ==
    ASSUME IsCurve(LiquidityCurve), IsCurve(VolumeCurve), NEW m \in Metrics
    PROVE  /\ calculate(m) = (Weighted(m) + 500) \div 1000
           /\ calculate(m) \in 5 .. 100
<1> DEFINE w == Weighted(m)
<1>1. w \in Int /\ 5000 <= w /\ w <= 100000
  BY WeightedBounds
<1> HIDE DEF w
<1>2. 5 <= (w + 500) \div 1000
  BY <1>1
<1>3. (w + 500) \div 1000 <= 100
  BY <1>1
<1>4. (w + 500) \div 1000 \in Int
  BY <1>1
<1>5. calculate(m) = LET rounded == (w + 500) \div 1000
                     IN  IF rounded < 0 THEN 0 ELSE Least(100, rounded)
  BY DEF calculate, w
<1> DEFINE rounded == (w + 500) \div 1000
<1>6. calculate(m) = rounded /\ rounded \in 5 .. 100
  <2>1. rounded \in Int /\ 5 <= rounded /\ rounded <= 100
    BY <1>2, <1>3, <1>4
  <2>2. calculate(m) = IF rounded < 0 THEN 0 ELSE IF 100 < rounded THEN 100 ELSE rounded
    BY <1>5 DEF Least
  <2> HIDE DEF rounded
  <2> QED
    BY <2>1, <2>2
<1> QED
  BY <1>6 DEF w

(* A pair that is no riskier, taxed no higher, no shallower and traded no  *)
(* less than another scores no lower, and so on for its venues, sources,   *)
(* age, holders and pools: no threshold of the shares is on the wrong side *)
(* (MarketOpportunityScore.ts:53-112).                                     *)
THEOREM BetterScoresNoLower ==
    ASSUME IsCurve(LiquidityCurve), IsCurve(VolumeCurve),
           NEW m \in Metrics, NEW n \in Metrics,
           m.liquidity <= n.liquidity, m.volume <= n.volume,
           m.dexes <= n.dexes, m.sources <= n.sources,
           m.age <= n.age, m.holders <= n.holders, m.pools <= n.pools,
           n.risk <= m.risk, n.tax <= m.tax
    PROVE  calculate(m) <= calculate(n)
<1>0. /\ m.liquidity \in Nat /\ m.volume \in Nat
      /\ n.liquidity \in Nat /\ n.volume \in Nat
  BY DEF Metrics
<1>1. scoreLiquidity(m.liquidity) <= scoreLiquidity(n.liquidity)
  BY <1>0, Curves
<1>2. scoreVolume(m.volume) <= scoreVolume(n.volume)
  BY <1>0, Curves
<1>3. scoreCoverage(m.dexes, m.sources) <= scoreCoverage(n.dexes, n.sources)
  BY DEF Metrics, scoreCoverage, Least
<1>4. scoreHealth(m.age, m.holders, m.pools) <= scoreHealth(n.age, n.holders, n.pools)
  <2>1. /\ Bonus(m.age, 7, 10, 30, 20) \in Int /\ Bonus(n.age, 7, 10, 30, 20) \in Int
        /\ Bonus(m.age, 7, 10, 30, 20) <= Bonus(n.age, 7, 10, 30, 20)
    BY DEF Metrics, Bonus
  <2>2. /\ Bonus(m.holders, 20, 8, 100, 15) \in Int /\ Bonus(n.holders, 20, 8, 100, 15) \in Int
        /\ Bonus(m.holders, 20, 8, 100, 15) <= Bonus(n.holders, 20, 8, 100, 15)
    BY DEF Metrics, Bonus
  <2>3. /\ Bonus(m.pools, 1, 8, 2, 15) \in Int /\ Bonus(n.pools, 1, 8, 2, 15) \in Int
        /\ Bonus(m.pools, 1, 8, 2, 15) <= Bonus(n.pools, 1, 8, 2, 15)
    BY DEF Metrics, Bonus
  <2> QED
    BY <2>1, <2>2, <2>3 DEF scoreHealth
<1>5. scoreRisk(m.risk, m.tax) <= scoreRisk(n.risk, n.tax)
  <2>1. /\ 100 - Least(100, m.risk) \in 0 .. 100 /\ 100 - Least(100, n.risk) \in 0 .. 100
        /\ 100 - Least(100, m.risk) <= 100 - Least(100, n.risk)
    BY DEF Metrics, Least
  <2>2. /\ TaxFactor(m.tax) \in {2, 3, 4} /\ TaxFactor(n.tax) \in {2, 3, 4}
        /\ TaxFactor(m.tax) <= TaxFactor(n.tax)
    BY DEF Metrics, TaxFactor
  <2> QED
    BY <2>1, <2>2, Products DEF scoreRisk
<1>6. Weighted(m) <= Weighted(n)
  <2> DEFINE l == scoreLiquidity(m.liquidity)
             v == scoreVolume(m.volume)
             c == scoreCoverage(m.dexes, m.sources)
             h == scoreHealth(m.age, m.holders, m.pools)
             r == scoreRisk(m.risk, m.tax)
             k == scoreLiquidity(n.liquidity)
             w == scoreVolume(n.volume)
             d == scoreCoverage(n.dexes, n.sources)
             g == scoreHealth(n.age, n.holders, n.pools)
             q == scoreRisk(n.risk, n.tax)
  <2>1. /\ l \in 0 .. 1000 /\ v \in 0 .. 1000 /\ c \in 0 .. 12
        /\ h \in 50 .. 100 /\ r \in 0 .. 400
    BY Shares
  <2>2. /\ k \in 0 .. 1000 /\ w \in 0 .. 1000 /\ d \in 0 .. 12
        /\ g \in 50 .. 100 /\ q \in 0 .. 400
    BY Shares
  <2>3. l <= k /\ v <= w /\ c <= d /\ h <= g /\ r <= q
    BY <1>1, <1>2, <1>3, <1>4, <1>5
  <2>4. Weighted(m) = Sum5(l, v, c, h, r) /\ Weighted(n) = Sum5(k, w, d, g, q)
    BY DEF Weighted
  <2> HIDE DEF l, v, c, h, r, k, w, d, g, q
  <2>5. l \in Int /\ v \in Int /\ c \in Int /\ h \in Int /\ r \in Int
    BY <2>1
  <2>6. k \in Int /\ w \in Int /\ d \in Int /\ g \in Int /\ q \in Int
    BY <2>2
  <2>7. Sum5(l, v, c, h, r) <= Sum5(k, w, d, g, q)
    BY ONLY <2>3, <2>5, <2>6, SMT DEF Sum5
  <2> QED
    BY <2>4, <2>7
<1>7. Weighted(m) \in Int /\ Weighted(n) \in Int
  BY WeightedBounds
<1>8. /\ calculate(m) = (Weighted(m) + 500) \div 1000
      /\ calculate(n) = (Weighted(n) + 500) \div 1000
  BY ScoreInRange
<1> QED
  BY <1>6, <1>7, <1>8, Rounding

(* Rounding keeps to the points that bound a sum.                          *)
LEMMA Points ==
    ASSUME NEW w \in Int
    PROVE  /\ w <= 60000 => (w + 500) \div 1000 <= 60
           /\ w <= 35000 => (w + 500) \div 1000 <= 35
           /\ 70000 <= w => 70 <= (w + 500) \div 1000
<1>1. w <= 60000 => (w + 500) \div 1000 <= 60
  OBVIOUS
<1>2. w <= 35000 => (w + 500) \div 1000 <= 35
  OBVIOUS
<1>3. 70000 <= w => 70 <= (w + 500) \div 1000
  OBVIOUS
<1> QED
  BY <1>1, <1>2, <1>3, SMT

(* Without liquidity no pair is a high opportunity, however good the rest, *)
(* and without volume too it is a low one                                  *)
(* (MarketOpportunityScore.ts:53-67, :117-133).                            *)
THEOREM NoHighWithoutLiquidity ==
    ASSUME IsCurve(LiquidityCurve), IsCurve(VolumeCurve), NEW m \in Metrics,
           m.liquidity < 1000
    PROVE  /\ isMediumOpportunity(calculate(m)) \/ isLowOpportunity(calculate(m))
           /\ m.volume < 100 => isLowOpportunity(calculate(m))
<1>1. scoreLiquidity(m.liquidity) = 0 /\ (m.volume < 100 => scoreVolume(m.volume) = 0)
  BY DEF scoreLiquidity, scoreVolume
<1>2. /\ Weighted(m) \in Int /\ Weighted(m) <= 60000
      /\ m.volume < 100 => Weighted(m) <= 35000
  BY <1>1, WeightedBounds, SMT
<1>3. /\ calculate(m) = (Weighted(m) + 500) \div 1000
      /\ calculate(m) \in 5 .. 100
  BY ScoreInRange
<1>4. calculate(m) <= 60 /\ (m.volume < 100 => calculate(m) <= 35)
  BY <1>2, <1>3, Points, SMT
<1> DEFINE s == calculate(m)
<1>5. s \in Int /\ s <= 60 /\ (m.volume < 100 => s <= 35)
  BY <1>3, <1>4
<1> HIDE DEF s
<1>6. (s >= 50 /\ s < 70) \/ s < 50
  BY <1>5
<1>7. m.volume < 100 => s < 50
  BY <1>5
<1> QED
  BY <1>6, <1>7 DEF s, isMediumOpportunity, isLowOpportunity

(* A pair that is deep enough and traded enough is a high opportunity      *)
(* whatever else is known of it: the greatest risk, the highest taxes, one *)
(* venue and one source do not bring it below 70, because the baseline of  *)
(* the health share makes up for them                                      *)
(* (MarketOpportunityScore.ts:39-46, :83, :103-111, :117-119).             *)
THEOREM HighWhateverTheRisk ==
    ASSUME IsCurve(LiquidityCurve), IsCurve(VolumeCurve), NEW m \in Metrics,
           m.liquidity > 500000, m.volume > 100000
    PROVE  isHighOpportunity(calculate(m))
<1>0. m.liquidity \in Int /\ m.volume \in Int
  BY DEF Metrics
<1>1. scoreLiquidity(m.liquidity) = 1000
  BY <1>0 DEF scoreLiquidity
<1>2. scoreVolume(m.volume) = 1000
  BY <1>0 DEF scoreVolume
<1>3. Weighted(m) \in Int /\ 70000 <= Weighted(m)
  BY <1>1, <1>2, WeightedBounds, SMT
<1>4. /\ calculate(m) = (Weighted(m) + 500) \div 1000
      /\ calculate(m) \in 5 .. 100
  BY ScoreInRange
<1>5. 70 <= calculate(m)
  BY <1>3, <1>4, Points, SMT
<1> QED
  BY <1>4, <1>5 DEF isHighOpportunity
=============================================================================
