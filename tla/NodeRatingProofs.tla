--------------------------- MODULE NodeRatingProofs ---------------------------
(***************************************************************************)
(* Proofs about what the server makes of a node's measurements: the        *)
(* network score, the compute score and the rating.  First come facts      *)
(* about numbers and about samples, which the proofs about the agent's     *)
(* collectors use as well.                                                 *)
(***************************************************************************)
EXTENDS NodeRating, NetworkScore, ComputeScore,
        FiniteSetTheorems, WellFoundedInduction, TLAPS

-------------------------------------------------------------------------------
(* Least elements, induction and recursion over the naturals, stated about *)
(* sets and functions, which the provers can instantiate.                  *)

\* Every set of naturals has a least element,
LEMMA LeastNumber ==
  ASSUME NEW T \in SUBSET Nat, T # {}
  PROVE  \E x \in T : \A y \in T : x <= y
<1> DEFINE R == OpToRel(<, Nat)
<1>1. \E x \in T : \A y \in T : ~ (<<y, x>> \in R)
  <2>1. IsWellFoundedOn(R, Nat)
    BY NatLessThanWellFounded
  <2> HIDE DEF R
  <2> QED BY <2>1, WFMin
<1>2. ASSUME NEW x \in Nat, NEW y \in Nat, ~(<<y, x>> \in R) PROVE x <= y
  BY <1>2 DEF OpToRel
<1> QED BY <1>1, <1>2

\* and, if it is bounded, a greatest.
LEMMA GreatestNumber ==
  ASSUME NEW T \in SUBSET Nat, T # {}, NEW n \in Nat, \A y \in T : y <= n
  PROVE  \E x \in T : \A y \in T : y <= x
<1> DEFINE U == {n - y : y \in T}
<1>1. U \in SUBSET Nat /\ U # {}
  <2>1. \A y \in T : n - y \in Nat
    OBVIOUS
  <2> QED BY <2>1
<1>2. PICK u \in U : \A v \in U : u <= v
  BY <1>1, LeastNumber
<1>3. PICK x \in T : u = n - x
  OBVIOUS
<1>4. \A y \in T : n - x <= n - y
  BY <1>2, <1>3
<1> QED BY <1>4

\* Induction, over a set instead of a predicate.
LEMMA InductionOnNat ==
  ASSUME NEW S, 0 \in S, \A n \in Nat : n \in S => n + 1 \in S
  PROVE  Nat \subseteq S
<1> SUFFICES ASSUME Nat \ S # {} PROVE FALSE
  OBVIOUS
<1>1. PICK x \in Nat \ S : \A y \in Nat \ S : x <= y
  <2>1. Nat \ S \in SUBSET Nat
    OBVIOUS
  <2> QED BY <2>1, LeastNumber
<1>2. x # 0 /\ x - 1 \in Nat /\ x - 1 \in S
  BY <1>1
<1> QED BY <1>2

\* f gives the value of a loop before and after each of its N rounds,
Rounds(f, N, first, next) == f[0] = first /\ \A n \in 1..N : f[n] = next[<<n, f[n - 1]>>]

\* and there is such a function, whatever the loop starts with and does.
LEMMA LoopExists ==
  ASSUME NEW N \in Nat, NEW S, NEW first \in S, NEW next \in [(1..N) \X S -> S]
  PROVE  \E f \in [0..N -> S] : Rounds(f, N, first, next)
<1> DEFINE Upto(m) == \E f \in [0..m -> S] :
              /\ f[0] = first
              /\ \A n \in 1..m : f[n] = next[<<n, f[n - 1]>>]
           Good == {m \in Nat : m <= N => Upto(m)}
<1>1. 0 \in Good
  <2> DEFINE f == [n \in 0..0 |-> first]
  <2>1. f \in [0..0 -> S] /\ f[0] = first /\ \A n \in 1..0 : f[n] = next[<<n, f[n - 1]>>]
    OBVIOUS
  <2> HIDE DEF f
  <2>2. Upto(0)
    BY <2>1
  <2> QED BY <2>2
<1>2. ASSUME NEW m \in Nat, m \in Good
      PROVE  m + 1 \in Good
  <2> SUFFICES ASSUME m + 1 <= N PROVE Upto(m + 1)
    OBVIOUS
  <2>1. PICK f \in [0..m -> S] : /\ f[0] = first
                                 /\ \A n \in 1..m : f[n] = next[<<n, f[n - 1]>>]
    BY <1>2
  <2> DEFINE g == [n \in 0..(m + 1) |-> IF n <= m THEN f[n] ELSE next[<<m + 1, f[m]>>]]
  <2>2. g \in [0..(m + 1) -> S]
    <3>1. next[<<m + 1, f[m]>>] \in S /\ \A n \in 0..m : f[n] \in S
      OBVIOUS
    <3> QED BY <3>1
  <2>3. g[0] = first /\ \A n \in 1..(m + 1) : g[n] = next[<<n, g[n - 1]>>]
    <3>1. g[0] = f[0]
      OBVIOUS
    <3>2. ASSUME NEW n \in 1..m PROVE g[n] = next[<<n, g[n - 1]>>]
      <4>1. g[n] = f[n] /\ g[n - 1] = f[n - 1]
        OBVIOUS
      <4> QED BY <2>1, <4>1
    <3>3. g[m + 1] = next[<<m + 1, g[m]>>]
      OBVIOUS
    <3>4. \A n \in 1..(m + 1) : n \in 1..m \/ (n = m + 1 /\ n - 1 = m)
      OBVIOUS
    <3> QED BY <2>1, <3>1, <3>2, <3>3, <3>4
  <2> HIDE DEF g
  <2> QED BY <2>2, <2>3
<1>3. Upto(N)
  <2> HIDE DEF Upto
  <2>1. Nat \subseteq Good
    <3> HIDE DEF Good
    <3> QED BY <1>1, <1>2, InductionOnNat
  <2> QED BY <2>1
<1> QED BY <1>3 DEF Rounds
\* Whole division, for any positive divisor.
LEMMA Division ==
  ASSUME NEW a \in Int, NEW d \in Nat \ {0}
  PROVE  a \div d \in Int /\ d * (a \div d) <= a /\ a < d * (a \div d) + d
  OBVIOUS

LEMMA DivisionIsMonotone ==
  ASSUME NEW a \in Int, NEW b \in Int, NEW d \in Nat \ {0}, a <= b
  PROVE  a \div d <= b \div d
<1> DEFINE p == a \div d
           q == b \div d
<1>1. p \in Int /\ q \in Int /\ d * p <= a /\ b < d * q + d
  BY Division
<1> HIDE DEF p, q
<1>2. d * p < d * (q + 1)
  BY <1>1
<1>3. p < q + 1
  BY <1>1, <1>2
<1> QED BY <1>1, <1>3 DEF p, q

LEMMA Quotient ==
  ASSUME NEW q \in Int, NEW d \in Nat \ {0}, NEW r \in 0..(d - 1)
  PROVE  (d * q + r) \div d = q
<1> DEFINE p == (d * q + r) \div d
<1>1. p \in Int /\ d * p <= d * q + r /\ d * q + r < d * p + d
  BY Division
<1> HIDE DEF p
<1>2. d * p < d * (q + 1) /\ d * q < d * (p + 1)
  BY <1>1
<1>3. p < q + 1 /\ q < p + 1
  BY <1>1, <1>2
<1> QED BY <1>1, <1>3 DEF p

-------------------------------------------------------------------------------
(* Network score.                                                          *)

Better(m, n) ==
  /\ n.ipv4 => m.ipv4
  /\ n.ipv6 => m.ipv6
  /\ m.download >= n.download /\ m.upload >= n.upload
  /\ m.latency <= n.latency /\ m.jitter <= n.jitter /\ m.loss <= n.loss

\* A larger factor makes a larger product,
LEMMA Multiples ==
  ASSUME NEW a \in Int, NEW b \in Int, NEW g \in Nat, a <= b
  PROVE  a * g <= b * g
  OBVIOUS

\* so that bandwidth earns points up to 1000 Mbps,
LEMMA BandwidthIsMonotone ==
  ASSUME NEW x \in Int, NEW y \in Int, x <= y
  PROVE  /\ BandwidthPoints(x) \in Int /\ BandwidthPoints(y) \in Int
         /\ BandwidthPoints(x) <= BandwidthPoints(y)
         /\ 0 <= BandwidthPoints(x) /\ BandwidthPoints(y) <= 15 * Scale
<1> DEFINE unit == (15 * Scale) \div 1000
<1>1. unit \in Nat /\ 15 * Scale = 1000 * unit
  <2>1. Grain \in Nat /\ 15 * Scale = 1000 * (171 * Grain) + 0
    BY GrainAssumption DEF Scale
  <2>2. (1000 * (171 * Grain) + 0) \div 1000 = 171 * Grain
    BY <2>1, Quotient
  <2> QED BY <2>1, <2>2
<1>2. /\ Clamp(x, 0, 1000) \in Int /\ Clamp(y, 0, 1000) \in Int
      /\ 0 <= Clamp(x, 0, 1000) /\ Clamp(x, 0, 1000) <= Clamp(y, 0, 1000)
      /\ Clamp(y, 0, 1000) <= 1000
  BY DEF Clamp
<1> HIDE DEF unit
<1>3. /\ 0 * unit <= Clamp(x, 0, 1000) * unit
      /\ Clamp(x, 0, 1000) * unit <= Clamp(y, 0, 1000) * unit
      /\ Clamp(y, 0, 1000) * unit <= 1000 * unit
  BY <1>1, <1>2, Multiples
<1>4. BandwidthPoints(x) = Clamp(x, 0, 1000) * unit /\ BandwidthPoints(y) = Clamp(y, 0, 1000) * unit
  BY DEF BandwidthPoints, unit
<1> QED BY <1>1, <1>2, <1>3, <1>4

\* times lose them linearly,
LEMMA LatencyIsMonotone ==
  ASSUME NEW x \in Int, NEW y \in Int, x <= y
  PROVE  /\ DecreasingLinear(x, 10, 200, 20) \in Int /\ DecreasingLinear(y, 10, 200, 20) \in Int
         /\ DecreasingLinear(y, 10, 200, 20) <= DecreasingLinear(x, 10, 200, 20)
         /\ 0 <= DecreasingLinear(y, 10, 200, 20)
         /\ DecreasingLinear(x, 10, 200, 20) <= 20 * Scale
<1>1. Grain \in Nat \ {0} /\ Scale = 11400 * Grain
  BY GrainAssumption DEF Scale
<1>2. (20 * Scale) \div ((200 - 10) * Grain) = 1200
  <2>1. 20 * Scale = (190 * Grain) * 1200 + 0 /\ (200 - 10) * Grain = 190 * Grain
    BY <1>1
  <2>2. ((190 * Grain) * 1200 + 0) \div (190 * Grain) = 1200
    <3>1. 190 * Grain \in Nat \ {0} /\ 0 \in 0..(190 * Grain - 1)
      BY <1>1
    <3> QED BY <3>1, Quotient
  <2> QED BY <2>1, <2>2
<1> QED BY <1>1, <1>2 DEF DecreasingLinear

LEMMA JitterIsMonotone ==
  ASSUME NEW x \in Int, NEW y \in Int, x <= y
  PROVE  /\ DecreasingLinear(x, 2, 50, 10) \in Int /\ DecreasingLinear(y, 2, 50, 10) \in Int
         /\ DecreasingLinear(y, 2, 50, 10) <= DecreasingLinear(x, 2, 50, 10)
         /\ 0 <= DecreasingLinear(y, 2, 50, 10)
         /\ DecreasingLinear(x, 2, 50, 10) <= 10 * Scale
<1>1. Grain \in Nat \ {0} /\ Scale = 11400 * Grain
  BY GrainAssumption DEF Scale
<1>2. (10 * Scale) \div ((50 - 2) * Grain) = 2375
  <2>1. 10 * Scale = (48 * Grain) * 2375 + 0 /\ (50 - 2) * Grain = 48 * Grain
    BY <1>1
  <2>2. ((48 * Grain) * 2375 + 0) \div (48 * Grain) = 2375
    <3>1. 48 * Grain \in Nat \ {0} /\ 0 \in 0..(48 * Grain - 1)
      BY <1>1
    <3> QED BY <3>1, Quotient
  <2> QED BY <2>1, <2>2
<1> QED BY <1>1, <1>2 DEF DecreasingLinear

\* and loss loses them by its square, all of them at 5 percent.
LEMMA LossIsMonotone ==
  ASSUME NEW x \in Int, NEW y \in Int, x <= y
  PROVE  /\ LossPoints(x) \in Int /\ LossPoints(y) \in Int
         /\ LossPoints(y) <= LossPoints(x)
         /\ 0 <= LossPoints(y) /\ LossPoints(x) <= 30 * Scale
         /\ y >= 5 => LossPoints(y) = 0
<1> DEFINE Left(p) == 5 - Clamp(p, 0, 5)
           unit == (30 * Scale) \div 25
<1>1. unit \in Nat /\ 30 * Scale = 25 * unit
  <2>1. Grain \in Nat /\ 30 * Scale = 25 * (13680 * Grain) + 0
    BY GrainAssumption DEF Scale
  <2>2. (25 * (13680 * Grain) + 0) \div 25 = 13680 * Grain
    BY <2>1, Quotient
  <2> QED BY <2>1, <2>2
<1>2. Left(x) \in 0..5 /\ Left(y) \in 0..5 /\ Left(y) <= Left(x) /\ (y >= 5 => Left(y) = 0)
  BY DEF Clamp
<1>3. /\ LossPoints(x) = Left(x) * Left(x) * unit
      /\ LossPoints(y) = Left(y) * Left(y) * unit
  BY DEF LossPoints
<1> HIDE DEF Left, unit
<1>4. \A a \in 0..5 : a * a \in 0..25
  <2>1. \A a \in 0..5 : a = 0 \/ a = 1 \/ a = 2 \/ a = 3 \/ a = 4 \/ a = 5
    OBVIOUS
  <2> QED BY <2>1
<1>5. /\ Left(y) * Left(y) <= Left(x) * Left(x)
      /\ Left(x) * Left(x) \in 0..25 /\ Left(y) * Left(y) \in 0..25
      /\ y >= 5 => Left(y) * Left(y) = 0
  <2>1. Left(x) \in 0..5 /\ Left(y) \in 0..5
    BY <1>2
  <2>2. Left(y) * Left(y) <= Left(x) * Left(y) /\ Left(x) * Left(y) <= Left(x) * Left(x)
    BY <1>2, <2>1
  <2> QED BY <1>2, <1>4, <2>1, <2>2
<1> DEFINE lx == Left(x) * Left(x)
           ly == Left(y) * Left(y)
<1> HIDE DEF lx, ly
<1>6. /\ lx \in 0..25 /\ ly \in 0..25 /\ ly <= lx /\ (y >= 5 => ly = 0)
      /\ LossPoints(x) = lx * unit /\ LossPoints(y) = ly * unit
  BY <1>3, <1>5 DEF lx, ly
<1>7. ly * unit <= lx * unit /\ lx * unit <= 25 * unit /\ 0 * unit <= ly * unit
  BY <1>1, <1>6, Multiples
<1> QED BY <1>1, <1>6, <1>7

\* The sum of the points, taken apart.
LEMMA PointsOf ==
  ASSUME NEW m \in Measurement
  PROVE  /\ Points(m) \in Int /\ 0 <= Points(m)
         /\ m.loss >= 5 => Points(m) <= 70 * Scale
<1>1. Scale \in Nat
  BY GrainAssumption DEF Scale
<1>2. /\ m.download \in Int /\ m.upload \in Int /\ m.latency \in Int /\ m.jitter \in Int
      /\ m.loss \in Int
  BY DEF Measurement
<1>3. /\ BandwidthPoints(m.download) \in 0..(15 * Scale)
      /\ BandwidthPoints(m.upload) \in 0..(15 * Scale)
      /\ DecreasingLinear(m.latency, 10, 200, 20) \in 0..(20 * Scale)
      /\ DecreasingLinear(m.jitter, 2, 50, 10) \in 0..(10 * Scale)
      /\ LossPoints(m.loss) \in 0..(30 * Scale)
      /\ m.loss >= 5 => LossPoints(m.loss) = 0
  <2>1. \A x \in Int : x <= x
    OBVIOUS
  <2>2. /\ BandwidthPoints(m.download) \in 0..(15 * Scale)
        /\ BandwidthPoints(m.upload) \in 0..(15 * Scale)
    BY <1>1, <1>2, <2>1, BandwidthIsMonotone
  <2>3. DecreasingLinear(m.latency, 10, 200, 20) \in 0..(20 * Scale)
    BY <1>1, <1>2, <2>1, LatencyIsMonotone
  <2>4. DecreasingLinear(m.jitter, 2, 50, 10) \in 0..(10 * Scale)
    BY <1>1, <1>2, <2>1, JitterIsMonotone
  <2>5. /\ LossPoints(m.loss) \in 0..(30 * Scale)
        /\ m.loss >= 5 => LossPoints(m.loss) = 0
    BY <1>1, <1>2, <2>1, LossIsMonotone
  <2> QED BY <2>2, <2>3, <2>4, <2>5
<1> QED BY <1>1, <1>3 DEF Points

LEMMA PointsAreMonotone ==
  ASSUME NEW m \in Measurement, NEW n \in Measurement, Better(m, n)
  PROVE  Points(n) <= Points(m)
<1>1. Scale \in Nat
  BY GrainAssumption DEF Scale
<1>2. /\ n.download \in Int /\ n.upload \in Int /\ n.latency \in Int /\ n.jitter \in Int
      /\ m.download \in Int /\ m.upload \in Int /\ m.latency \in Int /\ m.jitter \in Int
      /\ n.loss \in Int /\ m.loss \in Int
  BY DEF Measurement
<1>3. /\ n.download <= m.download /\ n.upload <= m.upload
      /\ m.latency <= n.latency /\ m.jitter <= n.jitter /\ m.loss <= n.loss
      /\ n.ipv4 => m.ipv4
      /\ n.ipv6 => m.ipv6
  BY <1>2 DEF Better
<1>4. /\ BandwidthPoints(n.download) <= BandwidthPoints(m.download)
      /\ BandwidthPoints(n.download) \in Int /\ BandwidthPoints(m.download) \in Int
      /\ BandwidthPoints(n.upload) <= BandwidthPoints(m.upload)
      /\ BandwidthPoints(n.upload) \in Int /\ BandwidthPoints(m.upload) \in Int
  BY <1>2, <1>3, BandwidthIsMonotone
<1>5. /\ DecreasingLinear(n.latency, 10, 200, 20) <= DecreasingLinear(m.latency, 10, 200, 20)
      /\ DecreasingLinear(n.latency, 10, 200, 20) \in Int
      /\ DecreasingLinear(m.latency, 10, 200, 20) \in Int
  BY <1>2, <1>3, LatencyIsMonotone
<1>6. /\ DecreasingLinear(n.jitter, 2, 50, 10) <= DecreasingLinear(m.jitter, 2, 50, 10)
      /\ DecreasingLinear(n.jitter, 2, 50, 10) \in Int
      /\ DecreasingLinear(m.jitter, 2, 50, 10) \in Int
  BY <1>2, <1>3, JitterIsMonotone
<1>7. /\ LossPoints(n.loss) <= LossPoints(m.loss)
      /\ LossPoints(n.loss) \in Int /\ LossPoints(m.loss) \in Int
  BY <1>2, <1>3, LossIsMonotone
<1>8. /\ (IF n.ipv4 THEN 6 * Scale ELSE 0) <= (IF m.ipv4 THEN 6 * Scale ELSE 0)
      /\ (IF n.ipv6 THEN 4 * Scale ELSE 0) <= (IF m.ipv6 THEN 4 * Scale ELSE 0)
  BY <1>1, <1>3
<1> QED BY <1>1, <1>4, <1>5, <1>6, <1>7, <1>8 DEF Points

\* The points rounded to a score, in halves of a point.
LEMMA ScoreOf ==
  ASSUME NEW m \in Measurement
  PROVE  /\ CalculateNetworkScore(m) \in Int /\ 0 <= CalculateNetworkScore(m)
         /\ m.loss >= 5 => CalculateNetworkScore(m) <= 70
<1> DEFINE points == Clamp(Points(m), 0, 100 * Scale)
<1>1. Scale \in Nat \ {0} /\ 2 * Scale \in Nat \ {0}
  BY GrainAssumption DEF Scale
<1>2. points \in Int /\ 0 <= points /\ (m.loss >= 5 => points <= 70 * Scale)
  BY <1>1, PointsOf DEF Clamp
<1> HIDE DEF points
<1>3. /\ 0 <= (2 * points + Scale) \div (2 * Scale)
      /\ (2 * points + Scale) \div (2 * Scale) \in Int
  <2>1. 0 \div (2 * Scale) = 0
    <3>1. (2 * Scale) * 0 + 0 = 0 /\ 0 \in 0..(2 * Scale - 1)
      BY <1>1
    <3> QED BY <1>1, <3>1, Quotient
  <2> QED BY <1>1, <1>2, <2>1, Division, DivisionIsMonotone
<1>4. ASSUME m.loss >= 5
      PROVE  (2 * points + Scale) \div (2 * Scale) <= 70
  <2>1. (2 * Scale) * 70 + Scale \in Int /\ 2 * points + Scale \in Int
        /\ 2 * points + Scale <= (2 * Scale) * 70 + Scale
    BY <1>1, <1>2, <1>4
  <2>2. ((2 * Scale) * 70 + Scale) \div (2 * Scale) = 70
    <3>1. Scale \in 0..(2 * Scale - 1)
      BY <1>1
    <3> QED BY <1>1, <3>1, Quotient
  <2> QED BY <1>1, <2>1, <2>2, DivisionIsMonotone
<1>5. CalculateNetworkScore(m) =
        IF ~m.ipv4 /\ ~m.ipv6 THEN 0 ELSE (2 * points + Scale) \div (2 * Scale)
  BY DEF CalculateNetworkScore, points
<1> QED BY <1>3, <1>4, <1>5

\* CalculateNetworkScore is monotone in every measurement.
LEMMA ScoreIsMonotone ==
  ASSUME NEW m \in Measurement, NEW n \in Measurement, Better(m, n)
  PROVE  CalculateNetworkScore(n) <= CalculateNetworkScore(m)
<1> DEFINE low == Clamp(Points(n), 0, 100 * Scale)
           high == Clamp(Points(m), 0, 100 * Scale)
<1>1. Scale \in Nat \ {0} /\ 2 * Scale \in Nat \ {0}
  BY GrainAssumption DEF Scale
<1>2. low \in Int /\ high \in Int /\ low <= high
  BY <1>1, PointsOf, PointsAreMonotone DEF Clamp
<1> HIDE DEF low, high
<1>3. (2 * low + Scale) \div (2 * Scale) <= (2 * high + Scale) \div (2 * Scale)
  <2>1. 2 * low + Scale \in Int /\ 2 * high + Scale \in Int /\ 2 * low + Scale <= 2 * high + Scale
    BY <1>1, <1>2
  <2> QED BY <1>1, <2>1, DivisionIsMonotone
<1>4. CASE ~n.ipv4 /\ ~n.ipv6
  <2>1. CalculateNetworkScore(n) = 0
    BY <1>4 DEF CalculateNetworkScore
  <2> QED BY <2>1, ScoreOf
<1>5. CASE ~(~n.ipv4 /\ ~n.ipv6)
  <2>1. ~(~m.ipv4 /\ ~m.ipv6)
    BY <1>5 DEF Better
  <2> QED BY <1>3, <1>5, <2>1 DEF CalculateNetworkScore, low, high
<1> QED BY <1>4, <1>5

-------------------------------------------------------------------------------
(* Statistics.                                                             *)

\* There are finitely many samples, and so are those that any condition selects.
LEMMA SelectionsAreFinite ==
  ASSUME NEW D, IsFiniteSet(D), NEW P \in SUBSET D
  PROVE  /\ IsFiniteSet(P) /\ Cardinality(P) \in Nat /\ Cardinality(D) \in Nat
         /\ Cardinality(P) <= Cardinality(D)
  BY FS_Subset, FS_CardinalityType

\* Finitely many samples are bounded.
LEMMA SamplesAreBounded ==
  ASSUME NEW D, IsFiniteSet(D), NEW s \in [D -> Nat]
  PROVE  \E b \in Nat : \A i \in D : s[i] <= b
<1> DEFINE Good == {n \in Nat : \A P \in SUBSET D :
                      Cardinality(P) = n => \E b \in Nat : \A i \in P : s[i] <= b}
<1>1. 0 \in Good
  <2> SUFFICES ASSUME NEW P \in SUBSET D, Cardinality(P) = 0
               PROVE  \E b \in Nat : \A i \in P : s[i] <= b
    OBVIOUS
  <2>1. P = {}
    BY SelectionsAreFinite, FS_EmptySet
  <2> QED BY <2>1
<1>2. ASSUME NEW n \in Nat, n \in Good
      PROVE  n + 1 \in Good
  <2> SUFFICES ASSUME NEW P \in SUBSET D, Cardinality(P) = n + 1
               PROVE  \E b \in Nat : \A i \in P : s[i] <= b
    OBVIOUS
  <2>1. IsFiniteSet(P) /\ P # {}
    <3>1. IsFiniteSet(P)
      BY SelectionsAreFinite
    <3>2. Cardinality({}) = 0
      BY FS_EmptySet
    <3>3. ASSUME P = {} PROVE FALSE
      <4>1. Cardinality(P) = 0
        BY <3>2, <3>3
      <4> QED BY <4>1
    <3> QED BY <3>1, <3>3
  <2>2. PICK p \in P : TRUE
    BY <2>1
  <2>3. Cardinality(P \ {p}) = n
    <3>1. Cardinality(P \ {p}) = (n + 1) - 1
      BY <2>1, <2>2, FS_RemoveElement
    <3> QED BY <3>1
  <2>4. PICK b \in Nat : \A i \in P \ {p} : s[i] <= b
    <3>1. P \ {p} \in SUBSET D
      OBVIOUS
    <3> QED BY <1>2, <2>3, <3>1
  <2>5. s[p] \in Nat /\ \A i \in P : s[i] \in Nat
    BY <2>2
  <2>6. b + s[p] \in Nat /\ \A i \in P : s[i] <= b + s[p]
    BY <2>4, <2>5
  <2> QED BY <2>6
<1>3. Cardinality(D) \in Good
  <2> HIDE DEF Good
  <2> QED BY <1>1, <1>2, InductionOnNat, FS_CardinalityType
<1> QED BY <1>3

\* There is a k-th element of the sorted samples, which is all that CHOOSE in Kth asks for.
LEMMA KthIsSample ==
  ASSUME NEW D, IsFiniteSet(D), NEW s \in [D -> Nat], NEW k \in 1..Cardinality(D)
  PROVE  /\ Kth(s, k) \in Nat /\ \E i \in D : Kth(s, k) = s[i]
         /\ Cardinality(Below(s, Kth(s, k))) < k /\ k <= Cardinality(UpTo(s, Kth(s, k)))
<1> DEFINE V == {s[i] : i \in D}
           T == {v \in V : k <= Cardinality(UpTo(s, v))}
<1>0. /\ V \in SUBSET Nat /\ DOMAIN s = D /\ k \in Nat /\ 1 <= k /\ k <= Cardinality(D)
      /\ Cardinality(D) \in Nat
  BY FS_CardinalityType
<1>0a. D # {}
  <2>1. Cardinality({}) = 0
    BY FS_EmptySet
  <2>2. ASSUME D = {} PROVE FALSE
    <3>1. Cardinality(D) = 0
      BY <2>1, <2>2
    <3> QED BY <1>0, <3>1
  <2> QED BY <2>2
<1>1. \A v : /\ Cardinality(UpTo(s, v)) \in Nat /\ Cardinality(Below(s, v)) \in Nat
            /\ IsFiniteSet(Below(s, v))
  BY <1>0, SelectionsAreFinite DEF UpTo, Below
<1>2. T # {}
  <2>1. PICK b \in Nat : \A i \in D : s[i] <= b
    BY SamplesAreBounded
  <2>2. PICK x \in V : \A y \in V : y <= x
    <3>1. V # {} /\ \A y \in V : y <= b
      BY <1>0a, <2>1
    <3> HIDE DEF V
    <3> QED BY <1>0, <3>1, GreatestNumber
  <2>3. UpTo(s, x) = D
    BY <1>0, <2>2 DEF UpTo
  <2> QED BY <1>0, <2>3
<1>3. PICK v \in T : \A y \in T : v <= y
  <2>1. T \in SUBSET Nat
    BY <1>0
  <2> HIDE DEF T
  <2> QED BY <1>2, <2>1, LeastNumber
<1>4. v \in V /\ v \in Nat /\ \A y \in V : k <= Cardinality(UpTo(s, y)) => v <= y
  <2>1. v \in V /\ \A y \in V : k <= Cardinality(UpTo(s, y)) => v <= y
    BY <1>3
  <2> HIDE DEF V
  <2> QED BY <1>0, <2>1
<1>5. Cardinality(Below(s, v)) < k
  <2> SUFFICES ASSUME ~(Cardinality(Below(s, v)) < k)
               PROVE  FALSE
    OBVIOUS
  <2>0. k <= Cardinality(Below(s, v))
    BY <1>0, <1>1
  <2> DEFINE B == {s[i] : i \in Below(s, v)}
  <2>1. B \in SUBSET V
    BY <1>0 DEF Below
  <2>2. \A y \in B : y < v
    BY DEF Below
  <2>3. B # {}
    <3>1. ASSUME Below(s, v) = {} PROVE FALSE
      <4> HIDE DEF B, T, V
      <4>1. Cardinality({}) = 0
        BY FS_EmptySet
      <4>2. Cardinality(Below(s, v)) = 0
        BY <3>1, <4>1
      <4> QED BY <1>0, <2>0, <4>2
    <3> QED BY <3>1
  <2>4. PICK u \in B : \A y \in B : y <= u
    <3>1. B \in SUBSET Nat
      <4> HIDE DEF B, V
      <4> QED BY <1>0, <2>1
    <3>2. \A y \in B : y <= v
      <4> HIDE DEF B
      <4> QED BY <1>4, <2>2, <3>1
    <3> HIDE DEF B, V
    <3> QED BY <1>4, <2>3, <3>1, <3>2, GreatestNumber
  <2>5. u \in V /\ u \in Nat /\ u < v
    <3> HIDE DEF B, V
    <3> QED BY <1>0, <2>1, <2>2, <2>4
  <2>6. UpTo(s, u) = Below(s, v)
    <3>1. \A i \in DOMAIN s : s[i] \in Nat
      OBVIOUS
    <3>2. \A i \in DOMAIN s : s[i] < v => s[i] <= u
      BY <2>4 DEF Below
    <3> HIDE DEF V, T, B
    <3>3. \A i \in DOMAIN s : s[i] <= u => s[i] < v
      BY <1>4, <2>5, <3>1
    <3> QED BY <3>2, <3>3 DEF UpTo, Below
  <2>7. v <= u
    <3> HIDE DEF V, T, B
    <3> QED BY <1>4, <2>0, <2>5, <2>6
  <2> HIDE DEF V, T, B
  <2> QED BY <1>4, <2>5, <2>7
<1>6. \E x \in V : Cardinality(Below(s, x)) < k /\ k <= Cardinality(UpTo(s, x))
  BY <1>3, <1>5
<1>7. Kth(s, k) = CHOOSE x \in V : Cardinality(Below(s, x)) < k /\ k <= Cardinality(UpTo(s, x))
  BY <1>0 DEF Kth
<1>8. /\ Kth(s, k) \in V
      /\ Cardinality(Below(s, Kth(s, k))) < k /\ k <= Cardinality(UpTo(s, Kth(s, k)))
  <2> HIDE DEF V
  <2> QED BY <1>6, <1>7
<1> QED BY <1>0, <1>8

\* It does not depend on where the samples are: moving them along a bijection keeps it.
LEMMA KthIsInvariant ==
  ASSUME NEW D, IsFiniteSet(D), NEW s \in [D -> Nat],
         NEW E, NEW g \in Bijection(E, D),
         NEW t \in [E -> Nat], \A e \in E : t[e] = s[g[e]],
         NEW k \in 1..Cardinality(D)
  PROVE  IsFiniteSet(E) /\ Cardinality(E) = Cardinality(D) /\ Kth(t, k) = Kth(s, k)
<1> DEFINE x == Kth(s, k)
           y == Kth(t, k)
<1>1. /\ g \in [E -> D] /\ \A a, b \in E : g[a] = g[b] => a = b
      /\ \A d \in D : \E e \in E : g[e] = d
  BY DEF Bijection, Injection, Surjection, IsInjective
<1>2. ASSUME NEW P \in SUBSET D
      PROVE  LET Q == {e \in E : g[e] \in P}
             IN IsFiniteSet(Q) /\ Cardinality(Q) = Cardinality(P)
  <2> DEFINE Q == {e \in E : g[e] \in P}
             h == [p \in P |-> CHOOSE e \in E : g[e] = p]
  <2>1. \A p \in P : h[p] \in E /\ g[h[p]] = p
    BY <1>1
  <2>2. h \in Bijection(P, Q)
    <3>1. h \in [P -> Q]
      BY <2>1
    <3>2. \A a, b \in P : h[a] = h[b] => a = b
      <4> HIDE DEF h
      <4> QED BY <2>1
    <3>3. \A q \in Q : \E p \in P : h[p] = q
      <4> SUFFICES ASSUME NEW q \in Q PROVE h[g[q]] = q /\ g[q] \in P
        OBVIOUS
      <4>1. g[q] \in P /\ q \in E
        OBVIOUS
      <4>2. h[g[q]] \in E /\ g[h[g[q]]] = g[q]
        BY <2>1, <4>1
      <4> HIDE DEF h, Q
      <4> QED BY <1>1, <4>1, <4>2
    <3> HIDE DEF h, Q
    <3> QED BY <3>1, <3>2, <3>3 DEF Bijection, Injection, Surjection, IsInjective
  <2>3. ExistsBijection(P, Q)
    <3> HIDE DEF h, Q
    <3> QED BY <2>2 DEF ExistsBijection
  <2> HIDE DEF h, Q
  <2>4. IsFiniteSet(P)
    BY SelectionsAreFinite
  <2> QED BY <2>3, <2>4, FS_Bijection DEF Q
<1>3. IsFiniteSet(E) /\ Cardinality(E) = Cardinality(D)
  <2>1. {e \in E : g[e] \in D} = E
    BY <1>1
  <2> QED BY <1>2, <2>1
<1>4. t \in [E -> Nat] /\ \A e \in E : t[e] = s[g[e]]
  OBVIOUS
<1>5. \A v : Cardinality(Below(t, v)) = Cardinality(Below(s, v))
             /\ Cardinality(UpTo(t, v)) = Cardinality(UpTo(s, v))
  <2> SUFFICES ASSUME NEW v
               PROVE  Cardinality(Below(t, v)) = Cardinality(Below(s, v))
                      /\ Cardinality(UpTo(t, v)) = Cardinality(UpTo(s, v))
    OBVIOUS
  <2>1. /\ Below(s, v) \in SUBSET D /\ UpTo(s, v) \in SUBSET D
        /\ Below(t, v) = {e \in E : g[e] \in Below(s, v)}
        /\ UpTo(t, v) = {e \in E : g[e] \in UpTo(s, v)}
    BY <1>1, <1>4 DEF Below, UpTo
  <2> QED BY <1>2, <2>1
<1>6. /\ x \in Nat /\ Cardinality(Below(s, x)) < k /\ k <= Cardinality(UpTo(s, x))
      /\ y \in Nat /\ Cardinality(Below(s, y)) < k /\ k <= Cardinality(UpTo(s, y))
  <2>1. x \in Nat /\ Cardinality(Below(s, x)) < k /\ k <= Cardinality(UpTo(s, x))
    BY KthIsSample
  <2>2. y \in Nat /\ Cardinality(Below(t, y)) < k /\ k <= Cardinality(UpTo(t, y))
    BY <1>3, <1>4, KthIsSample
  <2> HIDE DEF x, y
  <2> QED BY <1>5, <2>1, <2>2
<1> HIDE DEF x, y
<1>7. ASSUME NEW a \in Nat, NEW b \in Nat, k <= Cardinality(UpTo(s, a)),
             Cardinality(Below(s, b)) < k
      PROVE  ~(a < b)
  <2> SUFFICES ASSUME a < b PROVE FALSE
    OBVIOUS
  <2>1. DOMAIN s = D /\ \A i \in D : s[i] \in Nat
    OBVIOUS
  <2>2. UpTo(s, a) \in SUBSET Below(s, b) /\ Below(s, b) \in SUBSET D
    BY <2>1 DEF UpTo, Below
  <2>3. /\ Cardinality(UpTo(s, a)) <= Cardinality(Below(s, b))
        /\ Cardinality(UpTo(s, a)) \in Nat /\ Cardinality(Below(s, b)) \in Nat
    BY <2>2, SelectionsAreFinite
  <2> QED BY <1>7, <2>3
<1>8. x = y
  <2>1. ~(x < y) /\ ~(y < x)
    BY <1>6, <1>7
  <2> QED BY <1>6, <2>1
<1> QED BY <1>3, <1>8 DEF x, y

\* The median is one of the samples in the middle, or the mean of two.
LowerMiddle(n) == IF n % 2 = 1 THEN n \div 2 + 1 ELSE n \div 2
UpperMiddle(n) == n \div 2 + 1

LEMMA Middles ==
  ASSUME NEW n \in Nat, n # 0
  PROVE  /\ LowerMiddle(n) \in 1..n /\ UpperMiddle(n) \in 1..n
         /\ n >= 3 => LowerMiddle(n) \in 2..(n - 1) /\ UpperMiddle(n) \in 2..(n - 1)
  BY DEF LowerMiddle, UpperMiddle

LEMMA MedianOf ==
  ASSUME NEW D, IsFiniteSet(D), NEW s \in [D -> Nat], D # {}
  PROVE  /\ Cardinality(D) \in Nat /\ Cardinality(D) # 0
         /\ TwiceMedian(s)
              = Kth(s, LowerMiddle(Cardinality(D))) + Kth(s, UpperMiddle(Cardinality(D)))
         /\ TwiceMedian(s) \in Nat
<1> DEFINE n == Cardinality(D)
<1>1. n \in Nat /\ n # 0
  BY FS_CardinalityType, FS_EmptySet
<1>2. Kth(s, LowerMiddle(n)) \in Nat /\ Kth(s, UpperMiddle(n)) \in Nat
  <2>1. LowerMiddle(n) \in 1..n /\ UpperMiddle(n) \in 1..n
    <3> HIDE DEF n
    <3> QED BY <1>1, Middles
  <2> QED BY <2>1, KthIsSample
<1>3. TwiceMedian(s) = IF n % 2 = 1 THEN 2 * Kth(s, n \div 2 + 1)
                       ELSE Kth(s, n \div 2) + Kth(s, n \div 2 + 1)
  BY DEF TwiceMedian
<1>4. TwiceMedian(s) = Kth(s, LowerMiddle(n)) + Kth(s, UpperMiddle(n))
  <2> HIDE DEF n
  <2> QED BY <1>2, <1>3 DEF LowerMiddle, UpperMiddle
<1> QED BY <1>1, <1>2, <1>4

LEMMA MedianIsInvariant ==
  ASSUME NEW D, IsFiniteSet(D), NEW s \in [D -> Nat], D # {},
         NEW E, NEW g \in Bijection(E, D),
         NEW t \in [E -> Nat], \A e \in E : t[e] = s[g[e]]
  PROVE  /\ TwiceMedian(t) = TwiceMedian(s)
         /\ IsFiniteSet(E) /\ Cardinality(E) = Cardinality(D)
<1> DEFINE n == Cardinality(D)
<1>1. n \in Nat /\ n # 0
  BY FS_CardinalityType, FS_EmptySet
<1>2. LowerMiddle(n) \in 1..n /\ UpperMiddle(n) \in 1..n
  <2> HIDE DEF n
  <2> QED BY <1>1, Middles
<1>3. /\ IsFiniteSet(E) /\ Cardinality(E) = n
      /\ Kth(t, LowerMiddle(n)) = Kth(s, LowerMiddle(n))
      /\ Kth(t, UpperMiddle(n)) = Kth(s, UpperMiddle(n))
  BY <1>2, KthIsInvariant
<1>5. E # {}
  BY <1>1, <1>3, FS_EmptySet
<1>6. /\ TwiceMedian(t) = Kth(t, LowerMiddle(n)) + Kth(t, UpperMiddle(n))
      /\ TwiceMedian(s) = Kth(s, LowerMiddle(n)) + Kth(s, UpperMiddle(n))
  BY <1>3, <1>5, MedianOf
<1> QED BY <1>3, <1>6

\* Of three samples or more a single one cannot move the median beyond all the others.
LEMMA MedianIgnoresOutlier ==
  ASSUME NEW D, IsFiniteSet(D), NEW s \in [D -> Nat], Cardinality(D) >= 3,
         NEW o, NEW x \in Nat
  PROVE  /\ (\A i \in D \ {o} : s[i] <= x) => TwiceMedian(s) <= 2 * x
         /\ (\A i \in D \ {o} : s[i] >= x) => TwiceMedian(s) >= 2 * x
<1> DEFINE n == Cardinality(D)
<1>1. n \in Nat /\ DOMAIN s = D /\ D # {} /\ \A i \in D : s[i] \in Nat
  <2>1. n \in Nat
    BY FS_CardinalityType
  <2>2. ASSUME D = {} PROVE FALSE
    <3>1. Cardinality(D) = 0
      BY <2>2, FS_EmptySet
    <3> QED BY <3>1
  <2> QED BY <2>1, <2>2
<1>2. IsFiniteSet(D \ {o}) /\ Cardinality(D \ {o}) >= n - 1
      /\ Cardinality(D \ {o}) \in Nat
  <2>1. /\ IsFiniteSet(D \ {o})
        /\ Cardinality(D \ {o}) = IF o \in D THEN Cardinality(D) - 1 ELSE Cardinality(D)
    BY FS_RemoveElement
  <2>2. Cardinality(D \ {o}) \in Nat
    BY <2>1, FS_CardinalityType
  <2> QED BY <1>1, <2>1, <2>2
<1>3. ASSUME NEW k \in 2..(n - 1)
      PROVE  /\ Kth(s, k) \in Nat
             /\ (\A i \in D \ {o} : s[i] <= x) => Kth(s, k) <= x
             /\ (\A i \in D \ {o} : s[i] >= x) => Kth(s, k) >= x
  <2> DEFINE y == Kth(s, k)
  <2>1. /\ y \in Nat
        /\ Cardinality(Below(s, y)) < k /\ k <= Cardinality(UpTo(s, y))
    <3>1. k \in 1..n
      BY <1>1
    <3> QED BY <3>1, KthIsSample
  <2> HIDE DEF y
  <2>2. ASSUME \A i \in D \ {o} : s[i] <= x, ~(y <= x) PROVE FALSE
    <3>1. D \ {o} \in SUBSET Below(s, y) /\ Below(s, y) \in SUBSET D
      BY <1>1, <2>1, <2>2 DEF Below
    <3>2. IsFiniteSet(Below(s, y)) /\ Cardinality(Below(s, y)) \in Nat
      BY <3>1, SelectionsAreFinite
    <3>3. Cardinality(D \ {o}) <= Cardinality(Below(s, y))
      BY <3>1, <3>2, FS_Subset
    <3> HIDE DEF n
    <3> QED BY <1>1, <1>2, <2>1, <3>2, <3>3
  <2>3. ASSUME \A i \in D \ {o} : s[i] >= x, ~(y >= x) PROVE FALSE
    <3>1. UpTo(s, y) \in SUBSET {o}
      BY <1>1, <2>1, <2>3 DEF UpTo
    <3>2. IsFiniteSet({o}) /\ Cardinality({o}) = 1
      BY FS_Singleton
    <3>3. Cardinality(UpTo(s, y)) <= 1 /\ Cardinality(UpTo(s, y)) \in Nat
      BY <3>1, <3>2, FS_Subset, FS_CardinalityType
    <3> QED BY <2>1, <3>3
  <2> QED BY <2>1, <2>2, <2>3 DEF y
<1>4. /\ LowerMiddle(n) \in 2..(n - 1) /\ UpperMiddle(n) \in 2..(n - 1)
  <2>1. n # 0 /\ n >= 3
    OBVIOUS
  <2> HIDE DEF n
  <2> QED BY <1>1, <2>1, Middles
<1>5. TwiceMedian(s) = Kth(s, LowerMiddle(n)) + Kth(s, UpperMiddle(n))
  BY <1>1, MedianOf
<1> HIDE DEF n
<1>6. Kth(s, LowerMiddle(n)) \in Nat /\ Kth(s, UpperMiddle(n)) \in Nat
  BY <1>3, <1>4
<1>7. ASSUME \A i \in D \ {o} : s[i] <= x PROVE TwiceMedian(s) <= 2 * x
  <2>1. Kth(s, LowerMiddle(n)) <= x /\ Kth(s, UpperMiddle(n)) <= x
    BY <1>3, <1>4, <1>7
  <2> QED BY <1>5, <1>6, <2>1
<1>8. ASSUME \A i \in D \ {o} : s[i] >= x PROVE TwiceMedian(s) >= 2 * x
  <2>1. Kth(s, LowerMiddle(n)) >= x /\ Kth(s, UpperMiddle(n)) >= x
    BY <1>3, <1>4, <1>8
  <2> QED BY <1>5, <1>6, <2>1
<1> QED BY <1>7, <1>8

\* Equal samples are their own median.
LEMMA MedianOfEqual ==
  ASSUME NEW D, IsFiniteSet(D), NEW s \in [D -> Nat], D # {},
         NEW x \in Nat, \A i \in D : s[i] = x
  PROVE  TwiceMedian(s) = 2 * x
<1> DEFINE n == Cardinality(D)
<1>1. n \in Nat /\ n # 0
  BY MedianOf
<1>2. LowerMiddle(n) \in 1..n /\ UpperMiddle(n) \in 1..n
  <2> HIDE DEF n
  <2> QED BY <1>1, Middles
<1>3. Kth(s, LowerMiddle(n)) = x /\ Kth(s, UpperMiddle(n)) = x
  BY <1>2, KthIsSample
<1> QED BY <1>3, MedianOf

-------------------------------------------------------------------------------
(* Compute score.                                                          *)

Report == Seq(Run \cup FailedRun)

Columns == {"prompt", "generation", "ttft"}

\* Only the successful runs have measurements, and those are numbers.
LEMMA RunTypes ==
  ASSUME NEW r \in Run \cup FailedRun
  PROVE  /\ r.success \in BOOLEAN /\ r.throttled \in BOOLEAN
         /\ r.success => /\ r \in Run
                         /\ r.prompt \in Nat /\ r.generation \in Nat /\ r.ttft \in Nat
<1>1. PromptRates \subseteq Nat /\ GenerationRates \subseteq Nat /\ FirstTokenTimes \subseteq Nat
  BY ComputeAssumption
<1>2. CASE r \in Run
  BY <1>1, <1>2 DEF Run
<1>3. CASE r \in FailedRun
  BY <1>3 DEF FailedRun
<1> QED BY <1>2, <1>3

LEMMA SucceededOf ==
  ASSUME NEW s \in Report
  PROVE  /\ DOMAIN s = 1..Len(s) /\ Len(s) \in Nat
         /\ Succeeded(s) \in SUBSET DOMAIN s /\ IsFiniteSet(Succeeded(s))
         /\ Cardinality(Succeeded(s)) \in Nat /\ Cardinality(Succeeded(s)) <= Len(s)
<1>1. DOMAIN s = 1..Len(s) /\ Len(s) \in Nat
  BY DEF Report
<1>2. Succeeded(s) \in SUBSET DOMAIN s
  BY DEF Succeeded
<1>3. IsFiniteSet(DOMAIN s) /\ Cardinality(DOMAIN s) = Len(s)
  <2>1. ASSUME NEW n \in Nat PROVE IsFiniteSet(1..n) /\ Cardinality(1..n) = n
    BY FS_Interval
  <2> QED BY <1>1, <2>1
<1> QED BY <1>1, <1>2, <1>3, SelectionsAreFinite

LEMMA ColumnOf ==
  ASSUME NEW s \in Report, NEW field \in Columns
  PROVE  Column(s, field) \in [Succeeded(s) -> Nat]
<1> SUFFICES ASSUME NEW i \in Succeeded(s)
             PROVE  s[i][field] \in Nat
  BY DEF Column
<1>1. s[i] \in Run \cup FailedRun /\ s[i].success
  BY SucceededOf DEF Succeeded, Report
<1>2. s[i].prompt \in Nat /\ s[i].generation \in Nat /\ s[i].ttft \in Nat
  BY <1>1, RunTypes
<1> QED BY <1>2 DEF Columns

LEMMA MediansOf ==
  ASSUME NEW s \in Report, Succeeded(s) # {}, NEW field \in Columns
  PROVE  TwiceMedian(Column(s, field)) \in Nat
  BY SucceededOf, ColumnOf, MedianOf

\* The parts of a point are fine enough for all divisions.
LEMMA ComputeScaleIs ==
  /\ ComputeScale \in Nat \ {0}
  /\ (20 * ComputeScale) \div (2 * 1000) = 2940 /\ 2000 * 2940 = 20 * ComputeScale
  /\ (40 * ComputeScale) \div (2 * 100) = 58800 /\ 200 * 58800 = 40 * ComputeScale
  /\ (15 * ComputeScale) \div 9800 = 450 /\ 9800 * 450 = 15 * ComputeScale
  BY SMT DEF ComputeScale

\* A higher rate earns more points, up to all of them, and a later first token fewer.
LEMMA MedianPoints ==
  ASSUME NEW f, TwiceMedian(f) \in Nat
  PROVE  /\ RatePoints(f, 1000, 20) \in 0..(20 * ComputeScale)
         /\ RatePoints(f, 100, 40) \in 0..(40 * ComputeScale)
         /\ FirstTokenPoints(f) \in 0..(15 * ComputeScale)
<1> DEFINE m == TwiceMedian(f)
           a == Fit(m, 0, 2000)
           b == Fit(m, 0, 200)
           c == 10000 - Fit(m, 200, 10000)
<1>1. /\ a \in Nat /\ a <= 2000 /\ b \in Nat /\ b <= 200
      /\ c \in Nat /\ c <= 9800
  <2>1. m \in Nat
    OBVIOUS
  <2> HIDE DEF m
  <2> QED BY <2>1 DEF Fit
<1>2. /\ RatePoints(f, 1000, 20) = a * 2940
      /\ RatePoints(f, 100, 40) = b * 58800
      /\ FirstTokenPoints(f) = c * 450
  BY ComputeScaleIs DEF RatePoints, FirstTokenPoints
<1> HIDE DEF a, b, c
<1>3. /\ a * 2940 \in Nat /\ a * 2940 <= 2000 * 2940
      /\ b * 58800 \in Nat /\ b * 58800 <= 200 * 58800
      /\ c * 450 \in Nat /\ c * 450 <= 9800 * 450
  BY <1>1, SMT
<1> QED BY <1>2, <1>3, ComputeScaleIs, SMT

LEMMA MedianPointsAreMonotone ==
  ASSUME NEW f, NEW g, TwiceMedian(f) \in Nat, TwiceMedian(g) \in Nat,
         TwiceMedian(f) <= TwiceMedian(g)
  PROVE  /\ RatePoints(f, 1000, 20) <= RatePoints(g, 1000, 20)
         /\ RatePoints(f, 100, 40) <= RatePoints(g, 100, 40)
         /\ FirstTokenPoints(g) <= FirstTokenPoints(f)
<1> DEFINE a == TwiceMedian(f)
           b == TwiceMedian(g)
<1>1. a \in Nat /\ b \in Nat /\ a <= b
  OBVIOUS
<1> HIDE DEF a, b
<1>2. /\ Fit(a, 0, 2000) * 2940 <= Fit(b, 0, 2000) * 2940
      /\ Fit(a, 0, 200) * 58800 <= Fit(b, 0, 200) * 58800
      /\ (10000 - Fit(b, 200, 10000)) * 450 <= (10000 - Fit(a, 200, 10000)) * 450
  BY <1>1, SMT DEF Fit
<1> QED BY <1>2, ComputeScaleIs DEF RatePoints, FirstTokenPoints, a, b

\* A share of the runs earns that share of the 10 points.
LEMMA SuccessPointsOf ==
  ASSUME NEW s \in Report, Len(s) # 0
  PROVE  SuccessPoints(s) \in Int /\ SuccessPoints(s) \in 0..(10 * ComputeScale)
<1> DEFINE c == Cardinality(Succeeded(s))
           n == Len(s)
           all == 10 * ComputeScale
           q == all \div n
<1>1. c \in Nat /\ n \in Nat \ {0} /\ c <= n
  BY SucceededOf
<1>2. all \in Nat
  BY ComputeScaleIs
<1>3. SuccessPoints(s) = c * q
  BY DEF SuccessPoints
<1> HIDE DEF c, n, all
<1>4. q \in Nat /\ n * q <= all
  <2>1. q \in Int /\ n * q <= all /\ all < n * q + n
    BY <1>1, <1>2, Division
  <2> HIDE DEF q
  <2>2. n * 0 < n * (q + 1)
    BY <1>1, <1>2, <2>1
  <2>3. 0 < q + 1
    BY <1>1, <2>1, <2>2
  <2> QED BY <2>1, <2>3
<1> HIDE DEF q
<1>5. c * q <= n * q
  BY <1>1, <1>4, Multiples
<1>6. c * q \in Nat /\ n * q \in Nat
  BY <1>1, <1>4
<1>7. c * q <= all
  BY <1>2, <1>4, <1>5, <1>6
<1>8. SuccessPoints(s) \in 0..all
  BY <1>2, <1>3, <1>6, <1>7
<1> QED BY <1>8 DEF all

LEMMA TotalOf ==
  ASSUME NEW s \in Report, Succeeded(s) # {}, NEW p \in 0..15
  PROVE  /\ TotalPoints(s, p) \in Nat /\ TotalPoints(s, p) <= 100 * ComputeScale
         /\ Cardinality(Succeeded(s)) < 3 => TotalPoints(s, p) <= 85 * ComputeScale
<1> DEFINE a == RatePoints(Column(s, "prompt"), 1000, 20)
           b == RatePoints(Column(s, "generation"), 100, 40)
           c == FirstTokenPoints(Column(s, "ttft"))
           d == IF Cardinality(Succeeded(s)) >= 3 THEN p * ComputeScale ELSE 0
           e == SuccessPoints(s)
<1>1. /\ TwiceMedian(Column(s, "prompt")) \in Nat /\ TwiceMedian(Column(s, "generation")) \in Nat
      /\ TwiceMedian(Column(s, "ttft")) \in Nat
  BY MediansOf DEF Columns
<1>2. a \in 0..(20 * ComputeScale) /\ b \in 0..(40 * ComputeScale) /\ c \in 0..(15 * ComputeScale)
  BY <1>1, MedianPoints
<1>3. d \in 0..(15 * ComputeScale) /\ (Cardinality(Succeeded(s)) < 3 => d = 0)
  BY SucceededOf, ComputeScaleIs
<1>4. e \in 0..(10 * ComputeScale)
  <2>1. Len(s) # 0
    BY SucceededOf
  <2> QED BY <2>1, SuccessPointsOf
<1>5. TotalPoints(s, p) = a + b + c + d + e
  BY DEF TotalPoints
<1> HIDE DEF a, b, c, d, e
<1> QED BY <1>2, <1>3, <1>4, <1>5, ComputeScaleIs

\* The total, throttled or not, rounded to a score.
Rounded(total, hot) ==
  (2 * Fit((total * (IF hot THEN 9 ELSE 10)) \div 10, 0, 100 * ComputeScale) + ComputeScale)
    \div (2 * ComputeScale)

LEMMA RoundedIsMonotone ==
  ASSUME NEW a \in Nat, NEW b \in Nat, a <= b,
         NEW hot \in BOOLEAN, NEW cold \in BOOLEAN, cold => hot
  PROVE  Rounded(a, hot) <= Rounded(b, cold)
<1> DEFINE x == (a * (IF hot THEN 9 ELSE 10)) \div 10
           y == (b * (IF cold THEN 9 ELSE 10)) \div 10
<1>1. /\ a * (IF hot THEN 9 ELSE 10) \in Int /\ b * (IF cold THEN 9 ELSE 10) \in Int
      /\ a * (IF hot THEN 9 ELSE 10) <= b * (IF cold THEN 9 ELSE 10)
  OBVIOUS
<1>2. x \in Int /\ y \in Int /\ x <= y
  BY <1>1, Division, DivisionIsMonotone
<1> HIDE DEF x, y
<1>3. /\ 2 * Fit(x, 0, 100 * ComputeScale) + ComputeScale \in Int
      /\ 2 * Fit(y, 0, 100 * ComputeScale) + ComputeScale \in Int
      /\ 2 * Fit(x, 0, 100 * ComputeScale) + ComputeScale
           <= 2 * Fit(y, 0, 100 * ComputeScale) + ComputeScale
      /\ 2 * ComputeScale \in Nat \ {0}
  BY <1>2, ComputeScaleIs DEF Fit
<1> QED BY <1>3, DivisionIsMonotone DEF Rounded, x, y

LEMMA RoundedOf ==
  ASSUME NEW total \in Nat, total <= 100 * ComputeScale, NEW hot \in BOOLEAN
  PROVE  /\ Rounded(total, hot) \in Int /\ 0 <= Rounded(total, hot)
         /\ hot => Rounded(total, hot) <= 90
         /\ total <= 85 * ComputeScale => Rounded(total, hot) <= 85
<1> DEFINE x == (total * (IF hot THEN 9 ELSE 10)) \div 10
<1>1. /\ x \in Int /\ 0 <= x /\ x <= total
      /\ hot => 10 * x <= 9 * total
  OBVIOUS
<1> HIDE DEF x
<1>2. Rounded(total, hot) = (2 * x + ComputeScale) \div (2 * ComputeScale)
  BY <1>1, ComputeScaleIs DEF Rounded, Fit, x
<1>3. ASSUME NEW most \in Nat, x <= most * ComputeScale
      PROVE  (2 * x + ComputeScale) \div (2 * ComputeScale) <= most
  <2>1. (2 * ComputeScale) * most + ComputeScale \in Int /\ 2 * x + ComputeScale \in Int
        /\ 2 * x + ComputeScale <= (2 * ComputeScale) * most + ComputeScale
    BY <1>1, <1>3, ComputeScaleIs
  <2>2. ((2 * ComputeScale) * most + ComputeScale) \div (2 * ComputeScale) = most
    <3>1. ComputeScale \in 0..(2 * ComputeScale - 1) /\ 2 * ComputeScale \in Nat \ {0}
      BY ComputeScaleIs
    <3> QED BY <3>1, Quotient
  <2>3. 2 * ComputeScale \in Nat \ {0}
    BY ComputeScaleIs
  <2> QED BY <2>1, <2>2, <2>3, DivisionIsMonotone
<1>4. /\ (2 * x + ComputeScale) \div (2 * ComputeScale) \in Int
      /\ 0 <= (2 * x + ComputeScale) \div (2 * ComputeScale)
  <2>1. 0 \div (2 * ComputeScale) = 0
    <3>1. (2 * ComputeScale) * 0 + 0 = 0 /\ 0 \in 0..(2 * ComputeScale - 1)
          /\ 2 * ComputeScale \in Nat \ {0}
      BY ComputeScaleIs
    <3> QED BY <3>1, Quotient
  <2>2. 2 * ComputeScale \in Nat \ {0} /\ 2 * x + ComputeScale \in Int
        /\ 0 <= 2 * x + ComputeScale
    BY <1>1, ComputeScaleIs
  <2> QED BY <2>1, <2>2, Division, DivisionIsMonotone
<1>5. hot => x <= 90 * ComputeScale
  BY <1>1, ComputeScaleIs
<1>6. total <= 85 * ComputeScale => x <= 85 * ComputeScale
  BY <1>1, ComputeScaleIs
<1> QED BY <1>2, <1>3, <1>4, <1>5, <1>6

LEMMA ComputeScoreOf ==
  ASSUME NEW s \in Report, NEW p \in 0..15
  PROVE  /\ CalculateComputeScore(s, p)
              = IF Succeeded(s) = {} THEN 0 ELSE Rounded(TotalPoints(s, p), Throttled(s))
         /\ Throttled(s) \in BOOLEAN
         /\ CalculateComputeScore(s, p) \in Int /\ 0 <= CalculateComputeScore(s, p)
         /\ Throttled(s) => CalculateComputeScore(s, p) <= 90
         /\ Cardinality(Succeeded(s)) < 3 => CalculateComputeScore(s, p) <= 85
<1>1. CalculateComputeScore(s, p)
        = IF Succeeded(s) = {} THEN 0 ELSE Rounded(TotalPoints(s, p), Throttled(s))
  BY DEF CalculateComputeScore, Rounded
<1>2. Throttled(s) \in BOOLEAN
  BY DEF Throttled
<1>3. CASE Succeeded(s) = {}
  BY <1>1, <1>2, <1>3
<1>4. CASE Succeeded(s) # {}
  <2>1. /\ TotalPoints(s, p) \in Nat /\ TotalPoints(s, p) <= 100 * ComputeScale
        /\ Cardinality(Succeeded(s)) < 3 => TotalPoints(s, p) <= 85 * ComputeScale
    BY <1>4, TotalOf
  <2> QED BY <1>1, <1>2, <1>4, <2>1, RoundedOf
<1> QED BY <1>3, <1>4

\* Better medians, a better share of successes and no throttling that was not there before
\* make a score no lower.
LEMMA ComputeScoreIsMonotone ==
  ASSUME NEW s \in Report, NEW t \in Report, NEW p \in 0..15,
         Succeeded(s) # {}, Succeeded(t) # {},
         TwiceMedian(Column(s, "prompt")) <= TwiceMedian(Column(t, "prompt")),
         TwiceMedian(Column(s, "generation")) <= TwiceMedian(Column(t, "generation")),
         TwiceMedian(Column(t, "ttft")) <= TwiceMedian(Column(s, "ttft")),
         Cardinality(Succeeded(s)) >= 3 => Cardinality(Succeeded(t)) >= 3,
         SuccessPoints(s) <= SuccessPoints(t),
         Throttled(t) => Throttled(s)
  PROVE  CalculateComputeScore(s, p) <= CalculateComputeScore(t, p)
<1> DEFINE pts(r) == RatePoints(Column(r, "prompt"), 1000, 20)
           gen(r) == RatePoints(Column(r, "generation"), 100, 40)
           first(r) == FirstTokenPoints(Column(r, "ttft"))
           stable(r) == IF Cardinality(Succeeded(r)) >= 3 THEN p * ComputeScale ELSE 0
<1>1. \A r \in {s, t}, field \in Columns : TwiceMedian(Column(r, field)) \in Nat
  BY MediansOf
<1>2. pts(s) <= pts(t) /\ gen(s) <= gen(t) /\ first(s) <= first(t)
  BY <1>1, MedianPointsAreMonotone DEF Columns
<1>3. \A r \in {s, t} : pts(r) \in Int /\ gen(r) \in Int /\ first(r) \in Int
  BY <1>1, MedianPoints DEF Columns
<1>4. stable(s) <= stable(t) /\ stable(s) \in Int /\ stable(t) \in Int
  BY SucceededOf, ComputeScaleIs
<1>5. SuccessPoints(s) \in Int /\ SuccessPoints(t) \in Int
  <2>1. Len(s) # 0 /\ Len(t) # 0
    BY SucceededOf
  <2> QED BY <2>1, SuccessPointsOf
<1>6. \A r \in {s, t} : TotalPoints(r, p)
                          = pts(r) + gen(r) + first(r) + stable(r) + SuccessPoints(r)
  BY DEF TotalPoints
<1>7. TotalPoints(s, p) <= TotalPoints(t, p)
  <2> HIDE DEF pts, gen, first, stable
  <2> QED BY <1>2, <1>3, <1>4, <1>5, <1>6
<1>8. TotalPoints(s, p) \in Nat /\ TotalPoints(t, p) \in Nat
  BY TotalOf
<1>9. Throttled(s) \in BOOLEAN /\ Throttled(t) \in BOOLEAN
  BY DEF Throttled
<1>10. Rounded(TotalPoints(s, p), Throttled(s)) <= Rounded(TotalPoints(t, p), Throttled(t))
  BY <1>7, <1>8, <1>9, RoundedIsMonotone
<1> QED BY <1>10, ComputeScoreOf

\* What is left of a report without one of its runs.
LEMMA WithoutRun ==
  ASSUME NEW s \in Report, NEW i \in DOMAIN s
  PROVE  /\ Without(s, i) \in Report
         /\ Len(s) \in Nat \ {0} /\ Len(Without(s, i)) = Len(s) - 1
         /\ \A k \in 1..(Len(s) - 1) : Without(s, i)[k] = IF k < i THEN s[k] ELSE s[k + 1]
<1> DEFINE n == Len(s)
           a == SubSeq(s, 1, i - 1)
           b == SubSeq(s, i + 1, n)
<1>1. n \in Nat /\ i \in 1..n /\ s \in Seq(Run \cup FailedRun)
  BY DEF Report
<1>2. /\ a \in Seq(Run \cup FailedRun) /\ Len(a) = i - 1
      /\ \A k \in 1..(i - 1) : a[k] = s[k]
  BY <1>1
<1>3. /\ b \in Seq(Run \cup FailedRun) /\ Len(b) = n - i
      /\ \A k \in 1..(n - i) : b[k] = s[i + k]
  BY <1>1
<1>4. Without(s, i) = a \o b
  BY DEF Without
<1> HIDE DEF a, b, n
<1>5. /\ a \o b \in Seq(Run \cup FailedRun) /\ Len(a \o b) = n - 1
      /\ \A k \in 1..(n - 1) : (a \o b)[k] = IF k <= i - 1 THEN a[k] ELSE b[k - (i - 1)]
  <2>1. ASSUME NEW S, NEW u \in Seq(S), NEW v \in Seq(S)
        PROVE  /\ u \o v \in Seq(S) /\ Len(u \o v) = Len(u) + Len(v)
               /\ \A k \in 1..(Len(u) + Len(v)) :
                    (u \o v)[k] = IF k <= Len(u) THEN u[k] ELSE v[k - Len(u)]
    OBVIOUS
  <2>2. (i - 1) + (n - i) = n - 1
    BY <1>1
  <2>3. /\ a \o b \in Seq(Run \cup FailedRun) /\ Len(a \o b) = Len(a) + Len(b)
        /\ \A k \in 1..(Len(a) + Len(b)) :
             (a \o b)[k] = IF k <= Len(a) THEN a[k] ELSE b[k - Len(a)]
    BY <1>2, <1>3, <2>1
  <2> QED BY <1>2, <1>3, <2>2, <2>3
<1>6. ASSUME NEW k \in 1..(n - 1)
      PROVE  (a \o b)[k] = IF k < i THEN s[k] ELSE s[k + 1]
  <2>1. CASE k < i
    BY <1>1, <1>2, <1>5, <2>1
  <2>2. CASE ~(k < i)
    <3>1. k - (i - 1) \in 1..(n - i) /\ i + (k - (i - 1)) = k + 1
      BY <1>1, <2>2
    <3>2. (a \o b)[k] = b[k - (i - 1)]
      BY <1>1, <1>5, <2>2
    <3> QED BY <1>3, <2>2, <3>1, <3>2
  <2> QED BY <2>1, <2>2
<1> QED BY <1>1, <1>4, <1>5, <1>6 DEF n, Report

\* Leaving out a failed run changes no measurement.
LEMMA FailedRunIsUnmeasured ==
  ASSUME NEW s \in Report, NEW i \in DOMAIN s, ~s[i].success
  PROVE  /\ Cardinality(Succeeded(Without(s, i))) = Cardinality(Succeeded(s))
         /\ Throttled(Without(s, i)) => Throttled(s)
         /\ \A field \in Columns : Succeeded(s) # {} =>
              TwiceMedian(Column(Without(s, i), field)) = TwiceMedian(Column(s, field))
<1> DEFINE n == Len(s)
           t == Without(s, i)
           at(k) == IF k < i THEN k ELSE k + 1
           S == Succeeded(s)
           T == Succeeded(t)
           g == [k \in T |-> at(k)]
<1>1. /\ t \in Report /\ Len(t) = n - 1 /\ n \in Nat \ {0}
      /\ \A k \in 1..(n - 1) : t[k] = s[at(k)]
  BY WithoutRun
<1> HIDE DEF t
<1>2. DOMAIN s = 1..n /\ DOMAIN t = 1..(n - 1) /\ i \in 1..n /\ ~s[i].success
  BY <1>1, SucceededOf
<1> HIDE DEF n
<1>3. \A k \in 1..(n - 1) : at(k) \in 1..n /\ at(k) # i
  BY <1>1, <1>2
<1>4. \A k, l \in 1..(n - 1) : at(k) = at(l) => k = l
  BY <1>1, <1>2
<1>5. \A d \in 1..n : d # i => \E k \in 1..(n - 1) : at(k) = d
  <2> SUFFICES ASSUME NEW d \in 1..n, d # i
               PROVE  \E k \in 1..(n - 1) : at(k) = d
    OBVIOUS
  <2>1. CASE d < i
    <3>1. d \in 1..(n - 1) /\ at(d) = d
      BY <1>1, <1>2, <2>1
    <3> QED BY <3>1
  <2>2. CASE ~(d < i)
    <3>1. d - 1 \in 1..(n - 1) /\ at(d - 1) = d
      BY <1>1, <1>2, <2>2
    <3> QED BY <3>1
  <2> QED BY <2>1, <2>2
<1> HIDE DEF at
<1>6. T = {k \in 1..(n - 1) : at(k) \in S}
  <2>1. T = {k \in 1..(n - 1) : t[k].success} /\ S = {d \in 1..n : s[d].success}
    BY <1>2 DEF Succeeded
  <2> QED BY <1>1, <1>3, <2>1
<1>7. S \in SUBSET 1..n /\ i \notin S /\ IsFiniteSet(S)
  <2>1. i \notin S
    BY <1>2 DEF Succeeded
  <2> QED BY <1>2, <2>1, SucceededOf
<1> HIDE DEF S, T
<1>8. g \in Bijection(T, S)
  <2>1. g \in [T -> S] /\ \A k \in T : k \in 1..(n - 1) /\ g[k] = at(k)
    BY <1>6
  <2>2. \A k, l \in T : g[k] = g[l] => k = l
    <3> HIDE DEF g
    <3> QED BY <1>4, <2>1
  <2>3. \A d \in S : \E k \in T : g[k] = d
    <3> SUFFICES ASSUME NEW d \in S PROVE \E k \in T : g[k] = d
      OBVIOUS
    <3>1. PICK k \in 1..(n - 1) : at(k) = d
      BY <1>5, <1>7
    <3>2. k \in T
      BY <1>6, <3>1
    <3> HIDE DEF g
    <3> QED BY <2>1, <3>1, <3>2
  <2> HIDE DEF g
  <2> QED BY <2>1, <2>2, <2>3 DEF Bijection, Injection, Surjection, IsInjective
<1>9. Cardinality(T) = Cardinality(S)
  <2>1. ExistsBijection(T, S)
    <3> HIDE DEF g
    <3> QED BY <1>8 DEF ExistsBijection
  <2>2. IsFiniteSet(T)
    BY <1>1, SucceededOf DEF T
  <2> QED BY <2>1, <2>2, FS_Bijection
<1>10. Throttled(t) => Throttled(s)
  BY <1>1, <1>2, <1>3 DEF Throttled
<1>11. ASSUME NEW field \in Columns, S # {}
       PROVE  TwiceMedian(Column(t, field)) = TwiceMedian(Column(s, field))
  <2> DEFINE c == Column(s, field)
  <2>1. c \in [S -> Nat] /\ c = [d \in S |-> s[d][field]]
    BY ColumnOf DEF Column, S
  <2>2. Column(t, field) = [k \in T |-> t[k][field]]
    BY DEF Column, T
  <2>3. \A k \in T : t[k] = s[at(k)] /\ at(k) \in S /\ g[k] = at(k)
    BY <1>1, <1>6
  <2>4. Column(t, field) \in [T -> Nat]
    BY <1>1, ColumnOf DEF T
  <2>5. \A k \in T : Column(t, field)[k] = c[g[k]]
    <3> HIDE DEF c, g
    <3> QED BY <2>1, <2>2, <2>3
  <2>6. c \in [S -> Nat] /\ IsFiniteSet(S) /\ S # {}
    BY <1>7, <1>11, <2>1
  <2> HIDE DEF c, g
  <2>7. TwiceMedian(Column(t, field)) = TwiceMedian(c)
    BY <1>8, <2>4, <2>5, <2>6, MedianIsInvariant
  <2> QED BY <2>7 DEF c
<1> QED BY <1>9, <1>10, <1>11 DEF S, T, t

\* A failed run in the report never raises the score.
LEMMA FailedRunCosts ==
  ASSUME NEW s \in Report, NEW i \in DOMAIN s, ~s[i].success, NEW p \in 0..15
  PROVE  CalculateComputeScore(s, p) <= CalculateComputeScore(Without(s, i), p)
<1> DEFINE t == Without(s, i)
           n == Len(s)
           c == Cardinality(Succeeded(s))
           all == 10 * ComputeScale
<1>1. t \in Report /\ n \in Nat \ {0} /\ Len(t) = n - 1
  BY WithoutRun
<1>2. /\ Cardinality(Succeeded(t)) = c
      /\ Throttled(t) => Throttled(s)
      /\ \A field \in Columns : Succeeded(s) # {} =>
           TwiceMedian(Column(t, field)) = TwiceMedian(Column(s, field))
  BY FailedRunIsUnmeasured
<1> HIDE DEF t
<1>3. ASSUME Succeeded(s) = {}
      PROVE  CalculateComputeScore(s, p) <= CalculateComputeScore(t, p)
  <2>1. CalculateComputeScore(s, p) = 0
    BY <1>3, ComputeScoreOf
  <2>2. CalculateComputeScore(t, p) \in Int /\ 0 <= CalculateComputeScore(t, p)
    BY <1>1, ComputeScoreOf
  <2> QED BY <2>1, <2>2
<1>4. ASSUME Succeeded(s) # {}
      PROVE  CalculateComputeScore(s, p) <= CalculateComputeScore(t, p)
  <2>1. c \in Nat /\ c # 0
    BY <1>4, SucceededOf, FS_EmptySet
  <2>2. Succeeded(t) # {}
    <3>1. ASSUME Succeeded(t) = {} PROVE FALSE
      <4>1. Cardinality(Succeeded(t)) = 0
        BY <3>1, FS_EmptySet
      <4> HIDE DEF c
      <4> QED BY <1>2, <2>1, <4>1
    <3> QED BY <3>1
  <2>3. n - 1 \in Nat \ {0} /\ c <= n - 1
    <3>1. Cardinality(Succeeded(t)) <= n - 1
      BY <1>1, SucceededOf
    <3> HIDE DEF c, n
    <3> QED BY <1>1, <1>2, <2>1, <3>1
  <2>4. SuccessPoints(s) <= SuccessPoints(t)
    <3> DEFINE m == n - 1
               q == all \div n
               r == all \div m
    <3>1. SuccessPoints(s) = c * q /\ SuccessPoints(t) = c * r
      BY <1>1, <1>2 DEF SuccessPoints
    <3>2. all \in Nat
      BY ComputeScaleIs
    <3> HIDE DEF c, n, all
    <3>2a. m \in Nat \ {0} /\ n = m + 1
      BY <1>1, <2>3
    <3> HIDE DEF m
    <3>3. /\ q \in Int /\ n * q <= all /\ all < n * q + n
          /\ r \in Int /\ all < m * r + m
      <4>1. all \in Int /\ n \in Nat \ {0}
        BY <1>1, <3>2
      <4>2. q \in Int /\ n * q <= all /\ all < n * q + n
        BY <4>1, Division
      <4>3. r \in Int /\ all < m * r + m
        BY <3>2a, <4>1, Division
      <4> QED BY <4>2, <4>3
    <3> HIDE DEF q, r
    <3>4. q >= 0
      <4>1. n * 0 < n * (q + 1)
        BY <1>1, <3>2, <3>3
      <4>2. 0 < q + 1
        BY <1>1, <3>3, <4>1
      <4> QED BY <3>3, <4>2
    <3>5. m * q <= n * q
      BY <3>2a, <3>3, <3>4
    <3>6. m * q < m * (r + 1)
      <4>1. m * (r + 1) = m * r + m /\ m * r \in Int /\ m * q \in Int /\ n * q \in Int
        BY <1>1, <3>2a, <3>3
      <4> QED BY <3>2, <3>2a, <3>3, <3>5, <4>1
    <3>7. q < r + 1
      BY <3>2a, <3>3, <3>6
    <3>8. q <= r
      BY <3>3, <3>7
    <3>9. c * q <= c * r
      <4>1. q * c <= r * c
        BY <2>1, <3>3, <3>8, Multiples
      <4> QED BY <2>1, <3>3, <4>1
    <3> QED BY <3>1, <3>9
  <2>5. \A field \in Columns : /\ TwiceMedian(Column(t, field)) = TwiceMedian(Column(s, field))
                               /\ TwiceMedian(Column(s, field)) \in Nat
    BY <1>2, <1>4, MediansOf
  <2>6. /\ TwiceMedian(Column(s, "prompt")) <= TwiceMedian(Column(t, "prompt"))
        /\ TwiceMedian(Column(s, "generation")) <= TwiceMedian(Column(t, "generation"))
        /\ TwiceMedian(Column(t, "ttft")) <= TwiceMedian(Column(s, "ttft"))
    <3>1. "prompt" \in Columns /\ "generation" \in Columns /\ "ttft" \in Columns
      BY DEF Columns
    <3> QED BY <2>5, <3>1
  <2>7. CalculateComputeScore(s, p) <= CalculateComputeScore(t, p)
    BY <1>1, <1>2, <1>4, <2>2, <2>4, <2>6, ComputeScoreIsMonotone
  <2> QED BY <2>7
<1> QED BY <1>3, <1>4 DEF t

\* A single run cannot lift the score over what all runs at the level of the second best get.
LEMMA OutlierIsCapped ==
  ASSUME NEW s \in Report, NEW i \in DOMAIN s, NEW j \in DOMAIN s, i # j, NEW p \in 0..15,
         Cardinality(Succeeded(s)) >= 3,
         \A k \in DOMAIN s \ {i} : AtLeastAsGood(s[j], s[k])
  PROVE  CalculateComputeScore(s, p)
           <= CalculateComputeScore([k \in DOMAIN s |-> [s[j] EXCEPT !.throttled = Throttled(s)]], p)
<1> DEFINE n == Len(s)
           level == [s[j] EXCEPT !.throttled = Throttled(s)]
           t == [k \in DOMAIN s |-> level]
           c == Cardinality(Succeeded(s))
<1>1. /\ n \in Nat /\ DOMAIN s = 1..n /\ c \in Nat /\ c <= n /\ c >= 3
      /\ \A k \in 1..n : s[k] \in Run \cup FailedRun
  BY SucceededOf DEF Report
<1>2. s[j].success /\ s[j] \in Run
      /\ s[j].prompt \in Nat /\ s[j].generation \in Nat /\ s[j].ttft \in Nat
  <2>1. s[j].success
    BY DEF AtLeastAsGood
  <2> QED BY <1>1, <2>1, RunTypes
<1>3. /\ level \in Run /\ level.success /\ level.throttled = Throttled(s)
      /\ level.prompt = s[j].prompt /\ level.generation = s[j].generation
      /\ level.ttft = s[j].ttft
  <2>1. Throttled(s) \in BOOLEAN
    BY DEF Throttled
  <2> QED BY <1>2, <2>1 DEF Run
<1> HIDE DEF level
<1>4. t \in Report /\ Len(t) = n /\ DOMAIN t = 1..n /\ \A k \in 1..n : t[k] = level
  <2>1. t \in [1..n -> Run \cup FailedRun]
    BY <1>1, <1>3
  <2> HIDE DEF n
  <2>2. t \in Seq(Run \cup FailedRun) /\ Len(t) = n
    <3>1. ASSUME NEW S, NEW u \in [1..n -> S] PROVE u \in Seq(S) /\ Len(u) = n
      BY <1>1
    <3> HIDE DEF t
    <3> QED BY <2>1, <3>1
  <2> QED BY <1>1, <2>2 DEF Report
<1> HIDE DEF t, n
<1>5. Succeeded(t) = 1..n /\ 1..n # {} /\ IsFiniteSet(1..n) /\ Cardinality(1..n) = n
  <2>1. Succeeded(t) = 1..n
    BY <1>3, <1>4 DEF Succeeded
  <2>2. 1 \in 1..n
    BY <1>1
  <2>3. ASSUME NEW m \in Nat PROVE IsFiniteSet(1..m) /\ Cardinality(1..m) = m
    BY FS_Interval
  <2> QED BY <1>1, <2>1, <2>2, <2>3
<1>6. IsFiniteSet(Succeeded(s)) /\ Succeeded(s) # {}
  <2>1. ASSUME Succeeded(s) = {} PROVE FALSE
    <3>1. Cardinality(Succeeded(s)) = 0
      BY <2>1, FS_EmptySet
    <3> QED BY <3>1
  <2> QED BY <2>1, SucceededOf
\* With x for the level in a column: the median of s is on the worse side of x, that of t is x.
<1>7. ASSUME NEW field \in Columns, NEW x \in Nat, level[field] = x
      PROVE  /\ (\A k \in Succeeded(s) \ {i} : s[k][field] <= x)
                  => TwiceMedian(Column(s, field)) <= 2 * x
             /\ (\A k \in Succeeded(s) \ {i} : s[k][field] >= x)
                  => TwiceMedian(Column(s, field)) >= 2 * x
             /\ TwiceMedian(Column(t, field)) = 2 * x
  <2> DEFINE a == Column(s, field)
             b == Column(t, field)
  <2>1. a \in [Succeeded(s) -> Nat] /\ b \in [1..n -> Nat]
    BY <1>4, <1>5, ColumnOf
  <2>2. \A k \in Succeeded(s) : a[k] = s[k][field]
    BY DEF Column
  <2>3. \A k \in 1..n : b[k] = x
    BY <1>4, <1>5, <1>7 DEF Column
  <2> HIDE DEF a, b
  <2>4. TwiceMedian(b) = 2 * x
    BY <1>5, <2>1, <2>3, MedianOfEqual
  <2>5. /\ (\A k \in Succeeded(s) \ {i} : a[k] <= x) => TwiceMedian(a) <= 2 * x
        /\ (\A k \in Succeeded(s) \ {i} : a[k] >= x) => TwiceMedian(a) >= 2 * x
    BY <1>6, <2>1, MedianIgnoresOutlier
  <2> QED BY <2>2, <2>4, <2>5 DEF a, b
<1>8. \A k \in Succeeded(s) \ {i} :
        s[k].prompt <= s[j].prompt /\ s[k].generation <= s[j].generation /\ s[k].ttft >= s[j].ttft
  <2> SUFFICES ASSUME NEW k \in Succeeded(s) \ {i}
               PROVE  /\ s[k].prompt <= s[j].prompt /\ s[k].generation <= s[j].generation
                      /\ s[k].ttft >= s[j].ttft
    OBVIOUS
  <2>1. k \in DOMAIN s \ {i} /\ s[k].success
    BY DEF Succeeded
  <2>2. s[k].prompt \in Nat /\ s[k].generation \in Nat /\ s[k].ttft \in Nat
    BY <1>1, <2>1, RunTypes
  <2>3. AtLeastAsGood(s[j], s[k])
    BY <2>1
  <2> QED BY <1>2, <2>2, <2>3 DEF AtLeastAsGood
<1>9. /\ TwiceMedian(Column(s, "prompt")) <= TwiceMedian(Column(t, "prompt"))
      /\ TwiceMedian(Column(s, "generation")) <= TwiceMedian(Column(t, "generation"))
      /\ TwiceMedian(Column(t, "ttft")) <= TwiceMedian(Column(s, "ttft"))
  <2>1. "prompt" \in Columns /\ "generation" \in Columns /\ "ttft" \in Columns
    BY DEF Columns
  <2>2. \A field \in Columns : TwiceMedian(Column(s, field)) \in Nat
    BY <1>6, MediansOf
  <2>3. /\ TwiceMedian(Column(s, "prompt")) <= 2 * s[j].prompt
        /\ TwiceMedian(Column(t, "prompt")) = 2 * s[j].prompt
    BY <1>2, <1>3, <1>7, <1>8, <2>1
  <2>4. /\ TwiceMedian(Column(s, "generation")) <= 2 * s[j].generation
        /\ TwiceMedian(Column(t, "generation")) = 2 * s[j].generation
    BY <1>2, <1>3, <1>7, <1>8, <2>1
  <2>5. /\ TwiceMedian(Column(s, "ttft")) >= 2 * s[j].ttft
        /\ TwiceMedian(Column(t, "ttft")) = 2 * s[j].ttft
    BY <1>2, <1>3, <1>7, <1>8, <2>1
  <2>6. TwiceMedian(Column(s, "ttft")) \in Nat /\ 2 * s[j].ttft \in Nat
    BY <1>2, <2>1, <2>2
  <2> QED BY <2>3, <2>4, <2>5, <2>6
<1>10. SuccessPoints(s) <= SuccessPoints(t)
  <2> DEFINE all == 10 * ComputeScale
             q == all \div n
  <2>1. SuccessPoints(s) = c * q /\ SuccessPoints(t) = n * q
    BY <1>4, <1>5 DEF SuccessPoints, n
  <2>2. all \in Nat
    BY ComputeScaleIs
  <2> HIDE DEF all, c
  <2>3. q \in Nat
    <3>1. all \in Int /\ n \in Nat \ {0}
      BY <1>1, <2>2
    <3>2. q \in Int /\ all < n * q + n
      BY <3>1, Division
    <3> HIDE DEF q
    <3>3. n * 0 < n * (q + 1)
      BY <2>2, <3>1, <3>2
    <3>4. 0 < q + 1
      BY <3>1, <3>2, <3>3
    <3> QED BY <3>2, <3>4
  <2> HIDE DEF q
  <2>4. c * q <= n * q
    BY <1>1, <2>3, Multiples
  <2> QED BY <2>1, <2>4
<1>11. Throttled(t) => Throttled(s)
  BY <1>3, <1>4 DEF Throttled
<1>12. Cardinality(Succeeded(t)) >= 3 /\ Succeeded(t) # {}
  BY <1>1, <1>5
<1>13. CalculateComputeScore(s, p) <= CalculateComputeScore(t, p)
  BY <1>4, <1>6, <1>9, <1>10, <1>11, <1>12, ComputeScoreIsMonotone
<1> QED BY <1>13 DEF t, level

\* For any measurements of up to RunLimit runs the score of CalculateComputeScore is earned.
THEOREM ScoresAreEarned == ComputeSpec => []ComputeScoreIsEarned
<1>1. ComputeInit => runs \in Report
  BY DEF ComputeInit, Report
<1>2. runs \in Report /\ [ComputeNext]_runs => (runs \in Report)'
  <2> SUFFICES ASSUME runs \in Report, [ComputeNext]_runs
               PROVE  runs' \in Report
    OBVIOUS
  <2>1. CASE UNCHANGED runs
    BY <2>1
  <2>2. CASE RecordRun
    BY <2>2 DEF RecordRun, Report
  <2> QED BY <2>1, <2>2 DEF ComputeNext
<1>3. runs \in Report => ComputeScoreIsEarned
  <2> SUFFICES ASSUME runs \in Report, NEW p \in Stabilities
               PROVE  LET Earned(s) == CalculateComputeScore(s, p)
                      IN /\ \A i \in DOMAIN runs :
                              ~runs[i].success => Earned(runs) <= Earned(Without(runs, i))
                         /\ \A i, j \in DOMAIN runs :
                              (/\ i # j /\ Cardinality(Succeeded(runs)) >= 3
                               /\ \A k \in DOMAIN runs \ {i} : AtLeastAsGood(runs[j], runs[k]))
                                => Earned(runs)
                                     <= Earned([k \in DOMAIN runs |->
                                                  [runs[j] EXCEPT !.throttled = Throttled(runs)]])
                         /\ Throttled(runs) => Earned(runs) <= 90
                         /\ Cardinality(Succeeded(runs)) < 3 => Earned(runs) <= 85
                         /\ Succeeded(runs) = {} => Earned(runs) = 0
    BY DEF ComputeScoreIsEarned
  <2>1. p \in 0..15
    BY ComputeAssumption
  <2>2. \A i \in DOMAIN runs : ~runs[i].success =>
          CalculateComputeScore(runs, p) <= CalculateComputeScore(Without(runs, i), p)
    BY <2>1, FailedRunCosts
  <2>3. ASSUME NEW i \in DOMAIN runs, NEW j \in DOMAIN runs, i # j,
               Cardinality(Succeeded(runs)) >= 3,
               \A k \in DOMAIN runs \ {i} : AtLeastAsGood(runs[j], runs[k])
        PROVE  CalculateComputeScore(runs, p)
                 <= CalculateComputeScore([k \in DOMAIN runs |->
                      [runs[j] EXCEPT !.throttled = Throttled(runs)]], p)
    BY <2>1, <2>3, OutlierIsCapped
  <2>4. /\ Throttled(runs) => CalculateComputeScore(runs, p) <= 90
        /\ Cardinality(Succeeded(runs)) < 3 => CalculateComputeScore(runs, p) <= 85
        /\ Succeeded(runs) = {} => CalculateComputeScore(runs, p) = 0
    BY <2>1, ComputeScoreOf
  <2> QED BY <2>2, <2>3, <2>4
<1> QED BY <1>1, <1>2, <1>3, PTL DEF ComputeSpec

-------------------------------------------------------------------------------
(***************************************************************************)
(* Node rating.  The rating rules agree with each other for all integer    *)
(* scores.  What is needed of a state is only its type: five numbers and   *)
(* five flags.  The proofs go through the lowest score, which is a lower   *)
(* bound of all five and one of them.                                      *)
(***************************************************************************)

USE ScoreAssumption

\* The requirements, dimension by dimension.
LEMMA Minimums ==
  \A d \in Dimensions :
    /\ TextInference[d] \in Int /\ TextInference[d] <= 50
    /\ LargeData[d] \in Int /\ LargeData[d] <= 70
    /\ TextInference[d] <= LargeData[d]
  BY DEF Dimensions, TextInference, LargeData

\* Scores stay scores and flags stay flags.
THEOREM TypeCorrect == Spec => []TypeOK
<1>1. Init => TypeOK
  BY DEF Init, TypeOK
<1>2. TypeOK /\ [Next]_vars => TypeOK'
  BY DEF TypeOK, Next, vars, Measure, Forget
<1> QED BY <1>1, <1>2, PTL DEF Spec

\* The loop of DetermineNodeTier finds the weakest dimension: the lowest value reaches a
\* threshold if and only if all five scores do.
LEMMA LowestBounds ==
  ASSUME TypeOK, NEW v \in Int
  PROVE  /\ Lowest \in Int
         /\ Lowest >= v <=> \A d \in Dimensions : score[d] >= v
<1>1. \A d \in Dimensions : score[d] \in Int
  BY DEF TypeOK
<1> QED BY <1>1 DEF Lowest, Least, Dimensions

\* The tier names the threshold that all scores reach.
LEMMA WeakestDecides == TypeOK => TierIsWeakest
<1> SUFFICES ASSUME TypeOK PROVE TierIsWeakest
  OBVIOUS
<1>1. Lowest \in Int
  BY LowestBounds
<1>2. \A v \in {50, 70, 80, 90} : Reaches(v) <=> AllKnown /\ Lowest >= v
  BY LowestBounds DEF Reaches, AllKnown
<1>3. CASE ~AllKnown
  BY <1>2, <1>3 DEF TierIsWeakest, DetermineNodeTier
<1>4. CASE AllKnown
  BY <1>1, <1>2, <1>4 DEF TierIsWeakest, DetermineNodeTier
<1> QED BY <1>3, <1>4

\* The tier that is determined passes the constraints of the table.
LEMMA TierFitsTable == TypeOK => TierIsStorable
<1> SUFFICES ASSUME TypeOK PROVE TierIsStorable
  OBVIOUS
<1>1. Lowest \in Int
  BY LowestBounds
<1> QED BY <1>1 DEF TierIsStorable, TierFits, DetermineNodeTier, AllKnown, Tiers

\* Whoever reaches a threshold reaches every minimum that is not above it.
LEMMA ReachIsEnough ==
  ASSUME TypeOK, NEW v \in Int, NEW w \in Workloads, Reaches(v),
         \A d \in Dimensions : Minimum(w, d) <= v
  PROVE  Eligible(w)
<1>1. \A d \in Dimensions : score[d] \in Int /\ Minimum(w, d) \in Int
  BY Minimums DEF TypeOK, Minimum
<1> QED BY <1>1 DEF Reaches, Eligible, Limitations, CheckKnownMinimum

\* The two functions do not contradict each other.
LEMMA TierImpliesWork == TypeOK => TierAgreesWithEligibility
<1> SUFFICES ASSUME TypeOK PROVE TierAgreesWithEligibility
  OBVIOUS
<1>1. TierIsWeakest
  BY WeakestDecides
<1>2. ASSUME DetermineNodeTier \in {"gold", "platinum", "datacenter"}
      PROVE  Eligible("large-data")
  <2>1. Reaches(70)
    BY <1>1, <1>2 DEF TierIsWeakest
  <2>2. \A d \in Dimensions : Minimum("large-data", d) <= 70
    BY Minimums DEF Minimum
  <2> QED BY <2>1, <2>2, ReachIsEnough DEF Workloads
<1>3. ASSUME DetermineNodeTier = "standard" PROVE Eligible("text-inference")
  <2>1. Reaches(50)
    BY <1>1, <1>3 DEF TierIsWeakest
  <2>2. \A d \in Dimensions : Minimum("text-inference", d) <= 50
    BY Minimums DEF Minimum
  <2> QED BY <2>1, <2>2, ReachIsEnough DEF Workloads
<1>4. ASSUME DetermineNodeTier = "unrated" PROVE \A w \in Workloads : ~Eligible(w)
  <2>1. ~AllKnown
    BY <1>4, TierFitsTable DEF TierIsStorable, TierFits, AllKnown
  <2> QED BY <2>1 DEF AllKnown, Eligible, Limitations, CheckKnownMinimum
<1>5. ASSUME Eligible("large-data") PROVE Eligible("text-inference")
  <2>1. \A d \in Dimensions : score[d] \in Int /\ known[d] /\ score[d] >= Minimum("large-data", d)
    BY <1>5 DEF Eligible, Limitations, CheckKnownMinimum, TypeOK
  <2>2. \A d \in Dimensions : /\ Minimum("text-inference", d) \in Int
                              /\ Minimum("large-data", d) \in Int
                              /\ Minimum("text-inference", d) <= Minimum("large-data", d)
    BY Minimums DEF Minimum
  <2> QED BY <2>1, <2>2 DEF Eligible, Limitations, CheckKnownMinimum, Workloads
<1> QED BY <1>2, <1>3, <1>4, <1>5 DEF TierAgreesWithEligibility

\* In every state, for all integer scores: the tier is the weakest dimension's.
THEOREM TierIsTheWeakest == Spec => []TierIsWeakest
  BY TypeCorrect, WeakestDecides, PTL

\* In every state the determined tier satisfies the constraints that migration 000009
\* puts on tiers.
THEOREM TiersAreStorable == Spec => []TierIsStorable
  BY TypeCorrect, TierFitsTable, PTL

\* In every state a tier and the eligibility of the same node agree.
THEOREM TiersAgree == Spec => []TierAgreesWithEligibility
  BY TypeCorrect, TierImpliesWork, PTL

\* No step that only improves a rating makes a node ineligible.
THEOREM ImprovementIsSafe == Spec => BetterIsNeverWorse
<1>1. TypeOK /\ TypeOK' /\ [Next]_vars
      => [Improves => \A w \in Workloads : Eligible(w) => Eligible(w)']_vars
  <2> SUFFICES ASSUME TypeOK, TypeOK', Improves, NEW w \in Workloads, Eligible(w)
               PROVE  Eligible(w)'
    OBVIOUS
  <2>1. \A d \in Dimensions : /\ score[d] \in Int /\ score'[d] \in Int
                              /\ Minimum(w, d) \in Int
    BY Minimums DEF TypeOK, Minimum
  <2>2. \A d \in Dimensions : known[d] /\ score[d] >= Minimum(w, d)
    BY DEF Eligible, Limitations, CheckKnownMinimum
  <2>3. \A d \in Dimensions : known'[d] /\ score'[d] >= Minimum(w, d)
    BY <2>1, <2>2 DEF Improves
  <2> QED BY <2>3 DEF Eligible, Limitations, CheckKnownMinimum, Minimum
<1> QED BY <1>1, TypeCorrect, PTL DEF Spec, BetterIsNeverWorse

===============================================================================
