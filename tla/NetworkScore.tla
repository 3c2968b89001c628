----------------------------- MODULE NetworkScore -----------------------------
(***************************************************************************)
(* CalculateNetworkScore of server/network_score.go over exact fractions.  *)
(* The code computes in float64.  Here bandwidths are whole Mbps, loss is  *)
(* in whole percent, times are multiples of 1/Grain ms, and points are     *)
(* multiples of 1/Scale, which makes every division exact.                 *)
(***************************************************************************)
EXTENDS Integers

CONSTANTS
  Grain  \* parts of a millisecond in which times are given

ASSUME GrainAssumption == Grain \in Nat \ {0}

Scale == 11400 * Grain

Clamp(x, low, high) == IF x < low THEN low ELSE IF x > high THEN high ELSE x

Measurement ==
  [ipv4: BOOLEAN, ipv6: BOOLEAN, download: Int, upload: Int,
   latency: Int, jitter: Int, loss: Int]

BandwidthPoints(mbps) == Clamp(mbps, 0, 1000) * ((15 * Scale) \div 1000)

\* decreasingLinearScore with bounds in milliseconds
DecreasingLinear(value, best, worst, points) ==
  CASE value <= best * Grain -> points * Scale
    [] value >= worst * Grain -> 0
    [] OTHER -> (worst * Grain - value) * ((points * Scale) \div ((worst - best) * Grain))

\* Seeded fault: the penalty is the square of a number that is not clamped.
LossPointsUnclamped(percent) ==
  (5 - percent) * (5 - percent) * ((30 * Scale) \div 25)

\* Seeded fault: full loss of points at 50 percent instead of 5.
LossPointsMild(percent) ==
  (50 - Clamp(percent, 0, 50)) * (50 - Clamp(percent, 0, 50)) * ((30 * Scale) \div 2500)

\* 30 points times the square of what is left of 5 percent
LossPoints(percent) ==
  (5 - Clamp(percent, 0, 5)) * (5 - Clamp(percent, 0, 5)) * ((30 * Scale) \div 25)

Points(m) ==
  (IF m.ipv4 THEN 6 * Scale ELSE 0) + (IF m.ipv6 THEN 4 * Scale ELSE 0)
    + BandwidthPoints(m.download) + BandwidthPoints(m.upload)
    + DecreasingLinear(m.latency, 10, 200, 20)
    + DecreasingLinear(m.jitter, 2, 50, 10)
    + LossPoints(m.loss)

\* math.Round of the clamped sum
CalculateNetworkScore(m) ==
  IF ~m.ipv4 /\ ~m.ipv6 THEN 0
  ELSE (2 * Clamp(Points(m), 0, 100 * Scale) + Scale) \div (2 * Scale)

===============================================================================
