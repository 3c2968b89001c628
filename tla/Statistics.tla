------------------------------ MODULE Statistics ------------------------------
(***************************************************************************)
(* The order statistics of the measurements.  The agent                    *)
(* (agent/network_benchmark_linux.go, network_benchmark_measurement.go)    *)
(* and the server (server/compute_score.go) both sort a copy of their      *)
(* samples and look at it by position.  Here samples are a function from   *)
(* any finite set of positions: their order makes no difference.           *)
(***************************************************************************)
EXTENDS Integers, FiniteSets, Functions

\* The samples up to v, and those below it.
UpTo(s, v) == {i \in DOMAIN s : s[i] <= v}
Below(s, v) == {i \in DOMAIN s : s[i] < v}

\* The k-th element of the sorted samples.
Kth(s, k) ==
  CHOOSE v \in {s[i] : i \in DOMAIN s} :
    Cardinality(Below(s, v)) < k /\ k <= Cardinality(UpTo(s, v))

\* Seeded fault: the mean instead of the median.
TwiceMean(s) == (2 * SumFunction(s)) \div Cardinality(DOMAIN s)

\* Twice the median, so that it is whole (medianFloat64).
TwiceMedian(s) ==
  LET middle == Cardinality(DOMAIN s) \div 2
  IN IF Cardinality(DOMAIN s) % 2 = 1 THEN 2 * Kth(s, middle + 1)
     ELSE Kth(s, middle) + Kth(s, middle + 1)

===============================================================================
