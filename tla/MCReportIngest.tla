----------------------------- MODULE MCReportIngest -----------------------------
(* One or two nodes, a few reports and handlers. *)
EXTENDS ReportIngest, TLC

CONSTANTS n1, n2, k1, k2, m1, m2, p1, p2, p3

OneNode == {n1}
TwoNodes == {n1, n2}
OneKey == {k1}
TwoKeys == {k1, k2}
OneMeasurement == {m1}
TwoMeasurements == {m1, m2}
TwoReports == 1 .. 2
TwoPosts == {p1, p2}
ThreePosts == {p1, p2, p3}

Interchangeable ==
  Permutations(Nodes) \cup Permutations(Keys) \cup Permutations(Measurements) \cup Permutations(Posts)

================================================================================
