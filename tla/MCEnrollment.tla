----------------------------- MODULE MCEnrollment -----------------------------
(* Small instances of Enrollment for TLC. *)
EXTENDS Enrollment, TLC

CONSTANTS u1, u2, c1, c2, n1, n2, k1, k2, r1, r2, r3, r4

TwoUsers == {u1, u2}
OneUser == {u1}
OneCode == {c1}
TwoCodes == {c1, c2}
OneNode == {n1}
TwoNodes == {n1, n2}
TwoKeys == {k1, k2}
TwoReqs == {r1, r2}
ThreeReqs == {r1, r2, r3}
FourReqs == {r1, r2, r3, r4}

SmallTimes == 0 .. 3

\* The accounts are told apart by Owner; everything else is interchangeable.
Interchangeable ==
  Permutations(Codes) \cup Permutations(Nodes) \cup Permutations(Keys) \cup Permutations(Reqs)

===============================================================================
