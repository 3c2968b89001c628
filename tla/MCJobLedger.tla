----------------------------- MODULE MCJobLedger -----------------------------
(* Two transactions over one or two jobs, between two users that own a node each. *)
EXTENDS JobLedger, TLC

CONSTANTS t1, t2, u1, u2, n1, n2, j1, j2, k1, k2, k3

TwoTxns == {t1, t2}
TwoUsers == {u1, u2}
TwoNodes == {n1, n2}
OneNode == {n1}
OwnsOne == (n1 :> u1)
OwnOne == (n1 :> u1) @@ (n2 :> u2)
OneJob == {j1}
TwoJobs == {j1, j2}
TwoKeys == {k1, k2}
ThreeKeys == {k1, k2, k3}

\* Users and nodes are told apart by who owns what.
Interchangeable == Permutations(Txns) \cup Permutations(Jobs) \cup Permutations(Keys)

==============================================================================
