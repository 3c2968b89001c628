-------------------------- MODULE MCComputeBenchmark --------------------------
(* One or two benchmark sessions on a machine. *)
EXTENDS ComputeBenchmark

CONSTANTS s1, s2, b1, b2

OneSession == {s1}
TwoSessions == {s1, s2}
OneBuild == {b1}
TwoBuilds == {b1, b2}

===============================================================================
