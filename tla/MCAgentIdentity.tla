---------------------------- MODULE MCAgentIdentity ----------------------------
(* Three agent processes that share one identity file. *)
EXTENDS AgentIdentity, TLC

CONSTANTS p1, p2, p3

ThreeProcs == {p1, p2, p3}
Interchangeable == Permutations(Procs)

================================================================================
