-------------------------- MODULE MCAgentEnrollment --------------------------
(* Three runs of the agent on one machine, with codes of one or two accounts. *)
EXTENDS AgentEnrollment, TLC

CONSTANTS p1, p2, p3, c1, c2

ThreeProcs == {p1, p2, p3}
TwoCodes == {c1, c2}
Interchangeable == Permutations(Procs) \cup Permutations(Codes)

==============================================================================
