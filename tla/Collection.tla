------------------------------ MODULE Collection ------------------------------
(***************************************************************************)
(* What the agent's collectors have in common: they run commands of the    *)
(* operating system one after the other, each under a timeout of its own   *)
(* and under the context of the caller.                                    *)
(***************************************************************************)
VARIABLES
  platform,  \* the operating system the agent was built for
  canceled   \* whether the caller's context has ended

Platforms == {"linux", "darwin"}

\* The caller gives up, or its deadline passes.
Cancel == canceled' = TRUE /\ UNCHANGED platform

(***************************************************************************)
(* Whether a command succeeds (runNetworkBenchmarkCommand, runBounded,     *)
(* runDarwin): it may fail or run into its timeout at any time, and under  *)
(* a canceled context exec.CommandContext lets none succeed.               *)
(***************************************************************************)
CommandOutcomes == IF canceled THEN {FALSE} ELSE BOOLEAN

===============================================================================
