----------------------------- MODULE ComputeScore -----------------------------
(***************************************************************************)
(* CalculateComputeScore of server/compute_score.go, over exact fractions: *)
(* points are multiples of 1/ComputeScale, which makes every division      *)
(* exact for up to five runs, the number the agent makes.  Stability       *)
(* points depend on square roots and stay a parameter.  The function keeps *)
(* no state; the runs of a benchmark are the state, recorded one by one,   *)
(* as the server accepts them.                                             *)
(***************************************************************************)
EXTENDS Integers, Sequences, Statistics

CONSTANTS
  RunLimit,         \* m9StandardRepetitions, 5 in the code
  PromptRates,      \* prompt tokens per second that are tried,
  GenerationRates,  \* generated tokens per second, and
  FirstTokenTimes,  \* times to the first token, in ms
  Stabilities       \* stability points that are tried, of 15

ASSUME ComputeAssumption ==
  /\ RunLimit \in 1..5
  /\ PromptRates \cup GenerationRates \subseteq Nat \ {0}
  /\ FirstTokenTimes \subseteq Nat
  /\ Stabilities \subseteq 0..15

VARIABLES
  runs  \* benchmark.Samples

ComputeScale == 294000

Run == [success: {TRUE}, throttled: BOOLEAN,
        prompt: PromptRates, generation: GenerationRates, ttft: FirstTokenTimes]
FailedRun == [success: {FALSE}, throttled: BOOLEAN]

-------------------------------------------------------------------------------

Fit(x, low, high) == IF x < low THEN low ELSE IF x > high THEN high ELSE x

\* points * clamp01(median / full)
RatePoints(values, full, points) ==
  Fit(TwiceMedian(values), 0, 2 * full) * ((points * ComputeScale) \div (2 * full))

\* decreasingLinearScore(median, 100, 5000, 15)
FirstTokenPoints(values) ==
  (10000 - Fit(TwiceMedian(values), 200, 10000)) * ((15 * ComputeScale) \div 9800)

Throttled(s) == \E i \in DOMAIN s : s[i].throttled

Succeeded(s) == {i \in DOMAIN s : s[i].success}

\* promptRates, generationRates or ttfts, of the successful runs
Column(s, field) == [i \in Succeeded(s) |-> s[i][field]]

SuccessPoints(s) == Cardinality(Succeeded(s)) * ((10 * ComputeScale) \div Len(s))

TotalPoints(s, stability) ==
  RatePoints(Column(s, "prompt"), 1000, 20)
    + RatePoints(Column(s, "generation"), 100, 40)
    + FirstTokenPoints(Column(s, "ttft"))
    + (IF Cardinality(Succeeded(s)) >= 3 THEN stability * ComputeScale ELSE 0)
    + SuccessPoints(s)

\* stability: what decreasingLinearScore makes of the coefficient of variation
CalculateComputeScore(s, stability) ==
  IF Succeeded(s) = {} THEN 0
  ELSE LET total == (TotalPoints(s, stability) * (IF Throttled(s) THEN 9 ELSE 10)) \div 10
       IN (2 * Fit(total, 0, 100 * ComputeScale) + ComputeScale) \div (2 * ComputeScale)

-------------------------------------------------------------------------------

ComputeInit == runs = <<>>

\* A run of the benchmark: rates count only if it succeeded, throttling in any case.
RecordRun ==
  /\ Len(runs) < RunLimit
  /\ \E run \in Run \cup FailedRun : runs' = Append(runs, run)

ComputeNext == RecordRun

ComputeSpec == ComputeInit /\ [][ComputeNext]_runs

-------------------------------------------------------------------------------
(* Properties.                                                             *)

\* A score has to be earned.  Leaving a failed run in the report never raises the score;
\* a single outstanding run cannot lift the score over what all runs at the level of the
\* second best would get; throttling keeps a node at 90, fewer than three successful runs
\* at 85, and without any the score is zero.
Without(s, i) == SubSeq(s, 1, i - 1) \o SubSeq(s, i + 1, Len(s))
AtLeastAsGood(a, b) ==
  a.success /\ b.success /\ a.prompt >= b.prompt /\ a.generation >= b.generation
    /\ a.ttft <= b.ttft
ComputeScoreIsEarned ==
  \A p \in Stabilities :
    LET score(s) == CalculateComputeScore(s, p)
    IN /\ \A i \in DOMAIN runs : ~runs[i].success => score(runs) <= score(Without(runs, i))
       /\ \A i, j \in DOMAIN runs :
            (/\ i # j /\ Cardinality(Succeeded(runs)) >= 3
             /\ \A k \in DOMAIN runs \ {i} : AtLeastAsGood(runs[j], runs[k]))
              => score(runs) <= score([k \in DOMAIN runs |->
                                         [runs[j] EXCEPT !.throttled = Throttled(runs)]])
       /\ Throttled(runs) => score(runs) <= 90
       /\ Cardinality(Succeeded(runs)) < 3 => score(runs) <= 85
       /\ Succeeded(runs) = {} => score(runs) = 0

===============================================================================
