--------------------------- MODULE NetworkBenchmark ---------------------------
(***************************************************************************)
(* One network benchmark, from collection by the agent                     *)
(* (agent/network_benchmark_linux.go, network_benchmark_darwin.go,         *)
(* network_benchmark_measurement.go) to the score the server gives it      *)
(* (server/network_benchmark_auth.go, server/network_score.go).            *)
(*                                                                         *)
(* A step is one command the agent runs.  A command can fail or run into   *)
(* its own timeout at any time, and fails always once the caller's context *)
(* is canceled; which failures end the collection and which are counted as *)
(* measurements is what makes the code interesting.                        *)
(***************************************************************************)
EXTENDS NetworkScore, Collection, Statistics, Sequences

CONSTANTS
  ProbeCount,       \* networkBenchmarkProbeCount, 10 in the code
  SampleCount,      \* linuxNetworkBenchmarkThroughputSamples, 3 in the code
  Speeds,           \* throughputs in Mbps, multiples of 10
  ConnectTimes,     \* times to connect, in ms
  Latencies,        \* further latencies and jitters, in 1/Grain ms, and
  Losses            \* loss percentages that some agent may report

ASSUME BenchmarkAssumption ==
  /\ ProbeCount \in 1..20 /\ 100 % ProbeCount = 0
  /\ SampleCount \in Nat \ {0}
  /\ \A s \in Speeds : s \in Nat \ {0} /\ s % 10 = 0
  /\ ConnectTimes \subseteq Nat \ {0} /\ Latencies \cup Losses \subseteq Nat
  /\ Grain % 2 = 0 /\ \A k \in 1..(ProbeCount - 1) : Grain % k = 0

VARIABLES
  step,       \* the next command of the collection
  reach,      \* ipv4Available, ipv6Available
  samples,    \* throughput samples of the test under way
  speed,      \* downloadMbps, uploadMbps
  probes,     \* control probes: a connect time in ms, or Lost
  payload,    \* the temporary upload file: absent, present, or left behind
  result      \* the benchmark returned, once there is one

benchmarkVars == <<platform, step, canceled, reach, samples, speed, probes, payload, result>>

Lost == 0
NoResult == [loss |-> -1]

Steps == {"route", "quality", "ipv4", "ipv6", "download", "payload", "upload", "warm",
          "probe", "done", "error"}

-------------------------------------------------------------------------------
(* What the samples amount to.                                             *)

\* linuxPercentile at 0.90, interpolating between two neighbours.
Percentile90(s) ==
  LET index == (Len(s) - 1) * 9
      low == Kth(s, index \div 10 + 1)
  IN IF index % 10 = 0 THEN low
     ELSE low + ((Kth(s, index \div 10 + 2) - low) * (index % 10)) \div 10

\* summarizeNetworkProbes: median of the successful connect times,
Latency(s) == (TwiceMedian(s) * Grain) \div 2

Abs(x) == IF x < 0 THEN -x ELSE x

\* totalVariation, summed up over neighbours
Variation(s) ==
  LET total[n \in 0..Len(s)] == IF n < 2 THEN 0 ELSE total[n - 1] + Abs(s[n] - s[n - 1])
  IN total[Len(s)]

\* mean absolute change between neighbours, and
Jitter(s) == IF Len(s) < 2 THEN 0 ELSE (Variation(s) * Grain) \div (Len(s) - 1)

\* share of the probes that failed.
Loss(s) == (100 * Cardinality({i \in DOMAIN s : s[i] = Lost})) \div Len(s)

\* The successful probes, collected one by one in their order.
Answered(s) ==
  LET kept[n \in 0..Len(s)] ==
        IF n = 0 THEN <<>>
        ELSE IF s[n] = Lost THEN kept[n - 1] ELSE Append(kept[n - 1], s[n])
  IN kept[Len(s)]

Summary(s) ==
  [ipv4 |-> reach.ipv4, ipv6 |-> reach.ipv6, download |-> speed.download,
   upload |-> speed.upload, latency |-> Latency(Answered(s)), jitter |-> Jitter(Answered(s)),
   loss |-> Loss(s)]

-------------------------------------------------------------------------------

BenchmarkInit ==
  /\ platform \in Platforms
  /\ step = "route"
  /\ canceled = FALSE
  /\ reach = [ipv4 |-> FALSE, ipv6 |-> FALSE]
  /\ samples = <<>>
  /\ speed = [download |-> 0, upload |-> 0]
  /\ probes = <<>>
  /\ payload = "absent"
  /\ result = NoResult

\* Seeded fault: the cleanup is not deferred but written at the end of the function.
FailKeepingPayload == step' = "error" /\ UNCHANGED payload

\* The deferred cleanupUpload: os.Remove, whose error nobody looks at.
CleanupUpload ==
  payload' \in IF payload = "present" THEN {"absent", "left"} ELSE {payload}

\* An error return.
Fail == step' = "error" /\ CleanupUpload

\* determineLinuxPreferredPath; on Linux a Tailscale interface is refused.
Route ==
  /\ step = "route"
  /\ \/ Fail
     \/ /\ ~canceled
        /\ \E path \in {"physical", "tailscale"} :
             IF platform = "darwin" THEN step' = "quality" /\ UNCHANGED payload
             ELSE IF path = "tailscale" THEN Fail
             ELSE step' = "ipv4" /\ UNCHANGED payload
  /\ UNCHANGED <<platform, canceled, reach, samples, speed, probes, result>>

\* networkQuality: both throughputs at once, finite and not negative, on the interface
\* that was asked for.
Quality ==
  /\ step = "quality"
  /\ \/ Fail /\ UNCHANGED speed
     \/ /\ ~canceled
        /\ speed' \in [download: Speeds \cup {0}, upload: Speeds \cup {0}]
        /\ step' = "ipv4"
        /\ UNCHANGED payload
  /\ UNCHANGED <<platform, canceled, reach, samples, probes, result>>

\* runNetworkControlProbe for one address family, the first time.
ReachIPv4 ==
  /\ step = "ipv4"
  /\ \E ok \in CommandOutcomes : reach' = [reach EXCEPT !.ipv4 = ok]
  /\ step' = "ipv6"
  /\ UNCHANGED <<platform, canceled, samples, speed, probes, payload, result>>

ReachIPv6 ==
  /\ step = "ipv6"
  /\ \E ok \in CommandOutcomes :
       /\ reach' = [reach EXCEPT !.ipv6 = ok]
       /\ IF reach.ipv4 \/ ok
          THEN step' = (IF platform = "linux" THEN "download" ELSE "warm") /\ UNCHANGED payload
          ELSE Fail
  /\ UNCHANGED <<platform, canceled, samples, speed, probes, result>>

\* One sample of collectLinuxThroughputSamples; the last one completes the test.
Throughput(test, next) ==
  /\ step = test
  /\ \/ Fail /\ UNCHANGED <<samples, speed>>
     \/ /\ ~canceled
        /\ \E mbps \in Speeds :
             LET all == Append(samples, mbps)
             IN IF Len(all) < SampleCount
                THEN samples' = all /\ UNCHANGED <<step, speed>>
                ELSE /\ samples' = <<>>
                     /\ speed' = [speed EXCEPT ![test] = Percentile90(all)]
                     /\ step' = next
        /\ UNCHANGED payload
  /\ UNCHANGED <<platform, canceled, reach, probes, result>>

Download == Throughput("download", "payload")
Upload == Throughput("upload", "warm")

\* createLinuxUploadPayload needs no command.  If it fails after the file was created it
\* removes the file itself, and that may fail, too.
CreatePayload ==
  /\ step = "payload"
  /\ \/ step' = "error" /\ payload' \in {"absent", "left"}
     \/ step' = "upload" /\ payload' = "present"
  /\ UNCHANGED <<platform, canceled, reach, samples, speed, probes, result>>

\* The warm-up probe, whose outcome is not looked at.
Warm ==
  /\ step = "warm"
  /\ step' = "probe"
  /\ UNCHANGED <<platform, canceled, reach, samples, speed, probes, payload, result>>

\* Seeded fault: probes run under a context of their own.
ProbeOutcomesDetached == ConnectTimes \cup {Lost}

ProbeOutcomes == IF canceled THEN {Lost} ELSE ConnectTimes \cup {Lost}

\* One of the counted probes; after the last one the summary is the result, unless no
\* probe was answered.
Probe ==
  /\ step = "probe"
  /\ \E t \in ProbeOutcomes :
       LET all == Append(probes, t)
       IN /\ probes' = all
          /\ IF Len(all) < ProbeCount THEN UNCHANGED <<step, payload, result>>
             ELSE IF \A i \in DOMAIN all : all[i] = Lost THEN Fail /\ UNCHANGED result
             ELSE step' = "done" /\ CleanupUpload /\ result' = Summary(all)
  /\ UNCHANGED <<platform, canceled, reach, samples, speed>>

CancelBenchmark ==
  /\ step \notin {"done", "error"}
  /\ Cancel
  /\ UNCHANGED <<step, reach, samples, speed, probes, payload, result>>

BenchmarkNext ==
  \/ Route \/ Quality \/ ReachIPv4 \/ ReachIPv6
  \/ Download \/ CreatePayload \/ Upload
  \/ Warm \/ Probe
  \/ CancelBenchmark

BenchmarkSpec == BenchmarkInit /\ [][BenchmarkNext]_benchmarkVars

-------------------------------------------------------------------------------
(* Properties.                                                             *)

Returned == step = "done"

\* With the agent's number of probes the loss penalty is not graded at all, although the
\* comment in network_score.go lists 2 and 3 percent: one lost probe is worth all 30
\* points, so that no benchmark with a lost probe scores above 70.
LostProbeCapsScore ==
  Returned /\ Lost \in {probes[i] : i \in DOMAIN probes} => CalculateNetworkScore(result) <= 70

\* Cancellation never passes for a good network: a collection canceled before its last probe
\* returns an error or a benchmark with losses, never one that looks complete.
CancelShowsAsLoss == Returned /\ canceled => result.loss > 0

\* Whichever command fails, the collection does not end before it has tried to remove the
\* upload file (createLinuxUploadPayload): the file is left only if its removal failed.
PayloadRemoved == step \in {"done", "error"} => payload # "present"

\* No measurement is worth more for being worse, for the values this agent returns and for
\* their neighbours that another one might report.
Improvements(b) ==
  {[b EXCEPT !.download = v] : v \in {s \in Speeds : s >= b.download}}
    \cup {[b EXCEPT !.upload = v] : v \in {s \in Speeds : s >= b.upload}}
    \cup {[b EXCEPT !.latency = v] : v \in {l \in Latencies : l <= b.latency}}
    \cup {[b EXCEPT !.jitter = v] : v \in {l \in Latencies : l <= b.jitter}}
    \cup {[b EXCEPT !.loss = v] : v \in {l \in Losses : l <= b.loss}}
    \cup {[b EXCEPT !.ipv4 = TRUE], [b EXCEPT !.ipv6 = TRUE]}
BetterNetworkScoresHigher ==
  Returned =>
    \A c \in Improvements(result) : CalculateNetworkScore(c) >= CalculateNetworkScore(result)

===============================================================================
