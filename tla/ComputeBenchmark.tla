--------------------------- MODULE ComputeBenchmark ---------------------------
(***************************************************************************)
(* A compute benchmark session of the agent: m9StandardRepetitions runs of *)
(* llama-bench and of a time-to-first-token request, with a llama-server   *)
(* that the session starts and stops (agent/compute_benchmark_*.go).       *)
(*                                                                         *)
(* On Linux one server lives as long as the session; on Darwin every run   *)
(* has a server of its own, started after llama-bench has ended.  Several  *)
(* sessions may run on one machine: their servers all want the same port,  *)
(* and a request to it is answered by whichever process has it.            *)
(*                                                                         *)
(* A session is one goroutine that blocks in a select or in a call.  The   *)
(* processes it starts, their exits, the context and the timers run beside *)
(* it.  exec.CommandContext kills the process it started when the context  *)
(* is done: llama-server itself, but only the time(1) that llama-bench     *)
(* runs under, and Cmd.Run then goes on reading llama-bench's output.      *)
(***************************************************************************)
EXTENDS Naturals, Sequences

CONSTANTS
  Sessions,    \* calls of Execute{Linux,Darwin}ComputeBenchmark on one machine
  Runs,        \* m9StandardRepetitions
  Builds,      \* runtime, model and backend metadata that llama-bench can report
  OtherModel,  \* metadata that names a model that was not asked for
  None         \* no measurement

ASSUME BenchmarkAssumption ==
  /\ Runs \in Nat \ {0}
  /\ Builds # {}
  /\ None \notin Sessions \cup Builds \cup {OtherModel}
  /\ OtherModel \notin Builds

VARIABLES
  platform,  \* the build of the agent
  pc,        \* where each session is
  run,       \* its repetition
  canceled,  \* its context is done
  bench,     \* its llama-bench process
  server,    \* its llama-server processes, by the run that started them
  attempt,   \* the measurement of the current run
  samples,   \* the runs recorded so far
  result     \* what it returned

vars == <<platform, pc, run, canceled, bench, server, attempt, samples, result>>

PC == {"idle", "spawn", "health", "unhealthy", "check", "bench", "benched", "ttft",
       "stop", "record", "lastStop", "done"}

\* "killed" has been sent SIGKILL but still holds memory and port; "gone" has exited, and
\* the result of Wait is in waitDone; "reaped" once that result has been received.
ServerState == {"none", "up", "bound", "ready", "killed", "gone", "reaped"}
Untouched == {"up", "bound", "ready"}
OnPort == {"bound", "ready", "killed"}

BenchState == {"none", "running", "orphan"}

\* One repetition: the build llama-bench reported, the session whose server gave the TTFT,
\* whether it failed, and whether its error text is over m9ComputeBenchmarkRunErrorMax.
Attempt == [build: Builds \cup {OtherModel, None}, by: Sessions \cup {None},
            failed: BOOLEAN, verbose: BOOLEAN]
Built(b) == [build |-> b, by |-> None, failed |-> FALSE, verbose |-> FALSE]
NoAttempt == Built(None)

Init ==
  /\ platform \in {"linux", "darwin"}
  /\ pc = [s \in Sessions |-> "idle"]
  /\ run = [s \in Sessions |-> 1]
  /\ canceled = [s \in Sessions |-> FALSE]
  /\ bench = [s \in Sessions |-> "none"]
  /\ server = [s \in Sessions |-> [i \in 1 .. Runs |-> "none"]]
  /\ attempt = [s \in Sessions |-> NoAttempt]
  /\ samples = [s \in Sessions |-> <<>>]
  /\ result = [s \in Sessions |-> "none"]

-------------------------------------------------------------------------------

Goto(s, l) == pc' = [pc EXCEPT ![s] = l]

\* The server the session uses now.
Slot(s) == IF platform = "linux" THEN 1 ELSE run[s]
Mine(s) == server[s][Slot(s)]
Becomes(s, i, st) == server' = [server EXCEPT ![s] = [@ EXCEPT ![i] = st]]

Return(s, r) == result' = [result EXCEPT ![s] = r]

\* A failed run loses its throughput and keeps its TTFT, if it got one; computeBenchmarkRunFailure
\* joins the texts of its errors.
Failed(s, long) ==
  attempt' = [attempt EXCEPT ![s] = [build |-> None, by |-> @.by, failed |-> TRUE,
                                     verbose |-> @.verbose \/ long]]

\* The validation of the options, before any process starts.
Execute(s) ==
  /\ pc[s] = "idle"
  /\ \/ /\ Goto(s, IF platform = "linux" THEN "spawn" ELSE "check")
        /\ UNCHANGED result
     \/ Goto(s, "done") /\ Return(s, "error")
  /\ UNCHANGED <<platform, run, canceled, bench, server, attempt, samples>>

-------------------------------------------------------------------------------
(* start{Linux,Darwin}ComputeBenchmarkServer.                               *)

\* Its error ends the session on Linux, and only the run on Darwin.
StartFailed(s) ==
  IF platform = "linux"
    THEN Goto(s, "done") /\ Return(s, "error") /\ UNCHANGED attempt
    ELSE Goto(s, "record") /\ UNCHANGED result /\ \E long \in BOOLEAN : Failed(s, long)

StartServer(s) ==
  /\ pc[s] = "spawn"
  /\ \/ Becomes(s, Slot(s), "up") /\ Goto(s, "health") /\ UNCHANGED <<attempt, result>>
     \/ StartFailed(s) /\ UNCHANGED server
  /\ UNCHANGED <<platform, run, canceled, bench, samples>>

\* GET /health is answered 200 by the process on the port, whoever started it.
Answering == {t \in Sessions : \E i \in 1 .. Runs : server[t][i] = "ready"}

HealthOK(s) ==
  /\ pc[s] = "health"
  /\ Answering # {}
  /\ Goto(s, IF platform = "linux" THEN "check" ELSE "ttft")
  /\ UNCHANGED <<platform, run, canceled, bench, server, attempt, samples, result>>

\* Seeded fault: a start that fails on the startup timeout leaves the server to itself.
HealthTimeoutNoStop(s) ==
  /\ pc[s] = "health"
  /\ StartFailed(s)
  /\ UNCHANGED <<platform, run, canceled, bench, server, samples>>

\* The startup timeout, or the session's context.
HealthTimeout(s) ==
  /\ pc[s] = "health"
  /\ Goto(s, "unhealthy")
  /\ UNCHANGED <<platform, run, canceled, bench, server, attempt, samples, result>>

\* The process ended before it was healthy: this receives the only value of waitDone.
HealthExited(s) ==
  /\ pc[s] = "health"
  /\ Mine(s) = "gone"
  /\ Becomes(s, Slot(s), "reaped")
  /\ Goto(s, "unhealthy")
  /\ UNCHANGED <<platform, run, canceled, bench, attempt, samples, result>>

-------------------------------------------------------------------------------
(* Stop: interrupt, then wait for the exit or for the deadline, then kill.  *)

Reap(s) == Mine(s) = "gone" /\ Becomes(s, Slot(s), "reaped")

\* Seeded fault: no deadline, and therefore no kill.
KillPatiently(s) == FALSE /\ UNCHANGED server

\* Kill does nothing to a process that has ended, and nobody waits for it to end.
Kill(s) == Becomes(s, Slot(s), IF Mine(s) \in Untouched THEN "killed" ELSE Mine(s))

\* Stop after a failed start: its error is dropped.
StopUnhealthy(s) ==
  /\ pc[s] = "unhealthy"
  /\ Reap(s) \/ Kill(s)
  /\ StartFailed(s)
  /\ UNCHANGED <<platform, run, canceled, bench, samples>>

\* Stop after the measurement (Darwin): its error makes the run a failed one.
StopAfterRun(s) ==
  /\ pc[s] = "stop"
  /\ \/ Reap(s) /\ UNCHANGED attempt
     \/ Kill(s) /\ Failed(s, FALSE)
  /\ Goto(s, "record")
  /\ UNCHANGED <<platform, run, canceled, bench, samples, result>>

\* The deferred Stop (Linux): its error joins, or becomes, the session's.
StopAfterSession(s) ==
  /\ pc[s] = "lastStop"
  /\ \/ Reap(s) /\ UNCHANGED result
     \/ Kill(s) /\ Return(s, "error")
  /\ Goto(s, "done")
  /\ UNCHANGED <<platform, run, canceled, bench, attempt, samples>>

-------------------------------------------------------------------------------
(* orchestrateComputeBenchmarkRuns: throughput, then TTFT, then the record. *)

Leave(s) == Goto(s, IF platform = "linux" THEN "lastStop" ELSE "done")

\* One of the three checks of the context in each repetition.
CheckContext(s, at, l) ==
  /\ pc[s] = at
  /\ IF canceled[s] THEN Leave(s) /\ Return(s, "error") ELSE Goto(s, l) /\ UNCHANGED result

CollectThroughput(s) ==
  /\ run[s] <= Runs
  /\ CheckContext(s, "check", "bench")
  /\ bench' = [bench EXCEPT ![s] = IF canceled[s] THEN "none" ELSE "running"]
  /\ attempt' = [attempt EXCEPT ![s] = NoAttempt]
  /\ UNCHANGED <<platform, run, canceled, server, samples>>

\* llama-bench ends in time, with output that parses or without.
BenchReturns(s) ==
  /\ pc[s] = "bench"
  /\ bench[s] = "running"
  /\ bench' = [bench EXCEPT ![s] = "none"]
  /\ Goto(s, "benched")
  /\ \/ \E b \in Builds \cup {OtherModel} : attempt' = [attempt EXCEPT ![s] = Built(b)]
     \/ \E long \in BOOLEAN : Failed(s, long)
  /\ UNCHANGED <<platform, run, canceled, server, samples, result>>

\* m9...BenchmarkRunTimeout, or the session's context: time(1) is killed.
BenchKilled(s) ==
  /\ bench[s] = "running"
  /\ bench' = [bench EXCEPT ![s] = "orphan"]
  /\ UNCHANGED <<platform, pc, run, canceled, server, attempt, samples, result>>

\* Cmd.Run returns when the last process that holds the output pipe has ended.
OrphanExits(s) ==
  /\ bench[s] = "orphan"
  /\ bench' = [bench EXCEPT ![s] = "none"]
  /\ Goto(s, "benched")
  /\ Failed(s, FALSE)
  /\ UNCHANGED <<platform, run, canceled, server, samples, result>>

CollectTTFT(s) ==
  /\ CheckContext(s, "benched", IF platform = "linux" THEN "ttft" ELSE "spawn")
  /\ UNCHANGED <<platform, run, canceled, bench, server, attempt, samples>>

\* The first token arrives, from the process on the port.
FirstToken(s) ==
  /\ pc[s] = "ttft"
  /\ \E t \in Answering : attempt' = [attempt EXCEPT ![s] = [build |-> @.build, by |-> t,
                                        failed |-> @.failed, verbose |-> @.verbose]]
  /\ Goto(s, IF platform = "linux" THEN "record" ELSE "stop")
  /\ UNCHANGED <<platform, run, canceled, bench, server, samples, result>>

\* Seeded fault (Darwin): an early return when the measurement fails.
NoTokenNoStop(s) ==
  /\ pc[s] = "ttft"
  /\ \E long \in BOOLEAN : Failed(s, long)
  /\ Goto(s, "record")
  /\ UNCHANGED <<platform, run, canceled, bench, server, samples, result>>

\* No server, a bad status, a stream without a token, or the request timeout.
NoToken(s) ==
  /\ pc[s] = "ttft"
  /\ \E long \in BOOLEAN : Failed(s, long)
  /\ Goto(s, IF platform = "linux" THEN "record" ELSE "stop")
  /\ UNCHANGED <<platform, run, canceled, bench, server, samples, result>>

\* Seeded fault: a failed repetition is skipped.
RecordSuccesses(s) ==
  /\ CheckContext(s, "record", "check")
  /\ samples' = [samples EXCEPT ![s] = IF attempt[s].failed THEN @ ELSE Append(@, attempt[s])]
  /\ run' = [run EXCEPT ![s] = @ + 1]
  /\ UNCHANGED <<platform, canceled, bench, server, attempt>>

\* Seeded fault: no check of the context after the measurement.
RecordUnchecked(s) ==
  /\ pc[s] = "record"
  /\ Goto(s, "check")
  /\ samples' = [samples EXCEPT ![s] = Append(@, attempt[s])]
  /\ run' = [run EXCEPT ![s] = @ + 1]
  /\ UNCHANGED <<platform, canceled, bench, server, attempt, result>>

RecordRun(s) ==
  /\ CheckContext(s, "record", "check")
  /\ samples' = [samples EXCEPT ![s] = IF canceled[s] THEN @ ELSE Append(@, attempt[s])]
  /\ run' = [run EXCEPT ![s] = IF canceled[s] THEN @ ELSE @ + 1]
  /\ UNCHANGED <<platform, canceled, bench, server, attempt>>

\* The runs make one benchmark: error texts in bounds, one build, the model asked for.
Comparable(runs) ==
  /\ \A i \in 1 .. Len(runs) : ~(runs[i].failed /\ runs[i].verbose)
  /\ \E b \in Builds : \A i \in 1 .. Len(runs) : runs[i].failed \/ runs[i].build = b

FinalizeRuns(s) ==
  /\ pc[s] = "check"
  /\ run[s] > Runs
  /\ Leave(s)
  /\ Return(s, IF Comparable(samples[s]) THEN "payload" ELSE "error")
  /\ UNCHANGED <<platform, run, canceled, bench, server, attempt, samples>>

-------------------------------------------------------------------------------
(* The processes and the context.                                           *)

\* The server binds its port, if nobody has it, and then loads the model.
ServerBinds(s, i) ==
  /\ server[s][i] = "up"
  /\ \A t \in Sessions, j \in 1 .. Runs : server[t][j] \notin OnPort
  /\ Becomes(s, i, "bound")
  /\ UNCHANGED <<platform, pc, run, canceled, bench, attempt, samples, result>>

ServerReady(s, i) ==
  /\ server[s][i] = "bound"
  /\ Becomes(s, i, "ready")
  /\ UNCHANGED <<platform, pc, run, canceled, bench, attempt, samples, result>>

\* It exits: interrupted, killed, crashed, or because the port was taken.
ServerExits(s, i) ==
  /\ server[s][i] \in Untouched \cup {"killed"}
  /\ Becomes(s, i, "gone")
  /\ UNCHANGED <<platform, pc, run, canceled, bench, attempt, samples, result>>

\* exec.CommandContext kills the server of a session whose context is done.
ContextKills(s, i) ==
  /\ canceled[s]
  /\ server[s][i] \in Untouched
  /\ Becomes(s, i, "killed")
  /\ UNCHANGED <<platform, pc, run, canceled, bench, attempt, samples, result>>

Cancel(s) ==
  /\ pc[s] \notin {"idle", "done"}
  /\ ~canceled[s]
  /\ canceled' = [canceled EXCEPT ![s] = TRUE]
  /\ UNCHANGED <<platform, pc, run, bench, server, attempt, samples, result>>

\* What the session's goroutine does without waiting for llama-bench.
Step(s) ==
  \/ StartServer(s) \/ HealthOK(s) \/ HealthTimeout(s) \/ HealthExited(s)
  \/ StopUnhealthy(s) \/ StopAfterRun(s) \/ StopAfterSession(s)
  \/ CollectThroughput(s) \/ CollectTTFT(s) \/ FirstToken(s) \/ NoToken(s)
  \/ RecordRun(s) \/ FinalizeRuns(s)

Server(s, i) ==
  ServerBinds(s, i) \/ ServerReady(s, i) \/ ServerExits(s, i) \/ ContextKills(s, i)

Next ==
  \E s \in Sessions :
    \/ Execute(s) \/ Step(s) \/ Cancel(s)
    \/ BenchReturns(s) \/ BenchKilled(s) \/ OrphanExits(s)
    \/ \E i \in 1 .. Runs : Server(s, i)

Spec == Init /\ [][Next]_vars

\* The goroutine runs, and its timers fire: every wait of Step has one, and so has Cmd.Run.
FairSpec == Spec /\ \A s \in Sessions : WF_vars(Step(s)) /\ WF_vars(BenchKilled(s))

\* In addition llama-bench, though nobody kills it, ends by itself.
FairBenchSpec == FairSpec /\ \A s \in Sessions : WF_vars(OrphanExits(s))

-------------------------------------------------------------------------------
(* Properties.                                                              *)

\* Every variable has its type; no session records more runs than it makes.
TypeOK ==
  /\ platform \in {"linux", "darwin"}
  /\ pc \in [Sessions -> PC]
  /\ run \in [Sessions -> 1 .. Runs + 1]
  /\ canceled \in [Sessions -> BOOLEAN]
  /\ bench \in [Sessions -> BenchState]
  /\ server \in [Sessions -> [1 .. Runs -> ServerState]]
  /\ attempt \in [Sessions -> Attempt]
  /\ \A s \in Sessions : samples[s] \in Seq(Attempt) /\ Len(samples[s]) <= Runs
  /\ result \in [Sessions -> {"none", "payload", "error"}]

\* A session that has returned leaves no llama-server behind that was not at least sent
\* SIGKILL, on whichever of its error paths it returned.
NoAbandonedServer ==
  \A s \in Sessions, i \in 1 .. Runs : pc[s] = "done" => server[s][i] \notin Untouched

\* On Darwin no server that could still be serving shares the memory with llama-bench
\* (the comment on orchestrateDarwinComputeBenchmark), orphans of a timeout included.
NoServerBesideBench ==
  \A s \in Sessions, i \in 1 .. Runs :
    platform = "darwin" /\ bench[s] # "none" => server[s][i] \notin Untouched

\* A payload accounts for every repetition, failed ones included, and its successes are
\* comparable: same build, throughput and TTFT both measured (finalizeComputeBenchmarkRuns).
PayloadIsComplete ==
  \A s \in Sessions : result[s] = "payload" =>
    /\ Len(samples[s]) = Runs
    /\ \A i, j \in 1 .. Runs :
         ~samples[s][i].failed /\ ~samples[s][j].failed =>
           /\ samples[s][i].build = samples[s][j].build
           /\ samples[s][i].build \in Builds
           /\ samples[s][i].by # None

\* A session canceled while it measures never returns a payload.
CanceledReturnsNothing ==
  \A s \in Sessions :
    [](/\ canceled[s]
       /\ pc[s] \in {"spawn", "health", "unhealthy", "bench", "benched", "ttft", "stop", "record"}
       => [](result[s] # "payload"))

\* Every session returns, if llama-bench does: no wait of the session lacks a deadline,
\* although a start that failed has already received the server's exit from waitDone.
SessionReturns == \A s \in Sessions : pc[s] # "idle" ~> pc[s] = "done"

\* A session whose context is done returns, whatever llama-bench does.
CancelReturns == \A s \in Sessions : canceled[s] ~> pc[s] = "done"

\* A successful run was measured on the server its own session started ("starts exactly
\* one benchmark-owned loopback llama-server", compute_benchmark_session_linux.go).
MeasuresOwnServer ==
  \A s \in Sessions : \A i \in 1 .. Len(samples[s]) :
    ~samples[s][i].failed => samples[s][i].by = s

===============================================================================
