------------------------ MODULE ComputeBenchmarkProofs ------------------------
(***************************************************************************)
(* Proofs about ComputeBenchmark for any number of sessions and runs.      *)
(* Sessions meet only on the port, so the inductive invariant speaks of    *)
(* one session at a time: Local(s).                                        *)
(***************************************************************************)
EXTENDS ComputeBenchmark, TLAPS

\* Where a session may have a server that nobody has killed.
Serving(p) ==
  IF p = "linux"
    THEN {"health", "unhealthy", "check", "bench", "benched", "ttft", "record", "lastStop"}
    ELSE {"health", "unhealthy", "ttft", "stop"}

\* Such a server is the one the session uses now, and the session is not past its Stop.
ServerInv(s) ==
  \A i \in 1 .. Runs :
    server[s][i] \in Untouched => i = Slot(s) /\ pc[s] \in Serving(platform)

\* llama-bench runs only while the session waits for it.
BenchInv(s) == bench[s] # "none" => pc[s] = "bench"

\* Linux starts its server before the first run and has no Stop between runs; Darwin has
\* no deferred one.
PlaceInv(s) ==
  /\ platform = "linux" => pc[s] # "stop"
  /\ platform = "darwin" => pc[s] # "lastStop"
  /\ pc[s] = "idle" => run[s] = 1
  /\ platform = "linux" /\ pc[s] \in {"spawn", "health", "unhealthy"} => run[s] = 1

Running == {"spawn", "health", "unhealthy", "bench", "benched", "ttft", "stop", "record"}

\* The runs recorded are the ones before the current one.
CountInv(s) ==
  /\ samples[s] \in Seq(Attempt)
  /\ Len(samples[s]) + 1 = run[s]
  /\ pc[s] \in Running => run[s] <= Runs

\* A run is measured in the order throughput, TTFT; one that has not failed has both.
AttemptInv(s) ==
  ~attempt[s].failed =>
    /\ pc[s] \in {"benched", "ttft", "stop", "record"} => attempt[s].build # None
    /\ platform = "darwin" /\ pc[s] \in {"spawn", "health", "unhealthy"}
         => attempt[s].build # None
    /\ pc[s] \in {"stop", "record"} => attempt[s].by # None

\* Neither have the recorded successes.
SampleInv(s) ==
  \A i \in 1 .. Len(samples[s]) :
    ~samples[s][i].failed => samples[s][i].build # None /\ samples[s][i].by # None

\* A payload is returned after the last run only, and only for comparable runs.
ResultInv(s) ==
  result[s] = "payload" =>
    /\ pc[s] \in {"lastStop", "done"}
    /\ Len(samples[s]) = Runs
    /\ Comparable(samples[s])

Local(s) ==
  /\ ServerInv(s) /\ BenchInv(s) /\ PlaceInv(s) /\ CountInv(s)
  /\ AttemptInv(s) /\ SampleInv(s) /\ ResultInv(s)

Types ==
  /\ platform \in {"linux", "darwin"}
  /\ pc \in [Sessions -> PC]
  /\ run \in [Sessions -> 1 .. Runs + 1]
  /\ canceled \in [Sessions -> BOOLEAN]
  /\ bench \in [Sessions -> BenchState]
  /\ server \in [Sessions -> [1 .. Runs -> ServerState]]
  /\ attempt \in [Sessions -> Attempt]
  /\ samples \in [Sessions -> Seq(Attempt)]
  /\ result \in [Sessions -> {"none", "payload", "error"}]

IInv == Types /\ \A s \in Sessions : Local(s)

-------------------------------------------------------------------------------

\* What a step of session s leaves alone.
Others(s) ==
  /\ platform' = platform
  /\ \A t \in Sessions \ {s} :
       /\ pc'[t] = pc[t]
       /\ run'[t] = run[t]
       /\ bench'[t] = bench[t]
       /\ server'[t] = server[t]
       /\ attempt'[t] = attempt[t]
       /\ samples'[t] = samples[t]
       /\ result'[t] = result[t]

\* Only the session that takes a step has to be looked at.
LEMMA OneSessionSteps ==
  ASSUME IInv, NEW s \in Sessions, Others(s), Types', Local(s)'
  PROVE  IInv'
<1> SUFFICES ASSUME NEW t \in Sessions \ {s} PROVE Local(t)'
  BY DEF IInv
<1>1. /\ platform' = platform /\ pc'[t] = pc[t] /\ run'[t] = run[t] /\ bench'[t] = bench[t]
      /\ server'[t] = server[t] /\ attempt'[t] = attempt[t] /\ samples'[t] = samples[t]
      /\ result'[t] = result[t]
  BY DEF Others
<1>2. Local(t)
  BY DEF IInv
<1>3. ServerInv(t)'
  BY <1>1, <1>2 DEF Local, ServerInv, Slot
<1>4. BenchInv(t)' /\ PlaceInv(t)' /\ CountInv(t)' /\ AttemptInv(t)' /\ SampleInv(t)'
  BY <1>1, <1>2 DEF Local, BenchInv, PlaceInv, CountInv, AttemptInv, SampleInv
<1>5. ResultInv(t)'
  BY <1>1, <1>2 DEF Local, ResultInv, Comparable
<1> QED
  BY <1>3, <1>4, <1>5 DEF Local

\* The initial states satisfy the invariant: no server, no llama-bench, no run recorded.
LEMMA InitIInv == Init => IInv
<1> SUFFICES ASSUME Init PROVE IInv
  OBVIOUS
<1> USE BenchmarkAssumption DEF Init
<1>1. Types
  BY DEF Types, PC, BenchState, ServerState, Attempt, NoAttempt, Built
<1>2. ASSUME NEW s \in Sessions PROVE Local(s)
  BY DEF Local, ServerInv, BenchInv, PlaceInv, CountInv, AttemptInv, SampleInv, ResultInv,
         Untouched, Running, NoAttempt, Built, Attempt
<1> QED
  BY <1>1, <1>2 DEF IInv

-------------------------------------------------------------------------------
(* The two updates that most actions share.                                 *)

\* While a session uses a server, the server has a place in the table.
LEMMA SlotInRange ==
  ASSUME Types, NEW s \in Sessions, Local(s), pc[s] \in Running \cup {"lastStop"}
  PROVE  Slot(s) \in 1 .. Runs
BY BenchmarkAssumption DEF Types, Local, PlaceInv, CountInv, Running, Slot

\* A server that changes state stays in the table, and the others do not change.
LEMMA BecomesType ==
  ASSUME Types, NEW s \in Sessions, NEW i \in 1 .. Runs, NEW st \in ServerState,
         Becomes(s, i, st)
  PROVE  /\ server' \in [Sessions -> [1 .. Runs -> ServerState]]
         /\ \A t \in Sessions \ {s} : server'[t] = server[t]
         /\ \A j \in 1 .. Runs : server'[s][j] = IF j = i THEN st ELSE server[s][j]
BY DEF Types, Becomes

\* A failed attempt is marked, loses its throughput and keeps its TTFT.
LEMMA FailedType ==
  ASSUME Types, NEW s \in Sessions, NEW long \in BOOLEAN, Failed(s, long)
  PROVE  /\ attempt' \in [Sessions -> Attempt]
         /\ \A t \in Sessions \ {s} : attempt'[t] = attempt[t]
         /\ attempt'[s].failed
<1> DEFINE a == [build |-> None, by |-> attempt[s].by, failed |-> TRUE,
                 verbose |-> attempt[s].verbose \/ long]
<1>1. attempt[s] \in Attempt
  BY DEF Types
<1>2. attempt[s].by \in Sessions \cup {None}
  BY <1>1 DEF Attempt
<1>3. a \in Attempt
  BY <1>2 DEF Attempt
<1> QED
  BY <1>3 DEF Types, Failed

\* Kill and Reap change one server of the session, and leave none running.
LEMMA StopType ==
  ASSUME Types, NEW s \in Sessions, Local(s), pc[s] \in Running \cup {"lastStop"},
         Reap(s) \/ Kill(s)
  PROVE  /\ server' \in [Sessions -> [1 .. Runs -> ServerState]]
         /\ \A t \in Sessions \ {s} : server'[t] = server[t]
         /\ \A j \in 1 .. Runs : server'[s][j] \notin Untouched
<1>1. Slot(s) \in 1 .. Runs
  BY SlotInRange
<1>2. PICK st \in ServerState \ Untouched : Becomes(s, Slot(s), st)
  <2>1. Mine(s) \in ServerState
    BY <1>1 DEF Types, Mine
  <2> QED
    BY <2>1 DEF Reap, Kill, ServerState, Untouched
<1>3. \A j \in 1 .. Runs : j # Slot(s) => server[s][j] \notin Untouched
  BY DEF Local, ServerInv
<1> QED
  BY <1>1, <1>2, <1>3, BecomesType

-------------------------------------------------------------------------------
(* One lemma per action.                                                    *)

\* A session begins with its first run and no server.
LEMMA ExecuteKeepsIInv ==
  ASSUME IInv, NEW s \in Sessions, Execute(s)
  PROVE  IInv'
<1> USE BenchmarkAssumption
<1>1. Types /\ Local(s)
  BY DEF IInv
<1>2. Others(s) /\ Types'
  BY <1>1 DEF Execute, Goto, Return, Others, Types, PC, BenchState, Local, CountInv, Running
<1>3. ServerInv(s)' /\ BenchInv(s)' /\ PlaceInv(s)'
  BY <1>1 DEF Execute, Goto, Return, Types, BenchState, Local, ServerInv, Serving, Untouched, Slot,
         BenchInv, PlaceInv
<1>4. CountInv(s)' /\ AttemptInv(s)' /\ SampleInv(s)' /\ ResultInv(s)'
  BY <1>1 DEF Execute, Goto, Return, Types, Local, PlaceInv, BenchInv, CountInv, Running, AttemptInv,
         SampleInv, ResultInv, Comparable
<1> QED
  BY <1>2, <1>3, <1>4, OneSessionSteps DEF Local

\* The wait for health ends and the session goes on with the same server.
LEMMA HealthOKKeepsIInv ==
  ASSUME IInv, NEW s \in Sessions, HealthOK(s)
  PROVE  IInv'
<1> USE BenchmarkAssumption
<1>1. Types /\ Local(s)
  BY DEF IInv
<1>2. Others(s) /\ Types'
  BY <1>1 DEF HealthOK, Goto, Others, Types, PC, BenchState, Local, CountInv, Running
<1>3. ServerInv(s)' /\ BenchInv(s)' /\ PlaceInv(s)'
  BY <1>1 DEF HealthOK, Goto, Types, BenchState, Local, ServerInv, Serving, Untouched, Slot,
         BenchInv, PlaceInv
<1>4. CountInv(s)' /\ AttemptInv(s)' /\ SampleInv(s)' /\ ResultInv(s)'
  BY <1>1 DEF HealthOK, Goto, Types, Local, PlaceInv, BenchInv, CountInv, Running, AttemptInv,
         SampleInv, ResultInv, Comparable
<1> QED
  BY <1>2, <1>3, <1>4, OneSessionSteps DEF Local

\* The wait for health ends and the session goes to stop the server.
LEMMA HealthTimeoutKeepsIInv ==
  ASSUME IInv, NEW s \in Sessions, HealthTimeout(s)
  PROVE  IInv'
<1> USE BenchmarkAssumption
<1>1. Types /\ Local(s)
  BY DEF IInv
<1>2. Others(s) /\ Types'
  BY <1>1 DEF HealthTimeout, Goto, Others, Types, PC, BenchState, Local, CountInv, Running
<1>3. ServerInv(s)' /\ BenchInv(s)' /\ PlaceInv(s)'
  BY <1>1 DEF HealthTimeout, Goto, Types, BenchState, Local, ServerInv, Serving, Untouched, Slot,
         BenchInv, PlaceInv
<1>4. CountInv(s)' /\ AttemptInv(s)' /\ SampleInv(s)' /\ ResultInv(s)'
  BY <1>1 DEF HealthTimeout, Goto, Types, Local, PlaceInv, BenchInv, CountInv, Running, AttemptInv,
         SampleInv, ResultInv, Comparable
<1> QED
  BY <1>2, <1>3, <1>4, OneSessionSteps DEF Local

\* llama-bench starts where Darwin has no server running.
LEMMA CollectThroughputKeepsIInv ==
  ASSUME IInv, NEW s \in Sessions, CollectThroughput(s)
  PROVE  IInv'
<1> USE BenchmarkAssumption
<1>1. Types /\ Local(s)
  BY DEF IInv
<1>2. Others(s) /\ Types'
  BY <1>1 DEF CollectThroughput, CheckContext, Goto, Return, Leave, NoAttempt, Built, Others, Types, PC, BenchState, Local, CountInv, Running, Attempt
<1>3. ServerInv(s)' /\ BenchInv(s)' /\ PlaceInv(s)'
  BY <1>1 DEF CollectThroughput, CheckContext, Goto, Return, Leave, NoAttempt, Built, Types, BenchState, Local, ServerInv, Serving, Untouched, Slot,
         BenchInv, PlaceInv
<1>4. CountInv(s)' /\ AttemptInv(s)' /\ SampleInv(s)' /\ ResultInv(s)'
  BY <1>1 DEF CollectThroughput, CheckContext, Goto, Return, Leave, NoAttempt, Built, Types, Local, PlaceInv, BenchInv, CountInv, Running, AttemptInv,
         SampleInv, ResultInv, Comparable
<1> QED
  BY <1>2, <1>3, <1>4, OneSessionSteps DEF Local

\* A killed time(1) leaves the session waiting for llama-bench.
LEMMA BenchKilledKeepsIInv ==
  ASSUME IInv, NEW s \in Sessions, BenchKilled(s)
  PROVE  IInv'
<1> USE BenchmarkAssumption
<1>1. Types /\ Local(s)
  BY DEF IInv
<1>2. Others(s) /\ Types'
  BY <1>1 DEF BenchKilled, Others, Types, PC, BenchState, Local, CountInv, Running
<1>3. ServerInv(s)' /\ BenchInv(s)' /\ PlaceInv(s)'
  BY <1>1 DEF BenchKilled, Types, BenchState, Local, ServerInv, Serving, Untouched, Slot,
         BenchInv, PlaceInv
<1>4. CountInv(s)' /\ AttemptInv(s)' /\ SampleInv(s)' /\ ResultInv(s)'
  BY <1>1 DEF BenchKilled, Types, Local, PlaceInv, BenchInv, CountInv, Running, AttemptInv,
         SampleInv, ResultInv, Comparable
<1> QED
  BY <1>2, <1>3, <1>4, OneSessionSteps DEF Local

\* The second check of the context leaves the measurement alone.
LEMMA CollectTTFTKeepsIInv ==
  ASSUME IInv, NEW s \in Sessions, CollectTTFT(s)
  PROVE  IInv'
<1> USE BenchmarkAssumption
<1>1. Types /\ Local(s)
  BY DEF IInv
<1>2. Others(s) /\ Types'
  BY <1>1 DEF CollectTTFT, CheckContext, Goto, Return, Leave, Others, Types, PC, BenchState, Local, CountInv, Running
<1>3. ServerInv(s)' /\ BenchInv(s)' /\ PlaceInv(s)'
  BY <1>1 DEF CollectTTFT, CheckContext, Goto, Return, Leave, Types, BenchState, Local, ServerInv, Serving, Untouched, Slot,
         BenchInv, PlaceInv
<1>4. CountInv(s)' /\ AttemptInv(s)' /\ SampleInv(s)' /\ ResultInv(s)'
  BY <1>1 DEF CollectTTFT, CheckContext, Goto, Return, Leave, Types, Local, PlaceInv, BenchInv, CountInv, Running, AttemptInv,
         SampleInv, ResultInv, Comparable
<1> QED
  BY <1>2, <1>3, <1>4, OneSessionSteps DEF Local

\* A payload is returned after the last run, if the runs are comparable.
LEMMA FinalizeRunsKeepsIInv ==
  ASSUME IInv, NEW s \in Sessions, FinalizeRuns(s)
  PROVE  IInv'
<1> USE BenchmarkAssumption
<1>1. Types /\ Local(s)
  BY DEF IInv
<1>2. Others(s) /\ Types'
  BY <1>1 DEF FinalizeRuns, Goto, Return, Leave, Others, Types, PC, BenchState, Local, CountInv, Running
<1>3. ServerInv(s)' /\ BenchInv(s)' /\ PlaceInv(s)'
  BY <1>1 DEF FinalizeRuns, Goto, Return, Leave, Types, BenchState, Local, ServerInv, Serving, Untouched, Slot,
         BenchInv, PlaceInv
<1>4. CountInv(s)' /\ AttemptInv(s)' /\ SampleInv(s)' /\ ResultInv(s)'
  BY <1>1 DEF FinalizeRuns, Goto, Return, Leave, Types, Local, PlaceInv, BenchInv, CountInv, Running, AttemptInv,
         SampleInv, ResultInv, Comparable
<1> QED
  BY <1>2, <1>3, <1>4, OneSessionSteps DEF Local

\* Canceling changes nothing the invariant speaks of.
LEMMA CancelKeepsIInv ==
  ASSUME IInv, NEW s \in Sessions, Cancel(s)
  PROVE  IInv'
<1> USE BenchmarkAssumption
<1>1. Types /\ Local(s)
  BY DEF IInv
<1>2. Others(s) /\ Types'
  BY <1>1 DEF Cancel, Others, Types, PC, BenchState, Local, CountInv, Running
<1>3. ServerInv(s)' /\ BenchInv(s)' /\ PlaceInv(s)'
  BY <1>1 DEF Cancel, Types, BenchState, Local, ServerInv, Serving, Untouched, Slot,
         BenchInv, PlaceInv
<1>4. CountInv(s)' /\ AttemptInv(s)' /\ SampleInv(s)' /\ ResultInv(s)'
  BY <1>1 DEF Cancel, Types, Local, PlaceInv, BenchInv, CountInv, Running, AttemptInv,
         SampleInv, ResultInv, Comparable
<1> QED
  BY <1>2, <1>3, <1>4, OneSessionSteps DEF Local

\* A failed start ends the session (Linux) or the run (Darwin), with no server left.
LEMMA StartFailedKeepsIInv ==
  ASSUME IInv, NEW s \in Sessions, pc[s] \in {"spawn", "unhealthy"}, StartFailed(s),
         server' \in [Sessions -> [1 .. Runs -> ServerState]],
         \A t \in Sessions \ {s} : server'[t] = server[t],
         \A j \in 1 .. Runs : server'[s][j] \notin Untouched,
         UNCHANGED <<platform, run, canceled, bench, samples>>
  PROVE  IInv'
<1> USE BenchmarkAssumption
<1>1. Types /\ Local(s)
  BY DEF IInv
<1>2. /\ attempt' \in [Sessions -> Attempt]
      /\ \A t \in Sessions \ {s} : attempt'[t] = attempt[t]
      /\ attempt'[s].failed \/ pc'[s] = "done"
  BY <1>1, FailedType DEF StartFailed, Types, Goto
<1>3. Others(s) /\ Types'
  <2>1. /\ pc' \in [Sessions -> PC]
        /\ \A t \in Sessions \ {s} : pc'[t] = pc[t]
        /\ result' \in [Sessions -> {"none", "payload", "error"}]
        /\ \A t \in Sessions \ {s} : result'[t] = result[t]
    BY <1>1 DEF StartFailed, Goto, Return, Types, PC
  <2> QED
    BY <1>1, <1>2, <2>1 DEF Others, Types
<1>4. ServerInv(s)' /\ BenchInv(s)' /\ PlaceInv(s)'
  BY <1>1 DEF StartFailed, Goto, Types, Local, ServerInv, BenchInv, PlaceInv
<1>5. CountInv(s)' /\ SampleInv(s)' /\ ResultInv(s)'
  BY <1>1 DEF StartFailed, Goto, Return, Types, Local, CountInv, Running, SampleInv, ResultInv
<1>6. AttemptInv(s)'
  BY <1>2 DEF AttemptInv
<1> QED
  BY <1>3, <1>4, <1>5, <1>6, OneSessionSteps DEF Local

\* A server starts in the place of the current run, or the start fails as StartFailed says.
LEMMA StartServerKeepsIInv ==
  ASSUME IInv, NEW s \in Sessions, StartServer(s)
  PROVE  IInv'
<1> USE BenchmarkAssumption
<1>1. Types /\ Local(s)
  BY DEF IInv
<1>2. pc[s] = "spawn" /\ Slot(s) \in 1 .. Runs
  BY <1>1, SlotInRange DEF StartServer, Running
<1>3. CASE Becomes(s, Slot(s), "up") /\ Goto(s, "health") /\ UNCHANGED <<attempt, result>>
  <2>1. /\ server' \in [Sessions -> [1 .. Runs -> ServerState]]
        /\ \A t \in Sessions \ {s} : server'[t] = server[t]
        /\ \A j \in 1 .. Runs : server'[s][j] = IF j = Slot(s) THEN "up" ELSE server[s][j]
    BY <1>1, <1>2, <1>3, BecomesType DEF ServerState
  <2>2. Others(s) /\ Types'
    BY <1>1, <1>3, <2>1 DEF StartServer, Goto, Others, Types, PC
  <2>3. ServerInv(s)'
    BY <1>1, <1>2, <1>3, <2>1 DEF StartServer, Goto, Types, Local, ServerInv, Serving, Slot
  <2>4. /\ BenchInv(s)' /\ PlaceInv(s)' /\ CountInv(s)' /\ AttemptInv(s)' /\ SampleInv(s)'
        /\ ResultInv(s)'
    BY <1>1, <1>2, <1>3 DEF StartServer, Goto, Types, Local, BenchInv, PlaceInv, CountInv,
       Running, AttemptInv, SampleInv, ResultInv
  <2> QED
    BY <2>2, <2>3, <2>4, OneSessionSteps DEF Local
<1>4. CASE StartFailed(s) /\ UNCHANGED server
  <2>1. \A j \in 1 .. Runs : server[s][j] \notin Untouched
    BY <1>1, <1>2 DEF Local, ServerInv, Serving, Types
  <2> QED
    BY <1>1, <1>2, <1>4, <2>1, StartFailedKeepsIInv DEF StartServer, Types, Running
<1> QED
  BY <1>3, <1>4 DEF StartServer

\* The exit that ends the wait for health is received from the server's own channel.
LEMMA HealthExitedKeepsIInv ==
  ASSUME IInv, NEW s \in Sessions, HealthExited(s)
  PROVE  IInv'
<1> USE BenchmarkAssumption
<1>1. Types /\ Local(s)
  BY DEF IInv
<1>2. pc[s] = "health" /\ Slot(s) \in 1 .. Runs
  BY <1>1, SlotInRange DEF HealthExited, Running
<1>3. /\ server' \in [Sessions -> [1 .. Runs -> ServerState]]
      /\ \A t \in Sessions \ {s} : server'[t] = server[t]
      /\ \A j \in 1 .. Runs : server'[s][j] = IF j = Slot(s) THEN "reaped" ELSE server[s][j]
  BY <1>1, <1>2, BecomesType DEF ServerState, HealthExited
<1>4. Others(s) /\ Types'
  BY <1>1, <1>3 DEF HealthExited, Goto, Others, Types, PC
<1>5. ServerInv(s)'
  BY <1>1, <1>2, <1>3 DEF HealthExited, Goto, Types, Local, ServerInv, Serving, Slot, Untouched
<1>6. /\ BenchInv(s)' /\ PlaceInv(s)' /\ CountInv(s)' /\ AttemptInv(s)' /\ SampleInv(s)'
      /\ ResultInv(s)'
  BY <1>1, <1>2 DEF HealthExited, Goto, Types, Local, BenchInv, PlaceInv, CountInv,
     Running, AttemptInv, SampleInv, ResultInv
<1> QED
  BY <1>4, <1>5, <1>6, OneSessionSteps DEF Local

\* Stop has ended the server before the failed start is reported.
LEMMA StopUnhealthyKeepsIInv ==
  ASSUME IInv, NEW s \in Sessions, StopUnhealthy(s)
  PROVE  IInv'
<1>1. Types /\ Local(s)
  BY DEF IInv
<1>2. pc[s] \in Running
  BY DEF StopUnhealthy, Running
<1>3. /\ server' \in [Sessions -> [1 .. Runs -> ServerState]]
      /\ \A t \in Sessions \ {s} : server'[t] = server[t]
      /\ \A j \in 1 .. Runs : server'[s][j] \notin Untouched
  BY <1>1, <1>2, StopType DEF StopUnhealthy
<1> QED
  BY <1>1, <1>2, <1>3, StartFailedKeepsIInv DEF StopUnhealthy

\* Darwin stops the server of the run before the run is recorded.
LEMMA StopAfterRunKeepsIInv ==
  ASSUME IInv, NEW s \in Sessions, StopAfterRun(s)
  PROVE  IInv'
<1> USE BenchmarkAssumption
<1>1. Types /\ Local(s) /\ pc[s] = "stop"
  BY DEF IInv, StopAfterRun
<1>2. /\ server' \in [Sessions -> [1 .. Runs -> ServerState]]
      /\ \A t \in Sessions \ {s} : server'[t] = server[t]
      /\ \A j \in 1 .. Runs : server'[s][j] \notin Untouched
  BY <1>1, StopType DEF StopAfterRun, Running
<1>3. /\ attempt' \in [Sessions -> Attempt]
      /\ \A t \in Sessions \ {s} : attempt'[t] = attempt[t]
      /\ attempt'[s] = attempt[s] \/ attempt'[s].failed
  BY <1>1, FailedType DEF StopAfterRun, Types
<1>4. Others(s) /\ Types'
  BY <1>1, <1>2, <1>3 DEF StopAfterRun, Goto, Others, Types, PC
<1>5. ServerInv(s)'
  BY <1>2 DEF ServerInv
<1>6. BenchInv(s)' /\ PlaceInv(s)' /\ CountInv(s)' /\ SampleInv(s)' /\ ResultInv(s)'
  BY <1>1 DEF StopAfterRun, Goto, Types, Local, BenchInv, PlaceInv, CountInv, Running,
     SampleInv, ResultInv
<1>7. AttemptInv(s)'
  BY <1>1, <1>3 DEF StopAfterRun, Goto, Types, Local, AttemptInv
<1> QED
  BY <1>4, <1>5, <1>6, <1>7, OneSessionSteps DEF Local

\* Linux stops its server on the way out, after a payload and after an error.
LEMMA StopAfterSessionKeepsIInv ==
  ASSUME IInv, NEW s \in Sessions, StopAfterSession(s)
  PROVE  IInv'
<1> USE BenchmarkAssumption
<1>1. Types /\ Local(s) /\ pc[s] = "lastStop"
  BY DEF IInv, StopAfterSession
<1>2. /\ server' \in [Sessions -> [1 .. Runs -> ServerState]]
      /\ \A t \in Sessions \ {s} : server'[t] = server[t]
      /\ \A j \in 1 .. Runs : server'[s][j] \notin Untouched
  BY <1>1, StopType DEF StopAfterSession
<1>3. Others(s) /\ Types'
  BY <1>1, <1>2 DEF StopAfterSession, Goto, Return, Others, Types, PC
<1>4. ServerInv(s)'
  BY <1>2 DEF ServerInv
<1>5. BenchInv(s)' /\ PlaceInv(s)' /\ CountInv(s)' /\ SampleInv(s)' /\ AttemptInv(s)'
  BY <1>1 DEF StopAfterSession, Goto, Types, Local, BenchInv, PlaceInv, CountInv, Running,
     SampleInv, AttemptInv
<1>6. ResultInv(s)'
  BY <1>1 DEF StopAfterSession, Goto, Return, Types, Local, ResultInv, Comparable
<1> QED
  BY <1>3, <1>4, <1>5, <1>6, OneSessionSteps DEF Local

\* llama-bench has ended: the attempt has a build, or has failed.
LEMMA BenchReturnsKeepsIInv ==
  ASSUME IInv, NEW s \in Sessions, BenchReturns(s)
  PROVE  IInv'
<1> USE BenchmarkAssumption
<1>1. Types /\ Local(s) /\ pc[s] = "bench"
  BY DEF IInv, BenchReturns
<1>2. /\ attempt' \in [Sessions -> Attempt]
      /\ \A t \in Sessions \ {s} : attempt'[t] = attempt[t]
      /\ attempt'[s].build # None \/ attempt'[s].failed
  <2>1. CASE \E b \in Builds \cup {OtherModel} : attempt' = [attempt EXCEPT ![s] = Built(b)]
    BY <1>1, <2>1 DEF Types, Built, Attempt
  <2>2. CASE \E long \in BOOLEAN : Failed(s, long)
    BY <1>1, <2>2, FailedType
  <2> QED
    BY <2>1, <2>2 DEF BenchReturns
<1>3. Others(s) /\ Types'
  BY <1>1, <1>2 DEF BenchReturns, Goto, Others, Types, PC, BenchState
<1>4. ServerInv(s)' /\ BenchInv(s)' /\ PlaceInv(s)'
  BY <1>1 DEF BenchReturns, Goto, Types, Local, ServerInv, Serving, Slot, BenchInv, PlaceInv
<1>5. CountInv(s)' /\ SampleInv(s)' /\ ResultInv(s)'
  BY <1>1 DEF BenchReturns, Goto, Types, Local, CountInv, Running, SampleInv, ResultInv
<1>6. AttemptInv(s)'
  BY <1>1, <1>2 DEF BenchReturns, Goto, Types, AttemptInv
<1> QED
  BY <1>3, <1>4, <1>5, <1>6, OneSessionSteps DEF Local

\* The orphan of a timeout has ended: the attempt has failed.
LEMMA OrphanExitsKeepsIInv ==
  ASSUME IInv, NEW s \in Sessions, OrphanExits(s)
  PROVE  IInv'
<1> USE BenchmarkAssumption
<1>1. Types /\ Local(s) /\ pc[s] = "bench"
  BY DEF IInv, OrphanExits, Local, BenchInv
<1>2. /\ attempt' \in [Sessions -> Attempt]
      /\ \A t \in Sessions \ {s} : attempt'[t] = attempt[t]
      /\ attempt'[s].failed
  BY <1>1, FailedType DEF OrphanExits
<1>3. Others(s) /\ Types'
  BY <1>1, <1>2 DEF OrphanExits, Goto, Others, Types, PC, BenchState
<1>4. ServerInv(s)' /\ BenchInv(s)' /\ PlaceInv(s)'
  BY <1>1 DEF OrphanExits, Goto, Types, Local, ServerInv, Serving, Slot, BenchInv, PlaceInv
<1>5. CountInv(s)' /\ SampleInv(s)' /\ ResultInv(s)'
  BY <1>1 DEF OrphanExits, Goto, Types, Local, CountInv, Running, SampleInv, ResultInv
<1>6. AttemptInv(s)'
  BY <1>2 DEF AttemptInv
<1> QED
  BY <1>3, <1>4, <1>5, <1>6, OneSessionSteps DEF Local

\* The attempt gets its TTFT, from whichever session's server answered.
LEMMA FirstTokenKeepsIInv ==
  ASSUME IInv, NEW s \in Sessions, FirstToken(s)
  PROVE  IInv'
<1> USE BenchmarkAssumption
<1>1. Types /\ Local(s) /\ pc[s] = "ttft"
  BY DEF IInv, FirstToken
<1>2. /\ attempt' \in [Sessions -> Attempt]
      /\ \A t \in Sessions \ {s} : attempt'[t] = attempt[t]
      /\ attempt'[s].build = attempt[s].build
      /\ attempt'[s].failed = attempt[s].failed
      /\ attempt'[s].by # None
  <2>1. PICK t \in Sessions :
          attempt' = [attempt EXCEPT ![s] = [build |-> attempt[s].build, by |-> t,
                        failed |-> attempt[s].failed, verbose |-> attempt[s].verbose]]
    BY DEF FirstToken, Answering
  <2>2. attempt[s] \in Attempt
    BY <1>1 DEF Types
  <2>3. [build |-> attempt[s].build, by |-> t, failed |-> attempt[s].failed,
         verbose |-> attempt[s].verbose] \in Attempt
    BY <2>2 DEF Attempt
  <2> QED
    BY <1>1, <2>1, <2>3 DEF Types
<1>3. Others(s) /\ Types'
  BY <1>1, <1>2 DEF FirstToken, Goto, Others, Types, PC
<1>4. ServerInv(s)' /\ BenchInv(s)' /\ PlaceInv(s)'
  BY <1>1 DEF FirstToken, Goto, Types, Local, ServerInv, Serving, Slot, BenchInv, PlaceInv
<1>5. CountInv(s)' /\ SampleInv(s)' /\ ResultInv(s)'
  BY <1>1 DEF FirstToken, Goto, Types, Local, CountInv, Running, SampleInv, ResultInv
<1>6. AttemptInv(s)'
  BY <1>1, <1>2 DEF FirstToken, Goto, Types, Local, AttemptInv
<1> QED
  BY <1>3, <1>4, <1>5, <1>6, OneSessionSteps DEF Local

\* A measurement that fails marks the attempt, and Darwin still stops its server.
LEMMA NoTokenKeepsIInv ==
  ASSUME IInv, NEW s \in Sessions, NoToken(s)
  PROVE  IInv'
<1> USE BenchmarkAssumption
<1>1. Types /\ Local(s) /\ pc[s] = "ttft"
  BY DEF IInv, NoToken
<1>2. /\ attempt' \in [Sessions -> Attempt]
      /\ \A t \in Sessions \ {s} : attempt'[t] = attempt[t]
      /\ attempt'[s].failed
  BY <1>1, FailedType DEF NoToken
<1>3. Others(s) /\ Types'
  BY <1>1, <1>2 DEF NoToken, Goto, Others, Types, PC
<1>4. ServerInv(s)' /\ BenchInv(s)' /\ PlaceInv(s)'
  BY <1>1 DEF NoToken, Goto, Types, Local, ServerInv, Serving, Slot, BenchInv, PlaceInv
<1>5. CountInv(s)' /\ SampleInv(s)' /\ ResultInv(s)'
  BY <1>1 DEF NoToken, Goto, Types, Local, CountInv, Running, SampleInv, ResultInv
<1>6. AttemptInv(s)'
  BY <1>2 DEF AttemptInv
<1> QED
  BY <1>3, <1>4, <1>5, <1>6, OneSessionSteps DEF Local

\* The record grows by the attempt; on Darwin the next run finds no server running.
LEMMA RecordRunKeepsIInv ==
  ASSUME IInv, NEW s \in Sessions, RecordRun(s)
  PROVE  IInv'
<1> USE BenchmarkAssumption
<1>1. Types /\ Local(s) /\ pc[s] = "record" /\ run[s] \in 1 .. Runs /\ attempt[s] \in Attempt
  BY DEF IInv, RecordRun, CheckContext, Local, CountInv, Running, Types
<1>2. CASE canceled[s]
  <2>1. UNCHANGED <<run, samples, attempt, bench, server, platform, canceled>>
    BY <1>1, <1>2 DEF RecordRun, Types
  <2>2. Others(s) /\ Types'
    BY <1>1, <1>2, <2>1 DEF RecordRun, CheckContext, Leave, Goto, Return, Others, Types, PC
  <2>3. ServerInv(s)' /\ BenchInv(s)' /\ PlaceInv(s)'
    BY <1>1, <1>2, <2>1 DEF RecordRun, CheckContext, Leave, Goto, Types, Local, ServerInv,
       Serving, Slot, BenchInv, PlaceInv
  <2>4. CountInv(s)' /\ SampleInv(s)' /\ ResultInv(s)' /\ AttemptInv(s)'
    BY <1>1, <1>2, <2>1 DEF RecordRun, CheckContext, Leave, Goto, Return, Types, Local,
       CountInv, Running, SampleInv, ResultInv, AttemptInv
  <2> QED
    BY <2>2, <2>3, <2>4, OneSessionSteps DEF Local
<1>3. CASE ~canceled[s]
  <2>1. /\ samples' = [samples EXCEPT ![s] = Append(samples[s], attempt[s])]
        /\ run' = [run EXCEPT ![s] = run[s] + 1]
        /\ pc' = [pc EXCEPT ![s] = "check"]
        /\ UNCHANGED <<result, attempt, bench, server, platform, canceled>>
    BY <1>1, <1>3 DEF RecordRun, CheckContext, Goto
  <2>2. samples[s] \in Seq(Attempt) /\ Append(samples[s], attempt[s]) \in Seq(Attempt)
    BY <1>1 DEF Types
  <2>3. Others(s) /\ Types'
    BY <1>1, <2>1, <2>2 DEF Others, Types, PC
  <2>4. ServerInv(s)' /\ BenchInv(s)' /\ PlaceInv(s)'
    BY <1>1, <2>1 DEF Types, Local, ServerInv, Serving, Slot, BenchInv, PlaceInv
  <2>5. CountInv(s)'
    BY <1>1, <2>1, <2>2 DEF Types, Local, CountInv, Running
  <2>6. SampleInv(s)'
    <3>1. samples'[s] = Append(samples[s], attempt[s])
      BY <1>1, <2>1 DEF Types
    <3>2. ~attempt[s].failed => attempt[s].build # None /\ attempt[s].by # None
      BY <1>1 DEF Local, AttemptInv
    <3> QED
      BY <1>1, <2>2, <3>1, <3>2 DEF Local, SampleInv
  <2>7. AttemptInv(s)' /\ ResultInv(s)'
    BY <1>1, <2>1 DEF Types, Local, AttemptInv, ResultInv
  <2> QED
    BY <2>3, <2>4, <2>5, <2>6, <2>7, OneSessionSteps DEF Local
<1> QED
  BY <1>2, <1>3

\* What a server process does by itself starts no server and touches no session.
LEMMA ServerKeepsIInv ==
  ASSUME IInv, NEW s \in Sessions, NEW i \in 1 .. Runs, Server(s, i)
  PROVE  IInv'
<1>1. Types /\ Local(s)
  BY DEF IInv
<1>2. PICK st \in ServerState :
        /\ Becomes(s, i, st)
        /\ st \in Untouched => server[s][i] \in Untouched
  BY DEF Server, ServerBinds, ServerReady, ServerExits, ContextKills, ServerState, Untouched
<1>3. /\ server' \in [Sessions -> [1 .. Runs -> ServerState]]
      /\ \A t \in Sessions \ {s} : server'[t] = server[t]
      /\ \A j \in 1 .. Runs : server'[s][j] = IF j = i THEN st ELSE server[s][j]
  BY <1>1, <1>2, BecomesType
<1>4. UNCHANGED <<platform, pc, run, canceled, bench, attempt, samples, result>>
  BY DEF Server, ServerBinds, ServerReady, ServerExits, ContextKills
<1>5. Others(s) /\ Types'
  BY <1>1, <1>3, <1>4 DEF Others, Types
<1>6. ServerInv(s)'
  BY <1>1, <1>2, <1>3, <1>4 DEF Local, ServerInv, Slot
<1>7. /\ BenchInv(s)' /\ PlaceInv(s)' /\ CountInv(s)' /\ AttemptInv(s)' /\ SampleInv(s)'
      /\ ResultInv(s)'
  BY <1>1, <1>4 DEF Local, BenchInv, PlaceInv, CountInv, AttemptInv, SampleInv, ResultInv,
     Comparable
<1> QED
  BY <1>5, <1>6, <1>7, OneSessionSteps DEF Local

-------------------------------------------------------------------------------

\* Every step, and every stuttering step, preserves the invariant.
LEMMA NextKeepsIInv == IInv /\ [Next]_vars => IInv'
<1> SUFFICES ASSUME IInv, [Next]_vars PROVE IInv'
  OBVIOUS
<1>1. CASE UNCHANGED vars
  <2>1. Types'
    BY <1>1 DEF IInv, Types, vars
  <2>2. ASSUME NEW s \in Sessions PROVE Local(s)'
    <3>1. Local(s)
      BY DEF IInv
    <3> QED
      BY <1>1, <3>1 DEF vars, Local, ServerInv, BenchInv, PlaceInv, CountInv, AttemptInv,
         SampleInv, ResultInv, Slot, Comparable
  <2> QED
    BY <2>1, <2>2 DEF IInv
<1>2. ASSUME NEW s \in Sessions, Step(s) PROVE IInv'
  BY <1>2, StartServerKeepsIInv, HealthOKKeepsIInv, HealthTimeoutKeepsIInv,
     HealthExitedKeepsIInv, StopUnhealthyKeepsIInv, StopAfterRunKeepsIInv,
     StopAfterSessionKeepsIInv, CollectThroughputKeepsIInv, CollectTTFTKeepsIInv,
     FirstTokenKeepsIInv, NoTokenKeepsIInv, RecordRunKeepsIInv, FinalizeRunsKeepsIInv DEF Step
<1>3. ASSUME NEW s \in Sessions,
             Execute(s) \/ Cancel(s) \/ BenchReturns(s) \/ BenchKilled(s) \/ OrphanExits(s)
      PROVE  IInv'
  BY <1>3, ExecuteKeepsIInv, CancelKeepsIInv, BenchReturnsKeepsIInv, BenchKilledKeepsIInv,
     OrphanExitsKeepsIInv
<1> QED
  BY <1>1, <1>2, <1>3, ServerKeepsIInv DEF Next

\* The invariant holds in every reachable state.
THEOREM InductiveInvariant == Spec => []IInv
<1>1. Init => IInv
  BY InitIInv
<1>2. IInv /\ [Next]_vars => IInv'
  BY NextKeepsIInv
<1> QED
  BY <1>1, <1>2, PTL DEF Spec

\* Type correctness: every variable of the session keeps its type, and no more samples are
\* recorded than runs are made.
THEOREM TypeCorrect == Spec => []TypeOK
<1>1. IInv => TypeOK
  BY BenchmarkAssumption DEF IInv, Types, Local, CountInv, TypeOK
<1> QED
  BY <1>1, InductiveInvariant, PTL

\* No session, on any of its error paths and beside any number of other sessions, returns
\* while a llama-server it started runs without having been sent SIGKILL (Stop).
THEOREM ServersAreStopped == Spec => []NoAbandonedServer
<1>1. IInv => NoAbandonedServer
  BY DEF IInv, Types, Local, ServerInv, Serving, NoAbandonedServer
<1> QED
  BY <1>1, InductiveInvariant, PTL

\* On Darwin llama-bench, an orphan included, never runs beside a server of its session
\* that is still up (orchestrateDarwinComputeBenchmark).
THEOREM OneModelAtATime == Spec => []NoServerBesideBench
<1>1. IInv => NoServerBesideBench
  BY DEF IInv, Types, Local, ServerInv, Serving, BenchInv, NoServerBesideBench
<1> QED
  BY <1>1, InductiveInvariant, PTL

\* A payload holds every run, and successes that can be compared
\* (finalizeComputeBenchmarkRuns).
THEOREM PayloadsAreComplete == Spec => []PayloadIsComplete
<1>1. IInv => PayloadIsComplete
  <2> SUFFICES ASSUME IInv, NEW s \in Sessions, result[s] = "payload"
               PROVE  /\ Len(samples[s]) = Runs
                      /\ \A i, j \in 1 .. Runs :
                           ~samples[s][i].failed /\ ~samples[s][j].failed =>
                             /\ samples[s][i].build = samples[s][j].build
                             /\ samples[s][i].build \in Builds
                             /\ samples[s][i].by # None
    BY DEF PayloadIsComplete
  <2>1. Len(samples[s]) = Runs /\ Comparable(samples[s]) /\ SampleInv(s)
    BY DEF IInv, Local, ResultInv
  <2> QED
    BY <2>1 DEF Comparable, SampleInv
<1> QED
  BY <1>1, InductiveInvariant, PTL

\* What a session has come to once its context ended while it measured: it is on the way
\* to one of the three checks of the context, or has returned something else.
Doomed(s) ==
  /\ canceled[s]
  /\ result[s] # "payload"
  /\ \/ pc[s] \in Running \cup {"lastStop", "done"}
     \/ pc[s] = "check" /\ run[s] <= Runs

\* There is no way back: no step of any session, and nothing its processes do, takes a
\* doomed session past a check.
LEMMA DoomedStays ==
  ASSUME NEW t \in Sessions, IInv, [Next]_vars, Doomed(t)
  PROVE  Doomed(t)'
<1> USE DEF Doomed, Running
<1>0. Types /\ Local(t) /\ Runs \in Nat \ {0}
  BY BenchmarkAssumption DEF IInv
<1>1. CASE UNCHANGED vars
  BY <1>1 DEF vars
<1>2. ASSUME NEW s \in Sessions, Step(s)
      PROVE  Doomed(t)'
  <2>1. CASE s # t
    <3>1. /\ pc'[t] = pc[t] /\ run'[t] = run[t] /\ result'[t] = result[t]
          /\ canceled'[t] = canceled[t]
      BY <1>0, <1>2, <2>1 DEF Step, StartServer, HealthOK, HealthTimeout, HealthExited,
         StopUnhealthy, StopAfterRun, StopAfterSession, CollectThroughput, CollectTTFT,
         FirstToken, NoToken, RecordRun, FinalizeRuns, StartFailed, CheckContext, Leave,
         Goto, Return, Types
    <3> QED BY <3>1
  <2>2. CASE s = t
    <3>1. CASE StartServer(t) \/ StopUnhealthy(t)
      BY <1>0, <3>1 DEF StartServer, StopUnhealthy, StartFailed, Goto, Return, Types
    <3>2. CASE HealthOK(t)
      BY <1>0, <3>2 DEF HealthOK, Goto, Types, Local, PlaceInv
    <3>3. CASE HealthTimeout(t) \/ HealthExited(t) \/ StopAfterRun(t) \/ StopAfterSession(t)
      BY <1>0, <3>3 DEF HealthTimeout, HealthExited, StopAfterRun, StopAfterSession, Goto,
         Return, Types
    <3>4. CASE CollectThroughput(t) \/ CollectTTFT(t) \/ RecordRun(t)
      BY <1>0, <3>4 DEF CollectThroughput, CollectTTFT, RecordRun, CheckContext, Leave, Goto,
         Return, Types
    <3>5. CASE FirstToken(t) \/ NoToken(t)
      BY <1>0, <3>5 DEF FirstToken, NoToken, Goto, Types
    <3>6. CASE FinalizeRuns(t)
      BY <1>0, <3>6 DEF FinalizeRuns, Types
    <3> QED
      BY <1>2, <2>2, <3>1, <3>2, <3>3, <3>4, <3>5, <3>6 DEF Step
  <2> QED BY <2>1, <2>2
<1>3. ASSUME NEW s \in Sessions,
             Execute(s) \/ Cancel(s) \/ BenchReturns(s) \/ BenchKilled(s) \/ OrphanExits(s)
      PROVE  Doomed(t)'
  <2>1. Local(s)
    BY DEF IInv
  <2> QED
    BY <1>0, <1>3, <2>1 DEF Execute, Cancel, BenchReturns, BenchKilled, OrphanExits, Goto,
       Return, Types
<1>4. ASSUME NEW s \in Sessions, NEW i \in 1 .. Runs, Server(s, i)
      PROVE  Doomed(t)'
  BY <1>4 DEF Server, ServerBinds, ServerReady, ServerExits, ContextKills
<1> QED
  BY <1>1, <1>2, <1>3, <1>4 DEF Next

\* A session canceled while it measures never returns a payload, however late its processes
\* notice (the checks of ctx.Err in orchestrateComputeBenchmarkRuns).
THEOREM CancelIsHonoured == Spec => CanceledReturnsNothing
<1>1. ASSUME NEW s \in Sessions
      PROVE  Spec =>
               [](/\ canceled[s]
                  /\ pc[s] \in {"spawn", "health", "unhealthy", "bench", "benched", "ttft",
                                "stop", "record"}
                  => [](result[s] # "payload"))
  <2>1. IInv /\ canceled[s] /\ pc[s] \in Running => Doomed(s)
    BY DEF IInv, Local, ResultInv, Doomed, Running
  <2>2. IInv /\ [Next]_vars /\ Doomed(s) => Doomed(s)'
    BY DoomedStays
  <2>3. Doomed(s) => result[s] # "payload"
    BY DEF Doomed
  <2> QED
    BY <2>1, <2>2, <2>3, InductiveInvariant, PTL DEF Spec, Running
<1> QED
  BY <1>1 DEF CanceledReturnsNothing

===============================================================================
