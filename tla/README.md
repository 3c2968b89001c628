# A TLA+ model of MeshAlot

MeshAlot shares idle machines for model inference. A Go *agent* on each
provider machine owns a cryptographic identity, enrolls with the Go *server*,
and submits signed hardware, network and compute reports. The server keeps
everything in PostgreSQL; jobs, usage and credits are guarded there by
triggers. This directory models the parts of the program where processes,
transactions or messages interleave, checks them with TLC on small instances
and proves the main invariants with TLAPS for every value of the constants.

Paths below are relative to the repository (`src/` in `PROJECT.json`).

## 1. Inventory

| Component | State | Operations | What is hard | What makes it correct |
|---|---|---|---|---|
| Secure enrollment, `server/enrollment.go`, `server/postgres.go` | tables `enrollment_tokens`, `nodes`, `node_status`; locks of open transactions | issue a code, redeem a code, legacy enroll, heartbeat | several statements per request at READ COMMITTED, two insertion races, roll-backs, expiry | a code is redeemed once and atomically; a node never changes account or key |
| Rate limiter, `allowSecureEnrollment` | window and count under a mutex | admit or refuse | times read before the mutex, a clock that is set back | nobody is refused without a full quota nearby; bursts are bounded |
| Agent identity and enrollment, `agent/identity.go`, `agent/secure_enroll.go` | one file; requests under way | load or create, post, receive, give up | several processes, a kill or an I/O error between two file operations; lost and late requests and answers | one machine, one node; an acceptance is true; a lost answer can be repaired |
| Compute benchmark session, `agent/compute_benchmark_*` | child processes, a port, timers, a context | start, poll, measure, stop, record, finalize | exit racing stop, timeout racing answer, cancellation, an occupied port | no process left behind; a payload accounts for each repetition; the session returns |
| Signed reports, `agent/*_submit*.go`, `server/inventory*.go`, `server/network_benchmark*.go`, `server/compute_benchmark*.go` | reports in flight, stored rows | collect, sign, post, validate, authenticate, insert, look up | lost answers, duplicates, delay, clock drift, enrollment under way | stored reports are authentic, fresh, stored once and final |
| Jobs and credits, `database/migrations/000002_audit_and_ledger.up.sql` | `jobs`, `job_events`, `usage_records`, `wallet_transactions` | insert and update a job, record usage, book credits | triggers read rows other transactions are writing | no entry without a completed job and usage; no double payment; a gapless history |
| Rating and eligibility, `server/node_rating.go`, migration 000009 | none | tier, eligibility | three sets of thresholds and rules for unknown scores | they agree; better evidence never costs work |
| Network benchmark, `agent/network_benchmark_*.go` | samples, a temporary file | route, reachability, throughput, probes | every command may fail; cancellation between commands | cancellation never looks like a good network; the file is removed |
| Hardware inventory, `agent/inventory_*.go` | the report under construction | nine detectors | failing commands leave gaps; two loops share a limit | the server refuses a report only for known reasons |
| Network and compute scores, `server/*_score.go` | none | weighted sums with clamps | edges of the clamps, medians, unmeasurable grades | better is never worth less; a score is earned by more than one run |
| Provider controls, `agent/provider_controls.go` | none | admission | equality, zero, midnight | loosening never takes work away; the window is an arc of the clock |
| Runtime adapter (llama.cpp) | none between calls | one HTTP exchange | - | not modelled |
| llama-bench parsing, acceleration and telemetry text | none | parse command output | text | not modelled; the result is an opaque measurement |
| Accounts and sessions | session rows | single statements | - | not modelled |
| In-memory store | one map under one mutex | critical sections | - | not modelled |
| Migration runner (Python), protocol types, web dashboard | - | - | - | not modelled |

The components meet in few places, which are the interfaces between the
modules. The identity file gives the agent the node id and key that
`secureEnroll` binds: `AgentEnrollment` composes `AgentIdentity` with a network
and with `EnrollmentRegistry`, the abstract server that `Enrollment` is proved to
implement. The
binding is what report ingestion reads: `ReportIngest.Enroll` may bind a key
while reports are already on their way, and relies on the fact, proved in
`EnrollmentProofs`, that a binding never changes. A benchmark session returns
the payload that becomes a measurement of `ReportIngest`, and whose runs
`ComputeScore` scores; a network benchmark is scored by `NetworkScore`; both
scores are dimensions of `NodeRating`. The job tables refer
to users and nodes but are not yet written by any Go code.

The full list of what can go wrong, each item at its source line and with the
properties that would catch it, is `hazards` in `PROJECT.json`.

## 2. Modules

| Module | Stands for |
|---|---|
| `EnrollmentTables` | the three tables and their row types |
| `EnrollmentRegistry` | the abstract specification: enrollment with every operation atomic |
| `Enrollment` | the same operations statement by statement |
| `EnrollmentLimiter` | `allowSecureEnrollment` called by concurrent handlers |
| `AgentIdentity` | `LoadOrCreateIdentity` in several processes, and what they present to the server |
| `AgentEnrollment` | the enroll command end to end: `AgentIdentity`, the network and `EnrollmentRegistry` |
| `Collection` | what both collectors share: platform, cancellation, commands that fail |
| `NetworkBenchmark`, `NetworkScore` | collection of a network benchmark, and the server's score of it |
| `HardwareInventory` | collection of the inventory, and the server's check of its contents |
| `Statistics` | order statistics of samples: percentiles and the median |
| `ComputeScore` | the server's score of the runs of a compute benchmark |
| `ProviderControls` | the owner's controls and the admission of work |
| `ComputeBenchmark` | benchmark sessions on Linux and Darwin with their child processes |
| `ReportStore` | the abstract specification: a report is checked and stored in one step |
| `ReportIngest` | signing, delivery, ingestion and lookup of reports |
| `JobLedger` | the triggers and constraints of the job tables under concurrent transactions |
| `NodeRating` | the tier and eligibility rules and the constraints on stored ratings |
| `MC*` | values for the constants and symmetry sets; `MCNode` runs the six small machines side by side |
| `NodeRatingProofs` | theorems about the rating and both scores, and the lemmas on arithmetic, loops and medians |
| `NodeProofs` | theorems about the limiter, the provider controls and both collectors |
| other `*Proofs` | theorems about the module of that name |

Definitions keep the names of the functions they model where these are short
enough; `map` in `PROJECT.json` gives the lines of each. Operators whose
comment begins with "Seeded fault" are not part of the specifications: each is
a plausible bug (a dropped guard, a missing lock, a swapped order), and
replacing the real definition by it makes one property fail. They show that
every property can fail.

### Enrollment

An action is one SQL statement with the Go code up to the next one. `tables`
is the committed state, `pend` the uncommitted node row of each request,
`tokenLock`, `nodeLock` and `keyLock` the row and unique-index locks, `began`
the value of `now()` in the transaction. A statement that meets a foreign lock
is disabled; when the lock goes, it looks at the committed tables again, as
READ COMMITTED does.

* `CountTokens`, `TooManyTokens`, `InsertToken`: `CreateEnrollmentToken`,
  two statements without a transaction.
* `RedeemBegin`, `SelectToken`, `NodeMissing`, `SelectNode`, `InsertNode`, `WriteKey`,
  `CommitRedeem`: `RedeemEnrollmentToken` in the order of its statements; the writes
  just before COMMIT touch only rows already locked and belong to the commit.
* `EnrollBegin`, `LegacyInsert`, `LegacyLock`, `CommitLegacy`: the unsecured
  enrollment. `Heartbeat` is one statement.
* `Abort`: a lost connection, a deadline or a crash of the server at any
  statement; PostgreSQL rolls back. A COMMIT may take effect although the
  caller sees an error (`Answered`).

`EnrollmentRegistry` says what the tables may do if nothing interleaves: a
code is issued, a code is redeemed together with the row of its node, a node is
enrolled or refreshed. `ImplementsRegistry` is `Registry!Spec` under the
identity mapping of the three tables. It shares no operator with `Enrollment` but
the shape of the tables, so that what a commit writes is stated twice.

### Agent identity

`file` is the content under the path, `pc` the next file operation of each
process. `OpenExclusive` is O_CREATE|O_EXCL, `Write`, `SyncAndClose` and
`Cleanup` are the rest of `writeIdentity` with its deferred removal, `Lstat`,
`ReadFile`, `Relstat` and `Reread` the two ways to load. `WriteFails`,
`SyncFails` and `Kill` are the failures. An identity is named by the process
that generated it, since generated keys do not collide. `sent` holds the
identities presented to the server and `enrolled` those it accepted; `Accept`
comes at any time after `EnrollSecure`, for the process may be gone by then.

### Enrollment end to end

`AgentEnrollment` extends `AgentIdentity` and instantiates the registry with the
processes as nodes and as keys. `post[p]` is the one request of a run or the
answer to it, `told[p]` what the run tells its user. `Send` and `Receive` are the
two halves of `EnrollSecure`, `TimeOut` its 15 seconds, `Lose` the network.
`Redeem` is `Registry!Redeem` together with `Accept`; its answer may be an error
although it committed. `Refuse` stands for every answer that writes nothing. A
retry is another process: the program has no loop, its user has.

### Rate limiter

`ReadClock` is the evaluation of the argument `time.Now().UTC()`,
`AllowSecureEnrollment` the critical section; in between other requests may pass
and the clock may be set (Go's `UTC()` strips the monotonic reading, so `Sub` and
`Before` compare wall-clock times). `setBacks` counts how often the window moved to
an earlier time; it is a history variable of `BurstIsBounded`.

### Collectors and scores

A step of `NetworkBenchmark` or `HardwareInventory` is one command or one
directory. A command may fail at any time and always fails once `canceled` is
set. In the network benchmark most failures are errors, but a failed probe is a
measurement (`Lost`); in the inventory every failure leaves a gap. `payload` is
the temporary upload file; its removal may fail, and then it is `left`. The
inventory counts the entries of its GPU list: `lspci` and `system_profiler` give
one per card, `VulkanAdds` and `NvidiaAdds` are what the other tools append. `AddUntilFull` is the loop with the limit on models,
whose test follows the insertion; on Linux its `break` leaves one directory, on
Darwin the search. `Percentile90`, `Latency`, `Jitter` and `Loss` compute what
the code computes, on integers. `Statistics` defines an element of the sorted
samples by the number of samples below it, with samples as a function from any
finite set of positions, so that nothing has to be sorted. As to the unit, `Grain` is the number of parts of a millisecond,
chosen so that no division has a remainder.

The scores are the sums of the code multiplied by a common denominator. Stability
points of the compute score depend on square roots; they are a parameter, and
`ComputeScoreIsEarned` holds for each of its values. It compares two lists of
runs under one value: leaving out a failed run does not change the deviation of
the others, and equal runs deviate less.

### Provider controls

The arguments of the functions are the variables, and the owner, the market, the
clock and the local user change them, so that an action property can compare two
decisions. Percentages may exceed 100 and hours 23, since a configuration may.

### Compute benchmark

`pc` is where the goroutine of a session is, `server[s][i]` the life of the
i-th llama-server it started (`none`, `up`, `bound`, `ready`, `killed`, `gone`,
`reaped`), `bench` that of llama-bench, `attempt` and `samples` what the
current and the finished repetitions recorded. `platform` chooses between one
server per session (Linux) and one per repetition (Darwin). The goroutine,
each child process, the timers and the context take steps independently.
Measured numbers are abstracted to success, failure and the build reported,
which is what `FinalizeRuns` compares. Only one process can be bound to the
port; any ready server answers whoever asks. `NoServerBesideBench` is about servers
nobody has stopped: one that was killed may hold its memory a little longer.

### Report ingestion

`now` is the server's clock, `drift` the offset of the agent's. `Collect`,
`Sign` and `Post` are the agent, which may sign a measurement again under a new
id at any time; `Duplicate` is a body delivered again, with nobody waiting for
the answer; `GiveUp` is the client's timeout, after which
the handler may still go on. `Receive`, `Authenticate` and `Insert` are the
handler's validation, its key lookup with signature verification, and its
INSERT. Hardware, network and compute endpoints run these same steps. `Latest`
is the query that serves the newest report of a node. `Malformed` stands for
every check of the body's contents, which are opaque.

`ReportStore` says what a caller may think the handlers do: a submission is found
authentic and timely and is stored, once and for good, in one indivisible step.
`ImplementsStore` is its specification with `StoredReports`, the stored rows with
what was signed, as the store. The time of the check may be past when the row
appears, for the handler reads the clock first; the key may not be stale. It implies
`StoredIsAuthentic`, which is a theorem and needs no run.

### Job ledger

The migration is the whole implementation: its triggers fire for whatever
transaction writes. A transaction holds a job's row exclusively when `draft`
names it (the draft carries its uncommitted row and events), and shares it
(FOR SHARE in the triggers on usage and wallet rows) when it is in `sharers`.
`GuardJob`, `RecordJobStatus`, `CheckUsage` and `CheckWallet` are the trigger
bodies, `OneEntryPerKind` the partial unique index, `Commit` and `Rollback` end
a transaction. Any statement at any time is allowed, so the checks hold for any
client that cannot disable triggers. Amounts are reduced to their kind
(`earning` or `usage`). Savepoints, job events inserted by clients themselves,
and the balance view, a plain sum, are not modelled.

### Node rating

`score` and `known` are the fields of the Go structure, which lets a dimension
have a number without evidence. `Eligible` is `EvaluateNodeEligibility` with the
set of its limitations, `DetermineNodeTier` the function of that name, `TierFits`
the CHECK constraints on the tier in migration 000009 (those on the range and the
presence of scores are left out). The functions are pure;
`Measure` and `Forget` only change their argument, so that a property can compare
two arguments. `insert_node_rating` is not called by the code and is not modelled
as an operation.

## 3. Runs

| Run | Result | What it shows |
|---|---|---|
| `enrollment_safety` | pass | four concurrent requests of any kinds: atomic single-use redemption, no rebinding, no waiting cycle, and every commit is one step of the registry |
| `enrollment_liveness` | pass | every request that began is answered, without help from a deadline |
| `enrollment_code_limit` | violation | the limit on active codes is checked and used in two statements |
| `agent_enrollment` | pass | three runs of the enroll command on one machine, two codes, two accounts: no whole identity is overwritten; without I/O errors the machine is one node; acceptances are true; a lost answer can be repaired |
| `identity_lost` | violation | after a failed sync a file is removed that another process has loaded, and the identity it held is enrolled |
| `benchmark_session` | pass | three repetitions on both platforms with all failures: no server left, complete payloads, and a return if llama-bench ends |
| `benchmark_foreign_server` | violation | a session may measure the server of another session |
| `benchmark_cancel` | violation | a canceled session waits for a llama-bench nobody kills |
| `report_ingest` | pass | two reports, two handlers, drift, duplicates and lost answers: stored reports are fresh and accepted once, and the handlers implement the abstract store |
| `job_ledger` | pass | two transactions of any statements: justified entries, single payment, complete history |
| `inventory_overflow` | violation | on Linux the collector returns more models than it means to and the server takes |
| `node` | pass | rating, collectors, scores, provider controls and rate limiter, each in its own behaviours, compared with references and with better and worse input |

### Bounds

* **Enrollment.** Two of each of users, codes, nodes and keys are needed for a
  conflict of ownership, of keys and of codes. Conflicts are pairwise; four
  requests allow two codes to be issued and redeemed, or three requests to race
  for one code and its node. Two redemptions that race for a node the legacy path
  created need five requests; only the proofs cover them. `MaxTime = 1` with a lifetime of one tick lets a code expire
  between a transaction's begin and its token statement. `MaxActiveCodes = 1`
  stands for the 5 of the code: the count is compared with the limit and nothing
  else. The liveness run has one code and three requests, which still compete
  for token, node and key, since TLC cannot use symmetry there.
* **Agent enrollment.** A creator, a reader that sees its partial file, and one
  more run after the first has failed or timed out. Two codes of possibly
  different accounts; one tick, after which they have expired. Each process posts
  at most once. `identity_lost` has three
  processes, too; the proofs cover any number.
* **Benchmark.** Three repetitions stand for the code's five: a repetition meets
  only the one before it (its server, which may be dying) and the record of all.
  Five repetitions are beyond TLC's time with liveness; the proofs cover any
  number. One session suffices where sessions do not meet. The violation on
  foreign servers uses two.
* **Reports.** `MaxSkew = 1` is the server's tolerance, `MaxDrift = 1` lets the
  agent's clock lie on either side, `MaxTime = 3` is the least with which one
  stored report can have been signed more than twice the skew before another, the
  case that `LatestIsRecent` is about. With two handlers, each report is
  delivered once or one of them twice. One node suffices: handlers of different
  nodes share no row. The proofs cover more of everything.
* **Ledger.** Two jobs and three idempotency keys allow both kinds of entry and
  a second attempt at one of them; two users with a node each tell a provider
  from a consumer. Job statuses only move forward, so no bound is needed on
  steps.
* **Rating.** Scores 39, 49, 50, 70 and 90 lie on both sides of most thresholds
  and every combination of known and unknown occurs; the proofs cover all integers.
* **Network benchmark.** Five probes stand for the ten of the code, because the
  exact fractions of jitter need a grain that ten probes would push past TLC's
  32-bit integers. Five still make even and odd counts of answers and put every
  loss at 20 percent or more; with ten it is 10, on the same side of the
  5 percent at which the penalty ends. Connect times of 10 and 61 ms give
  latencies and jitters at and between the ends of the linear pieces, `Latencies`
  and `Losses` add values that another agent may report.
* **Inventory.** A limit of two models, three directories (the code's number) and
  three candidates each, so that the limit is met before, at and after each
  directory; two GPU models with up to two
  cards each and a limit of two; two places for llama.cpp suffice for
  broken before working and working before broken.
* **Compute score.** Three runs: one to three successes and failures in any
  order, with rates on both sides of the saturation points.
* **Controls.** One resource of each kind, since the four tests are alike; 0, 100
  and 101 percent; 0, 1 and 2 bytes, so that a request can lie above a ceiling that
  was raised from zero; hours at the ends of the day, inside it and past it.
* **Limiter.** A quota of one and a window of two ticks stand for 120 and a
  minute. Five requests over three instants reach two quotas at a seam and a
  third after the window was set back.

Symmetry is used in safety runs only, and only between values no definition tells
apart: accounts (told apart by `Owner` or by what they own) and report ids, which
are ordered, are never permuted. `CHECK_DEADLOCK
FALSE` is set where a run ends because every request, session or process is
done. `NoStuckWait` is the statement about deadlock that is wanted for
enrollment, and it is checked as an invariant.

### Fairness

* `Enrollment.FairSpec`: weak fairness of each request's statements. The
  server and PostgreSQL keep executing; a waiting statement is enabled once its
  lock is free. `Abort`, `Tick`, arrivals and heartbeats are not fair, so the
  answer does not depend on a deadline or on further traffic. Weak fairness
  suffices since only finitely many requests can take a lock in front of
  another.
* `ComputeBenchmark.FairSpec`: weak fairness of the goroutine, whose waits all
  have timers, and of the kill that the context or the run timeout sends to the
  command it started. Nothing is assumed of llama-server or of llama-bench. `FairBenchSpec` adds that llama-bench ends by
  itself. `SessionReturns` needs it; `benchmark_cancel` shows that it does.

## 4. Findings

Five disagreements between the code and what the repository says of it, each
shown by a violation run: `enrollment_code_limit`, `identity_lost`,
`benchmark_foreign_server`, `benchmark_cancel`, `inventory_overflow`. `findings` in
`PROJECT.json` quotes the lines. None is hypothetical in the model: each run
uses only steps the code can take.

## 5. Proofs

All proofs hold for any finite or infinite sets of users, codes, nodes, keys,
requests, sessions, reports and transactions, and any bounds. The assumptions
are the named ASSUMEs of the modules: bounds are natural numbers, `None` and
the like are not members of the sets they are added to, `Owner` is an account,
each node has an account, times cover the bounded clock, and there is at least
one repetition and one build. Two are about numbers. `BenchmarkAssumption`: at most
20 probes, a number that divides 100 (the agent makes ten; with more than 20 one
loss is less than 5 percent and `LostProbe` is false), a `Grain` that every number of
intervals divides, and speeds in tenths, which keep the fractions whole.
`ComputeAssumption`: at most five runs (the agent makes five; the server would take 50, for
which the points are no multiples of `1/ComputeScale`), with positive rates and 0
to 15 points for stability. The registry inside `AgentEnrollment` needs no
assumption beyond these.

**EnrollmentProofs.** `InductiveInvariant` proves `Spec => []IInv`. The safety
invariants speak of committed tables and answers; what makes them inductive is
what each open transaction knows. `IInv` therefore adds, for each value of
`pc`: that the token the request has locked is still redeemable; that the node
it has locked is missing, or belongs to the account and has no key or this one;
that its pending row is the one it writes and the pending key is in no other
row; that a code about to be inserted is in no row and no other request. Since a
lock has one holder, another request's commit cannot invalidate this. From `IInv` follow `TypeCorrect`, `KeysIdentify`,
`RedemptionIsAtomic`, `NodesAreListed`, `AcceptanceIsFinal` (a code accepted
once; what was answered remains true), `AcceptedStaysBound`,
`IdentityIsImmutable`, `HeartbeatSurvives` (no enrollment erases a heartbeat), and `Refinement`:
a step that commits is one registry action and all others stutter. `NoDeadlock`
follows from the order in which locks are taken: token, then node, then key,
and a request that has returned holds none.

**ComputeBenchmarkProofs.** `ServersAreStopped`, `OneModelAtATime` and
`PayloadsAreComplete`, with `TypeCorrect`. The invariant adds where in the
program a server that nobody has tried to stop may exist (only in the current
slot, and only between its start and its stop), that llama-bench runs only while
the session waits for it, that the recorded repetitions are exactly the ones
before the current one, and that one not marked failed has both measurements.
`CancelIsHonoured` is about whole behaviours: the state function `Doomed`, that a
session is canceled and has not returned a payload yet, once true stays true.

**ReportIngestProofs.** The invariant states for each handler what its earlier
statements established: a body past `Receive` was timely when received, and past
`Authenticate` its key is the bound key. Bound keys and signed reports never
change, so this stays true across enrollment, duplicates and delay. Theorems:
`ReplaysAreRefused`, `StoredReportsAreAuthentic`, `StoredReportsAreFresh` (age
at most twice the skew, for any drift), `ConfirmationIsTrue`,
`StalenessIsBounded` (the "latest" report is at most twice the skew older than
any other stored one), `StoredReportsAreFinal`, and `Refinement`: an insertion that
stores a row is `Accept` of the abstract store, because what the handler checked
two statements before still holds, and all other steps but binding a key and the
clock stutter. It needs `ReadTimesArePast` besides the invariant.

**JobLedgerProofs.** The properties are about committed rows. The invariant
states them also for uncommitted rows in the view of their writer: an
uncommitted entry is justified by the job as its transaction sees it, which the
row lock keeps until it commits; terminal jobs are replaced only by themselves,
so that justification survives other transactions' commits. Theorems:
`LedgerIsJustified`, `JobsArePaidOnce`, `UsageHasParties`, `AuditIsComplete`,
`AuditIsFinal`.

**NodeRatingProofs.** The rating needs nothing of the history, only types. The
lemma `LowestBounds` says that the loop's minimum reaches a threshold exactly when
all five scores do; `TierIsTheWeakest`, `TiersAreStorable`, `TiersAgree` and
`ImprovementIsSafe` follow for all integer scores.

`ScoresAreEarned` is about the compute score of any runs. Points are monotone in
each median (`MedianPointsAreMonotone`), rounding is monotone, and three lemmas say
what the median does: `MedianIsInvariant` (a bijection of positions changes
nothing), `MedianIgnoresOutlier` (of three or more samples, one that is better than
the others lifts the median at most to the second best), `MedianOfEqual`. Without a
failed run the successful runs are the same up to a bijection of their positions
(`WithoutRun`), so the medians stay and only the share of successes rises.

The library's induction theorems take an operator as a parameter and cannot be
instantiated here. `InductionOnNat` states induction for a set of numbers instead,
from `LeastNumber`, and `LoopExists` from it that a function defined by recursion
over `0..n` with a step taken from a function set exists; a loop's definition is
unfolded with it.

**NodeProofs.** One invariant per machine.

* Limiter. `RefusalIsJustified` and `BurstIsBounded` follow from `LimiterInv`. Every
  attempt that is counted is a request admitted for a time in the current window
  (`AttemptsAreAdmissions`), which is why a refusal is justified. The difficulty of
  the bursts is the clock, which may be set: only the windows since the last
  set-back are known to lie one after another, so that at most two of them meet an
  interval (`SinceSetBack`); what was admitted before is covered by two quotas for
  each set-back.
* Controls. `SharingWindow` and `AdmissionIsMonotone` are arithmetic and case
  distinctions for all integers, from types only.
* Inventory. `ModelsAfter` bounds the models by the directories searched so far: on
  Linux each directory adds one at most once the limit is met, and below it ends at
  the limit at most. `LinuxLlamaStatus` says what the loop over the places finds.
  `LlamaStatusCorrect` and
  `RefusalsAreExplained` follow for any limits and numbers of directories.
* Network benchmark. `ReturnedFits` says that a returned result has the loss of its
  probes, as many as were to be made, and that one of them is lost if the collection
  was canceled. `LostProbe`,
  `CancellationShows` and `BetterNetwork` follow from it and from the monotone points
  of `NetworkScore`, `UploadFileIsRemoved` from the step at which the file exists.

**AgentIdentityProofs.** The invariant relates the file to the process that is
creating it: at most one process is between its exclusive creation and its
close, the file carries its name, and its content is what that process has
written so far. It also says that without I/O errors a whole file is never
removed, and that whatever is used, sent or enrolled is what the file holds.
`CreatedPersists`, `WholeFileStays` and `SharedIdentity` follow.

**AgentEnrollmentProofs.** `ComposedIdentity` shows that every step of the
composition is a step of `AgentIdentity` or leaves its variables alone, so that
`OneNodePerMachine` is inherited from `SharedIdentity` instead of proved again.
For `AcceptanceHolds` the invariant adds that an answer "accepted" on its way
already names a code spent on its node; spent codes and bound nodes never
change. `RetryHolds` needs that every registered node is bound to its own key,
which holds because an identity's id and key are generated together.

### Only model-checked

Every safety and action property of a passing run is stated by a theorem.

* Liveness (`EveryRequestAnswered`, `SessionReturns`) is out of this prover's
  reach and stays with TLC.
* Violations are counterexamples and need no proof.

## 6. Not modelled

* TLS, JSON decoding, canonical encodings and the signature scheme itself.
  A signature verifies exactly under the key that made it.
* The text of command output: what the collectors read from it is chosen freely.
  Rounding of float64; the scores are exact. Versions, drivers, sizes and the
  acceleration list of the inventory. `sameGPU` compares by
  substring; it is taken for an equivalence of models.
* `EvaluateActiveProviderWork`, a disjunction of two flags nothing else reads, and
  any caller of the provider controls, for there is none yet.
* llama-bench output parsing and `assembleComputeBenchmark`, which the session
  does not call; the runtime adapter, which sends one request and keeps nothing.
* Accounts, browser sessions, the dashboard, the in-memory development store,
  and the migration runner, for the reasons in
  `PROJECT.json`.
* For jobs, no client: `database/runtime-grants.sql` gives the runtime role no
  INSERT on these tables and no Go code writes them. The module shows what the schema promises to a
  future writer.
* That a measurement is stored once: a comment in
  `compute_benchmark_submit_flow.go` asks callers to look a report up before they
  sign it again, but no code does, and `Sign` has no such guard.
* Clock steps backwards on the server, except in `EnrollmentLimiter`.

## 7. Plan

Done, in this order:

1. `EnrollmentTables`, `EnrollmentRegistry`, `Enrollment` and proofs.
2. `AgentIdentity`, its proofs, and its composition with the registry in
   `AgentEnrollment` and proofs.
3. `ComputeBenchmark` and proofs.
4. `ReportIngest` and proofs.
5. `JobLedger` and proofs.
6. `NodeRating` and proofs.
7. The collectors, the scores, the provider controls and the rate limiter.
8. Their proofs, in `NodeProofs` and `NodeRatingProofs`, and those of
   `AcceptedIsBound` and `CanceledReturnsNothing`.
9. `ReportStore`, the abstract specification of ingestion, and its refinement.

Next:

10. An abstract specification for the ledger (jobs settled atomically, with legal
    transitions only), shown to be implemented.
