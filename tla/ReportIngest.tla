----------------------------- MODULE ReportIngest -----------------------------
(***************************************************************************)
(* Signed reports: the agent signs a measurement (BuildSigned*Submission)  *)
(* and posts it, the server authenticates and stores it.  The endpoints    *)
(* for hardware inventory, network benchmarks and compute benchmarks run   *)
(* the same steps on a table each; this module is one of them, for any     *)
(* number of nodes.                                                        *)
(*                                                                         *)
(* A handler runs two SQL statements (the key, then the insertion) and     *)
(* other handlers run between them.  A posted body may arrive late, out of *)
(* order, or more than once; an answer may never arrive, and then the      *)
(* agent does not know whether its report was stored.                      *)
(***************************************************************************)
EXTENDS Integers

CONSTANTS
  Nodes,         \* enrolled, or about to be
  Keys,          \* Ed25519 public keys
  Measurements,  \* what an agent collects: an inventory or a benchmark
  Reports,       \* report ids; their order is the tie-break of the latest report
  Posts,         \* one handled HTTP request each
  MaxSkew,       \* *SignatureMaxSkew, in ticks
  MaxDrift,      \* bound on the difference between an agent's clock and the server's
  MaxTime,       \* bound on the server's clock
  None

ASSUME IngestAssumption ==
  /\ MaxSkew \in Nat /\ MaxDrift \in Nat /\ MaxTime \in Nat
  /\ Reports \subseteq Nat
  /\ None \notin Nodes \cup Keys \cup Measurements \cup Posts
  /\ None \notin Reports

VARIABLES
  now,      \* the server's clock
  drift,    \* how far each agent's clock is ahead of it
  key,      \* nodes.identity_public_key, NULL until enrollment binds one
  taken,    \* when each measurement was collected, by its agent's clock
  report,   \* the signed submissions
  rows,     \* the table: observed_at of each stored report
  pc,       \* the statement each handler executes next
  body,     \* the report it was sent
  at,       \* the time it read before it validated the report
  answer,   \* its status code
  heard     \* what the agent that posted it was told

vars == <<now, drift, key, taken, report, rows, pc, body, at, answer, heard>>
handler == <<pc, body, at, answer, heard>>

Clock == -MaxDrift .. MaxTime + MaxDrift

NotTaken == [node |-> None, at |-> 0]
Measurement == [node: Nodes, at: Clock]

Unsigned == [of |-> None, node |-> None, key |-> None, signedAt |-> 0, collectedAt |-> 0]
Submission == [of: Measurements, node: Nodes, key: Keys, signedAt: Clock, collectedAt: Clock]

NoRow == [stored |-> FALSE, observedAt |-> 0]
Row == [stored: {TRUE}, observedAt: 0 .. MaxTime]

PC == {"idle", "key", "insert", "done"}
Answer == {"none", "created", "replay", "refused", "unavailable"}  \* 201, 409, 400 or 401, 503
Heard == {"none", "waiting", "accepted", "error"}

Init ==
  /\ now = 0
  /\ drift \in [Nodes -> -MaxDrift .. MaxDrift]
  /\ key = [n \in Nodes |-> None]
  /\ taken = [m \in Measurements |-> NotTaken]
  /\ report = [r \in Reports |-> Unsigned]
  /\ rows = [r \in Reports |-> NoRow]
  /\ pc = [p \in Posts |-> "idle"]
  /\ body = [p \in Posts |-> None]
  /\ at = [p \in Posts |-> 0]
  /\ answer = [p \in Posts |-> "none"]
  /\ heard = [p \in Posts |-> "none"]

-------------------------------------------------------------------------------
(* The agent.                                                              *)

Stored == {r \in Reports : rows[r].stored}
Signed == {r \in Reports : report[r] # Unsigned}

Collect(n, m) ==
  /\ taken[m] = NotTaken
  /\ taken' = [taken EXCEPT ![m] = [node |-> n, at |-> now + drift[n]]]
  /\ UNCHANGED <<now, drift, key, report, rows, handler>>

\* BuildSigned*Submission: a new UUID, the caller's time, and the identity's key.  Nothing
\* keeps a caller from signing a measurement again, whatever became of it before.
Sign(m, r, k) ==
  /\ taken[m] # NotTaken
  /\ report[r] = Unsigned
  /\ report' = [report EXCEPT ![r] =
                  [of |-> m, node |-> taken[m].node, key |-> k,
                   signedAt |-> now + drift[taken[m].node], collectedAt |-> taken[m].at]]
  /\ UNCHANGED <<now, drift, key, taken, rows, handler>>

\* The response is read: 201 with the id that was sent, or anything else.
HearAnswer(p) ==
  /\ heard[p] = "waiting"
  /\ pc[p] = "done"
  /\ heard' = [heard EXCEPT ![p] = IF answer[p] = "created" THEN "accepted" ELSE "error"]
  /\ UNCHANGED <<now, drift, key, taken, report, rows, pc, body, at, answer>>

\* The client's timeout, its canceled context, or a broken connection.
GiveUp(p) ==
  /\ heard[p] = "waiting"
  /\ heard' = [heard EXCEPT ![p] = "error"]
  /\ UNCHANGED <<now, drift, key, taken, report, rows, pc, body, at, answer>>

\* client.Do: the request is on its way, and may be for long.
Post(p, r) ==
  /\ body[p] = None
  /\ r \in Signed
  /\ body' = [body EXCEPT ![p] = r]
  /\ heard' = [heard EXCEPT ![p] = "waiting"]
  /\ UNCHANGED <<now, drift, key, taken, report, rows, pc, at, answer>>

\* The same bytes arrive once more, and nobody waits for the answer.
Duplicate(p, r) ==
  /\ body[p] = None
  /\ \E q \in Posts : body[q] = r
  /\ body' = [body EXCEPT ![p] = r]
  /\ UNCHANGED <<now, drift, key, taken, report, rows, pc, at, answer, heard>>

-------------------------------------------------------------------------------
(* The server.                                                             *)

Within(t, u) == t - u <= MaxSkew /\ u - t <= MaxSkew

\* Seeded fault: the age of the measurement is not compared.
TimelySignature(s, t) == Within(t, s.signedAt)

\* The two time checks of validate*Submission.
Timely(s, t) == Within(t, s.signedAt) /\ Within(s.signedAt, s.collectedAt)

\* The handler returns, and forgets the time it read.
Finish(p, a) ==
  /\ pc' = [pc EXCEPT ![p] = "done"]
  /\ answer' = [answer EXCEPT ![p] = a]
  /\ at' = [at EXCEPT ![p] = 0]

\* The handler goes on to its next statement.
Proceed(p, l) == pc' = [pc EXCEPT ![p] = l] /\ UNCHANGED answer

\* Size, decoding, version, ids and the measurement itself: any report may fail them.
Malformed(p) ==
  /\ pc[p] = "idle"
  /\ body[p] # None
  /\ Finish(p, "refused")
  /\ UNCHANGED <<now, drift, key, taken, report, rows, body, heard>>

Receive(p) ==
  /\ pc[p] = "idle"
  /\ body[p] # None
  /\ IF Timely(report[body[p]], now)
       THEN Proceed(p, "key") /\ at' = [at EXCEPT ![p] = now]
       ELSE Finish(p, "refused")
  /\ UNCHANGED <<now, drift, key, taken, report, rows, body, heard>>

\* Seeded fault: a node that has no key yet needs no signature.
AuthenticIfBound(s) == key[s.node] \in {None, s.key}

\* InventoryPublicKey finds the node's key, and the signature verifies under it.
Authentic(s) == key[s.node] # None /\ key[s.node] = s.key

Authenticate(p) ==
  /\ pc[p] = "key"
  /\ IF Authentic(report[body[p]])
       THEN Proceed(p, "insert") /\ UNCHANGED at
       ELSE Finish(p, "refused")
  /\ UNCHANGED <<now, drift, key, taken, report, rows, body, heard>>

\* Seeded fault: ON CONFLICT(id) DO UPDATE SET observed_at.
InsertOrUpdate(p) ==
  /\ pc[p] = "insert"
  /\ rows' = [rows EXCEPT ![body[p]] = [stored |-> TRUE, observedAt |-> at[p]]]
  /\ Finish(p, "created")
  /\ UNCHANGED <<now, drift, key, taken, report, body, heard>>

\* Seeded fault: the answer precedes the insertion, which then fails.
AnswerFirst(p) ==
  /\ pc[p] = "insert"
  /\ Finish(p, "created")
  /\ UNCHANGED <<now, drift, key, taken, report, rows, body, heard>>

\* Insert*: the primary key refuses a report that is stored (23505); the answer to a
\* committed insertion may still be lost to the handler's deadline.
Insert(p) ==
  /\ pc[p] = "insert"
  /\ IF body[p] \in Stored
       THEN Finish(p, "replay") /\ UNCHANGED rows
       ELSE /\ rows' = [rows EXCEPT ![body[p]] = [stored |-> TRUE, observedAt |-> at[p]]]
            /\ Finish(p, "created") \/ Finish(p, "unavailable")
  /\ UNCHANGED <<now, drift, key, taken, report, body, heard>>

\* The handler's three seconds, a lost connection to the database, or a crash.
Abort(p) ==
  /\ pc[p] \in {"key", "insert"}
  /\ Finish(p, "unavailable")
  /\ UNCHANGED <<now, drift, key, taken, report, rows, body, heard>>

\* RedeemEnrollmentToken binds a key to the node, for good.
Enroll(n, k) ==
  /\ key[n] = None
  /\ key' = [key EXCEPT ![n] = k]
  /\ UNCHANGED <<now, drift, taken, report, rows, handler>>

Tick ==
  /\ now < MaxTime
  /\ now' = now + 1
  /\ UNCHANGED <<drift, key, taken, report, rows, handler>>

Next ==
  \/ \E n \in Nodes : \/ \E m \in Measurements : Collect(n, m)
                      \/ \E k \in Keys : Enroll(n, k)
  \/ \E m \in Measurements, r \in Reports, k \in Keys : Sign(m, r, k)
  \/ \E p \in Posts : \/ \E r \in Reports : Post(p, r) \/ Duplicate(p, r)
                      \/ Malformed(p) \/ Receive(p) \/ Authenticate(p) \/ Insert(p) \/ Abort(p)
                      \/ HearAnswer(p) \/ GiveUp(p)
  \/ Tick

Spec == Init /\ [][Next]_vars

-------------------------------------------------------------------------------
(* The latest report.                                                      *)

StoredFor(n) == {r \in Stored : report[r].node = n}

\* Seeded fault: ORDER BY id.
LatestById(n, r) == r \in StoredFor(n) /\ \A s \in StoredFor(n) : s <= r

\* LatestInventoryForUser: ORDER BY observed_at DESC, id DESC LIMIT 1.
Latest(n, r) ==
  /\ r \in StoredFor(n)
  /\ \A s \in StoredFor(n) :
       \/ rows[s].observedAt < rows[r].observedAt
       \/ rows[s].observedAt = rows[r].observedAt /\ s <= r

-------------------------------------------------------------------------------
(* The abstract specification.                                             *)

StoredReports ==
  {[id |-> r, content |-> report[r], observedAt |-> rows[r].observedAt] : r \in Stored}

Store == INSTANCE ReportStore WITH store <- StoredReports, Submissions <- Submission

-------------------------------------------------------------------------------
(* Properties.                                                             *)

\* Every variable has its type; a handler past validation has a report to look at.
TypeOK ==
  /\ now \in 0 .. MaxTime
  /\ drift \in [Nodes -> -MaxDrift .. MaxDrift]
  /\ key \in [Nodes -> Keys \cup {None}]
  /\ taken \in [Measurements -> Measurement \cup {NotTaken}]
  /\ report \in [Reports -> Submission \cup {Unsigned}]
  /\ rows \in [Reports -> Row \cup {NoRow}]
  /\ pc \in [Posts -> PC]
  /\ body \in [Posts -> Reports \cup {None}]
  /\ at \in [Posts -> 0 .. MaxTime]
  /\ answer \in [Posts -> Answer]
  /\ heard \in [Posts -> Heard]

\* However often a report arrives, and however its handlers interleave, one of them at
\* most answers 201 (the replay answer of Insert*).
AcceptedOnce ==
  \A p, q \in Posts :
    answer[p] = "created" /\ answer[q] = "created" /\ body[p] = body[q] => p = q

\* What is stored was signed by the key its node is bound to, not only at the time of the
\* check, one statement before the insertion, but for good.
StoredIsAuthentic == \A r \in Stored : report[r].key = key[report[r].node]

\* What is stored had been collected at most twice the allowed skew before the server saw
\* it, by the server's own clock and with any drift, however late the body arrived.
StoredIsFresh ==
  \A r \in Stored : Within(rows[r].observedAt, report[r].signedAt) /\
                   rows[r].observedAt - report[r].collectedAt <= 2 * MaxSkew

\* An agent that was told "accepted", and one that was told "already accepted", can rely
\* on the row (PostSignedComputeBenchmark, the conflict answer of the handlers).
ConfirmedIsStored ==
  \A p \in Posts :
    heard[p] = "accepted" \/ answer[p] \in {"created", "replay"} => body[p] \in Stored

\* The handlers, whose checks and insertions interleave with each other, with enrollment and
\* with the clock, store what one indivisible check and insertion would (the sequence of
\* statements in the three submission handlers).
ImplementsStore == Store!Spec

\* A stored report is never written again.
StoredIsFinal == [][\A r \in Stored : rows'[r] = rows[r] /\ report'[r] = report[r]]_vars

\* Reports that overtake each other can make an older one the latest, but never one that
\* was signed more than twice the allowed skew before another stored one.
LatestIsRecent ==
  \A n \in Nodes : \A r, s \in StoredFor(n) :
    Latest(n, r) => report[s].signedAt - report[r].signedAt <= 2 * MaxSkew

===============================================================================
