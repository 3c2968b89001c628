-------------------------- MODULE ReportIngestProofs --------------------------
(***************************************************************************)
(* Proofs about ReportIngest, for any number of nodes, measurements,       *)
(* reports and handlers, any clock drift and any allowed skew.  The        *)
(* inductive invariant says what a handler has established about its       *)
(* report at each statement: since a bound key and a signed report never   *)
(* change, what was checked stays true until the insertion.                *)
(***************************************************************************)
EXTENDS ReportIngest, TLAPS

\* What handler p knows about its report.
HandlerInv(p) ==
  /\ body[p] # None => body[p] \in Signed
  /\ pc[p] # "idle" => body[p] # None
  /\ pc[p] \in {"key", "insert"} => Timely(report[body[p]], at[p])
  /\ pc[p] = "insert" => Authentic(report[body[p]])
  /\ answer[p] # "none" => pc[p] = "done"
  /\ answer[p] \in {"created", "replay"} => body[p] \in Stored
  /\ heard[p] = "accepted" => answer[p] = "created"
  /\ body[p] = None => heard[p] = "none"

\* What is stored was signed, by a bound key, and on time.
RowInv(r) ==
  /\ report[r] # Unsigned
  /\ Authentic(report[r])
  /\ Timely(report[r], rows[r].observedAt)

Handlers == \A p \in Posts : HandlerInv(p)
Table == \A r \in Stored : RowInv(r)

IInv == TypeOK /\ Handlers /\ Table /\ AcceptedOnce

-------------------------------------------------------------------------------

\* The initial state: no reports, no handlers.
LEMMA InitIInv == Init => IInv
<1> SUFFICES ASSUME Init PROVE IInv
  OBVIOUS
<1> USE IngestAssumption
<1>1. TypeOK
  BY DEF Init, TypeOK, PC, Answer, Heard
<1>2. Handlers
  BY DEF Init, Handlers, HandlerInv
<1>3. Table
  BY DEF Init, Table, Stored, NoRow
<1>4. AcceptedOnce
  BY DEF Init, AcceptedOnce
<1> QED BY <1>1, <1>2, <1>3, <1>4 DEF IInv

\* Steps that change neither the table nor what was signed, nor any handler but p, nor a
\* bound key, keep everything but what they do to p itself.
LEMMA LocalStep ==
  ASSUME IInv, TypeOK', NEW p \in Posts,
         UNCHANGED <<key, report, rows>>,
         \A q \in Posts \ {p} : /\ pc'[q] = pc[q] /\ body'[q] = body[q] /\ at'[q] = at[q]
                                /\ answer'[q] = answer[q] /\ heard'[q] = heard[q],
         HandlerInv(p)',
         answer'[p] = "created" => answer[p] = "created" /\ body'[p] = body[p]
  PROVE  IInv'
<1>1. Handlers'
  <2> SUFFICES ASSUME NEW q \in Posts PROVE HandlerInv(q)'
    BY DEF Handlers
  <2>1. CASE q = p
    BY <2>1
  <2>2. CASE q # p
    BY <2>2 DEF IInv, Handlers, HandlerInv, Stored, Signed, Timely, Within, Authentic
  <2> QED BY <2>1, <2>2
<1>2. Table'
  BY DEF IInv, Table, RowInv, Stored, Timely, Within, Authentic
<1>3. AcceptedOnce'
  BY DEF IInv, AcceptedOnce
<1> QED BY <1>1, <1>2, <1>3 DEF IInv

-------------------------------------------------------------------------------
(* The agent's steps.                                                      *)

LEMMA CollectKeepsIInv ==
  ASSUME IInv, NEW n \in Nodes, NEW m \in Measurements, Collect(n, m)
  PROVE  IInv'
<1> USE IngestAssumption
<1>1. now + drift[n] \in Clock
  BY DEF IInv, TypeOK, Clock
<1>2. TypeOK'
  BY <1>1 DEF IInv, TypeOK, Collect, handler, Measurement
<1>3. Handlers' /\ Table' /\ AcceptedOnce'
  BY DEF IInv, Collect, handler, Handlers, HandlerInv, Table, RowInv, AcceptedOnce, Stored,
         Signed, Timely, Within, Authentic
<1> QED BY <1>2, <1>3 DEF IInv

LEMMA SignKeepsIInv ==
  ASSUME IInv, NEW m \in Measurements, NEW r \in Reports, NEW k \in Keys, Sign(m, r, k)
  PROVE  IInv'
<1> USE IngestAssumption
<1> DEFINE s == [of |-> m, node |-> taken[m].node, key |-> k,
                 signedAt |-> now + drift[taken[m].node], collectedAt |-> taken[m].at]
<1>1. taken[m] \in Measurement
  BY DEF IInv, TypeOK, Sign
<1>2. now + drift[taken[m].node] \in Clock
  BY <1>1 DEF IInv, TypeOK, Clock, Measurement
<1>3. s \in Submission /\ s # Unsigned
  BY <1>1, <1>2 DEF Measurement, Submission, Unsigned
<1>4. /\ report' = [report EXCEPT ![r] = s] /\ report[r] = Unsigned
      /\ UNCHANGED <<now, drift, key, taken, rows, pc, body, at, answer, heard>>
  BY DEF Sign, handler
<1> HIDE DEF s
<1>5. TypeOK'
  BY <1>3, <1>4 DEF IInv, TypeOK
<1>6. \A q \in Reports : q \in Signed => report'[q] = report[q] /\ q \in Signed'
  BY <1>4 DEF IInv, TypeOK, Signed
<1>7. Handlers'
  <2> SUFFICES ASSUME NEW p \in Posts PROVE HandlerInv(p)'
    BY DEF Handlers
  <2>1. HandlerInv(p) /\ body[p] \in Reports \cup {None}
    BY DEF IInv, Handlers, TypeOK
  <2> QED BY <2>1, <1>4, <1>6 DEF HandlerInv, Stored, Timely, Within, Authentic
<1>8. Table'
  BY <1>4, <1>6 DEF IInv, Table, RowInv, Stored, Signed, Timely, Within, Authentic
<1>9. AcceptedOnce'
  BY <1>4 DEF IInv, AcceptedOnce
<1> QED BY <1>5, <1>7, <1>8, <1>9 DEF IInv

LEMMA PostKeepsIInv ==
  ASSUME IInv, NEW p \in Posts, NEW r \in Reports, Post(p, r) \/ Duplicate(p, r)
  PROVE  IInv'
<1> USE IngestAssumption
<1>1. r \in Signed /\ body[p] = None
  <2>1. CASE Post(p, r)
    BY <2>1 DEF Post
  <2>2. CASE Duplicate(p, r)
    BY <2>2 DEF Duplicate, IInv, Handlers, HandlerInv
  <2> QED BY <2>1, <2>2
<1>2. TypeOK'
  BY DEF IInv, TypeOK, Post, Duplicate, Heard
<1>3. pc[p] = "idle" /\ answer[p] = "none" /\ heard[p] = "none"
  BY <1>1 DEF IInv, Handlers, HandlerInv, TypeOK, PC
<1>4. HandlerInv(p)'
  BY <1>1, <1>3 DEF IInv, TypeOK, Post, Duplicate, HandlerInv, Signed
<1> QED BY <1>2, <1>3, <1>4, LocalStep DEF IInv, TypeOK, Post, Duplicate

LEMMA HearKeepsIInv ==
  ASSUME IInv, NEW p \in Posts, HearAnswer(p) \/ GiveUp(p)
  PROVE  IInv'
<1>1. TypeOK'
  BY DEF IInv, TypeOK, HearAnswer, GiveUp, Heard
<1>2. HandlerInv(p)'
  BY DEF IInv, TypeOK, HearAnswer, GiveUp, Handlers, HandlerInv, Signed, Stored, Timely, Within,
         Authentic
<1> QED BY <1>1, <1>2, LocalStep DEF IInv, TypeOK, HearAnswer, GiveUp

-------------------------------------------------------------------------------
(* The handler's steps.                                                    *)

\* A handler that returns without writing, and has not found its report stored.
LEMMA RefusalKeepsIInv ==
  ASSUME IInv, NEW p \in Posts, body[p] # None,
         NEW a \in {"refused", "unavailable"}, Finish(p, a),
         answer[p] = "none",
         UNCHANGED <<now, drift, key, taken, report, rows, body, heard>>
  PROVE  IInv'
<1>1. TypeOK'
  BY IngestAssumption DEF IInv, TypeOK, Finish, PC, Answer
<1>2. HandlerInv(p)'
  BY DEF IInv, TypeOK, Finish, Handlers, HandlerInv, Signed
<1> QED BY <1>1, <1>2, LocalStep DEF IInv, TypeOK, Finish

\* A handler that has not returned has given no answer.
LEMMA Unanswered ==
  ASSUME IInv, NEW p \in Posts, pc[p] # "done"
  PROVE  answer[p] = "none"
  BY DEF IInv, Handlers, HandlerInv

LEMMA ReceiveKeepsIInv ==
  ASSUME IInv, NEW p \in Posts, Malformed(p) \/ Receive(p)
  PROVE  IInv'
<1> USE IngestAssumption
<1>0. answer[p] = "none" /\ body[p] # None
  BY Unanswered DEF Malformed, Receive
<1>1. CASE Malformed(p)
  BY <1>0, <1>1, RefusalKeepsIInv DEF Malformed
<1>2. CASE Receive(p)
  <2>1. CASE ~Timely(report[body[p]], now)
    BY <1>0, <1>2, <2>1, RefusalKeepsIInv DEF Receive
  <2>2. CASE Timely(report[body[p]], now)
    <3>1. TypeOK'
      BY <1>2, <2>2 DEF IInv, TypeOK, Receive, Proceed, PC
    <3>2. HandlerInv(p)'
      BY <1>0, <1>2, <2>2 DEF IInv, TypeOK, Receive, Proceed, Handlers, HandlerInv, Signed, Stored,
                              Timely, Within
    <3> QED BY <1>2, <2>2, <3>1, <3>2, LocalStep DEF IInv, TypeOK, Receive, Proceed
  <2> QED BY <2>1, <2>2
<1> QED BY <1>1, <1>2

LEMMA AuthenticateKeepsIInv ==
  ASSUME IInv, NEW p \in Posts, Authenticate(p)
  PROVE  IInv'
<1>0. answer[p] = "none" /\ body[p] # None
  BY Unanswered DEF Authenticate, IInv, Handlers, HandlerInv
<1>1. CASE ~Authentic(report[body[p]])
  BY <1>0, <1>1, RefusalKeepsIInv DEF Authenticate
<1>2. CASE Authentic(report[body[p]])
  <2>1. TypeOK'
    BY <1>2 DEF IInv, TypeOK, Authenticate, Proceed, PC
  <2>2. HandlerInv(p)'
    BY <1>0, <1>2 DEF IInv, TypeOK, Authenticate, Proceed, Handlers, HandlerInv, Signed, Stored,
                      Timely, Within, Authentic
  <2> QED BY <1>2, <2>1, <2>2, LocalStep DEF IInv, TypeOK, Authenticate, Proceed
<1> QED BY <1>1, <1>2

LEMMA AbortKeepsIInv ==
  ASSUME IInv, NEW p \in Posts, Abort(p)
  PROVE  IInv'
<1>1. answer[p] = "none" /\ body[p] # None
  BY Unanswered DEF Abort, IInv, Handlers, HandlerInv
<1> QED BY <1>1, RefusalKeepsIInv DEF Abort

LEMMA InsertKeepsIInv ==
  ASSUME IInv, NEW p \in Posts, Insert(p)
  PROVE  IInv'
<1> USE IngestAssumption
<1> DEFINE r == body[p]
<1>1. /\ pc[p] = "insert" /\ r \in Reports /\ r \in Signed /\ answer[p] = "none"
      /\ Timely(report[r], at[p]) /\ Authentic(report[r]) /\ HandlerInv(p)
  BY Unanswered DEF Insert, IInv, TypeOK, Handlers, HandlerInv
<1>2. UNCHANGED <<now, drift, key, taken, report, body, heard>>
  BY DEF Insert
<1>3. CASE r \in Stored
  <2>1. Finish(p, "replay") /\ UNCHANGED rows
    BY <1>3 DEF Insert
  <2>2. TypeOK'
    BY <2>1, <1>2 DEF IInv, TypeOK, Finish, PC, Answer
  <2>3. HandlerInv(p)'
    BY <1>1, <1>2, <1>3, <2>1 DEF IInv, TypeOK, Finish, HandlerInv, Signed, Stored
  <2> QED BY <1>2, <2>1, <2>2, <2>3, LocalStep DEF IInv, TypeOK, Finish
<1>4. CASE r \notin Stored
  <2>1. PICK a \in {"created", "unavailable"} : Finish(p, a)
    BY <1>4 DEF Insert
  <2>2. rows' = [rows EXCEPT ![r] = [stored |-> TRUE, observedAt |-> at[p]]]
    BY <1>4 DEF Insert
  <2>3. TypeOK'
    <3>1. [stored |-> TRUE, observedAt |-> at[p]] \in Row
      BY DEF IInv, TypeOK, Row
    <3>2. rows' \in [Reports -> Row \cup {NoRow}]
      BY <1>1, <2>2, <3>1 DEF IInv, TypeOK
    <3>3. /\ pc' \in [Posts -> PC] /\ answer' \in [Posts -> Answer]
          /\ at' \in [Posts -> 0 .. MaxTime]
      BY <2>1 DEF IInv, TypeOK, Finish, PC, Answer
    <3> QED BY <1>2, <3>2, <3>3 DEF IInv, TypeOK
  <2>4. Stored' = Stored \cup {r}
    BY <1>1, <2>2 DEF IInv, TypeOK, Stored
  <2>5. Handlers'
    <3> SUFFICES ASSUME NEW q \in Posts PROVE HandlerInv(q)'
      BY DEF Handlers
    <3>1. HandlerInv(q)
      BY DEF IInv, Handlers
    <3>2. CASE q = p
      BY <3>2, <1>1, <1>2, <2>1, <2>4 DEF IInv, TypeOK, Finish, HandlerInv, Signed
    <3>3. CASE q # p
      <4>1. pc'[q] = pc[q] /\ at'[q] = at[q] /\ answer'[q] = answer[q]
        BY <3>3, <2>1 DEF IInv, TypeOK, Finish
      <4> QED BY <3>1, <4>1, <1>2, <2>4 DEF HandlerInv, Signed, Timely, Within, Authentic
    <3> QED BY <3>2, <3>3
  <2>6. Table'
    <3> SUFFICES ASSUME NEW s \in Stored' PROVE RowInv(s)'
      BY DEF Table
    <3>1. CASE s = r
      BY <3>1, <1>1, <1>2, <2>2 DEF IInv, TypeOK, RowInv, Signed, Timely, Within, Authentic
    <3>2. CASE s # r
      <4>1. s \in Stored /\ rows'[s] = rows[s]
        BY <3>2, <2>2, <2>4 DEF IInv, TypeOK, Stored
      <4> QED BY <4>1, <1>2 DEF IInv, Table, RowInv, Timely, Within, Authentic
    <3> QED BY <3>1, <3>2
  <2>7. AcceptedOnce'
    <3>1. \A q \in Posts : answer[q] = "created" => body[q] # r
      BY <1>4 DEF IInv, Handlers, HandlerInv
    <3>2. \A q \in Posts \ {p} : answer'[q] = answer[q]
      BY <2>1 DEF IInv, TypeOK, Finish
    <3> QED BY <3>1, <3>2, <1>2 DEF IInv, AcceptedOnce
  <2> QED BY <2>3, <2>5, <2>6, <2>7 DEF IInv
<1> QED BY <1>3, <1>4

-------------------------------------------------------------------------------

LEMMA EnrollKeepsIInv ==
  ASSUME IInv, NEW n \in Nodes, NEW k \in Keys, Enroll(n, k)
  PROVE  IInv'
<1> USE IngestAssumption
<1>1. TypeOK'
  BY DEF IInv, TypeOK, Enroll, handler
<1>2. \A s : Authentic(s) /\ s.node \in Nodes => Authentic(s)'
  <2>1. \A i \in Nodes : key[i] # None => key'[i] = key[i]
    BY DEF IInv, TypeOK, Enroll
  <2> QED BY <2>1 DEF Authentic
<1>3. \A r \in Reports : report[r] # Unsigned => report[r].node \in Nodes
  BY DEF IInv, TypeOK, Submission
<1>4. UNCHANGED <<now, drift, taken, report, rows, pc, body, at, answer, heard>>
  BY DEF Enroll, handler
<1>5. Handlers'
  <2> SUFFICES ASSUME NEW p \in Posts PROVE HandlerInv(p)'
    BY DEF Handlers
  <2>1. HandlerInv(p) /\ body[p] \in Reports \cup {None}
    BY DEF IInv, Handlers, TypeOK
  <2>2. pc[p] = "insert" => Authentic(report[body[p]])'
    BY <2>1, <1>2, <1>3, <1>4 DEF HandlerInv, Signed
  <2> QED BY <2>1, <2>2, <1>4 DEF HandlerInv, Signed, Stored, Timely, Within
<1>6. Table'
  BY <1>2, <1>3, <1>4 DEF IInv, Table, RowInv, Stored, Timely, Within
<1>7. AcceptedOnce'
  BY <1>4 DEF IInv, AcceptedOnce
<1> QED BY <1>1, <1>5, <1>6, <1>7 DEF IInv

LEMMA IdleKeepsIInv ==
  ASSUME IInv, Tick \/ UNCHANGED vars
  PROVE  IInv'
<1>1. UNCHANGED <<drift, key, taken, report, rows, pc, body, at, answer, heard>>
  BY DEF Tick, vars, handler
<1>2. now' \in 0 .. MaxTime
  BY IngestAssumption DEF IInv, TypeOK, Tick, vars
<1>3. TypeOK'
  BY <1>1, <1>2 DEF IInv, TypeOK
<1>4. Handlers' /\ Table' /\ AcceptedOnce'
  BY <1>1 DEF IInv, Handlers, HandlerInv, Table, RowInv, AcceptedOnce, Stored, Signed, Timely,
              Within, Authentic
<1> QED BY <1>3, <1>4 DEF IInv

LEMMA NextKeepsIInv == IInv /\ [Next]_vars => IInv'
<1> SUFFICES ASSUME IInv, [Next]_vars PROVE IInv'
  OBVIOUS
<1>1. CASE \E n \in Nodes, m \in Measurements : Collect(n, m)
  BY <1>1, CollectKeepsIInv
<1>2. CASE \E n \in Nodes, k \in Keys : Enroll(n, k)
  BY <1>2, EnrollKeepsIInv
<1>3. CASE \E m \in Measurements, r \in Reports, k \in Keys : Sign(m, r, k)
  BY <1>3, SignKeepsIInv
<1>4. CASE \E p \in Posts, r \in Reports : Post(p, r) \/ Duplicate(p, r)
  BY <1>4, PostKeepsIInv
<1>5. CASE \E p \in Posts : HearAnswer(p) \/ GiveUp(p)
  BY <1>5, HearKeepsIInv
<1>6. CASE \E p \in Posts : Malformed(p) \/ Receive(p)
  BY <1>6, ReceiveKeepsIInv
<1>7. CASE \E p \in Posts : Authenticate(p)
  BY <1>7, AuthenticateKeepsIInv
<1>8. CASE \E p \in Posts : Insert(p)
  BY <1>8, InsertKeepsIInv
<1>9. CASE \E p \in Posts : Abort(p)
  BY <1>9, AbortKeepsIInv
<1>10. CASE Tick \/ UNCHANGED vars
  BY <1>10, IdleKeepsIInv
<1> QED BY <1>1, <1>2, <1>3, <1>4, <1>5, <1>6, <1>7, <1>8, <1>9, <1>10 DEF Next

\* What each handler has established about its report holds in every reachable state.
THEOREM InductiveInvariant == Spec => []IInv
<1>1. Init => IInv
  BY InitIInv
<1>2. IInv /\ [Next]_vars => IInv'
  BY NextKeepsIInv
<1> QED BY <1>1, <1>2, PTL DEF Spec

\* Type correctness.
THEOREM TypeCorrect == Spec => []TypeOK
<1>1. IInv => TypeOK
  BY DEF IInv
<1> QED BY <1>1, InductiveInvariant, PTL

\* However many copies of a report arrive, one handler at most answers 201.
THEOREM ReplaysAreRefused == Spec => []AcceptedOnce
<1>1. IInv => AcceptedOnce
  BY DEF IInv
<1> QED BY <1>1, InductiveInvariant, PTL

\* Every stored report is signed by the key its node is bound to.
THEOREM StoredReportsAreAuthentic == Spec => []StoredIsAuthentic
<1>1. IInv => StoredIsAuthentic
  BY DEF IInv, Table, RowInv, StoredIsAuthentic, Authentic
<1> QED BY <1>1, InductiveInvariant, PTL

\* The times of a stored report are integers.
LEMMA StoredTimes ==
  ASSUME IInv, NEW r \in Stored
  PROVE  report[r].signedAt \in Int /\ report[r].collectedAt \in Int /\ rows[r].observedAt \in Int
<1>1. RowInv(r) /\ r \in Reports
  BY DEF IInv, Table, Stored
<1>2. report[r].signedAt \in Int /\ report[r].collectedAt \in Int
  BY <1>1, IngestAssumption DEF IInv, TypeOK, RowInv, Submission, Clock
<1>3. \A i \in Row : i.observedAt \in Int
  BY DEF Row
<1>4. NoRow.observedAt \in Int
  BY DEF NoRow
<1>5. rows[r] \in Row \cup {NoRow}
  BY <1>1 DEF IInv, TypeOK
<1> QED BY <1>2, <1>3, <1>4, <1>5

\* Every stored report was new when the server saw it.
THEOREM StoredReportsAreFresh == Spec => []StoredIsFresh
<1>1. IInv => StoredIsFresh
  <2> SUFFICES ASSUME IInv, NEW r \in Stored
               PROVE  /\ Within(rows[r].observedAt, report[r].signedAt)
                      /\ rows[r].observedAt - report[r].collectedAt <= 2 * MaxSkew
    BY DEF StoredIsFresh
  <2>1. Timely(report[r], rows[r].observedAt)
    BY DEF IInv, Table, RowInv
  <2> QED BY <2>1, StoredTimes, IngestAssumption DEF Timely, Within
<1> QED BY <1>1, InductiveInvariant, PTL

\* "Accepted" and "already accepted" are never said of a report that is not stored.
THEOREM ConfirmationIsTrue == Spec => []ConfirmedIsStored
<1>1. IInv => ConfirmedIsStored
  BY DEF IInv, Handlers, HandlerInv, ConfirmedIsStored
<1> QED BY <1>1, InductiveInvariant, PTL

\* The latest report is at most twice the allowed skew older than any other stored one.
THEOREM StalenessIsBounded == Spec => []LatestIsRecent
<1>1. IInv => LatestIsRecent
  <2> SUFFICES ASSUME IInv, NEW n \in Nodes, NEW r \in StoredFor(n), NEW s \in StoredFor(n),
                      Latest(n, r)
               PROVE  report[s].signedAt - report[r].signedAt <= 2 * MaxSkew
    BY DEF LatestIsRecent
  <2>1. RowInv(r) /\ RowInv(s) /\ r \in Reports /\ s \in Reports
    BY DEF IInv, Table, StoredFor, Stored
  <2>2. /\ report[r].signedAt \in Int /\ report[s].signedAt \in Int
        /\ rows[r].observedAt \in Int /\ rows[s].observedAt \in Int
    BY StoredTimes DEF StoredFor
  <2>3. rows[s].observedAt <= rows[r].observedAt
    BY <2>2 DEF Latest
  <2>4. /\ rows[r].observedAt - report[r].signedAt <= MaxSkew
        /\ report[s].signedAt - rows[s].observedAt <= MaxSkew
    BY <2>1 DEF RowInv, Timely, Within
  <2> QED BY <2>2, <2>3, <2>4, IngestAssumption
<1> QED BY <1>1, InductiveInvariant, PTL

\* No step writes a stored report again.
THEOREM StoredReportsAreFinal == Spec => StoredIsFinal
<1>1. IInv /\ [Next]_vars => [\A r \in Stored : rows'[r] = rows[r] /\ report'[r] = report[r]]_vars
  <2> SUFFICES ASSUME IInv, Next, NEW r \in Stored
               PROVE  rows'[r] = rows[r] /\ report'[r] = report[r]
    BY DEF vars
  <2>1. r \in Reports /\ report[r] # Unsigned
    BY DEF IInv, Table, RowInv, Stored
  <2>2. CASE \E m \in Measurements, s \in Reports, k \in Keys : Sign(m, s, k)
    BY <2>1, <2>2 DEF IInv, TypeOK, Sign
  <2>3. CASE \E p \in Posts : Insert(p)
    BY <2>1, <2>3 DEF IInv, TypeOK, Insert
  <2>4. CASE UNCHANGED <<rows, report>>
    BY <2>4
  <2> QED BY <2>2, <2>3, <2>4
      DEF Next, Collect, Enroll, Post, Duplicate, Malformed, Receive, Authenticate, Abort,
          HearAnswer, GiveUp, Tick
<1> QED BY <1>1, InductiveInvariant, PTL DEF Spec, StoredIsFinal

-------------------------------------------------------------------------------
(* Refinement.                                                             *)

\* The time a handler read is past.
ReadTimesArePast == \A p \in Posts : at[p] <= now

LEMMA ReadTimesStayPast == TypeOK /\ ReadTimesArePast /\ [Next]_vars => ReadTimesArePast'
<1> SUFFICES ASSUME TypeOK, ReadTimesArePast, [Next]_vars, NEW p \in Posts
             PROVE  at'[p] <= now'
  BY DEF ReadTimesArePast
<1> USE IngestAssumption
<1>1. at[p] \in Nat /\ now \in Nat /\ at[p] <= now /\ at \in [Posts -> 0 .. MaxTime]
  BY DEF TypeOK, ReadTimesArePast
<1>2. CASE UNCHANGED <<at, now>>
  BY <1>1, <1>2
<1>3. CASE Tick
  BY <1>1, <1>3 DEF Tick, handler
<1>4. CASE \E q \in Posts, a \in Answer : Finish(q, a) /\ UNCHANGED now
  BY <1>1, <1>4 DEF Finish
<1>5. CASE \E q \in Posts : at' = [at EXCEPT ![q] = now] /\ UNCHANGED now
  BY <1>1, <1>5
<1>6. ASSUME NEW q \in Posts, Receive(q) PROVE at'[p] <= now'
  BY <1>4, <1>5, <1>6 DEF Receive, Answer
<1>7. ASSUME NEW q \in Posts, Authenticate(q) PROVE at'[p] <= now'
  BY <1>2, <1>4, <1>7 DEF Authenticate, Answer
<1>8. ASSUME NEW q \in Posts, Malformed(q) \/ Insert(q) \/ Abort(q) PROVE at'[p] <= now'
  BY <1>4, <1>8 DEF Malformed, Insert, Abort, Answer
<1> QED BY <1>2, <1>3, <1>6, <1>7, <1>8
    DEF Next, vars, handler, Collect, Enroll, Sign, Post, Duplicate, HearAnswer, GiveUp

\* What is neither stored nor signed again leaves the abstract store alone.
LEMMA SameReports ==
  ASSUME UNCHANGED rows, \A r \in Stored : report'[r] = report[r]
  PROVE  StoredReports' = StoredReports
<1>1. Stored' = Stored
  BY DEF Stored
<1> QED BY <1>1 DEF StoredReports

\* The insertion is the indivisible acceptance: what the handler found of the signature and
\* of the times still holds.
LEMMA InsertIsAccept ==
  ASSUME IInv, ReadTimesArePast, NEW p \in Posts, Insert(p), body[p] \notin Stored
  PROVE  \E e \in StoredReports' : Store!Accept(e)
<1> USE IngestAssumption
<1> DEFINE r == body[p]
           e == [id |-> r, content |-> report[r], observedAt |-> at[p]]
<1>1. /\ r \in Reports /\ r \in Signed
      /\ Timely(report[r], at[p]) /\ Authentic(report[r])
  BY DEF Insert, IInv, TypeOK, Handlers, HandlerInv
<1>2. UNCHANGED <<now, key, report>>
  BY DEF Insert
<1>3. rows' = [rows EXCEPT ![r] = [stored |-> TRUE, observedAt |-> at[p]]]
  BY DEF Insert
<1>4. Stored' = Stored \cup {r} /\ rows'[r].observedAt = at[p]
  BY <1>1, <1>3 DEF IInv, TypeOK, Stored
<1>5. \A s \in Stored : rows'[s] = rows[s]
  BY <1>3 DEF IInv, TypeOK, Stored
<1>6. StoredReports' = StoredReports \cup {e}
  <2>1. StoredReports' =
          {[id |-> s, content |-> report[s], observedAt |-> rows'[s].observedAt] : s \in Stored \cup {r}}
    BY <1>2, <1>4 DEF StoredReports
  <2> QED BY <2>1, <1>4, <1>5 DEF StoredReports
<1>7. e \in Store!Entry /\ at[p] <= now
  <2>1. report[r] \in Submission
    BY <1>1 DEF IInv, TypeOK, Signed
  <2>2. at[p] \in Nat /\ at[p] <= now
    BY DEF IInv, TypeOK, ReadTimesArePast
  <2> QED BY <1>1, <2>1, <2>2 DEF Store!Entry
<1>8. \A old \in StoredReports : old.id # r
  BY DEF StoredReports
<1>9. /\ key[report[r].node] = report[r].key
      /\ Store!Within(at[p], report[r].signedAt)
      /\ Store!Within(report[r].signedAt, report[r].collectedAt)
  BY <1>1 DEF Authentic, Timely, Within, Store!Within
<1>10. Store!Accept(e)
  BY <1>2, <1>6, <1>7, <1>8, <1>9 DEF Store!Accept
<1> QED BY <1>6, <1>10

LEMMA NextRefinesStore ==
  ASSUME IInv, ReadTimesArePast, [Next]_vars
  PROVE  [Store!Next]_(Store!storage)
<1>1. ASSUME UNCHANGED <<now, key, rows>>, \A r \in Stored : report'[r] = report[r]
      PROVE  UNCHANGED Store!storage
  BY <1>1, SameReports DEF Store!storage
<1>2. CASE UNCHANGED <<now, key, rows, report>>
  BY <1>1, <1>2
<1>3. CASE \E n \in Nodes, k \in Keys : Enroll(n, k)
  <2>1. PICK n \in Nodes, k \in Keys : Enroll(n, k)
    BY <1>3
  <2>2. Store!Bind(n, k)
    BY <2>1, SameReports DEF Enroll, Store!Bind
  <2> QED BY <2>2 DEF Store!Next
<1>4. CASE Tick
  <2>1. Store!Tick
    BY <1>4, SameReports DEF Tick, Store!Tick
  <2> QED BY <2>1 DEF Store!Next
<1>5. CASE \E m \in Measurements, r \in Reports, k \in Keys : Sign(m, r, k)
  <2>1. PICK m \in Measurements, r \in Reports, k \in Keys : Sign(m, r, k)
    BY <1>5
  <2>2. r \notin Stored
    BY <2>1 DEF Sign, IInv, Table, RowInv
  <2> QED BY <1>1, <2>1, <2>2 DEF Sign, IInv, TypeOK, Stored
<1>6. CASE \E p \in Posts : Insert(p)
  <2>1. PICK p \in Posts : Insert(p)
    BY <1>6
  <2>2. CASE body[p] \in Stored
    BY <1>2, <2>1, <2>2 DEF Insert
  <2>3. CASE body[p] \notin Stored
    BY <2>1, <2>3, InsertIsAccept DEF Store!Next
  <2> QED BY <2>2, <2>3
<1> QED BY <1>2, <1>3, <1>4, <1>5, <1>6
    DEF Next, vars, Collect, Post, Duplicate, Malformed, Receive, Authenticate, Abort,
        HearAnswer, GiveUp, handler

\* The handlers, for any number of them and any interleaving with enrollments and the clock,
\* implement the store that checks and inserts a report in one step.
THEOREM Refinement == Spec => ImplementsStore
<1>1. Init => Store!Init
  BY DEF Init, Store!Init, StoredReports, Stored, NoRow
<1>2. Init => ReadTimesArePast
  BY DEF Init, ReadTimesArePast
<1>3. IInv => TypeOK
  BY DEF IInv
<1>4. IInv /\ ReadTimesArePast /\ [Next]_vars => [Store!Next]_(Store!storage)
  BY NextRefinesStore
<1> QED BY <1>1, <1>2, <1>3, <1>4, ReadTimesStayPast, InductiveInvariant, PTL
    DEF Spec, ImplementsStore, Store!Spec

===============================================================================
