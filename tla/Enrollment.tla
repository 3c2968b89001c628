------------------------------ MODULE Enrollment ------------------------------
(***************************************************************************)
(* Node enrollment as the server performs it: the handlers                 *)
(* issueEnrollmentCode and secureEnroll of server/enrollment.go and the    *)
(* legacy enrollment and heartbeat of server/postgres.go, each a sequence  *)
(* of SQL statements that interleaves with those of concurrent requests.   *)
(*                                                                         *)
(* PostgreSQL runs every transaction at READ COMMITTED.  A statement sees  *)
(* the committed tables.  FOR UPDATE, UPDATE and an uncommitted INSERT     *)
(* hold a lock until the transaction ends: on a token row, on a node (its  *)
(* row, or its entry in the unique index on node_key) and on a public key  *)
(* (its entry in the unique index on identity_public_key).  A statement    *)
(* that meets another transaction's lock waits, that is, its action is not *)
(* enabled, and then looks at the committed tables again.                  *)
(*                                                                         *)
(* An action is one statement, together with the code up to the next one.  *)
(* The writes of node_status and enrollment_tokens that precede a COMMIT   *)
(* touch only rows the transaction has locked already, so they are part of *)
(* the action that commits.                                                *)
(***************************************************************************)
EXTENDS EnrollmentTables, FiniteSets

CONSTANTS
  Reqs,            \* one HTTP request each; a client that retries makes a new one
  CodeLifetime,    \* enrollmentCodeLifetime, in ticks
  MaxActiveCodes,  \* maxActiveEnrollmentCodes
  MaxTime          \* bound on the clock

ASSUME EnrollmentAssumption ==
  /\ None \notin Reqs
  /\ CodeLifetime \in Nat
  /\ MaxActiveCodes \in Nat
  /\ MaxTime \in Nat
  /\ 0 .. MaxTime + CodeLifetime \subseteq Times

VARIABLES
  now,        \* the clock
  pc,         \* the statement each request executes next
  req,        \* what each request asks for
  began,      \* the instant each request's transaction began: now() throughout it
  pend,       \* the uncommitted version of its node row
  outcome,    \* the answer of each request
  tokenLock,  \* holder of the row lock on each token
  nodeLock,   \* holder of the lock on each node
  keyLock     \* holder of the uncommitted index entry for each public key

locks == <<tokenLock, nodeLock, keyLock>>
vars == <<tables, now, pc, req, began, pend, outcome, locks>>

Request == [kind: {"none", "issue", "redeem", "enroll"}, user: Users \cup {None},
            code: Codes \cup {None}, node: Nodes \cup {None}, key: Keys \cup {None}]
Asks(k, u, c, n, pk) == [kind |-> k, user |-> u, code |-> c, node |-> n, key |-> pk]
NoRequest == Asks("none", None, None, None, None)

PC == {"idle", "insertToken", "token", "node", "insert", "key", "commit",
       "legacyInsert", "legacyLock", "legacyCommit", "done"}
Outcome == {"none", "issued", "accepted", "toomany", "invalid", "ownership", "conflict",
            "unavailable"}

Init ==
  /\ TablesInit
  /\ now = 0
  /\ pc = [r \in Reqs |-> "idle"]
  /\ req = [r \in Reqs |-> NoRequest]
  /\ began = [r \in Reqs |-> 0]
  /\ pend = [r \in Reqs |-> NoRow]
  /\ outcome = [r \in Reqs |-> "none"]
  /\ tokenLock = [c \in Codes |-> None]
  /\ nodeLock = [n \in Nodes |-> None]
  /\ keyLock = [k \in Keys |-> None]

-------------------------------------------------------------------------------

\* A lock that request r can take, or has.
Grants(lock, r) == lock \in {None, r}

Released(lock, r) == [x \in DOMAIN lock |-> IF lock[x] = r THEN None ELSE lock[x]]

Goto(r, l) == pc' = [pc EXCEPT ![r] = l]

\* COMMIT or ROLLBACK ends the transaction of r and frees its locks; r is answered o.
\* What a request asked is remembered only if it was accepted.
Finish(r, o) ==
  /\ Goto(r, "done")
  /\ outcome' = [outcome EXCEPT ![r] = o]
  /\ pend' = [pend EXCEPT ![r] = NoRow]
  /\ tokenLock' = Released(tokenLock, r)
  /\ nodeLock' = Released(nodeLock, r)
  /\ keyLock' = Released(keyLock, r)
  /\ req' = [req EXCEPT ![r] = IF o = "accepted" THEN @ ELSE NoRequest]
  /\ began' = [began EXCEPT ![r] = 0]
  /\ UNCHANGED now

\* Seeded fault: an early return without the deferred rollback.
RefuseWithoutRollback(r, o) ==
  /\ Goto(r, "done")
  /\ outcome' = [outcome EXCEPT ![r] = o]
  /\ UNCHANGED <<tables, now, req, began, pend, locks>>

\* An early return: the deferred tx.Rollback() undoes what the transaction wrote.
Refuse(r, o) == Finish(r, o) /\ UNCHANGED tables

\* A committed transaction whose COMMIT reply may be lost to the handler's deadline.
Answered(r, o) == Finish(r, o) \/ Finish(r, "unavailable")

Begin(r, q, l) ==
  /\ pc[r] = "idle"
  /\ req' = [req EXCEPT ![r] = q]
  /\ began' = [began EXCEPT ![r] = now]
  /\ Goto(r, l)
  /\ UNCHANGED <<tables, now, pend, outcome, locks>>

-------------------------------------------------------------------------------
(* CreateEnrollmentToken: count, then insert, outside any transaction.     *)

ActiveCodes(u) ==
  {c \in Codes : tokens[c].user = u /\ tokens[c].node = None /\ tokens[c].expires > now}

\* 32 random bytes: no two requests are ever given the same code.
Fresh(c) == tokens[c] = NoToken /\ \A r \in Reqs : req[r].kind = "issue" => req[r].code # c

CountTokens(r, u, c) ==
  /\ Fresh(c)
  /\ Cardinality(ActiveCodes(u)) < MaxActiveCodes
  /\ Begin(r, Asks("issue", u, c, None, None), "insertToken")

TooManyTokens(r, u) ==
  /\ pc[r] = "idle"
  /\ Cardinality(ActiveCodes(u)) >= MaxActiveCodes
  /\ Refuse(r, "toomany")

InsertToken(r) ==
  LET c == req[r].code IN
  /\ pc[r] = "insertToken"
  /\ tokens' = [tokens EXCEPT ![c] = [user |-> req[r].user, expires |-> began[r] + CodeLifetime,
                                      node |-> None, usedAt |-> 0]]
  /\ Answered(r, "issued")
  /\ UNCHANGED <<nodes, status>>

-------------------------------------------------------------------------------
(* RedeemEnrollmentToken.                                                  *)

RedeemBegin(r, c, n, k) ==
  Begin(r, Asks("redeem", None, c, n, k), "token")

\* Seeded fault: a SELECT that finds expired codes too.
RedeemableForever(r, c) == tokens[c].user # None /\ tokens[c].node = None

\* SELECT ... WHERE token_hash=$1 AND consumed_at IS NULL AND expires_at>now() FOR UPDATE
Redeemable(r, c) ==
  /\ tokens[c].user # None
  /\ tokens[c].node = None
  /\ tokens[c].expires > began[r]

SelectToken(r) ==
  LET c == req[r].code IN
  /\ pc[r] = "token"
  /\ Grants(tokenLock[c], r)
  /\ IF Redeemable(r, c)
       THEN /\ tokenLock' = [tokenLock EXCEPT ![c] = r]
            /\ Goto(r, "node")
            /\ UNCHANGED <<tables, now, req, began, pend, outcome, nodeLock, keyLock>>
       ELSE Refuse(r, "invalid")

\* SELECT ... FROM nodes WHERE node_key=$1 FOR UPDATE finds no committed row.
NodeMissing(r) ==
  /\ pc[r] = "node"
  /\ nodes[req[r].node] = NoRow
  /\ Goto(r, "insert")
  /\ UNCHANGED <<tables, now, req, began, pend, outcome, locks>>

\* Seeded fault: the key of an existing node is not compared with the one sent.
SelectNodeAnyKey(r) ==
  LET n == req[r].node IN
  /\ pc[r] = "node"
  /\ nodes[n].user = tokens[req[r].code].user
  /\ Grants(nodeLock[n], r)
  /\ nodeLock' = [nodeLock EXCEPT ![n] = r]
  /\ Goto(r, "key")
  /\ UNCHANGED <<tables, now, req, began, pend, outcome, tokenLock, keyLock>>

\* Seeded fault: the owner of an existing node is not compared.
SelectNodeAnyOwner(r) ==
  LET n == req[r].node IN
  /\ pc[r] = "node"
  /\ nodes[n] # NoRow
  /\ Grants(nodeLock[n], r)
  /\ nodes[n].key \in {None, req[r].key}
  /\ nodeLock' = [nodeLock EXCEPT ![n] = r]
  /\ Goto(r, "key")
  /\ UNCHANGED <<tables, now, req, began, pend, outcome, tokenLock, keyLock>>

\* It finds the row, and locks it before the owner and the key are compared.
SelectNode(r) ==
  LET n == req[r].node IN
  /\ pc[r] = "node"
  /\ nodes[n] # NoRow
  /\ Grants(nodeLock[n], r)
  /\ IF nodes[n].user # tokens[req[r].code].user THEN Refuse(r, "ownership")
     ELSE IF nodes[n].key \notin {None, req[r].key} THEN Refuse(r, "conflict")
     ELSE /\ nodeLock' = [nodeLock EXCEPT ![n] = r]
          /\ Goto(r, "key")
          /\ UNCHANGED <<tables, now, req, began, pend, outcome, tokenLock, keyLock>>

\* INSERT INTO nodes: the entry in the unique index on node_key.
InsertNode(r) ==
  LET n == req[r].node IN
  /\ pc[r] = "insert"
  /\ IF nodes[n] # NoRow
       THEN Refuse(r, "conflict")
       ELSE /\ Grants(nodeLock[n], r)
            /\ nodeLock' = [nodeLock EXCEPT ![n] = r]
            /\ Goto(r, "key")
            /\ UNCHANGED <<tables, now, req, began, pend, outcome, tokenLock, keyLock>>

\* INSERT writes the key sent; UPDATE writes COALESCE(identity_public_key, $3).
WrittenRow(r) ==
  LET row == nodes[req[r].node] IN
  IF row = NoRow THEN [user |-> tokens[req[r].code].user, key |-> req[r].key]
  ELSE [user |-> row.user, key |-> IF row.key = None THEN req[r].key ELSE row.key]

\* The unique index on the key: no other committed row has it.
KeyFree(n, k) == \A m \in Nodes \ {n} : nodes[m].key # k

\* Seeded fault: a check of the committed rows in place of the unique index.
WriteKeyUnindexed(r) ==
  LET n == req[r].node
      row == WrittenRow(r)
  IN
  /\ pc[r] = "key"
  /\ KeyFree(n, row.key)
  /\ pend' = [pend EXCEPT ![r] = row]
  /\ Goto(r, "commit")
  /\ UNCHANGED <<tables, now, req, began, outcome, locks>>

\* INSERT INTO nodes or UPDATE nodes: the entry in the unique index on the key.
WriteKey(r) ==
  LET n == req[r].node
      row == WrittenRow(r)
  IN
  /\ pc[r] = "key"
  /\ Grants(nodeLock[n], r)
  /\ IF ~KeyFree(n, row.key)
       THEN Refuse(r, "conflict")
       ELSE /\ Grants(keyLock[row.key], r)
            /\ nodeLock' = [nodeLock EXCEPT ![n] = r]
            /\ keyLock' = [keyLock EXCEPT ![row.key] = r]
            /\ pend' = [pend EXCEPT ![r] = row]
            /\ Goto(r, "commit")
            /\ UNCHANGED <<tables, now, req, began, outcome, tokenLock>>

\* INSERT INTO node_status ... ON CONFLICT(node_id) DO NOTHING
StatusInserted(n) == [status EXCEPT ![n] = IF @ = "none" THEN "enrolled" ELSE @]

\* UPDATE enrollment_tokens SET consumed_at, consumed_node_id
Spent(token, n, t) == [user |-> token.user, expires |-> token.expires, node |-> n, usedAt |-> t]

\* Seeded fault: the code is not marked as consumed.
CommitUnspent(r) ==
  LET n == req[r].node IN
  /\ pc[r] = "commit"
  /\ nodes' = [nodes EXCEPT ![n] = pend[r]]
  /\ status' = StatusInserted(n)
  /\ Answered(r, "accepted")
  /\ UNCHANGED tokens

\* INSERT INTO node_status, UPDATE enrollment_tokens ... WHERE consumed_at IS NULL, COMMIT
CommitRedeem(r) ==
  LET c == req[r].code
      n == req[r].node
  IN
  /\ pc[r] = "commit"
  /\ IF tokens[c].node # None
       THEN Refuse(r, "invalid")
       ELSE /\ nodes' = [nodes EXCEPT ![n] = pend[r]]
            /\ status' = StatusInserted(n)
            /\ tokens' = [tokens EXCEPT ![c] = Spent(@, n, began[r])]
            /\ Answered(r, "accepted")

-------------------------------------------------------------------------------
(* Enroll (legacy, bearer of the development token) and Heartbeat.         *)

EnrollBegin(r, n) ==
  Begin(r, Asks("enroll", None, None, n, None), "legacyInsert")

\* INSERT INTO nodes ... ON CONFLICT(node_key) DO NOTHING
LegacyInsert(r) ==
  LET n == req[r].node IN
  /\ pc[r] = "legacyInsert"
  /\ Grants(nodeLock[n], r) \/ nodes[n] # NoRow
  /\ Goto(r, "legacyLock")
  /\ IF nodes[n] # NoRow
       THEN UNCHANGED <<pend, nodeLock>>
       ELSE /\ pend' = [pend EXCEPT ![r] = [user |-> Owner, key |-> None]]
            /\ nodeLock' = [nodeLock EXCEPT ![n] = r]
  /\ UNCHANGED <<tables, now, req, began, outcome, tokenLock, keyLock>>

\* Seeded fault: re-enrollment writes the whole row, the key it does not know included.
LegacyLockUpsert(r) ==
  LET n == req[r].node IN
  /\ pc[r] = "legacyLock"
  /\ Grants(nodeLock[n], r)
  /\ nodes[n].user \in {None, Owner}
  /\ nodeLock' = [nodeLock EXCEPT ![n] = r]
  /\ pend' = [pend EXCEPT ![r] = [user |-> Owner, key |-> None]]
  /\ Goto(r, "legacyCommit")
  /\ UNCHANGED <<tables, now, req, began, outcome, tokenLock, keyLock>>

\* SELECT ... FOR UPDATE, the owner comparison and UPDATE nodes SET agent_version
LegacyLock(r) ==
  LET n == req[r].node
      row == IF pend[r] # NoRow THEN pend[r] ELSE nodes[n]
  IN
  /\ pc[r] = "legacyLock"
  /\ Grants(nodeLock[n], r)
  /\ IF row.user # Owner
       THEN Refuse(r, "ownership")
       ELSE /\ nodeLock' = [nodeLock EXCEPT ![n] = r]
            /\ pend' = [pend EXCEPT ![r] = row]
            /\ Goto(r, "legacyCommit")
            /\ UNCHANGED <<tables, now, req, began, outcome, tokenLock, keyLock>>

\* INSERT INTO node_status, COMMIT
CommitLegacy(r) ==
  LET n == req[r].node IN
  /\ pc[r] = "legacyCommit"
  /\ nodes' = [nodes EXCEPT ![n] = pend[r]]
  /\ status' = StatusInserted(n)
  /\ Answered(r, "accepted")
  /\ UNCHANGED tokens

\* One UPDATE statement, on the nodes of the legacy account only.
Heartbeat(n) ==
  /\ nodes[n].user = Owner
  /\ status[n] # "none"
  /\ status' = [status EXCEPT ![n] = "online"]
  /\ UNCHANGED <<tokens, nodes, now, pc, req, began, pend, outcome, locks>>

-------------------------------------------------------------------------------

(***************************************************************************)
(* The handler's deadline, a lost connection, a crash of the server or of  *)
(* the database before COMMIT: the transaction is rolled back.             *)
(***************************************************************************)
Abort(r) == pc[r] \notin {"idle", "done"} /\ Refuse(r, "unavailable")

Tick ==
  /\ now < MaxTime
  /\ now' = now + 1
  /\ UNCHANGED <<tables, pc, req, began, pend, outcome, locks>>

Arrive(r) ==
  \/ \E u \in Users : TooManyTokens(r, u) \/ \E c \in Codes : CountTokens(r, u, c)
  \/ \E c \in Codes, n \in Nodes, k \in Keys : RedeemBegin(r, c, n, k)
  \/ \E n \in Nodes : EnrollBegin(r, n)

\* The next statement of a request that has begun.
Step(r) ==
  \/ InsertToken(r)
  \/ SelectToken(r) \/ NodeMissing(r) \/ SelectNode(r) \/ InsertNode(r)
  \/ WriteKey(r) \/ CommitRedeem(r)
  \/ LegacyInsert(r) \/ LegacyLock(r) \/ CommitLegacy(r)

Next ==
  \/ \E r \in Reqs : Arrive(r) \/ Step(r) \/ Abort(r)
  \/ \E n \in Nodes : Heartbeat(n)
  \/ Tick

Spec == Init /\ [][Next]_vars

\* The server and the database keep executing statements; clients and clock may stop.
FairSpec == Spec /\ \A r \in Reqs : WF_vars(Step(r))

-------------------------------------------------------------------------------
(* Properties.                                                             *)

\* Every variable holds a value of its table, lock or request type; in particular every
\* node row in the table belongs to an account, whatever code the request presented.
TypeOK ==
  /\ TablesOK
  /\ now \in 0 .. MaxTime
  /\ pc \in [Reqs -> PC]
  /\ req \in [Reqs -> Request]
  /\ began \in [Reqs -> 0 .. MaxTime]
  /\ pend \in [Reqs -> NodeRow \cup {NoRow}]
  /\ outcome \in [Reqs -> Outcome]
  /\ tokenLock \in [Codes -> Reqs \cup {None}]
  /\ nodeLock \in [Nodes -> Reqs \cup {None}]
  /\ keyLock \in [Keys -> Reqs \cup {None}]

\* A public key identifies one node, however many enrollments present it at once
\* (RedeemEnrollmentToken's two writes of identity_public_key).
KeyBindsOneNode ==
  \A m, n \in Nodes : m # n /\ nodes[m].key # None => nodes[n].key # nodes[m].key

\* Redemption is all or nothing: a consumed code names a node of the code's own account
\* that has a key and is listed, and it was consumed by a transaction begun before expiry.
SpentCodeBoundNode ==
  \A c \in Codes : tokens[c].node # None =>
    /\ nodes[tokens[c].node].user = tokens[c].user
    /\ nodes[tokens[c].node].key # None
    /\ status[tokens[c].node] # "none"
    /\ tokens[c].usedAt < tokens[c].expires

\* Of all the requests that redeem one code, retries included, secureEnroll accepts one.
CodeAcceptedOnce ==
  \A r, s \in Reqs :
    /\ req[r].kind = "redeem" /\ outcome[r] = "accepted"
    /\ req[s].kind = "redeem" /\ outcome[s] = "accepted"
    /\ req[r].code = req[s].code
    => r = s

\* What the answer to request r said: the node belongs to the account of the code, under
\* the key the request sent, and the code is spent on it.
Bound(r) ==
  LET c == req[r].code
      n == req[r].node
  IN \/ /\ req[r].kind = "redeem"
        /\ nodes[n] = [user |-> tokens[c].user, key |-> req[r].key]
        /\ tokens[c].node = n
     \/ req[r].kind = "enroll" /\ nodes[n].user = Owner

\* An accepted enrollment stays true: from the answer on, the committed tables keep what
\* secureEnroll or the legacy enroll reported to the agent.
AcceptedIsBound == \A r \in Reqs : outcome[r] = "accepted" => Bound(r)

\* Every node in the table has a status row: NodesForUser joins the two, and a node
\* without one would be owned but neither listed nor able to send a heartbeat.
NodeIsListed == \A n \in Nodes : nodes[n] # NoRow <=> status[n] # "none"

\* No step moves a node to another account, deletes it, or replaces its key.
IdentityImmutable ==
  [][\A n \in Nodes : nodes[n] # NoRow =>
       /\ nodes'[n].user = nodes[n].user
       /\ nodes[n].key # None => nodes'[n].key = nodes[n].key]_vars

\* Enrolling again, by either path, leaves the status of a node that is online alone.
ReenrollKeepsHeartbeat ==
  [][\A n \in Nodes : status[n] = "online" => status'[n] = "online"]_vars

\* Request r cannot execute its next statement until request s ends.
WaitsFor(r, s) ==
  LET c == req[r].code
      n == req[r].node
  IN
  /\ r # s
  /\ \/ pc[r] = "token" /\ tokenLock[c] = s
     \/ pc[r] = "node" /\ nodes[n] # NoRow /\ nodeLock[n] = s
     \/ pc[r] \in {"insert", "legacyInsert"} /\ nodes[n] = NoRow /\ nodeLock[n] = s
     \/ pc[r] \in {"key", "legacyLock"} /\ nodeLock[n] = s
     \/ pc[r] = "key" /\ KeyFree(n, WrittenRow(r).key) /\ keyLock[WrittenRow(r).key] = s

\* The transactions take token, node and key in one order, and every return gives them
\* back: no set of requests waits for each other or for requests that have ended.
NoStuckWait ==
  ~ \E S \in SUBSET Reqs :
      /\ S # {}
      /\ \A r \in S : \E s \in Reqs : WaitsFor(r, s) /\ (s \in S \/ pc[s] = "done")

\* Every request that has begun is answered, though no deadline ever strikes.
EveryRequestAnswered ==
  \A r \in Reqs : pc[r] # "idle" ~> pc[r] = "done"

Registry == INSTANCE EnrollmentRegistry
  WITH tokens <- tokens, nodes <- nodes, status <- status

\* Seen from outside, the interleaved statements are indivisible enrollments: each commit
\* is one step of the registry, with all its preconditions true at that moment.
ImplementsRegistry == Registry!Spec

\* maxActiveEnrollmentCodes: an account never has more codes that can be redeemed.
ActiveCodesBounded == \A u \in Users : Cardinality(ActiveCodes(u)) <= MaxActiveCodes

===============================================================================
