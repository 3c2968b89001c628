--------------------------- MODULE EnrollmentProofs ---------------------------
(***************************************************************************)
(* Proofs about Enrollment, for any number of accounts, codes, nodes, keys *)
(* and requests.  What a request may rely on between two of its statements *)
(* is written down per program counter (RedeemInv, LegacyInv, IssueInv):   *)
(* the locks it holds are what keeps it true while others run.             *)
(***************************************************************************)
EXTENDS Enrollment, TLAPS

\* An in-flight redemption holds its token, then its node, then its key; while it holds
\* one, what it read of it stays true.
RedeemInv(r) ==
  LET c == req[r].code
      n == req[r].node
      k == req[r].key
      u == tokens[c].user
  IN
  /\ pc[r] \in {"token", "node", "insert", "key", "commit"} =>
       req[r].kind = "redeem" /\ c \in Codes /\ n \in Nodes /\ k \in Keys
  /\ pc[r] \in {"node", "insert", "key", "commit"} => tokenLock[c] = r /\ Redeemable(r, c)
  /\ pc[r] \in {"key", "commit"} =>
       nodeLock[n] = r /\ (nodes[n] = NoRow \/ (nodes[n].user = u /\ nodes[n].key \in {None, k}))
  /\ pc[r] = "commit" =>
       pend[r] = [user |-> u, key |-> k] /\ keyLock[k] = r /\ KeyFree(n, k)

\* An in-flight legacy enrollment: a row it wrote itself, or a committed row it re-reads.
LegacyInv(r) ==
  LET n == req[r].node IN
  /\ pc[r] \in {"legacyInsert", "legacyLock", "legacyCommit"} =>
       req[r].kind = "enroll" /\ n \in Nodes
  /\ pc[r] = "legacyLock" =>
       IF pend[r] = NoRow THEN nodes[n] # NoRow
       ELSE nodes[n] = NoRow /\ nodeLock[n] = r /\ pend[r] = [user |-> Owner, key |-> None]
  /\ pc[r] = "legacyCommit" =>
       /\ nodeLock[n] = r
       /\ nodes[n].user \in {None, Owner}
       /\ pend[r] = [user |-> Owner, key |-> nodes[n].key]

\* A code about to be inserted is in no row and in no other request.
IssueInv(r) ==
  pc[r] = "insertToken" =>
    /\ req[r].kind = "issue" /\ req[r].user \in Users /\ req[r].code \in Codes
    /\ tokens[req[r].code] = NoToken
    /\ \A s \in Reqs : s # r /\ pc[s] = "insertToken" => req[s].code # req[r].code

\* Only requests that have ended were accepted; only those past their write have a row.
HistoryInv(r) ==
  /\ outcome[r] = "accepted" =>
       /\ pc[r] = "done"
       /\ req[r].node \in Nodes
       /\ req[r].kind \in {"redeem", "enroll"}
       /\ req[r].kind = "redeem" => req[r].code \in Codes
  /\ pc[r] \notin {"legacyLock", "commit", "legacyCommit"} => pend[r] = NoRow

TxInv == \A r \in Reqs : RedeemInv(r) /\ LegacyInv(r) /\ IssueInv(r) /\ HistoryInv(r)

TableInv ==
  /\ KeyBindsOneNode
  /\ SpentCodeBoundNode
  /\ NodeIsListed

IInv == TypeOK /\ TxInv /\ TableInv /\ AcceptedIsBound /\ CodeAcceptedOnce

USE EnrollmentAssumption, TableAssumption

\* The initial state satisfies the inductive invariant.
LEMMA InitIInv == Init => IInv
  BY DEF Init, IInv, TypeOK, TxInv, TableInv, AcceptedIsBound, CodeAcceptedOnce, TablesInit,
         TablesOK, RedeemInv, LegacyInv, IssueInv, HistoryInv, KeyBindsOneNode,
         SpentCodeBoundNode, NodeIsListed, PC, Request, NoRequest, Asks, Outcome, Token, NoToken,
         NodeRow, NoRow, NodeStatus

\* An early return or a rollback, from wherever the request stands, keeps the invariant.
LEMMA RefuseKeepsIInv ==
  ASSUME IInv, NEW r \in Reqs, NEW o \in Outcome \ {"accepted"}, Refuse(r, o)
  PROVE  IInv'
<1> USE DEF IInv, TypeOK, TablesOK, Refuse, Finish, Goto, Released, tables
<1>1. TypeOK'
  BY DEF PC, Outcome, Request, NoRequest, Asks
<1>2. TxInv'
  <2> SUFFICES ASSUME NEW s \in Reqs
               PROVE  (RedeemInv(s) /\ LegacyInv(s) /\ IssueInv(s) /\ HistoryInv(s))'
    BY DEF TxInv
  <2>1. RedeemInv(s) /\ LegacyInv(s) /\ IssueInv(s) /\ HistoryInv(s)
    BY DEF TxInv
  <2>2. CASE s = r
    BY <2>2 DEF RedeemInv, LegacyInv, IssueInv, HistoryInv
  <2>3. CASE s # r
    <3>1. RedeemInv(s)'
      BY <2>1, <2>3 DEF RedeemInv, Redeemable, KeyFree
    <3>2. LegacyInv(s)'
      BY <2>1, <2>3 DEF LegacyInv
    <3>3. IssueInv(s)' /\ HistoryInv(s)'
      BY <2>1, <2>3 DEF IssueInv, HistoryInv
    <3> QED BY <3>1, <3>2, <3>3
  <2> QED BY <2>2, <2>3
<1>3. TableInv'
  BY DEF TableInv, KeyBindsOneNode, SpentCodeBoundNode, NodeIsListed
<1>4. AcceptedIsBound' /\ CodeAcceptedOnce'
  BY DEF AcceptedIsBound, Bound, CodeAcceptedOnce
<1> QED BY <1>1, <1>2, <1>3, <1>4

\* A step of request r that commits nothing: the tables and the other requests are as
\* they were, and no lock changes hands except to or from r.
LocalStep(r) ==
  /\ UNCHANGED tables
  /\ \A s \in Reqs \ {r} :
       /\ pc'[s] = pc[s] /\ req'[s] = req[s] /\ began'[s] = began[s]
       /\ pend'[s] = pend[s] /\ outcome'[s] = outcome[s]
  /\ \A c \in Codes : tokenLock[c] \in Reqs \ {r} => tokenLock'[c] = tokenLock[c]
  /\ \A n \in Nodes : nodeLock[n] \in Reqs \ {r} => nodeLock'[n] = nodeLock[n]
  /\ \A k \in Keys : keyLock[k] \in Reqs \ {r} => keyLock'[k] = keyLock[k]

\* A local step of r disturbs nothing another request relies on.
LEMMA LocalStepFrame ==
  ASSUME IInv, NEW r \in Reqs, LocalStep(r), NEW s \in Reqs \ {r}
  PROVE  RedeemInv(s)' /\ LegacyInv(s)' /\ HistoryInv(s)'
<1> USE DEF LocalStep, tables
<1>0. RedeemInv(s) /\ LegacyInv(s) /\ HistoryInv(s)
  BY DEF IInv, TxInv
<1>1. RedeemInv(s)'
  BY <1>0 DEF RedeemInv, Redeemable, KeyFree
<1>2. LegacyInv(s)'
  BY <1>0 DEF LegacyInv
<1>3. HistoryInv(s)'
  BY <1>0 DEF HistoryInv
<1> QED BY <1>1, <1>2, <1>3

\* With its own clauses and the type invariant, a local step keeps the whole invariant.
LEMMA LocalStepKeepsIInv ==
  ASSUME IInv, NEW r \in Reqs, LocalStep(r), TypeOK',
         outcome'[r] = outcome[r], outcome[r] # "accepted", pc'[r] # "insertToken",
         (RedeemInv(r) /\ LegacyInv(r) /\ HistoryInv(r))'
  PROVE  IInv'
<1> USE DEF LocalStep, tables
<1>1. TxInv'
  <2> SUFFICES ASSUME NEW s \in Reqs
               PROVE  (RedeemInv(s) /\ LegacyInv(s) /\ IssueInv(s) /\ HistoryInv(s))'
    BY DEF TxInv
  <2>1. (RedeemInv(s) /\ LegacyInv(s) /\ HistoryInv(s))'
    BY LocalStepFrame
  <2>2. IssueInv(s)'
    BY DEF IInv, TxInv, IssueInv
  <2> QED BY <2>1, <2>2
<1>2. TableInv'
  BY DEF IInv, TableInv, KeyBindsOneNode, SpentCodeBoundNode, NodeIsListed
<1>3. AcceptedIsBound' /\ CodeAcceptedOnce'
  BY DEF IInv, AcceptedIsBound, Bound, CodeAcceptedOnce
<1> QED BY <1>1, <1>2, <1>3 DEF IInv

\* Whether it inserts or updates, a redemption that gets to its write writes its own key
\* under the account of its code.
LEMMA WrittenRowValue ==
  ASSUME IInv, NEW r \in Reqs, pc[r] = "key"
  PROVE  /\ WrittenRow(r) = [user |-> tokens[req[r].code].user, key |-> req[r].key]
         /\ WrittenRow(r) \in NodeRow
<1>0. RedeemInv(r)
  BY DEF IInv, TxInv
<1>1. req[r].code \in Codes /\ req[r].node \in Nodes /\ req[r].key \in Keys
  BY <1>0 DEF RedeemInv
<1>2. tokens[req[r].code].user \in Users
  BY <1>0, <1>1 DEF IInv, TypeOK, TablesOK, RedeemInv, Redeemable, Token, NoToken
<1>3. \/ nodes[req[r].node] = NoRow
      \/ /\ nodes[req[r].node].user = tokens[req[r].code].user
         /\ nodes[req[r].node].key = None \/ nodes[req[r].node].key = req[r].key
  BY <1>0 DEF RedeemInv
<1>4. WrittenRow(r) = [user |-> tokens[req[r].code].user, key |-> req[r].key]
  BY <1>3 DEF WrittenRow
<1> QED BY <1>1, <1>2, <1>4 DEF NodeRow

\* The statements that only take locks and write uncommitted rows.
LEMMA StatementKeepsIInv ==
  ASSUME IInv, NEW r \in Reqs,
         \/ SelectToken(r) \/ NodeMissing(r) \/ SelectNode(r) \/ InsertNode(r)
         \/ WriteKey(r) \/ LegacyInsert(r) \/ LegacyLock(r)
  PROVE  IInv'
<1> USE DEF IInv, TypeOK, TablesOK
<1>0. RedeemInv(r) /\ LegacyInv(r) /\ HistoryInv(r)
  BY DEF TxInv
<1>1. CASE SelectToken(r)
  <2>1. CASE ~Redeemable(r, req[r].code)
    BY <1>1, <2>1, RefuseKeepsIInv DEF SelectToken, Outcome
  <2>2. CASE Redeemable(r, req[r].code)
    <3>1. LocalStep(r)
      BY <1>0, <1>1, <2>2 DEF LocalStep, SelectToken, RedeemInv, Grants, Goto, tables
    <3>2. TypeOK'
      BY <1>0, <1>1, <2>2 DEF SelectToken, RedeemInv, Goto, PC, tables
    <3>3. (RedeemInv(r) /\ LegacyInv(r) /\ HistoryInv(r))'
      BY <1>0, <1>1, <2>2 DEF SelectToken, Goto, tables, RedeemInv, LegacyInv, HistoryInv, Redeemable
    <3> QED BY <1>0, <1>1, <2>2, <3>1, <3>2, <3>3, LocalStepKeepsIInv
              DEF SelectToken, Goto, HistoryInv
  <2> QED BY <2>1, <2>2
<1>2. CASE NodeMissing(r)
  <2>1. LocalStep(r) /\ TypeOK'
    BY <1>2 DEF LocalStep, NodeMissing, Goto, tables, locks, PC
  <2>2. (RedeemInv(r) /\ LegacyInv(r) /\ HistoryInv(r))'
    BY <1>0, <1>2 DEF NodeMissing, Goto, tables, locks, RedeemInv, LegacyInv, HistoryInv, Redeemable
  <2> QED BY <1>0, <1>2, <2>1, <2>2, LocalStepKeepsIInv DEF NodeMissing, Goto, HistoryInv
<1>3. CASE SelectNode(r)
  <2> DEFINE n == req[r].node
             u == tokens[req[r].code].user
             Ok == nodes[n].user = u /\ nodes[n].key \in {None, req[r].key}
  <2>1. CASE ~Ok
    <3>1. Refuse(r, "ownership") \/ Refuse(r, "conflict")
      BY <1>3, <2>1 DEF SelectNode
    <3> QED BY <3>1, RefuseKeepsIInv DEF Outcome
  <2>2. CASE Ok
    <3>0. /\ pc[r] = "node" /\ nodes[n] # NoRow /\ Grants(nodeLock[n], r)
          /\ nodeLock' = [nodeLock EXCEPT ![n] = r]
          /\ Goto(r, "key")
          /\ UNCHANGED <<tables, now, req, began, pend, outcome, tokenLock, keyLock>>
      BY <1>3, <2>2 DEF SelectNode
    <3>1. LocalStep(r)
      BY <1>0, <3>0 DEF LocalStep, RedeemInv, Grants, Goto, tables
    <3>2. TypeOK'
      BY <1>0, <3>0 DEF RedeemInv, Goto, PC, tables
    <3>3. (RedeemInv(r) /\ LegacyInv(r) /\ HistoryInv(r))'
      BY <1>0, <2>2, <3>0 DEF Goto, tables, RedeemInv, LegacyInv, HistoryInv, Redeemable
    <3> QED BY <1>0, <3>0, <3>1, <3>2, <3>3, LocalStepKeepsIInv DEF Goto, HistoryInv
  <2> QED BY <2>1, <2>2
<1>4. CASE InsertNode(r)
  <2>1. CASE nodes[req[r].node] # NoRow
    BY <1>4, <2>1, RefuseKeepsIInv DEF InsertNode, Outcome
  <2>2. CASE nodes[req[r].node] = NoRow
    <3>1. LocalStep(r)
      BY <1>0, <1>4, <2>2 DEF LocalStep, InsertNode, RedeemInv, Grants, Goto, tables
    <3>2. TypeOK'
      BY <1>0, <1>4, <2>2 DEF InsertNode, RedeemInv, Goto, PC, tables
    <3>3. (RedeemInv(r) /\ LegacyInv(r) /\ HistoryInv(r))'
      BY <1>0, <1>4, <2>2 DEF InsertNode, Goto, tables, RedeemInv, LegacyInv, HistoryInv, Redeemable
    <3> QED BY <1>0, <1>4, <2>2, <3>1, <3>2, <3>3, LocalStepKeepsIInv
              DEF InsertNode, Goto, HistoryInv
  <2> QED BY <2>1, <2>2
<1>5. CASE WriteKey(r)
  <2> DEFINE n == req[r].node
             row == WrittenRow(r)
  <2>0. row = [user |-> tokens[req[r].code].user, key |-> req[r].key] /\ row \in NodeRow
    BY <1>5, WrittenRowValue DEF WriteKey
  <2>1. CASE ~KeyFree(n, row.key)
    BY <1>5, <2>1, RefuseKeepsIInv DEF WriteKey, Outcome
  <2>2. CASE KeyFree(n, row.key)
    <3>1. LocalStep(r)
      BY <1>0, <1>5, <2>0, <2>2 DEF LocalStep, WriteKey, RedeemInv, Grants, Goto, tables
    <3>2. TypeOK'
      BY <1>0, <1>5, <2>0, <2>2 DEF WriteKey, RedeemInv, Goto, PC, tables
    <3>3. (RedeemInv(r) /\ LegacyInv(r) /\ HistoryInv(r))'
      BY <1>0, <1>5, <2>0, <2>2
         DEF WriteKey, Goto, tables, RedeemInv, LegacyInv, HistoryInv, Redeemable, KeyFree
    <3> QED BY <1>0, <1>5, <2>2, <3>1, <3>2, <3>3, LocalStepKeepsIInv
              DEF WriteKey, Goto, HistoryInv
  <2> QED BY <2>1, <2>2
<1>6. CASE LegacyInsert(r)
  <2>1. LocalStep(r)
    BY <1>0, <1>6 DEF LocalStep, LegacyInsert, LegacyInv, Grants, Goto, tables
  <2>2. TypeOK'
    BY <1>0, <1>6 DEF LegacyInsert, LegacyInv, Goto, PC, tables, NodeRow
  <2>3. (RedeemInv(r) /\ LegacyInv(r) /\ HistoryInv(r))'
    BY <1>0, <1>6 DEF LegacyInsert, Goto, tables, RedeemInv, LegacyInv, HistoryInv, NoRow
  <2> QED BY <1>0, <1>6, <2>1, <2>2, <2>3, LocalStepKeepsIInv DEF LegacyInsert, Goto, HistoryInv
<1>7. CASE LegacyLock(r)
  <2> DEFINE n == req[r].node
             row == IF pend[r] # NoRow THEN pend[r] ELSE nodes[n]
  <2>1. CASE row.user # Owner
    BY <1>7, <2>1, RefuseKeepsIInv DEF LegacyLock, Outcome
  <2>2. CASE row.user = Owner
    <3>1. LocalStep(r)
      BY <1>0, <1>7, <2>2 DEF LocalStep, LegacyLock, LegacyInv, Grants, Goto, tables
    <3>2. TypeOK'
      BY <1>0, <1>7, <2>2 DEF LegacyLock, LegacyInv, Goto, PC, tables
    <3>3. row = [user |-> Owner, key |-> nodes[n].key] /\ nodes[n].user \in {None, Owner}
      BY <1>0, <1>7, <2>2 DEF LegacyLock, LegacyInv, NodeRow, NoRow
    <3>4. (RedeemInv(r) /\ LegacyInv(r) /\ HistoryInv(r))'
      BY <1>0, <1>7, <2>2, <3>3 DEF LegacyLock, Goto, tables, RedeemInv, LegacyInv, HistoryInv
    <3> QED BY <1>0, <1>7, <2>2, <3>1, <3>2, <3>4, LocalStepKeepsIInv
              DEF LegacyLock, Goto, HistoryInv
  <2> QED BY <2>1, <2>2
<1> QED BY <1>1, <1>2, <1>3, <1>4, <1>5, <1>6, <1>7

\* The arrival of a request.
LEMMA ArriveKeepsIInv ==
  ASSUME IInv, NEW r \in Reqs, Arrive(r)
  PROVE  IInv'
<1> USE DEF IInv, TypeOK, TablesOK
<1>0. HistoryInv(r)
  BY DEF TxInv
<1>1. ASSUME NEW q \in Request, NEW l \in {"token", "legacyInsert"}, Begin(r, q, l),
             l = "token" => q.kind = "redeem" /\ q.code \in Codes /\ q.node \in Nodes /\ q.key \in Keys,
             l = "legacyInsert" => q.kind = "enroll" /\ q.node \in Nodes
      PROVE  IInv'
  <2>1. LocalStep(r)
    BY <1>1 DEF Begin, Goto, LocalStep, tables, locks
  <2>2. TypeOK'
    BY <1>1 DEF Begin, Goto, PC, tables, locks
  <2>3. (RedeemInv(r) /\ LegacyInv(r) /\ HistoryInv(r))'
    BY <1>0, <1>1 DEF Begin, Goto, RedeemInv, LegacyInv, HistoryInv, tables, locks
  <2> QED BY <1>0, <1>1, <2>1, <2>2, <2>3, LocalStepKeepsIInv DEF Begin, Goto, HistoryInv
<1>2. CASE \E u \in Users : TooManyTokens(r, u)
  BY <1>2, RefuseKeepsIInv DEF TooManyTokens, Outcome
<1>3. ASSUME NEW u \in Users, NEW c \in Codes, CountTokens(r, u, c)
      PROVE  IInv'
  <2> DEFINE q == Asks("issue", u, c, None, None)
  <2>0. /\ q \in Request /\ q.kind = "issue" /\ q.user = u /\ q.code = c
        /\ Fresh(c) /\ Begin(r, q, "insertToken")
    BY <1>3 DEF CountTokens, Asks, Request
  <2> HIDE DEF q
  <2>1. LocalStep(r)
    BY <2>0 DEF Begin, Goto, LocalStep, tables, locks
  <2>2. TypeOK'
    BY <2>0 DEF Begin, Goto, PC, tables, locks
  <2>3. (RedeemInv(r) /\ LegacyInv(r) /\ HistoryInv(r))'
    BY <1>0, <2>0 DEF Begin, Goto, RedeemInv, LegacyInv, HistoryInv, tables, locks
  <2>4. TxInv'
    <3> SUFFICES ASSUME NEW s \in Reqs
                 PROVE  (RedeemInv(s) /\ LegacyInv(s) /\ IssueInv(s) /\ HistoryInv(s))'
      BY DEF TxInv
    <3>1. (RedeemInv(s) /\ LegacyInv(s) /\ HistoryInv(s))'
      BY <2>1, <2>3, LocalStepFrame
    <3>2. IssueInv(s)'
      BY <2>0 DEF Begin, Goto, Fresh, TxInv, IssueInv, tables
    <3> QED BY <3>1, <3>2
  <2>5. TableInv'
    BY <2>0 DEF Begin, TableInv, KeyBindsOneNode, SpentCodeBoundNode, NodeIsListed, tables
  <2>6. AcceptedIsBound' /\ CodeAcceptedOnce'
    BY <1>0, <2>0 DEF Begin, AcceptedIsBound, Bound, CodeAcceptedOnce, HistoryInv, tables
  <2> QED BY <2>2, <2>4, <2>5, <2>6
<1>4. ASSUME NEW c \in Codes, NEW n \in Nodes, NEW k \in Keys, RedeemBegin(r, c, n, k)
      PROVE  IInv'
  <2> DEFINE q == Asks("redeem", None, c, n, k)
  <2>1. q \in Request /\ q.kind = "redeem" /\ q.code = c /\ q.node = n /\ q.key = k
    BY DEF Asks, Request
  <2> QED BY <1>1, <1>4, <2>1 DEF RedeemBegin
<1>5. ASSUME NEW n \in Nodes, EnrollBegin(r, n)
      PROVE  IInv'
  <2> DEFINE q == Asks("enroll", None, None, n, None)
  <2>1. q \in Request /\ q.kind = "enroll" /\ q.node = n
    BY DEF Asks, Request
  <2> QED BY <1>1, <1>5, <2>1 DEF EnrollBegin
<1> QED BY <1>2, <1>3, <1>4, <1>5 DEF Arrive

\* The insertion of a code by CreateEnrollmentToken.
LEMMA InsertTokenKeepsIInv ==
  ASSUME IInv, NEW r \in Reqs, InsertToken(r)
  PROVE  IInv'
<1> USE DEF IInv, TypeOK, TablesOK
<1> DEFINE c == req[r].code
<1>0. PICK o \in {"issued", "unavailable"} : Finish(r, o)
  BY DEF InsertToken, Answered
<1>1. /\ pc[r] = "insertToken" /\ c \in Codes /\ req[r].user \in Users
      /\ tokens[c] = NoToken /\ tokens[c].user = None /\ tokens[c].node = None
      /\ nodes' = nodes /\ status' = status
  BY DEF InsertToken, TxInv, IssueInv, NoToken
<1>2. tokens' \in [Codes -> Token \cup {NoToken}]
  <2>1. [user |-> req[r].user, expires |-> began[r] + CodeLifetime, node |-> None, usedAt |-> 0]
          \in Token
    BY <1>1 DEF Token
  <2> QED BY <2>1 DEF InsertToken
<1>3. TypeOK'
  BY <1>0, <1>1, <1>2 DEF Finish, Goto, Released, PC, Outcome, Request, NoRequest, Asks
<1>4. /\ \A d \in Codes \ {c} : tokens'[d] = tokens[d]
      /\ tokens'[c].node = None
  BY <1>1 DEF InsertToken
<1>5. TxInv'
  <2> SUFFICES ASSUME NEW s \in Reqs
               PROVE  (RedeemInv(s) /\ LegacyInv(s) /\ IssueInv(s) /\ HistoryInv(s))'
    BY DEF TxInv
  <2>1. RedeemInv(s) /\ LegacyInv(s) /\ IssueInv(s) /\ HistoryInv(s) /\ IssueInv(r)
    BY DEF TxInv
  <2>2. CASE s = r
    BY <1>0, <2>2 DEF Finish, Goto, RedeemInv, LegacyInv, IssueInv, HistoryInv
  <2>3. CASE s # r
    <3> USE <1>0, <1>1, <1>4, <2>1, <2>3 DEF Finish, Goto, Released
    <3>1. RedeemInv(s)'
      BY DEF RedeemInv, Redeemable, KeyFree
    <3>2. LegacyInv(s)' /\ HistoryInv(s)'
      BY DEF LegacyInv, HistoryInv
    <3>3. IssueInv(s)'
      BY DEF IssueInv
    <3> QED BY <3>1, <3>2, <3>3
  <2> QED BY <2>2, <2>3
<1>6. TableInv'
  BY <1>1, <1>4 DEF TableInv, KeyBindsOneNode, SpentCodeBoundNode, NodeIsListed
<1>7. AcceptedIsBound' /\ CodeAcceptedOnce'
  <2>1. \A s \in Reqs : outcome'[s] = "accepted" =>
          s # r /\ outcome[s] = "accepted" /\ req'[s] = req[s]
    BY <1>0 DEF Finish
  <2>2. CodeAcceptedOnce'
    BY <2>1 DEF CodeAcceptedOnce
  <2>3. AcceptedIsBound'
    <3>1. ASSUME NEW s \in Reqs, outcome[s] = "accepted", req[s].kind = "redeem"
          PROVE  req[s].code \in Codes \ {c}
      <4>1. req[s].code \in Codes /\ req[s].node \in Nodes
        BY <3>1 DEF TxInv, HistoryInv
      <4>2. tokens[req[s].code].node = req[s].node
        BY <3>1 DEF AcceptedIsBound, Bound
      <4> QED BY <1>1, <4>1, <4>2
    <3>2. \A s \in Reqs : outcome[s] = "accepted" /\ req[s].kind = "redeem" =>
            tokens'[req[s].code] = tokens[req[s].code]
      BY <1>4, <3>1
    <3> SUFFICES ASSUME NEW s \in Reqs, outcome'[s] = "accepted"
                 PROVE  Bound(s)'
      BY DEF AcceptedIsBound
    <3>3. Bound(s)
      BY <2>1 DEF AcceptedIsBound
    <3> QED BY <1>1, <2>1, <3>2, <3>3 DEF Bound
  <2> QED BY <2>2, <2>3
<1> QED BY <1>3, <1>5, <1>6, <1>7

\* The commit of a redemption.
LEMMA CommitRedeemKeepsIInv ==
  ASSUME IInv, NEW r \in Reqs, CommitRedeem(r)
  PROVE  IInv'
<1> USE DEF IInv, TypeOK, TablesOK
<1> DEFINE c == req[r].code
           n == req[r].node
           k == req[r].key
           u == tokens[c].user
<1>1. /\ pc[r] = "commit" /\ req[r].kind = "redeem" /\ c \in Codes /\ n \in Nodes /\ k \in Keys
      /\ tokenLock[c] = r /\ nodeLock[n] = r /\ keyLock[k] = r
      /\ u # None /\ tokens[c].node = None /\ tokens[c].expires > began[r]
      /\ pend[r] = [user |-> u, key |-> k] /\ KeyFree(n, k)
      /\ nodes[n] = NoRow \/ (nodes[n].user = u /\ nodes[n].key \in {None, k})
  BY DEF CommitRedeem, TxInv, RedeemInv, Redeemable
<1>2. /\ nodes' = [nodes EXCEPT ![n] = pend[r]]
      /\ status' = StatusInserted(n)
      /\ tokens' = [tokens EXCEPT ![c] = Spent(@, n, began[r])]
      /\ Answered(r, "accepted")
  BY <1>1 DEF CommitRedeem
<1>3. PICK o \in {"accepted", "unavailable"} : Finish(r, o)
  BY <1>2 DEF Answered
<1>4. u \in Users /\ tokens[c] \in Token
  BY <1>1 DEF Token, NoToken
<1>5. /\ nodes'[n].user = u /\ nodes'[n].key = k /\ nodes'[n] = [user |-> u, key |-> k]
      /\ nodes'[n] # NoRow /\ nodes'[n] \in NodeRow
      /\ \A m \in Nodes \ {n} : nodes'[m] = nodes[m]
  BY <1>1, <1>2, <1>4 DEF NoRow, NodeRow
<1>6. /\ tokens'[c] \in Token /\ tokens'[c].user = u /\ tokens'[c].node = n
      /\ tokens'[c].expires = tokens[c].expires /\ tokens'[c].usedAt = began[r]
      /\ \A d \in Codes \ {c} : tokens'[d] = tokens[d]
  BY <1>1, <1>2, <1>4 DEF Token, Spent
<1>7. /\ \A m \in Nodes \ {n} : status'[m] = status[m]
      /\ status'[n] \in {"enrolled", "online"}
      /\ status' \in [Nodes -> NodeStatus]
  BY <1>1, <1>2 DEF StatusInserted, NodeStatus
<1>8. TypeOK'
  <2>1. tokens' \in [Codes -> Token \cup {NoToken}] /\ nodes' \in [Nodes -> NodeRow \cup {NoRow}]
    BY <1>2, <1>5, <1>6
  <2> QED BY <1>3, <1>7, <2>1 DEF Finish, Goto, Released, PC, Outcome, Request, NoRequest, Asks
<1>9. TxInv'
  <2> SUFFICES ASSUME NEW s \in Reqs
               PROVE  (RedeemInv(s) /\ LegacyInv(s) /\ IssueInv(s) /\ HistoryInv(s))'
    BY DEF TxInv
  <2>1. RedeemInv(s) /\ LegacyInv(s) /\ IssueInv(s) /\ HistoryInv(s)
    BY DEF TxInv
  <2>2. CASE s = r
    BY <1>1, <1>3, <2>2 DEF Finish, Goto, RedeemInv, LegacyInv, IssueInv, HistoryInv
  <2>3. CASE s # r
    <3> USE <1>1, <1>3, <1>5, <1>6, <2>1, <2>3 DEF Finish, Goto, Released
    <3>1. RedeemInv(s)'
      BY DEF RedeemInv, Redeemable, KeyFree
    <3>2. LegacyInv(s)' /\ HistoryInv(s)'
      BY DEF LegacyInv, HistoryInv
    <3>3. IssueInv(s)'
      BY DEF IssueInv, NoToken
    <3> QED BY <3>1, <3>2, <3>3
  <2> QED BY <2>2, <2>3
<1>10. TableInv'
  <2>1. KeyBindsOneNode'
    BY <1>1, <1>5 DEF TableInv, KeyBindsOneNode, KeyFree
  <2>2. NodeIsListed'
    BY <1>5, <1>7 DEF TableInv, NodeIsListed
  <2>3. SpentCodeBoundNode'
    <3> SUFFICES ASSUME NEW d \in Codes, tokens'[d].node # None
                 PROVE  /\ nodes'[tokens'[d].node].user = tokens'[d].user
                        /\ nodes'[tokens'[d].node].key # None
                        /\ status'[tokens'[d].node] # "none"
                        /\ tokens'[d].usedAt < tokens'[d].expires
      BY DEF SpentCodeBoundNode
    <3>1. CASE d = c
      BY <1>1, <1>5, <1>6, <1>7, <3>1
    <3>2. CASE d # c
      <4>1. tokens[d].node \in Nodes
        BY <1>6, <3>2 DEF Token, NoToken
      <4>2. /\ nodes[tokens[d].node].user = tokens[d].user
            /\ nodes[tokens[d].node].key # None
            /\ status[tokens[d].node] # "none"
            /\ tokens[d].usedAt < tokens[d].expires
        BY <1>6, <3>2 DEF TableInv, SpentCodeBoundNode
      <4> QED BY <1>1, <1>5, <1>6, <1>7, <3>2, <4>1, <4>2 DEF NoRow
    <3> QED BY <3>1, <3>2
  <2> QED BY <2>1, <2>2, <2>3 DEF TableInv
<1>11. \A s \in Reqs : s # r =>
          (outcome'[s] = "accepted" <=> outcome[s] = "accepted") /\ req'[s] = req[s]
  BY <1>3 DEF Finish
<1>12. ASSUME NEW s \in Reqs, s # r, outcome[s] = "accepted", req[s].kind = "redeem"
       PROVE  req[s].code \in Codes \ {c}
  <2>1. req[s].code \in Codes /\ req[s].node \in Nodes
    BY <1>12 DEF TxInv, HistoryInv
  <2>2. tokens[req[s].code].node = req[s].node
    BY <1>12 DEF AcceptedIsBound, Bound
  <2> QED BY <1>1, <2>1, <2>2
<1>13. AcceptedIsBound'
  <2> SUFFICES ASSUME NEW s \in Reqs, outcome'[s] = "accepted"
               PROVE  Bound(s)'
    BY DEF AcceptedIsBound
  <2>1. CASE s = r
    BY <1>1, <1>3, <1>5, <1>6, <2>1 DEF Bound, Finish
  <2>2. CASE s # r
    <3>1. Bound(s) /\ req[s].node \in Nodes
      BY <1>11, <2>2 DEF AcceptedIsBound, TxInv, HistoryInv
    <3>2. CASE req[s].kind = "redeem"
      <4>1. req[s].code \in Codes \ {c} /\ tokens[req[s].code].node = req[s].node
        BY <1>11, <1>12, <2>2, <3>1, <3>2 DEF Bound
      <4>2. nodes[req[s].node].key # None
        BY <3>1, <4>1 DEF TableInv, SpentCodeBoundNode
      <4>3. nodes'[req[s].node] = nodes[req[s].node]
        <5>1. CASE req[s].node # n
          BY <1>5, <3>1, <5>1
        <5>2. CASE req[s].node = n
          <6>1. nodes[n] \in NodeRow /\ nodes[n].user = u /\ nodes[n].key = k
            BY <1>1, <4>2, <5>2 DEF NoRow
          <6> QED BY <1>5, <5>2, <6>1 DEF NodeRow
        <5> QED BY <5>1, <5>2
      <4> QED BY <1>6, <1>11, <2>2, <3>1, <3>2, <4>1, <4>3 DEF Bound
    <3>3. CASE req[s].kind = "enroll"
      BY <1>1, <1>5, <1>11, <2>2, <3>1, <3>3 DEF Bound, NoRow
    <3> QED BY <3>1, <3>2, <3>3 DEF Bound
  <2> QED BY <2>1, <2>2
<1>14. CodeAcceptedOnce'
  <2> SUFFICES ASSUME NEW s \in Reqs, NEW t \in Reqs, s # t,
                      req'[s].kind = "redeem", outcome'[s] = "accepted",
                      req'[t].kind = "redeem", outcome'[t] = "accepted",
                      req'[s].code = req'[t].code
               PROVE  FALSE
    BY DEF CodeAcceptedOnce
  <2>1. CASE s # r /\ t # r
    BY <1>11, <2>1 DEF CodeAcceptedOnce
  <2>2. CASE s = r
    BY <1>3, <1>11, <1>12, <2>2 DEF Finish
  <2>3. CASE t = r
    BY <1>3, <1>11, <1>12, <2>3 DEF Finish
  <2> QED BY <2>1, <2>2, <2>3
<1> QED BY <1>8, <1>9, <1>10, <1>13, <1>14

\* The commit of a legacy enrollment.
LEMMA CommitLegacyKeepsIInv ==
  ASSUME IInv, NEW r \in Reqs, CommitLegacy(r)
  PROVE  IInv'
<1> USE DEF IInv, TypeOK, TablesOK
<1> DEFINE n == req[r].node
<1>1. /\ pc[r] = "legacyCommit" /\ req[r].kind = "enroll" /\ n \in Nodes
      /\ nodeLock[n] = r /\ nodes[n].user \in {None, Owner}
      /\ pend[r] = [user |-> Owner, key |-> nodes[n].key]
  BY DEF CommitLegacy, TxInv, LegacyInv
<1>2. /\ nodes' = [nodes EXCEPT ![n] = pend[r]]
      /\ status' = StatusInserted(n)
      /\ tokens' = tokens
      /\ Answered(r, "accepted")
  BY DEF CommitLegacy
<1>3. PICK o \in {"accepted", "unavailable"} : Finish(r, o)
  BY <1>2 DEF Answered
<1>4. /\ nodes'[n].user = Owner /\ nodes'[n].key = nodes[n].key
      /\ nodes'[n] # NoRow /\ nodes'[n] \in NodeRow
      /\ \A m \in Nodes \ {n} : nodes'[m] = nodes[m]
      /\ nodes[n] # NoRow => nodes'[n] = nodes[n]
      /\ \A m \in Nodes : nodes'[m].key = nodes[m].key
  BY <1>1, <1>2 DEF NoRow, NodeRow
<1>5. /\ \A m \in Nodes \ {n} : status'[m] = status[m]
      /\ status'[n] \in {"enrolled", "online"}
      /\ status' \in [Nodes -> NodeStatus]
  BY <1>1, <1>2 DEF StatusInserted, NodeStatus
<1>6. TypeOK'
  <2>1. nodes' \in [Nodes -> NodeRow \cup {NoRow}]
    BY <1>2, <1>4
  <2> QED BY <1>2, <1>3, <1>5, <2>1 DEF Finish, Goto, Released, PC, Outcome, Request, NoRequest, Asks
<1>7. TxInv'
  <2> SUFFICES ASSUME NEW s \in Reqs
               PROVE  (RedeemInv(s) /\ LegacyInv(s) /\ IssueInv(s) /\ HistoryInv(s))'
    BY DEF TxInv
  <2>1. RedeemInv(s) /\ LegacyInv(s) /\ IssueInv(s) /\ HistoryInv(s)
    BY DEF TxInv
  <2>2. CASE s = r
    BY <1>1, <1>3, <2>2 DEF Finish, Goto, RedeemInv, LegacyInv, IssueInv, HistoryInv
  <2>3. CASE s # r
    <3> USE <1>1, <1>2, <1>3, <1>4, <2>1, <2>3 DEF Finish, Goto, Released
    <3>1. RedeemInv(s)'
      BY DEF RedeemInv, Redeemable, KeyFree
    <3>2. LegacyInv(s)' /\ HistoryInv(s)'
      BY DEF LegacyInv, HistoryInv
    <3>3. IssueInv(s)'
      BY DEF IssueInv
    <3> QED BY <3>1, <3>2, <3>3
  <2> QED BY <2>2, <2>3
<1>8. TableInv'
  <2>1. KeyBindsOneNode'
    BY <1>4 DEF TableInv, KeyBindsOneNode
  <2>2. NodeIsListed'
    BY <1>4, <1>5 DEF TableInv, NodeIsListed
  <2>3. SpentCodeBoundNode'
    <3> SUFFICES ASSUME NEW d \in Codes, tokens[d].node # None
                 PROVE  /\ nodes'[tokens[d].node].user = tokens[d].user
                        /\ nodes'[tokens[d].node].key # None
                        /\ status'[tokens[d].node] # "none"
                        /\ tokens[d].usedAt < tokens[d].expires
      BY <1>2 DEF SpentCodeBoundNode
    <3>1. tokens[d].node \in Nodes
      BY DEF Token, NoToken
    <3>2. /\ nodes[tokens[d].node].user = tokens[d].user
          /\ nodes[tokens[d].node].key # None
          /\ status[tokens[d].node] # "none"
          /\ tokens[d].usedAt < tokens[d].expires
      BY DEF TableInv, SpentCodeBoundNode
    <3> QED BY <1>4, <1>5, <3>1, <3>2 DEF NoRow
  <2> QED BY <2>1, <2>2, <2>3 DEF TableInv
<1>9. \A s \in Reqs : s # r =>
         (outcome'[s] = "accepted" <=> outcome[s] = "accepted") /\ req'[s] = req[s]
  BY <1>3 DEF Finish
<1>10. \A s \in Reqs : outcome'[s] = "accepted" => req'[s] = req[s]
  BY <1>3 DEF Finish
<1>11. AcceptedIsBound'
  <2> SUFFICES ASSUME NEW s \in Reqs, outcome'[s] = "accepted"
               PROVE  Bound(s)'
    BY DEF AcceptedIsBound
  <2>1. CASE s = r
    BY <1>1, <1>4, <1>10, <2>1 DEF Bound
  <2>2. CASE s # r
    <3>1. Bound(s) /\ req[s].node \in Nodes
      BY <1>9, <2>2 DEF AcceptedIsBound, TxInv, HistoryInv
    <3>2. nodes[req[s].node] # NoRow
      <4>1. CASE req[s].kind = "enroll"
        BY <3>1, <4>1 DEF Bound, NoRow
      <4>2. CASE req[s].kind = "redeem"
        <5>1. req[s].code \in Codes /\ tokens[req[s].code].node = req[s].node
          BY <1>9, <2>2, <3>1, <4>2 DEF TxInv, HistoryInv, Bound
        <5>2. nodes[req[s].node].key # None
          BY <3>1, <5>1 DEF TableInv, SpentCodeBoundNode
        <5> QED BY <5>2 DEF NoRow
      <4> QED BY <3>1, <4>1, <4>2 DEF Bound
    <3> QED BY <1>2, <1>4, <1>9, <2>2, <3>1, <3>2 DEF Bound
  <2> QED BY <2>1, <2>2
<1>12. CodeAcceptedOnce'
  <2> SUFFICES ASSUME NEW s \in Reqs, NEW t \in Reqs, s # t,
                      req'[s].kind = "redeem", outcome'[s] = "accepted",
                      req'[t].kind = "redeem", outcome'[t] = "accepted",
                      req'[s].code = req'[t].code
               PROVE  FALSE
    BY DEF CodeAcceptedOnce
  <2> QED BY <1>1, <1>9, <1>10 DEF CodeAcceptedOnce
<1> QED BY <1>6, <1>7, <1>8, <1>11, <1>12

\* A heartbeat touches the status of one listed node and nothing else.
LEMMA HeartbeatKeepsIInv ==
  ASSUME IInv, NEW n \in Nodes, Heartbeat(n)
  PROVE  IInv'
<1> USE DEF IInv, TypeOK, TablesOK, Heartbeat, locks
<1>1. /\ status' \in [Nodes -> NodeStatus]
      /\ \A m \in Nodes : status'[m] = "none" <=> status[m] = "none"
  BY DEF NodeStatus
<1>2. TypeOK'
  BY <1>1
<1>3. TxInv'
  BY DEF TxInv, RedeemInv, LegacyInv, IssueInv, HistoryInv, Redeemable, KeyFree
<1>4. TableInv'
  <2>1. KeyBindsOneNode' /\ NodeIsListed'
    BY <1>1 DEF TableInv, KeyBindsOneNode, NodeIsListed
  <2>2. \A c \in Codes : tokens[c].node # None => tokens[c].node \in Nodes
    BY DEF Token, NoToken
  <2>3. SpentCodeBoundNode'
    BY <1>1, <2>2 DEF TableInv, SpentCodeBoundNode
  <2> QED BY <2>1, <2>3 DEF TableInv
<1>5. AcceptedIsBound' /\ CodeAcceptedOnce'
  BY DEF AcceptedIsBound, Bound, CodeAcceptedOnce
<1> QED BY <1>2, <1>3, <1>4, <1>5

\* Time passes without consequence for a transaction: now() is the time it began.
LEMMA TickKeepsIInv ==
  ASSUME IInv, Tick \/ UNCHANGED vars
  PROVE  IInv'
<1>1. /\ UNCHANGED <<tables, pc, req, began, pend, outcome, locks>>
      /\ now' \in 0 .. MaxTime
  BY DEF IInv, TypeOK, Tick, vars
<1> USE <1>1 DEF tables, locks
<1>2. TypeOK'
  BY DEF IInv, TypeOK, TablesOK
<1>3. TxInv'
  BY DEF IInv, TxInv, RedeemInv, LegacyInv, IssueInv, HistoryInv, Redeemable, KeyFree
<1>4. TableInv'
  BY DEF IInv, TableInv, KeyBindsOneNode, SpentCodeBoundNode, NodeIsListed
<1>5. AcceptedIsBound' /\ CodeAcceptedOnce'
  BY DEF IInv, AcceptedIsBound, Bound, CodeAcceptedOnce
<1> QED BY <1>2, <1>3, <1>4, <1>5 DEF IInv

\* Every step of the system keeps the inductive invariant.
LEMMA NextKeepsIInv == IInv /\ [Next]_vars => IInv'
<1> SUFFICES ASSUME IInv, [Next]_vars
             PROVE  IInv'
  OBVIOUS
<1>1. CASE UNCHANGED vars \/ Tick
  BY <1>1, TickKeepsIInv
<1>2. CASE \E n \in Nodes : Heartbeat(n)
  BY <1>2, HeartbeatKeepsIInv
<1>3. ASSUME NEW r \in Reqs, Arrive(r) \/ Step(r) \/ Abort(r)
      PROVE  IInv'
  <2>1. CASE Arrive(r)
    BY <2>1, ArriveKeepsIInv
  <2>2. CASE Step(r)
    BY <2>2, StatementKeepsIInv, InsertTokenKeepsIInv, CommitRedeemKeepsIInv,
       CommitLegacyKeepsIInv DEF Step
  <2>3. CASE Abort(r)
    BY <2>3, RefuseKeepsIInv DEF Abort, Outcome
  <2> QED BY <1>3, <2>1, <2>2, <2>3
<1> QED BY <1>1, <1>2, <1>3 DEF Next

\* The locks of the transactions protect what each of them has read, at every moment.
THEOREM InductiveInvariant == Spec => []IInv
  BY InitIInv, NextKeepsIInv, PTL DEF Spec

\* Every variable keeps its type: no redemption creates a node row without an account.
THEOREM TypeCorrect == Spec => []TypeOK
<1>1. IInv => TypeOK
  BY DEF IInv
<1> QED BY <1>1, InductiveInvariant, PTL

\* However the statements of any number of enrollments interleave, a public key never
\* identifies two nodes.
THEOREM KeysIdentify == Spec => []KeyBindsOneNode
<1>1. IInv => KeyBindsOneNode
  BY DEF IInv, TableInv
<1> QED BY <1>1, InductiveInvariant, PTL

\* A consumed code and the node it enrolled are committed together or not at all.
THEOREM RedemptionIsAtomic == Spec => []SpentCodeBoundNode
<1>1. IInv => SpentCodeBoundNode
  BY DEF IInv, TableInv
<1> QED BY <1>1, InductiveInvariant, PTL

\* No node is owned without being listed.
THEOREM NodesAreListed == Spec => []NodeIsListed
<1>1. IInv => NodeIsListed
  BY DEF IInv, TableInv
<1> QED BY <1>1, InductiveInvariant, PTL

\* A code is accepted from one request only, and what the server answered stays true.
THEOREM AcceptanceIsFinal == Spec => [](CodeAcceptedOnce /\ AcceptedIsBound)
<1>1. IInv => CodeAcceptedOnce /\ AcceptedIsBound
  BY DEF IInv
<1> QED BY <1>1, InductiveInvariant, PTL

\* Who was told that a node is enrolled can rely on it: the account and the key it was
\* enrolled with are in its row, whatever later enrollments of the node do.
THEOREM AcceptedStaysBound == Spec => []AcceptedIsBound
<1>1. IInv => AcceptedIsBound
  BY DEF IInv
<1> QED BY <1>1, InductiveInvariant, PTL

\* Only three statements of a request change a table: its commits.
LEMMA TablesChangeOnCommit ==
  ASSUME NEW r \in Reqs, Arrive(r) \/ Step(r) \/ Abort(r)
  PROVE  InsertToken(r) \/ CommitRedeem(r) \/ CommitLegacy(r) \/ UNCHANGED tables
  BY DEF Arrive, Step, Abort, TooManyTokens, CountTokens, RedeemBegin, EnrollBegin, Begin,
         SelectToken, NodeMissing, SelectNode, InsertNode, WriteKey, LegacyInsert, LegacyLock,
         Refuse

\* Every commit is one indivisible step of the registry.
LEMMA NextRefinesRegistry ==
  ASSUME IInv, [Next]_vars
  PROVE  [Registry!Next]_(Registry!tables)
<1> USE DEF Registry!tables, tables
<1>1. CASE UNCHANGED vars \/ Tick
  BY <1>1 DEF Tick, vars
<1>2. ASSUME NEW n \in Nodes, Heartbeat(n)
      PROVE  Registry!Next
  <2>1. Registry!Beat(n)
    BY <1>2 DEF Heartbeat, Registry!Beat
  <2> QED BY <2>1 DEF Registry!Next
<1>3. ASSUME NEW r \in Reqs, InsertToken(r)
      PROVE  Registry!Next
  <2>1. /\ req[r].code \in Codes /\ req[r].user \in Users /\ tokens[req[r].code] = NoToken
        /\ began[r] + CodeLifetime \in Times
    BY <1>3 DEF IInv, TypeOK, TxInv, IssueInv, InsertToken, EnrollmentAssumption
  <2>2. Registry!Issue(req[r].code, req[r].user, began[r] + CodeLifetime)
    BY <1>3, <2>1 DEF InsertToken, Registry!Issue, Registry!NoToken, NoToken
  <2> QED BY <2>1, <2>2 DEF Registry!Next
<1>4. ASSUME NEW r \in Reqs, CommitRedeem(r)
      PROVE  Registry!Next
  <2> DEFINE c == req[r].code
             n == req[r].node
             k == req[r].key
  <2>1. RedeemInv(r) /\ pc[r] = "commit"
    BY <1>4 DEF IInv, TxInv, CommitRedeem
  <2>2. /\ c \in Codes /\ n \in Nodes /\ k \in Keys /\ began[r] \in Times
        /\ tokens[c].user # None /\ tokens[c].node = None /\ began[r] < tokens[c].expires
        /\ nodes[n] = NoRow \/ (nodes[n].user = tokens[c].user /\ nodes[n].key \in {None, k})
        /\ KeyFree(n, k) /\ pend[r] = [user |-> tokens[c].user, key |-> k]
    <3>1. began[r] \in Times /\ began[r] \in Nat
      BY DEF IInv, TypeOK, EnrollmentAssumption
    <3>2. tokens[c].expires > began[r] /\ c \in Codes
      BY <2>1 DEF RedeemInv, Redeemable
    <3>3. tokens[c].expires \in Nat
      BY <3>2 DEF IInv, TypeOK, TablesOK, Token, NoToken
    <3> QED BY <2>1, <3>1, <3>2, <3>3 DEF RedeemInv, Redeemable
  <2>3. Registry!Redeem(c, n, k, began[r])
    <3>1. Registry!Admits(nodes[n], tokens[c].user, k) /\ Registry!KeyIsOwn(n, k)
      BY <2>2 DEF Registry!Admits, Registry!KeyIsOwn, KeyFree, Registry!NoRow, NoRow
    <3>2. /\ nodes' = [nodes EXCEPT ![n] = [user |-> tokens[c].user, key |-> k]]
          /\ status' = StatusInserted(n)
          /\ tokens' = [tokens EXCEPT ![c] = Spent(@, n, began[r])]
      BY <1>4, <2>2 DEF CommitRedeem
    <3>3. Registry!Shown(n)
      BY <2>2, <3>2 DEF StatusInserted, Registry!Shown, IInv, TypeOK, TablesOK, NodeStatus
    <3> QED BY <2>2, <3>1, <3>2, <3>3 DEF Registry!Redeem, Spent
  <2> QED BY <2>2, <2>3 DEF Registry!Next
<1>5. ASSUME NEW r \in Reqs, CommitLegacy(r)
      PROVE  Registry!Next
  <2> DEFINE n == req[r].node
  <2>1. /\ n \in Nodes /\ nodes[n].user \in {None, Owner}
        /\ pend[r] = [user |-> Owner, key |-> nodes[n].key]
    BY <1>5 DEF IInv, TxInv, LegacyInv, CommitLegacy
  <2>2. Registry!LegacyEnroll(n)
    BY <1>5, <2>1 DEF CommitLegacy, Registry!LegacyEnroll, Registry!Shown, StatusInserted,
       IInv, TypeOK, TablesOK, NodeStatus
  <2> QED BY <2>1, <2>2 DEF Registry!Next
<1> QED BY <1>1, <1>2, <1>3, <1>4, <1>5, TablesChangeOnCommit DEF Next

\* The transactions implement the registry: every behaviour of the statements is, on the
\* three tables, a behaviour of indivisible enrollments.
THEOREM Refinement == Spec => ImplementsRegistry
<1>1. Init => Registry!Init
  BY DEF Init, Registry!Init, TablesInit, Registry!TablesInit, NoToken, Registry!NoToken,
         NoRow, Registry!NoRow
<1>2. IInv /\ [Next]_vars => [Registry!Next]_(Registry!tables)
  BY NextRefinesRegistry
<1> QED BY <1>1, <1>2, InductiveInvariant, PTL DEF Spec, ImplementsRegistry, Registry!Spec

\* A node, once in the table, keeps its account; a key, once bound, is never replaced.
THEOREM IdentityIsImmutable == Spec => IdentityImmutable
<1> DEFINE Keeps == \A n \in Nodes : nodes[n] # NoRow =>
                      /\ nodes'[n].user = nodes[n].user
                      /\ nodes[n].key # None => nodes'[n].key = nodes[n].key
<1>1. ASSUME IInv, [Next]_vars
      PROVE  [Keeps]_vars
  <2>1. CASE UNCHANGED vars
    BY <2>1
  <2>2. CASE Tick \/ \E n \in Nodes : Heartbeat(n)
    BY <2>2 DEF Tick, Heartbeat, tables
  <2>3. ASSUME NEW r \in Reqs, CommitRedeem(r)
        PROVE  Keeps
    BY <1>1, <2>3 DEF CommitRedeem, IInv, TypeOK, TablesOK, TxInv, RedeemInv, Redeemable, tables
  <2>4. ASSUME NEW r \in Reqs, CommitLegacy(r)
        PROVE  Keeps
    BY <1>1, <2>4 DEF CommitLegacy, IInv, TypeOK, TablesOK, TxInv, LegacyInv, NodeRow
  <2>5. ASSUME NEW r \in Reqs, InsertToken(r) \/ UNCHANGED tables
        PROVE  Keeps
    BY <2>5 DEF InsertToken, tables
  <2> QED BY <1>1, <2>1, <2>2, <2>3, <2>4, <2>5, TablesChangeOnCommit DEF Next
<1> QED BY <1>1, InductiveInvariant, PTL DEF Spec, IdentityImmutable

\* A node that is online stays online through every enrollment, first or repeated: the
\* upsert of the status row keeps what the last heartbeat wrote.
THEOREM HeartbeatSurvives == Spec => ReenrollKeepsHeartbeat
<1> DEFINE Keeps == \A n \in Nodes : status[n] = "online" => status'[n] = "online"
<1>1. ASSUME IInv, [Next]_vars
      PROVE  [Keeps]_vars
  <2>1. CASE UNCHANGED vars
    BY <2>1
  <2>2. CASE Tick \/ \E n \in Nodes : Heartbeat(n)
    BY <1>1, <2>2 DEF Tick, Heartbeat, tables, IInv, TypeOK, TablesOK
  <2>3. ASSUME NEW r \in Reqs, CommitRedeem(r) \/ CommitLegacy(r)
        PROVE  Keeps
    BY <1>1, <2>3 DEF CommitRedeem, CommitLegacy, Refuse, tables, StatusInserted, IInv, TypeOK,
       TablesOK
  <2>4. ASSUME NEW r \in Reqs, InsertToken(r) \/ UNCHANGED tables
        PROVE  Keeps
    BY <2>4 DEF InsertToken, tables
  <2> QED BY <1>1, <2>1, <2>2, <2>3, <2>4, TablesChangeOnCommit DEF Next
<1> QED BY <1>1, InductiveInvariant, PTL DEF Spec, ReenrollKeepsHeartbeat

\* Who holds a lock is inside a transaction, past the statement that takes it.
HolderInv ==
  /\ \A c \in Codes : tokenLock[c] # None =>
       pc[tokenLock[c]] \in {"node", "insert", "key", "commit"}
  /\ \A n \in Nodes : nodeLock[n] # None =>
       \/ pc[nodeLock[n]] \in {"key", "commit", "legacyCommit"}
       \/ pc[nodeLock[n]] = "legacyLock" /\ pend[nodeLock[n]] # NoRow
  /\ \A k \in Keys : keyLock[k] # None => pc[keyLock[k]] = "commit"

\* The end of a transaction leaves no lock behind.
LEMMA FinishKeepsHolderInv ==
  ASSUME TypeOK, HolderInv, NEW r \in Reqs, NEW o, Finish(r, o)
  PROVE  HolderInv'
  BY DEF TypeOK, HolderInv, Finish, Goto, Released

\* Locks are taken by the statements that take them, and given back by every return.
LEMMA NextKeepsHolderInv ==
  ASSUME IInv, HolderInv, [Next]_vars
  PROVE  HolderInv'
<1> USE DEF HolderInv
<1>0. TypeOK
  BY DEF IInv
<1>1. CASE UNCHANGED vars \/ Tick \/ \E n \in Nodes : Heartbeat(n)
  BY <1>1 DEF Tick, Heartbeat, vars, locks
<1>2. ASSUME NEW r \in Reqs, Arrive(r) \/ Step(r) \/ Abort(r)
      PROVE  HolderInv'
  <2>0. RedeemInv(r) /\ LegacyInv(r) /\ HistoryInv(r)
    BY DEF IInv, TxInv
  <2>1. CASE \E o \in Outcome : Finish(r, o)
    BY <1>0, <2>1, FinishKeepsHolderInv
  <2>2. CASE \E q, l : Begin(r, q, l)
    BY <1>0, <2>2 DEF Begin, Goto, TypeOK, locks
  <2>3. CASE SelectToken(r) /\ ~ \E o \in Outcome : Finish(r, o)
    BY <1>0, <2>0, <2>3 DEF SelectToken, Goto, Refuse, Outcome, TypeOK, RedeemInv
  <2>4. CASE NodeMissing(r)
    BY <1>0, <2>4 DEF NodeMissing, Goto, TypeOK, locks
  <2>5. CASE SelectNode(r) /\ ~ \E o \in Outcome : Finish(r, o)
    BY <1>0, <2>0, <2>5 DEF SelectNode, Goto, Refuse, Outcome, TypeOK, RedeemInv
  <2>6. CASE InsertNode(r) /\ ~ \E o \in Outcome : Finish(r, o)
    BY <1>0, <2>0, <2>6 DEF InsertNode, Goto, Refuse, Outcome, TypeOK, RedeemInv
  <2>7. CASE WriteKey(r) /\ ~ \E o \in Outcome : Finish(r, o)
    BY <1>0, <2>0, <2>7 DEF WriteKey, Goto, Refuse, Outcome, TypeOK, RedeemInv
  <2>8. CASE LegacyInsert(r)
    BY <1>0, <2>0, <2>8 DEF LegacyInsert, Goto, TypeOK, LegacyInv, NoRow, HistoryInv
  <2>9. CASE LegacyLock(r) /\ ~ \E o \in Outcome : Finish(r, o)
    BY <1>0, <2>0, <2>9 DEF LegacyLock, Goto, Refuse, Outcome, TypeOK, LegacyInv
  <2>10. ASSUME InsertToken(r) \/ CommitRedeem(r) \/ CommitLegacy(r) \/ Abort(r)
                  \/ \E u \in Users : TooManyTokens(r, u)
         PROVE  \E o \in Outcome : Finish(r, o)
    BY <2>10 DEF InsertToken, CommitRedeem, CommitLegacy, Abort, TooManyTokens, Refuse,
                 Answered, Outcome
  <2>11. ASSUME Arrive(r), ~ \E u \in Users : TooManyTokens(r, u)
         PROVE  \E q, l : Begin(r, q, l)
    BY <2>11 DEF Arrive, CountTokens, RedeemBegin, EnrollBegin
  <2> QED BY <1>2, <2>1, <2>2, <2>3, <2>4, <2>5, <2>6, <2>7, <2>8, <2>9, <2>10, <2>11 DEF Step
<1> QED BY <1>1, <1>2 DEF Next

\* How far into the common lock order (token, then node, then key) a request has come.
WantsNode(r) ==
  pc[r] \in {"node", "insert", "legacyInsert"} \/ (pc[r] = "legacyLock" /\ pend[r] = NoRow)
HasNode(r) == pc[r] = "key" \/ (pc[r] = "legacyLock" /\ pend[r] # NoRow)
HasAll(r) == pc[r] \in {"commit", "legacyCommit"}

\* A request waits only for requests that are further along in the lock order.
LEMMA WaitsUphill ==
  ASSUME IInv, HolderInv, NEW r \in Reqs, NEW s \in Reqs, WaitsFor(r, s)
  PROVE  \/ pc[r] = "token" /\ (WantsNode(s) \/ HasNode(s) \/ HasAll(s))
         \/ WantsNode(r) /\ (HasNode(s) \/ HasAll(s))
         \/ HasNode(r) /\ HasAll(s)
<1>0. RedeemInv(r) /\ LegacyInv(r)
  BY DEF IInv, TxInv
<1> USE DEF WantsNode, HasNode, HasAll
<1>1. CASE pc[r] = "token" /\ tokenLock[req[r].code] = s
  BY <1>0, <1>1 DEF HolderInv, RedeemInv
<1>2. CASE /\ pc[r] \in {"node", "insert", "legacyInsert", "legacyLock"}
           /\ nodeLock[req[r].node] = s /\ r # s
  BY <1>0, <1>2 DEF HolderInv, RedeemInv, LegacyInv
<1>3. CASE pc[r] = "key" /\ nodeLock[req[r].node] = s /\ r # s
  BY <1>0, <1>3 DEF RedeemInv
<1>4. CASE pc[r] = "key" /\ keyLock[WrittenRow(r).key] = s
  BY <1>0, <1>4, WrittenRowValue DEF HolderInv, RedeemInv
<1> QED BY <1>1, <1>2, <1>3, <1>4 DEF WaitsFor

\* No set of enrollments ever deadlocks on its row and index locks, and none waits for a
\* request that has returned.
THEOREM NoDeadlock == Spec => []NoStuckWait
<1>1. Init => HolderInv
  BY DEF Init, HolderInv
<1>2. IInv /\ HolderInv /\ [Next]_vars => HolderInv'
  BY NextKeepsHolderInv
<1>3. IInv /\ HolderInv => NoStuckWait
  <2> SUFFICES ASSUME IInv, HolderInv, NEW S \in SUBSET Reqs, S # {},
                      \A r \in S : \E s \in Reqs :
                        WaitsFor(r, s) /\ (s \in S \/ pc[s] = "done")
               PROVE  FALSE
    BY DEF NoStuckWait
  <2>0. ASSUME NEW r \in S
        PROVE  \E s \in S :
                 \/ pc[r] = "token" /\ (WantsNode(s) \/ HasNode(s) \/ HasAll(s))
                 \/ WantsNode(r) /\ (HasNode(s) \/ HasAll(s))
                 \/ HasNode(r) /\ HasAll(s)
    <3>1. PICK s \in Reqs : WaitsFor(r, s) /\ (s \in S \/ pc[s] = "done")
      OBVIOUS
    <3>2. WantsNode(s) \/ HasNode(s) \/ HasAll(s)
      BY <3>1, WaitsUphill
    <3>3. s \in S
      BY <3>1, <3>2 DEF WantsNode, HasNode, HasAll
    <3> QED BY <3>1, <3>3, WaitsUphill
  <2>1. \A r \in S : ~HasAll(r)
    BY <2>0 DEF WantsNode, HasNode, HasAll
  <2>2. \A r \in S : ~HasNode(r)
    BY <2>0, <2>1 DEF WantsNode, HasNode, HasAll
  <2>3. \A r \in S : ~WantsNode(r)
    BY <2>0, <2>1, <2>2 DEF WantsNode, HasNode, HasAll
  <2> QED BY <2>0, <2>1, <2>2, <2>3
<1> QED BY <1>1, <1>2, <1>3, InductiveInvariant, PTL DEF Spec

===============================================================================
