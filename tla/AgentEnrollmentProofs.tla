------------------------ MODULE AgentEnrollmentProofs ------------------------
(***************************************************************************)
(* Proofs about AgentEnrollment, for any number of processes, codes and    *)
(* accounts.  First, the composition is a behaviour of AgentIdentity, so   *)
(* what is proved of the identity file holds in it.  Then, what the agent  *)
(* tells its user follows from what an answer says, and that from what a   *)
(* later redemption can no longer change.                                  *)
(***************************************************************************)
EXTENDS AgentEnrollment, AgentIdentityProofs

\* The composition does to the identity file what AgentIdentity allows, or nothing.
LEMMA IdentityStep ==
  ASSUME TypeOK, [EnrollmentNext]_enrollmentVars
  PROVE  [Next]_vars
<1>1. CASE UNCHANGED enrollmentVars
  BY <1>1 DEF enrollmentVars
<1>2. ASSUME NEW p \in Procs,
             ObtainIdentity(p) \/ KillAgent(p) \/ \E c \in Codes : Send(p, c)
      PROVE  Next
  BY <1>2 DEF ObtainIdentity, KillAgent, Send, Next
<1>3. ASSUME NEW p \in Procs, Redeem(p) PROVE Next
  <2>1. Accept(post[p].id)
    BY <1>3 DEF Redeem
  <2>2. post[p].id \in Procs
    BY <2>1 DEF Accept, TypeOK
  <2>3. QED
    BY <2>1, <2>2 DEF Next
<1>4. ASSUME NEW p \in Procs, Receive(p) \/ TimeOut(p) \/ Refuse(p) \/ Lose(p)
      PROVE  UNCHANGED vars
  BY <1>4 DEF Receive, TimeOut, Refuse, Lose
<1>5. ASSUME TimePasses \/ \E c \in Codes, u \in Users : IssueCode(c, u)
      PROVE  UNCHANGED vars
  BY <1>5 DEF TimePasses, IssueCode
<1>6. QED
  BY <1>1, <1>2, <1>3, <1>4, <1>5 DEF EnrollmentNext

\* The composition implements AgentIdentity: nothing that the network, the control plane
\* or the user does lets an agent treat its identity file in another way.
THEOREM ComposedIdentity == EnrollmentSpec => Spec
<1>1. EnrollmentInit => Init
  BY DEF EnrollmentInit
<1>2. IInv /\ [EnrollmentNext]_enrollmentVars => [Next]_vars
  BY IdentityStep DEF IInv
<1>3. QED
  BY <1>1, <1>2, InitInv, NextInv, PTL DEF EnrollmentSpec, Spec

\* Without I/O errors a machine is known to the control plane by one identity, the one in
\* its file, whatever becomes of requests and answers.
THEOREM OneNodePerMachine == EnrollmentSpec => []OneIdentity
  BY ComposedIdentity, SharedIdentity, PTL

-------------------------------------------------------------------------------
(* What the agent is told.                                                 *)

Post == [state: {"request", "accepted", "refused", "lost"}, code: Codes, id: Procs]

EnrollmentTypeOK ==
  /\ post \in [Procs -> Post \cup {NoPost}]
  /\ told \in [Procs -> {"nothing", "waiting", "accepted", "failed"}]
  /\ tokens \in [Codes -> [user: Users \cup {None}, expires: Nat, node: Procs \cup {None},
                          usedAt: Nat]]
  /\ nodes \in [Procs -> [user: Users \cup {None}, key: Procs \cup {None}]]
  /\ now \in Nat

\* An identity is registered under its own key only.
OwnKey == \A i \in Procs : nodes[i] = Registry!NoRow \/ nodes[i].key = i

\* What an answer says, and what the agent made of it, is so.
Answered(p) == post[p].state = "accepted" \/ told[p] = "accepted"
AnswersAreTrue ==
  \A p \in Procs :
    Answered(p) =>
      /\ post[p] # NoPost
      /\ tokens[post[p].code].node = post[p].id
      /\ nodes[post[p].id].user = tokens[post[p].code].user
      /\ nodes[post[p].id].key = post[p].id

EnrollmentInv == EnrollmentTypeOK /\ OwnKey /\ AnswersAreTrue

\* The initial state satisfies the invariant.
LEMMA EnrollmentInitInv == EnrollmentInit => EnrollmentInv
  BY IdentityAssumption, EnrollmentAssumption
  DEF EnrollmentInit, EnrollmentInv, EnrollmentTypeOK, OwnKey, AnswersAreTrue, Answered, NoPost,
      Post, Registry!Init, Registry!TablesInit, Registry!NoToken, Registry!NoRow

\* A redemption binds a node under its own key, and undoes no earlier one.
LEMMA RedeemInv ==
  ASSUME EnrollmentInv, TypeOK, NEW p \in Procs, Redeem(p)
  PROVE  EnrollmentInv'
<1> DEFINE c == post[p].code
           i == post[p].id
           u == tokens[c].user
<1> USE IdentityAssumption, EnrollmentAssumption
<1>1. c \in Codes /\ i \in Procs /\ post[p].state = "request" /\ post[p] # NoPost
  BY DEF EnrollmentInv, EnrollmentTypeOK, Redeem, Post, NoPost
<1>2. /\ tokens[c].node = None
      /\ u # None
      /\ nodes[i] = Registry!NoRow \/ nodes[i].user = u
      /\ nodes' = [nodes EXCEPT ![i] = [user |-> u, key |-> i]]
      /\ tokens' = [tokens EXCEPT ![c] =
                      [user |-> u, expires |-> @.expires, node |-> i, usedAt |-> now]]
  BY <1>1 DEF Redeem, Registry!Redeem, Registry!Admits
<1>3. /\ post' \in {[post EXCEPT ![p] = [state |-> s, code |-> c, id |-> i]] :
                       s \in {"accepted", "refused"}}
      /\ UNCHANGED <<now, told>>
  BY DEF Redeem, Becomes
<1>4. EnrollmentTypeOK'
  <2>1. post' \in [Procs -> Post \cup {NoPost}]
    BY <1>1, <1>3 DEF EnrollmentInv, EnrollmentTypeOK, Post
  <2>2. nodes' \in [Procs -> [user: Users \cup {None}, key: Procs \cup {None}]]
    BY <1>1, <1>2 DEF EnrollmentInv, EnrollmentTypeOK
  <2>3. tokens' \in [Codes -> [user: Users \cup {None}, expires: Nat,
                             node: Procs \cup {None}, usedAt: Nat]]
    BY <1>1, <1>2 DEF EnrollmentInv, EnrollmentTypeOK
  <2>4. QED
    BY <1>3, <2>1, <2>2, <2>3 DEF EnrollmentInv, EnrollmentTypeOK
<1>5. OwnKey'
  BY <1>1, <1>2 DEF EnrollmentInv, EnrollmentTypeOK, OwnKey, Registry!NoRow
<1>6. ASSUME NEW q \in Procs, Answered(q)'
      PROVE  /\ post'[q] # NoPost
             /\ tokens'[post'[q].code].node = post'[q].id
             /\ nodes'[post'[q].id].user = tokens'[post'[q].code].user
             /\ nodes'[post'[q].id].key = post'[q].id
  <2>1. CASE q = p
    <3>1. post'[q].code = c /\ post'[q].id = i /\ post'[q].state # "none"
      BY <1>3, <2>1 DEF EnrollmentInv, EnrollmentTypeOK
    <3>2. QED
      BY <1>1, <1>2, <3>1 DEF EnrollmentInv, EnrollmentTypeOK, NoPost
  <2>2. CASE q # p
    <3>1. post'[q] = post[q] /\ Answered(q)
      BY <1>3, <1>6, <2>2 DEF EnrollmentInv, EnrollmentTypeOK, Answered
    <3>2. /\ post[q] # NoPost
          /\ tokens[post[q].code].node = post[q].id
          /\ nodes[post[q].id].user = tokens[post[q].code].user
          /\ nodes[post[q].id].key = post[q].id
      BY <3>1 DEF EnrollmentInv, AnswersAreTrue
    <3>3. post[q].code \in Codes /\ post[q].id \in Procs
      BY <3>2 DEF EnrollmentInv, EnrollmentTypeOK, Post
    <3>4. post[q].code # c
      BY <1>2, <3>2, <3>3
    <3>5. nodes'[post[q].id].user = nodes[post[q].id].user
          /\ nodes'[post[q].id].key = post[q].id
      <4>1. nodes[post[q].id] # Registry!NoRow
        BY <3>2, <3>3 DEF Registry!NoRow
      <4>2. QED
        BY <1>1, <1>2, <3>2, <3>3, <4>1 DEF EnrollmentInv, EnrollmentTypeOK
    <3>6. QED
      BY <1>1, <1>2, <3>1, <3>2, <3>3, <3>4, <3>5 DEF EnrollmentInv, EnrollmentTypeOK
  <2>3. QED
    BY <2>1, <2>2
<1>7. AnswersAreTrue'
  BY <1>6 DEF AnswersAreTrue
<1>8. QED
  BY <1>4, <1>5, <1>7 DEF EnrollmentInv

\* Every other step leaves what was answered alone.
LEMMA EnrollmentNextInv ==
  ASSUME IInv, EnrollmentInv, [EnrollmentNext]_enrollmentVars
  PROVE  EnrollmentInv'
<1> USE IdentityAssumption, EnrollmentAssumption
<1>1. CASE UNCHANGED enrollmentVars
  BY <1>1 DEF enrollmentVars, tables, EnrollmentInv, EnrollmentTypeOK, OwnKey, AnswersAreTrue,
     Answered
<1>2. ASSUME NEW p \in Procs, ObtainIdentity(p) \/ KillAgent(p) PROVE EnrollmentInv'
  BY <1>2 DEF ObtainIdentity, KillAgent, tables, EnrollmentInv, EnrollmentTypeOK, OwnKey,
     AnswersAreTrue, Answered
<1>3. ASSUME NEW p \in Procs, NEW c \in Codes, Send(p, c) PROVE EnrollmentInv'
  <2>1. using[p] \in Procs
    BY <1>3 DEF Send, EnrollSecure, IInv, Obtained
  <2>2. QED
    BY <1>3, <2>1 DEF Send, tables, EnrollmentInv, EnrollmentTypeOK, OwnKey, AnswersAreTrue,
       Answered, Post, NoPost
<1>4. ASSUME NEW p \in Procs, Receive(p) \/ TimeOut(p) PROVE EnrollmentInv'
  BY <1>4 DEF Receive, TimeOut, Waiting, tables, EnrollmentInv, EnrollmentTypeOK, OwnKey,
     AnswersAreTrue, Answered
<1>5. ASSUME NEW p \in Procs, Redeem(p) PROVE EnrollmentInv'
  BY <1>5, RedeemInv DEF IInv
<1>6. ASSUME NEW p \in Procs, Refuse(p) \/ Lose(p) PROVE EnrollmentInv'
  BY <1>6 DEF Refuse, Lose, Becomes, tables, EnrollmentInv, EnrollmentTypeOK, OwnKey,
     AnswersAreTrue, Answered, Post, NoPost
<1>7. ASSUME NEW c \in Codes, NEW u \in Users, IssueCode(c, u) PROVE EnrollmentInv'
  <2>1. /\ tokens[c].node = None
        /\ tokens' = [tokens EXCEPT ![c] =
                        [user |-> u, expires |-> now + Lifetime, node |-> None, usedAt |-> 0]]
        /\ UNCHANGED <<now, post, told, nodes>>
    BY <1>7 DEF IssueCode, Registry!Issue, Registry!NoToken
  <2>2. EnrollmentTypeOK'
    BY <2>1 DEF EnrollmentInv, EnrollmentTypeOK
  <2>3. OwnKey'
    BY <2>1 DEF EnrollmentInv, OwnKey
  <2>4. AnswersAreTrue'
    BY <2>1 DEF EnrollmentInv, EnrollmentTypeOK, AnswersAreTrue, Answered, Post
  <2>5. QED
    BY <2>2, <2>3, <2>4 DEF EnrollmentInv
<1>8. CASE TimePasses
  BY <1>8 DEF TimePasses, tables, EnrollmentInv, EnrollmentTypeOK, OwnKey, AnswersAreTrue,
     Answered
<1>9. QED
  BY <1>1, <1>2, <1>3, <1>4, <1>5, <1>6, <1>7, <1>8 DEF EnrollmentNext

\* Both invariants hold in every reachable state.
LEMMA EnrollmentInvariance == EnrollmentSpec => [](IInv /\ EnrollmentInv)
<1>1. EnrollmentSpec => []IInv
  BY ComposedIdentity, Invariance, PTL
<1>2. IInv /\ EnrollmentInv /\ [EnrollmentNext]_enrollmentVars => EnrollmentInv'
  BY EnrollmentNextInv
<1>3. QED
  BY <1>1, <1>2, EnrollmentInitInv, PTL DEF EnrollmentSpec

\* "Enrollment accepted." is true, now and for good (EnrollSecure returned nil).
THEOREM AcceptanceHolds == EnrollmentSpec => []AcceptanceIsTrue
<1>1. EnrollmentInv => AcceptanceIsTrue
  <2> SUFFICES ASSUME EnrollmentInv, NEW p \in Procs, told[p] = "accepted"
               PROVE  /\ nodes[post[p].id] =
                           [user |-> tokens[post[p].code].user, key |-> post[p].id]
                      /\ tokens[post[p].code].node = post[p].id
    BY DEF AcceptanceIsTrue
  <2>1. /\ post[p] # NoPost
        /\ tokens[post[p].code].node = post[p].id
        /\ nodes[post[p].id].user = tokens[post[p].code].user
        /\ nodes[post[p].id].key = post[p].id
    BY DEF EnrollmentInv, AnswersAreTrue, Answered
  <2>2. post[p].id \in Procs
    BY <2>1 DEF EnrollmentInv, EnrollmentTypeOK, Post
  <2>3. QED
    BY <2>1, <2>2 DEF EnrollmentInv, EnrollmentTypeOK
<1>2. QED
  BY <1>1, EnrollmentInvariance, PTL

\* A machine that is registered can enroll again with any fresh code of its account
\* (RedeemEnrollmentToken's branch for a node that exists).
THEOREM RetryHolds == EnrollmentSpec => []RetryIsAdmitted
<1>1. EnrollmentInv => RetryIsAdmitted
  BY IdentityAssumption
  DEF EnrollmentInv, EnrollmentTypeOK, OwnKey, RetryIsAdmitted, Registered, Registry!Admits,
      Registry!KeyIsOwn, Registry!NoRow
<1>2. QED
  BY <1>1, EnrollmentInvariance, PTL

===============================================================================
