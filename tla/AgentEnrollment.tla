--------------------------- MODULE AgentEnrollment ---------------------------
(***************************************************************************)
(* Enrollment end to end: runs of "meshalot-agent enroll" on one machine,  *)
(* which obtain the machine's identity (AgentIdentity), post it with a     *)
(* one-time code (agent/secure_enroll.go), and a control plane that        *)
(* redeems the code (EnrollmentRegistry, which Enrollment implements).     *)
(* Between them requests and answers are delayed or lost, the agent times  *)
(* out, is killed, and is run again with the same or another code.         *)
(*                                                                         *)
(* A run posts once: neither EnrollSecure nor the HTTP client repeats a    *)
(* POST.  A node UUID and a public key are generated together, so both are *)
(* named after the process that did it.                                    *)
(***************************************************************************)
EXTENDS AgentIdentity, Naturals

CONSTANTS
  Users,      \* accounts whose codes are used on the machine
  Codes,      \* enrollment codes
  Lifetime,   \* enrollmentCodeLifetime
  TimeLimit   \* bound: the last instant of the clock

ASSUME EnrollmentAssumption ==
  /\ None \notin Users \cup Codes
  /\ Lifetime \in Nat \ {0} /\ TimeLimit \in Nat

VARIABLES
  now,        \* the clock of the database
  post,       \* the request of each process, or the answer to it
  told,       \* what each process tells its user
  tokens, nodes, status  \* the registry

Registry == INSTANCE EnrollmentRegistry
  WITH Nodes <- Procs, Keys <- Procs, Owner <- CHOOSE u \in Users : TRUE,
       Times <- 0..(TimeLimit + Lifetime),
       Users <- Users, Codes <- Codes, None <- None,
       tokens <- tokens, nodes <- nodes, status <- status

tables == <<tokens, nodes, status>>
enrollmentVars == <<vars, now, post, told, tables>>

NoPost == [state |-> "none", code |-> None, id |-> None]

EnrollmentInit ==
  /\ Init
  /\ Registry!Init
  /\ now = 0
  /\ post = [p \in Procs |-> NoPost]
  /\ told = [p \in Procs |-> "nothing"]

-------------------------------------------------------------------------------
(* The agent.                                                              *)

ObtainIdentity(p) ==
  /\ LoadOrCreateIdentity(p)
  /\ UNCHANGED <<now, post, told, tables>>

\* client.Do, with whichever code the user has: not issued, spent and expired ones too.
Send(p, c) ==
  /\ told[p] = "nothing"
  /\ EnrollSecure(p)
  /\ post' = [post EXCEPT ![p] = [state |-> "request", code |-> c, id |-> using[p]]]
  /\ told' = [told EXCEPT ![p] = "waiting"]
  /\ UNCHANGED <<now, tables>>

\* The request of p, or the answer to it, is now in state s.
Becomes(p, s) == post' = [post EXCEPT ![p] = [state |-> s, code |-> @.code, id |-> @.id]]

Waiting(p) == told[p] = "waiting" /\ pc[p] # "killed"

\* Seeded fault: any answer counts.
ReceiveAny(p) ==
  /\ Waiting(p)
  /\ post[p].state \in {"accepted", "refused"}
  /\ told' = [told EXCEPT ![p] = "accepted"]
  /\ UNCHANGED <<vars, now, post, tables>>

\* The answer is 201 and confirms the node, or it is an error.
Receive(p) ==
  /\ Waiting(p)
  /\ post[p].state \in {"accepted", "refused"}
  /\ told' = [told EXCEPT ![p] = IF post[p].state = "accepted" THEN "accepted" ELSE "failed"]
  /\ UNCHANGED <<vars, now, post, tables>>

\* The client's timeout, or the context's; the request may still arrive.
TimeOut(p) ==
  /\ Waiting(p)
  /\ told' = [told EXCEPT ![p] = "failed"]
  /\ UNCHANGED <<vars, now, post, tables>>

KillAgent(p) ==
  /\ Kill(p)
  /\ UNCHANGED <<now, post, told, tables>>

-------------------------------------------------------------------------------
(* The control plane and the network.                                      *)

\* issueEnrollmentCode for a signed-in user.
IssueCode(c, u) ==
  /\ Registry!Issue(c, u, now + Lifetime)
  /\ UNCHANGED <<vars, now, post, told>>

\* The code is redeemed.  If COMMIT succeeds and its answer is lost to the deadline of the
\* handler, the agent is sent an error all the same.
Redeem(p) ==
  /\ post[p].state = "request"
  /\ Registry!Redeem(post[p].code, post[p].id, post[p].id, now)
  /\ Accept(post[p].id)
  /\ Becomes(p, "accepted") \/ Becomes(p, "refused")
  /\ UNCHANGED <<now, told>>

\* Nothing is written: the code or the node is not acceptable, the limiter refuses, the
\* database fails.
Refuse(p) ==
  /\ post[p].state = "request"
  /\ Becomes(p, "refused")
  /\ UNCHANGED <<vars, now, told, tables>>

\* The request or the answer is lost.
Lose(p) ==
  /\ post[p].state \in {"request", "accepted", "refused"}
  /\ Becomes(p, "lost")
  /\ UNCHANGED <<vars, now, told, tables>>

TimePasses ==
  /\ now < TimeLimit
  /\ now' = now + 1
  /\ UNCHANGED <<vars, post, told, tables>>

EnrollmentNext ==
  \/ \E p \in Procs :
       \/ ObtainIdentity(p)
       \/ \E c \in Codes : Send(p, c)
       \/ Receive(p) \/ TimeOut(p) \/ KillAgent(p)
       \/ Redeem(p) \/ Refuse(p) \/ Lose(p)
  \/ \E c \in Codes, u \in Users : IssueCode(c, u)
  \/ TimePasses

EnrollmentSpec == EnrollmentInit /\ [][EnrollmentNext]_enrollmentVars

-------------------------------------------------------------------------------
(* Properties.                                                             *)

Registered(i) == nodes[i] # Registry!NoRow

\* "Enrollment accepted." is true: the node and key of this machine are bound to the
\* account that issued the code, and the code was spent on this very node, whatever other
\* runs on the machine did before the answer came and after.
AcceptanceIsTrue ==
  \A p \in Procs :
    told[p] = "accepted" =>
      LET c == post[p].code
          i == post[p].id
      IN nodes[i] = [user |-> tokens[c].user, key |-> i] /\ tokens[c].node = i

\* A lost answer is no dead end: whatever happened to the runs before, any fresh code of
\* the account that a machine is registered to can be redeemed for the machine again.
RetryIsAdmitted ==
  \A i \in Procs, c \in Codes :
    (/\ Registered(i) /\ tokens[c].user = nodes[i].user
     /\ tokens[c].node = None /\ now < tokens[c].expires)
      => Registry!Admits(nodes[i], tokens[c].user, i) /\ Registry!KeyIsOwn(i, i)

===============================================================================
