-------------------------- MODULE EnrollmentRegistry --------------------------
(***************************************************************************)
(* What node enrollment promises its callers, with no transactions in it:  *)
(* enrollment codes are issued to an account, a code is redeemed at most   *)
(* once and in one indivisible step that also creates or binds the node,   *)
(* and a node never changes account or cryptographic identity.  The module *)
(* Enrollment, which models the SQL transactions of server/enrollment.go   *)
(* and server/postgres.go statement by statement, implements it.           *)
(***************************************************************************)
EXTENDS EnrollmentTables

Init == TablesInit

\* Seeded fault: a node that is registered already is turned away.
AdmitsNew(row, u, k) == row = NoRow

(***************************************************************************)
(* A node may be bound to account u under key k if it is new, or already   *)
(* belongs to u and has no other key.                                      *)
(***************************************************************************)
Admits(row, u, k) == row = NoRow \/ (row.user = u /\ row.key \in {None, k})

\* A key is the identity of one node.
KeyIsOwn(n, k) == \A m \in Nodes : nodes[m].key = k => m = n

\* Enrollment shows a node that was not shown before, and takes none offline.
Shown(n) == status' = [status EXCEPT ![n] = IF @ = "online" THEN "online" ELSE "enrolled"]

Issue(c, u, e) ==
  /\ tokens[c] = NoToken
  /\ tokens' = [tokens EXCEPT ![c] = [user |-> u, expires |-> e, node |-> None, usedAt |-> 0]]
  /\ UNCHANGED <<nodes, status>>

Redeem(c, n, k, t) ==
  /\ tokens[c].user # None
  /\ tokens[c].node = None
  /\ t < tokens[c].expires
  /\ Admits(nodes[n], tokens[c].user, k)
  /\ KeyIsOwn(n, k)
  /\ nodes' = [nodes EXCEPT ![n] = [user |-> tokens[c].user, key |-> k]]
  /\ tokens' = [tokens EXCEPT ![c] =
                  [user |-> @.user, expires |-> @.expires, node |-> n, usedAt |-> t]]
  /\ Shown(n)

LegacyEnroll(n) ==
  /\ nodes[n].user \in {None, Owner}
  /\ nodes' = [nodes EXCEPT ![n] = [user |-> Owner, key |-> @.key]]
  /\ Shown(n)
  /\ UNCHANGED tokens

Beat(n) ==
  /\ nodes[n].user = Owner
  /\ status' = [status EXCEPT ![n] = "online"]
  /\ UNCHANGED <<tokens, nodes>>

Next ==
  \/ \E c \in Codes, u \in Users, e \in Times : Issue(c, u, e)
  \/ \E c \in Codes, n \in Nodes, k \in Keys, t \in Times : Redeem(c, n, k, t)
  \/ \E n \in Nodes : LegacyEnroll(n) \/ Beat(n)

Spec == Init /\ [][Next]_tables

===============================================================================
