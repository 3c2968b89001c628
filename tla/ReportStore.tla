------------------------------ MODULE ReportStore ------------------------------
(***************************************************************************)
(* What the ingestion of signed reports promises, with no handlers in it:  *)
(* a submission is authenticated, found timely and stored in one           *)
(* indivisible step, once for each id, and stays as it is.  Retries,       *)
(* copies, lost answers and refusals leave no trace.  The module           *)
(* ReportIngest, which models the handlers statement by statement,         *)
(* implements it.                                                          *)
(***************************************************************************)
EXTENDS Integers

CONSTANTS
  Nodes,
  Keys,
  Reports,      \* report ids
  Submissions,  \* what can be signed
  MaxSkew,
  None

VARIABLES
  now,    \* the server's clock
  key,    \* the key of each node, or None
  store   \* the accepted reports: their ids, contents, and when the server saw them

storage == <<now, key, store>>

Init ==
  /\ now = 0
  /\ key = [n \in Nodes |-> None]
  /\ store = {}

Bind(n, k) ==
  /\ key[n] = None
  /\ key' = [key EXCEPT ![n] = k]
  /\ UNCHANGED <<now, store>>

Within(t, u) == t - u <= MaxSkew /\ u - t <= MaxSkew

Entry == [id: Reports, content: Submissions, observedAt: Nat]

\* The server saw the submission at some time up to now, and takes it now.
Accept(e) ==
  LET s == e.content
  IN /\ e \in Entry
     /\ \A old \in store : old.id # e.id
     /\ key[s.node] = s.key
     /\ e.observedAt <= now
     /\ Within(e.observedAt, s.signedAt) /\ Within(s.signedAt, s.collectedAt)
     /\ store' = store \cup {e}
     /\ UNCHANGED <<now, key>>

Tick == now' = now + 1 /\ UNCHANGED <<key, store>>

Next ==
  \/ \E n \in Nodes, k \in Keys : Bind(n, k)
  \/ \E e \in store' : Accept(e)
  \/ Tick

Spec == Init /\ [][Next]_storage

===============================================================================
