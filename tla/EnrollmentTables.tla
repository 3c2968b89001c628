--------------------------- MODULE EnrollmentTables ---------------------------
(***************************************************************************)
(* The three PostgreSQL tables that enrollment reads and writes, as far as *)
(* its correctness depends on them: enrollment_tokens, nodes, node_status. *)
(* A column that no decision reads (agent_version, timestamps of creation) *)
(* is left out; surrogate ids are identified with the natural keys they    *)
(* stand for, since a trigger keeps both immutable.                        *)
(***************************************************************************)
EXTENDS Naturals

CONSTANTS
  Users,          \* accounts
  Owner,          \* the account that legacy (development token) nodes join
  Codes,          \* enrollment codes (the table stores their hashes)
  Nodes,          \* node UUIDs (nodes.node_key)
  Keys,           \* Ed25519 public keys
  None,           \* SQL NULL, and "nobody"
  Times           \* instants of the clock and expiry times computed from it

VARIABLES
  tokens,         \* enrollment_tokens, one row per code
  nodes,          \* nodes, one row per node UUID
  status          \* node_status, one row per node UUID

tables == <<tokens, nodes, status>>

ASSUME TableAssumption ==
  /\ Owner \in Users
  /\ None \notin Users \cup Codes \cup Nodes \cup Keys
  /\ Times \subseteq Nat

\* NoToken and NoRow stand for a row that is not there.
NoToken == [user |-> None, expires |-> 0, node |-> None, usedAt |-> 0]
Token == [user: Users, expires: Nat, node: Nodes \cup {None}, usedAt: Nat]

NoRow == [user |-> None, key |-> None]
NodeRow == [user: Users, key: Keys \cup {None}]

NodeStatus == {"none", "enrolled", "online"}

TablesInit ==
  /\ tokens = [c \in Codes |-> NoToken]
  /\ nodes = [n \in Nodes |-> NoRow]
  /\ status = [n \in Nodes |-> "none"]

TablesOK ==
  /\ tokens \in [Codes -> Token \cup {NoToken}]
  /\ nodes \in [Nodes -> NodeRow \cup {NoRow}]
  /\ status \in [Nodes -> NodeStatus]

===============================================================================
