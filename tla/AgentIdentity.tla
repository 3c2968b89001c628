----------------------------- MODULE AgentIdentity -----------------------------
(***************************************************************************)
(* The agent's identity file: LoadOrCreateIdentity of agent/identity.go as *)
(* run by several agent processes that share one path, each of which then  *)
(* enrolls with the identity it obtained (runEnroll, EnrollSecure).  File  *)
(* operations are single steps; between two of them other processes run,   *)
(* and a process can be killed.  An identity is named after the process    *)
(* that generated it: Ed25519 keys and UUIDs are random, hence distinct.   *)
(***************************************************************************)
CONSTANTS
  Procs,     \* agent processes started over the life of the machine
  None       \* no identity

ASSUME IdentityAssumption == None \notin Procs

VARIABLES
  file,      \* the identity file: who wrote it, and how much of it is there
  pc,        \* what each process does next
  using,     \* the identity each process obtained
  sent,      \* identities that a request has presented to the control plane
  enrolled,  \* identities the control plane has accepted
  ioFailed   \* whether some write, sync or close has failed

vars == <<file, pc, using, sent, enrolled, ioFailed>>

Absent == [id |-> None, content |-> "absent"]
File == [id: Procs, content: {"empty", "partial", "full"}]

PC == {"start", "read", "open", "write", "sync", "cleanup", "reload", "reread",
       "created", "loaded", "failed", "killed"}

Init ==
  /\ file = Absent
  /\ pc = [p \in Procs |-> "start"]
  /\ using = [p \in Procs |-> None]
  /\ sent = {}
  /\ enrolled = {}
  /\ ioFailed = FALSE

Goto(p, l) == pc' = [pc EXCEPT ![p] = l]

\* The content parses and validates: Unmarshal and validateIdentity accept only a whole file.
Whole == file.content = "full"

Obtain(p, i) == using' = [using EXCEPT ![p] = i]

--------------------------------------------------------------------------------
(* LoadIdentity, first call: Lstat, then ReadFile.                          *)

Lstat(p) ==
  /\ pc[p] = "start"
  /\ Goto(p, IF file = Absent THEN "open" ELSE "read")
  /\ UNCHANGED <<file, using, sent, enrolled, ioFailed>>

\* A file that vanished after Lstat is ErrNotExist again, and the caller generates one.
ReadFile(p) ==
  /\ pc[p] = "read"
  /\ \/ file = Absent /\ Goto(p, "open") /\ UNCHANGED using
     \/ Whole /\ Goto(p, "loaded") /\ Obtain(p, file.id)
     \/ file # Absent /\ ~Whole /\ Goto(p, "failed") /\ UNCHANGED using
  /\ UNCHANGED <<file, sent, enrolled, ioFailed>>

--------------------------------------------------------------------------------
(* writeIdentity: exclusive creation, write, sync, close, or remove.        *)

\* Seeded fault: os.WriteFile, which truncates a file that is there.
OpenTruncating(p) ==
  /\ pc[p] = "open"
  /\ file' = [id |-> p, content |-> "empty"]
  /\ Goto(p, "write")
  /\ UNCHANGED <<using, sent, enrolled, ioFailed>>

OpenExclusive(p) ==
  /\ pc[p] = "open"
  /\ \/ file = Absent /\ file' = [id |-> p, content |-> "empty"] /\ Goto(p, "write")
     \/ file # Absent /\ Goto(p, "reload") /\ UNCHANGED file
  /\ UNCHANGED <<using, sent, enrolled, ioFailed>>

Write(p) ==
  /\ pc[p] = "write"
  /\ file' = [id |-> p, content |-> "full"]
  /\ Goto(p, "sync")
  /\ UNCHANGED <<using, sent, enrolled, ioFailed>>

\* A short write: the disk is full.
WriteFails(p) ==
  /\ pc[p] = "write"
  /\ file' \in {file, [id |-> p, content |-> "partial"]}
  /\ Goto(p, "cleanup")
  /\ ioFailed' = TRUE
  /\ UNCHANGED <<using, sent, enrolled>>

\* Seeded fault: the cleanup flag is not cleared on the way out.
SyncThenRemove(p) ==
  /\ pc[p] = "sync"
  /\ file' = Absent
  /\ Goto(p, "created")
  /\ Obtain(p, p)
  /\ UNCHANGED <<sent, enrolled, ioFailed>>

SyncAndClose(p) ==
  /\ pc[p] = "sync"
  /\ Goto(p, "created")
  /\ Obtain(p, p)
  /\ UNCHANGED <<file, sent, enrolled, ioFailed>>

\* Sync or Close reports an error after the whole file became visible to readers.
SyncFails(p) ==
  /\ pc[p] = "sync"
  /\ Goto(p, "cleanup")
  /\ ioFailed' = TRUE
  /\ UNCHANGED <<file, using, sent, enrolled>>

\* The deferred os.Remove(path), whose own error is ignored.
Cleanup(p) ==
  /\ pc[p] = "cleanup"
  /\ file' \in {Absent, file}
  /\ Goto(p, "failed")
  /\ UNCHANGED <<using, sent, enrolled, ioFailed>>

--------------------------------------------------------------------------------
(* LoadIdentity, second call, after losing the race to create the file.     *)

Relstat(p) ==
  /\ pc[p] = "reload"
  /\ Goto(p, IF file = Absent THEN "failed" ELSE "reread")
  /\ UNCHANGED <<file, using, sent, enrolled, ioFailed>>

Reread(p) ==
  /\ pc[p] = "reread"
  /\ \/ Whole /\ Goto(p, "loaded") /\ Obtain(p, file.id)
     \/ ~Whole /\ Goto(p, "failed") /\ UNCHANGED using
  /\ UNCHANGED <<file, sent, enrolled, ioFailed>>

--------------------------------------------------------------------------------
(* runEnroll, once it has an identity.                                      *)

\* EnrollSecure presents the identity.
EnrollSecure(p) ==
  /\ pc[p] \in {"created", "loaded"}
  /\ sent' = sent \cup {using[p]}
  /\ UNCHANGED <<file, pc, using, enrolled, ioFailed>>

(***************************************************************************)
(* The control plane accepts an identity, at any time after it was sent:   *)
(* the process that sent it may have timed out or be dead by then.         *)
(***************************************************************************)
Accept(i) ==
  /\ i \in sent
  /\ enrolled' = enrolled \cup {i}
  /\ UNCHANGED <<file, pc, using, sent, ioFailed>>

\* A kill, an exit or a crash of the process, which runs no deferred function.
Kill(p) ==
  /\ pc[p] # "killed"
  /\ Goto(p, "killed")
  /\ Obtain(p, None)
  /\ UNCHANGED <<file, sent, enrolled, ioFailed>>

\* LoadOrCreateIdentity as run by process p.
LoadOrCreateIdentity(p) ==
  \/ Lstat(p) \/ ReadFile(p)
  \/ OpenExclusive(p) \/ Write(p) \/ WriteFails(p) \/ SyncAndClose(p) \/ SyncFails(p)
  \/ Cleanup(p)
  \/ Relstat(p) \/ Reread(p)

Next == \E p \in Procs : LoadOrCreateIdentity(p) \/ EnrollSecure(p) \/ Accept(p) \/ Kill(p)

Spec == Init /\ [][Next]_vars

--------------------------------------------------------------------------------
(* Properties.                                                              *)

\* Every variable has its type.
TypeOK ==
  /\ file \in File \cup {Absent}
  /\ pc \in [Procs -> PC]
  /\ using \in [Procs -> Procs \cup {None}]
  /\ sent \subseteq Procs
  /\ enrolled \subseteq Procs
  /\ ioFailed \in BOOLEAN

\* A process that reported a newly created identity finds it again: the file still holds
\* it whole, whatever other processes did since (LoadOrCreateIdentity returned true).
CreatedIdentityPersists ==
  \A p \in Procs : pc[p] = "created" => file = [id |-> p, content |-> "full"]

\* A whole identity file is never overwritten: only the process that wrote it can take it
\* away, and only while it cleans up after a failed sync or close.
NeverOverwritten ==
  [][Whole => file' = file \/ (file' = Absent /\ pc[file.id] = "cleanup")]_vars

\* Without I/O errors all processes on a machine share one identity, and the control plane
\* knows the machine by no other: lost answers, timeouts, kills, late requests and runs
\* that compete for the file never leave a second node behind.
OneIdentity ==
  ~ioFailed =>
    /\ \A p, q \in Procs : using[p] # None /\ using[q] # None => using[p] = using[q]
    /\ \A i \in enrolled : file = [id |-> i, content |-> "full"]

\* An enrolled identity stays loadable: docs/milestone6.md promises a persistent identity.
EnrolledIdentityPersists ==
  \A i \in enrolled : file = [id |-> i, content |-> "full"]

================================================================================
