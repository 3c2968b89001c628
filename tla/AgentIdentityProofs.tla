------------------------- MODULE AgentIdentityProofs -------------------------
(***************************************************************************)
(* Proofs about AgentIdentity, for any number of processes.  The invariant *)
(* says what exclusive creation buys: the process that created the file    *)
(* owns it until it is done, and only its owner writes to it or takes it   *)
(* away.                                                                   *)
(***************************************************************************)
EXTENDS AgentIdentity, TLAPS

Full(i) == [id |-> i, content |-> "full"]

\* The process that created the file finds its own identity there.
Owned ==
  \A p \in Procs :
    /\ pc[p] \in {"write", "sync", "cleanup", "created"} => file.id = p
    /\ pc[p] = "write" => file.content = "empty"
    /\ pc[p] \in {"sync", "created"} => file.content = "full"

\* Whoever returned from LoadOrCreateIdentity without an error has an identity.
Obtained == \A p \in Procs : pc[p] \in {"created", "loaded"} => using[p] \in Procs

\* Without I/O errors nobody cleans up, and what is in use or was sent is in the file.
Shared ==
  ~ioFailed =>
    /\ \A p \in Procs : pc[p] # "cleanup"
    /\ \A p \in Procs : using[p] # None => file = Full(using[p])
    /\ \A i \in sent \cup enrolled : file = Full(i)

IInv == TypeOK /\ Owned /\ Obtained /\ Shared

-------------------------------------------------------------------------------

\* The initial state satisfies the invariant.
LEMMA InitInv == Init => IInv
  BY IdentityAssumption
  DEF Init, IInv, TypeOK, Owned, Obtained, Shared, Absent, File, PC

\* Every step of every process preserves it.
LEMMA NextInv == IInv /\ [Next]_vars => IInv'
<1> SUFFICES ASSUME IInv, [Next]_vars PROVE IInv'
  OBVIOUS
<1> USE IdentityAssumption DEF IInv, TypeOK, Owned, Obtained, Shared, Full, Absent, File, PC,
        Goto, Obtain, Whole
<1>1. CASE UNCHANGED vars
  BY <1>1 DEF vars
<1>2. ASSUME NEW p \in Procs, Lstat(p) PROVE IInv'
  BY <1>2 DEF Lstat
<1>3. ASSUME NEW p \in Procs, ReadFile(p) PROVE IInv'
  BY <1>3 DEF ReadFile
<1>4. ASSUME NEW p \in Procs, OpenExclusive(p) PROVE IInv'
  BY <1>4 DEF OpenExclusive
<1>5. ASSUME NEW p \in Procs, Write(p) PROVE IInv'
  BY <1>5 DEF Write
<1>6. ASSUME NEW p \in Procs, WriteFails(p) PROVE IInv'
  BY <1>6 DEF WriteFails
<1>7. ASSUME NEW p \in Procs, SyncAndClose(p) PROVE IInv'
  BY <1>7 DEF SyncAndClose
<1>8. ASSUME NEW p \in Procs, SyncFails(p) PROVE IInv'
  BY <1>8 DEF SyncFails
<1>9. ASSUME NEW p \in Procs, Cleanup(p) PROVE IInv'
  BY <1>9 DEF Cleanup
<1>10. ASSUME NEW p \in Procs, Relstat(p) \/ Reread(p) PROVE IInv'
  BY <1>10 DEF Relstat, Reread
<1>11. ASSUME NEW p \in Procs, EnrollSecure(p) PROVE IInv'
  BY <1>11 DEF EnrollSecure
<1>12. ASSUME NEW p \in Procs, Accept(p) PROVE IInv'
  BY <1>12 DEF Accept
<1>13. ASSUME NEW p \in Procs, Kill(p) PROVE IInv'
  BY <1>13 DEF Kill
<1>14. QED
  BY <1>1, <1>2, <1>3, <1>4, <1>5, <1>6, <1>7, <1>8, <1>9, <1>10, <1>11, <1>12, <1>13
  DEF Next, LoadOrCreateIdentity

\* The invariant holds in every reachable state.
LEMMA Invariance == Spec => []IInv
  BY InitInv, NextInv, PTL DEF Spec

-------------------------------------------------------------------------------

\* Every variable has its type (the model's own sanity check).
THEOREM TypeCorrect == Spec => []TypeOK
<1>1. IInv => TypeOK
  BY DEF IInv
<1>2. QED
  BY <1>1, Invariance, PTL

\* A process that LoadOrCreateIdentity told it created an identity finds it in the file.
THEOREM CreatedPersists == Spec => []CreatedIdentityPersists
<1>1. IInv => CreatedIdentityPersists
  BY IdentityAssumption
  DEF IInv, TypeOK, Owned, CreatedIdentityPersists, File, Absent, PC
<1>2. QED
  BY <1>1, Invariance, PTL

\* Without I/O errors all processes, and the control plane, know one identity.
THEOREM SharedIdentity == Spec => []OneIdentity
<1>1. IInv => OneIdentity
  <2> SUFFICES ASSUME IInv, ~ioFailed
               PROVE /\ \A p, q \in Procs :
                          using[p] # None /\ using[q] # None => using[p] = using[q]
                     /\ \A i \in enrolled : file = [id |-> i, content |-> "full"]
    BY DEF OneIdentity
  <2>1. \A i \in enrolled : file = [id |-> i, content |-> "full"]
    BY DEF IInv, Shared, Full
  <2>2. ASSUME NEW p \in Procs, NEW q \in Procs, using[p] # None, using[q] # None
        PROVE using[p] = using[q]
    <3>1. file = Full(using[p]) /\ file = Full(using[q])
      BY <2>2 DEF IInv, Shared
    <3>2. file.id = using[p] /\ file.id = using[q]
      BY <3>1 DEF Full
    <3>3. QED
      BY <3>2
  <2>3. QED
    BY <2>1, <2>2
<1>2. QED
  BY <1>1, Invariance, PTL

\* Only its owner takes a whole identity file away, after a failed sync or close; nobody
\* ever overwrites it (O_EXCL in writeIdentity).
THEOREM WholeFileStays == Spec => NeverOverwritten
<1>1. IInv /\ [Next]_vars
        => [Whole => file' = file \/ (file' = Absent /\ pc[file.id] = "cleanup")]_vars
  <2> SUFFICES ASSUME IInv, [Next]_vars, Whole, file' # file
               PROVE file' = Absent /\ pc[file.id] = "cleanup"
    OBVIOUS
  <2> USE IdentityAssumption DEF IInv, TypeOK, Owned, Absent, File, PC, Goto, Obtain, Whole
  <2>1. PICK p \in Procs : LoadOrCreateIdentity(p) \/ EnrollSecure(p) \/ Accept(p) \/ Kill(p)
    BY DEF Next, vars
  <2>2. LoadOrCreateIdentity(p)
    BY <2>1 DEF EnrollSecure, Accept, Kill
  <2>3. OpenExclusive(p) \/ Write(p) \/ WriteFails(p) \/ Cleanup(p)
    BY <2>2 DEF LoadOrCreateIdentity, Lstat, ReadFile, SyncAndClose, SyncFails, Relstat, Reread
  <2>4. CASE OpenExclusive(p)
    BY <2>4 DEF OpenExclusive
  <2>5. CASE Write(p)
    BY <2>5 DEF Write
  <2>6. CASE WriteFails(p)
    BY <2>6 DEF WriteFails
  <2>7. CASE Cleanup(p)
    BY <2>7 DEF Cleanup
  <2>8. QED
    BY <2>3, <2>4, <2>5, <2>6, <2>7
<1>2. QED
  BY <1>1, Invariance, PTL DEF Spec, NeverOverwritten

===============================================================================
