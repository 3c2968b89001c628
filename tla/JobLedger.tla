------------------------------- MODULE JobLedger -------------------------------
(***************************************************************************)
(* Jobs, their audit trail, their usage records and the credit ledger, as  *)
(* the constraints and triggers of 000002_audit_and_ledger.up.sql guard    *)
(* them.  Clients are any transactions over these tables: a transaction is *)
(* what it has written and locked so far, and ends with COMMIT or ROLLBACK.*)
(*                                                                         *)
(* At READ COMMITTED a statement sees the committed rows and the rows its  *)
(* own transaction has written.  A statement that meets a lock or an index *)
(* entry of another transaction waits: its action is not enabled.  One     *)
(* that a constraint or a trigger refuses aborts its transaction, which is *)
(* Rollback.  UPDATE, DELETE and TRUNCATE of the append-only tables, and   *)
(* DELETE and TRUNCATE of jobs, are always refused.                        *)
(***************************************************************************)
EXTENDS Sequences, Naturals

CONSTANTS
  Txns,      \* database sessions, one transaction at a time each
  Users,
  Nodes,
  NodeUser,  \* nodes.user_id, immutable by the trigger node_identity
  Jobs,
  Keys,      \* idempotency keys
  None,      \* SQL NULL, and "no transaction"
  Kept       \* stands for the writer of a row that is committed

ASSUME LedgerAssumption ==
  /\ NodeUser \in [Nodes -> Users]
  /\ None \notin Txns \cup Users \cup Nodes \cup Jobs \cup {Kept}
  /\ Kept \notin Txns

VARIABLES
  jobs,     \* the committed rows of jobs
  log,      \* the committed status events of each job, in the order of their ids
  draft,    \* the version of a job, and of its events, that a transaction has written
  sharers,  \* the transactions that hold a row lock FOR SHARE on the job
  usage,    \* who wrote the usage record of each job
  wallet    \* wallet_transactions, by idempotency key

vars == <<jobs, log, draft, sharers, usage, wallet>>

Terminal == {"completed", "failed", "cancelled"}
Status == {"queued", "running"} \cup Terminal
Kind == {"earning", "usage"}

NoJob == [consumer |-> None, provider |-> None, status |-> "none"]
Job == [consumer: Users, provider: Nodes \cup {None}, status: Status]

\* An event: created with a status (from is "none"), or the status changed.
Event == [from: Status \cup {"none"}, to: Status]

NoDraft == [by |-> None, row |-> NoJob, log |-> <<>>]

NoEntry == [job |-> None, kind |-> "none", user |-> None, by |-> None]
Entry == [job: Jobs, kind: Kind, user: Users, by: Txns \cup {Kept}]

Init ==
  /\ jobs = [j \in Jobs |-> NoJob]
  /\ log = [j \in Jobs |-> <<>>]
  /\ draft = [j \in Jobs |-> NoDraft]
  /\ sharers = [j \in Jobs |-> {}]
  /\ usage = [j \in Jobs |-> None]
  /\ wallet = [k \in Keys |-> NoEntry]

--------------------------------------------------------------------------------

\* What a statement of transaction t sees.
Row(t, j) == IF draft[j].by = t THEN draft[j].row ELSE jobs[j]
Log(t, j) == IF draft[j].by = t THEN draft[j].log ELSE log[j]

\* A row lock FOR SHARE: no other transaction has written the row.
MayShare(t, j) == draft[j].by \in {None, t}

\* A row lock for an UPDATE: nor does another one share it.
MayWrite(t, j) == MayShare(t, j) /\ sharers[j] \subseteq {t}

\* Seeded fault: only a change of status is refused to a terminal job.
GuardJobStatusOnly(old, new) ==
  /\ new.consumer = old.consumer
  /\ old.provider # None => new.provider = old.provider
  /\ new.status # old.status =>
       \/ old.status = "queued" /\ new.status \in {"running", "failed", "cancelled"}
       \/ old.status = "running" /\ new.status \in Terminal
  /\ new.status \in {"running", "completed"} => new.provider # None

\* meshalot_guard_job: what an UPDATE may make of a row.
GuardJob(old, new) ==
  /\ new.consumer = old.consumer
  /\ old.provider # None => new.provider = old.provider
  /\ old.status \in Terminal => new = old
  /\ new.status # old.status =>
       \/ old.status = "queued" /\ new.status \in {"running", "failed", "cancelled"}
       \/ old.status = "running" /\ new.status \in Terminal
  /\ new.status \in {"running", "completed"} => new.provider # None

\* Seeded fault: the trigger fires AFTER UPDATE only.
RecordUpdatesOnly(events, old, new) ==
  IF new.status = old.status \/ old.status = "none" THEN events
  ELSE Append(events, [from |-> old.status, to |-> new.status])

\* meshalot_record_job_status: an event for the creation and for each change of status.
RecordJobStatus(events, old, new) ==
  IF new.status = old.status THEN events
  ELSE Append(events, [from |-> old.status, to |-> new.status])

Write(t, j, new) ==
  draft' = [draft EXCEPT ![j] =
              [by |-> t, row |-> new, log |-> RecordJobStatus(Log(t, j), Row(t, j), new)]]

\* INSERT INTO jobs: a new id, and the status queued.
InsertJob(t, j, c, p) ==
  /\ jobs[j] = NoJob
  /\ draft[j].by = None
  /\ Write(t, j, [consumer |-> c, provider |-> p, status |-> "queued"])
  /\ UNCHANGED <<jobs, log, sharers, usage, wallet>>

\* UPDATE jobs: any columns, as far as the trigger lets them through.
UpdateJob(t, j, new) ==
  /\ MayWrite(t, j)
  /\ Row(t, j) # NoJob
  /\ GuardJob(Row(t, j), new)
  /\ Write(t, j, new)
  /\ UNCHANGED <<jobs, log, sharers, usage, wallet>>

Share(t, j) ==
  /\ MayShare(t, j)
  /\ sharers' = [sharers EXCEPT ![j] = @ \cup {t}]

\* meshalot_check_usage: a terminal job that has a provider.
CheckUsage(row) == row.provider # None /\ row.status \in Terminal

\* INSERT INTO usage_records: one record for a job, the unique index says.
InsertUsage(t, j) ==
  /\ Share(t, j)
  /\ CheckUsage(Row(t, j))
  /\ usage[j] = None
  /\ usage' = [usage EXCEPT ![j] = t]
  /\ UNCHANGED <<jobs, log, draft, wallet>>

\* Seeded fault: the trigger takes a usage record for written that may yet be rolled back.
CheckWalletDirty(t, j, kind, u) ==
  /\ Row(t, j).status = "completed"
  /\ usage[j] # None
  /\ u = IF kind = "earning" THEN NodeUser[Row(t, j).provider] ELSE Row(t, j).consumer

\* meshalot_check_wallet: a completed job with usage, and the party the entry is for.
CheckWallet(t, j, kind, u) ==
  /\ Row(t, j).status = "completed"
  /\ usage[j] \in {t, Kept}
  /\ u = IF kind = "earning" THEN NodeUser[Row(t, j).provider] ELSE Row(t, j).consumer

\* Seeded fault: a SELECT of the entries it can see in place of the unique constraint.
NoEntryVisible(t, j, kind) ==
  \A k \in Keys : wallet[k].job = j /\ wallet[k].kind = kind => wallet[k].by \notin {t, Kept}

\* wallet_one_entry_per_kind, entries that are not committed yet included.
OneEntryPerKind(t, j, kind) == \A k \in Keys : ~(wallet[k].job = j /\ wallet[k].kind = kind)

\* INSERT INTO wallet_transactions, under an idempotency key that is not in use.
InsertEntry(t, k, j, kind, u) ==
  /\ Share(t, j)
  /\ CheckWallet(t, j, kind, u)
  /\ wallet[k] = NoEntry
  /\ OneEntryPerKind(t, j, kind)
  /\ wallet' = [wallet EXCEPT ![k] = [job |-> j, kind |-> kind, user |-> u, by |-> t]]
  /\ UNCHANGED <<jobs, log, draft, usage>>

--------------------------------------------------------------------------------

\* The transaction ends: its versions are nobody's, and its locks are free.
End(t) ==
  /\ draft' = [j \in Jobs |-> IF draft[j].by = t THEN NoDraft ELSE draft[j]]
  /\ sharers' = [j \in Jobs |-> sharers[j] \ {t}]

Confirmed(e) == [job |-> e.job, kind |-> e.kind, user |-> e.user, by |-> Kept]

Commit(t) ==
  /\ jobs' = [j \in Jobs |-> Row(t, j)]
  /\ log' = [j \in Jobs |-> Log(t, j)]
  /\ usage' = [j \in Jobs |-> IF usage[j] = t THEN Kept ELSE usage[j]]
  /\ wallet' = [k \in Keys |-> IF wallet[k].by = t THEN Confirmed(wallet[k]) ELSE wallet[k]]
  /\ End(t)

\* A refused statement, a deadlock, a client that gives up, a lost connection or a crash.
Rollback(t) ==
  /\ usage' = [j \in Jobs |-> IF usage[j] = t THEN None ELSE usage[j]]
  /\ wallet' = [k \in Keys |-> IF wallet[k].by = t THEN NoEntry ELSE wallet[k]]
  /\ End(t)
  /\ UNCHANGED <<jobs, log>>

Next ==
  \E t \in Txns :
    \/ \E j \in Jobs :
         \/ \E c \in Users, p \in Nodes \cup {None} : InsertJob(t, j, c, p)
         \/ \E new \in Job : UpdateJob(t, j, new)
         \/ InsertUsage(t, j)
         \/ \E k \in Keys, kind \in Kind, u \in Users : InsertEntry(t, k, j, kind, u)
    \/ Commit(t) \/ Rollback(t)

Spec == Init /\ [][Next]_vars

--------------------------------------------------------------------------------
(* Properties, of what is committed.                                        *)

\* Every variable has its type.
TypeOK ==
  /\ jobs \in [Jobs -> Job \cup {NoJob}]
  /\ log \in [Jobs -> Seq(Event)]
  /\ draft \in [Jobs -> [by: Txns, row: Job, log: Seq(Event)] \cup {NoDraft}]
  /\ sharers \in [Jobs -> SUBSET Txns]
  /\ usage \in [Jobs -> Txns \cup {None, Kept}]
  /\ wallet \in [Keys -> Entry \cup {NoEntry}]

Booked == {k \in Keys : wallet[k].by = Kept}

\* An entry that is booked has, at every moment, a completed job behind it, that has a usage
\* record and names the user as its consumer or as the owner of its provider: nothing that
\* the entry was checked against is rolled back or changed (database/README.md: "They
\* require a completed job with usage").
EntriesAreJustified ==
  \A k \in Booked :
    LET e == wallet[k]
        job == jobs[e.job]
    IN /\ job.status = "completed"
       /\ usage[e.job] = Kept
       /\ e.user = IF e.kind = "earning" THEN NodeUser[job.provider] ELSE job.consumer

\* A retry under another idempotency key, concurrent or later, never pays or charges a job
\* twice (the comment on wallet_one_entry_per_kind).
PaidOnce ==
  \A k, l \in Booked : wallet[k].job = wallet[l].job /\ wallet[k].kind = wallet[l].kind => k = l

\* Usage can be traced to both parties: the joins of the view job_usage_parties find a
\* terminal job and its provider for every usage record.
UsageIsTraceable ==
  \A j \in Jobs : usage[j] = Kept => jobs[j].status \in Terminal /\ jobs[j].provider \in Nodes

\* The committed events of a job are its history, without gaps and without the transitions
\* of transactions that were rolled back: they begin with its creation, each one starts
\* where the one before ended, and the last one is its status.
HistoryIsComplete ==
  \A j \in Jobs :
    /\ jobs[j] = NoJob <=> log[j] = <<>>
    /\ log[j] # <<>> =>
         /\ log[j][1] = [from |-> "none", to |-> "queued"]
         /\ log[j][Len(log[j])].to = jobs[j].status
         /\ \A i \in 2 .. Len(log[j]) : log[j][i].from = log[j][i-1].to

\* No step changes a terminal job, the parties of a job, or what the log says of it.
HistoryIsFinal ==
  [][\A j \in Jobs :
       /\ jobs[j].status \in Terminal => jobs'[j] = jobs[j] /\ log'[j] = log[j]
       /\ jobs[j] # NoJob => jobs'[j].consumer = jobs[j].consumer
       /\ jobs[j].provider # None => jobs'[j].provider = jobs[j].provider
       /\ Len(log'[j]) >= Len(log[j]) /\ \A i \in 1 .. Len(log[j]) : log'[j][i] = log[j][i]]_vars

================================================================================
