--------------------------- MODULE JobLedgerProofs ---------------------------
(***************************************************************************)
(* The ledger's properties for any number of transactions, users, nodes,   *)
(* jobs and idempotency keys.                                              *)
(*                                                                         *)
(* The properties speak of committed rows, and a commit turns what its     *)
(* transaction wrote into committed rows.  The invariant therefore says    *)
(* the same of uncommitted rows, as their own transaction sees the tables: *)
(* a draft continues the committed job and its history, and a usage record *)
(* or an entry is justified in the view of whoever wrote it.  It survives  *)
(* the commits of others because a terminal job can only be replaced by    *)
(* itself.                                                                 *)
(***************************************************************************)
EXTENDS JobLedger, TLAPS

\* The events lg are the history of row.
Chain(row, lg) ==
  /\ row = NoJob <=> lg = <<>>
  /\ lg # <<>> =>
       /\ lg[1] = [from |-> "none", to |-> "queued"]
       /\ lg[Len(lg)].to = row.status
       /\ \A i \in 2 .. Len(lg) : lg[i].from = lg[i-1].to

\* The second job and its history are a later version of the first.
Continues(old, olog, new, nlog) ==
  /\ old.status \in Terminal => new = old /\ nlog = olog
  /\ old # NoJob => new # NoJob /\ new.consumer = old.consumer
  /\ old.provider # None => new.provider = old.provider
  /\ Len(nlog) >= Len(olog) /\ \A i \in 1 .. Len(olog) : nlog[i] = olog[i]

\* What InsertJob and UpdateJob make of a row.
Guarded(old, new) ==
  \/ old = NoJob /\ new.status = "queued"
  \/ old # NoJob /\ GuardJob(old, new)

Histories == \A j \in Jobs : Chain(jobs[j], log[j])

Drafts ==
  \A j \in Jobs : draft[j].by # None =>
    /\ Chain(draft[j].row, draft[j].log)
    /\ Continues(jobs[j], log[j], draft[j].row, draft[j].log)

Usages == \A j \in Jobs : usage[j] # None => CheckUsage(Row(usage[j], j))

\* Entry k is justified in the view of its writer.
Justified(k) ==
  LET w == wallet[k].by
      j == wallet[k].job
  IN /\ Row(w, j).status = "completed"
     /\ usage[j] \in {w, Kept}
     /\ wallet[k].user =
          IF wallet[k].kind = "earning" THEN NodeUser[Row(w, j).provider] ELSE Row(w, j).consumer

Entries == \A k \in Keys : wallet[k] # NoEntry => Justified(k)

Single ==
  \A k, l \in Keys : wallet[k] # NoEntry /\ wallet[l] # NoEntry
                     /\ wallet[k].job = wallet[l].job /\ wallet[k].kind = wallet[l].kind => k = l

IInv == TypeOK /\ Histories /\ Drafts /\ Usages /\ Entries /\ Single

-------------------------------------------------------------------------------
(* Jobs and their histories.                                               *)

\* A job that is let through the trigger gets the event that its history lacks.
LEMMA RecordContinues ==
  ASSUME NEW old \in Job \cup {NoJob}, NEW lg \in Seq(Event), NEW new \in Job,
         Chain(old, lg), Guarded(old, new)
  PROVE  /\ RecordJobStatus(lg, old, new) \in Seq(Event)
         /\ Chain(new, RecordJobStatus(lg, old, new))
         /\ Continues(old, lg, new, RecordJobStatus(lg, old, new))
<1> DEFINE e == [from |-> old.status, to |-> new.status]
<1>1. new # NoJob
  BY LedgerAssumption DEF Job, NoJob, Status, Terminal
<1>2. CASE new.status = old.status
  <2>1. old # NoJob /\ GuardJob(old, new)
    BY <1>2 DEF Guarded, NoJob
  <2>2. RecordJobStatus(lg, old, new) = lg
    BY <1>2 DEF RecordJobStatus
  <2>3. lg # <<>> /\ Chain(new, lg)
    BY <1>1, <1>2, <2>1 DEF Chain
  <2>4. Continues(old, lg, new, lg)
    BY <1>1, <2>1 DEF Continues, GuardJob
  <2> QED BY <2>2, <2>3, <2>4
<1>3. CASE new.status # old.status
  <2>1. RecordJobStatus(lg, old, new) = Append(lg, e)
    BY <1>3 DEF RecordJobStatus
  <2>2. e \in Event
    BY DEF Event, Job, NoJob
  <2>3. old.status \notin Terminal
    BY <1>3 DEF Guarded, GuardJob, NoJob, Terminal
  <2>4. Append(lg, e) \in Seq(Event) /\ Len(Append(lg, e)) = Len(lg) + 1
        /\ Append(lg, e)[Len(lg) + 1] = e
        /\ \A i \in 1 .. Len(lg) : Append(lg, e)[i] = lg[i]
    BY <2>2
  <2>5. Continues(old, lg, new, Append(lg, e))
    <3>1. old # NoJob => new.consumer = old.consumer
      BY DEF Guarded, GuardJob
    <3>2. old.provider # None => new.provider = old.provider
      BY DEF Guarded, GuardJob, NoJob
    <3> QED BY <1>1, <2>3, <2>4, <3>1, <3>2 DEF Continues
  <2>6. Chain(new, Append(lg, e))
    <3>1. CASE old = NoJob
      <4>1. lg = <<>> /\ new.status = "queued"
        BY <3>1 DEF Chain, Guarded
      <4>2. e = [from |-> "none", to |-> "queued"]
        BY <3>1, <4>1 DEF NoJob
      <4> QED BY <1>1, <2>4, <4>1, <4>2 DEF Chain
    <3>2. CASE old # NoJob
      <4>1. lg # <<>> /\ Len(lg) \in Nat /\ Len(lg) >= 1
        BY <3>2 DEF Chain
      <4>2. Append(lg, e)[1] = [from |-> "none", to |-> "queued"]
        BY <2>4, <4>1 DEF Chain
      <4>3. \A i \in 2 .. Len(lg) + 1 : Append(lg, e)[i].from = Append(lg, e)[i-1].to
        <5> SUFFICES ASSUME NEW i \in 2 .. Len(lg) + 1
                     PROVE  Append(lg, e)[i].from = Append(lg, e)[i-1].to
          OBVIOUS
        <5>1. CASE i = Len(lg) + 1
          <6>1. i - 1 = Len(lg) /\ lg[Len(lg)].to = old.status
            BY <4>1, <5>1 DEF Chain
          <6> QED BY <2>4, <4>1, <5>1, <6>1
        <5>2. CASE i # Len(lg) + 1
          <6>1. i \in 2 .. Len(lg) /\ i - 1 \in 1 .. Len(lg) /\ i \in 1 .. Len(lg)
            BY <4>1, <5>2
          <6>2. lg[i].from = lg[i-1].to
            BY <4>1, <6>1 DEF Chain
          <6> QED BY <2>4, <6>1, <6>2
        <5> QED BY <5>1, <5>2
      <4>4. Append(lg, e)[Len(lg) + 1].to = new.status /\ Append(lg, e) # <<>>
        BY <2>4, <4>1
      <4> QED BY <1>1, <2>4, <4>2, <4>3, <4>4 DEF Chain
    <3> QED BY <3>1, <3>2
  <2> QED BY <2>1, <2>4, <2>5, <2>6
<1> QED BY <1>2, <1>3

\* A later version of a later version is a later version.
LEMMA ContinuesTransitive ==
  ASSUME NEW a, NEW b, NEW c, NEW la \in Seq(Event), NEW lb \in Seq(Event), NEW lc \in Seq(Event),
         Continues(a, la, b, lb), Continues(b, lb, c, lc)
  PROVE  Continues(a, la, c, lc)
<1>1. Len(la) \in Nat /\ Len(lb) \in Nat /\ Len(lc) \in Nat
  OBVIOUS
<1>2. Len(lc) >= Len(la) /\ \A i \in 1 .. Len(la) : lc[i] = la[i]
  BY <1>1 DEF Continues
<1>3. a.status \in Terminal => c = a /\ lc = la
  BY DEF Continues
<1> QED BY <1>2, <1>3 DEF Continues

LEMMA ContinuesItself == ASSUME NEW a, NEW la \in Seq(Event) PROVE Continues(a, la, a, la)
  BY DEF Continues

\* What a transaction sees has the type of a job, a history, and continues what is committed.
LEMMA SeenContinues ==
  ASSUME TypeOK, Histories, Drafts, NEW t \in Txns \cup {Kept}, NEW j \in Jobs
  PROVE  /\ Row(t, j) \in Job \cup {NoJob}
         /\ Log(t, j) \in Seq(Event)
         /\ Chain(Row(t, j), Log(t, j))
         /\ Continues(jobs[j], log[j], Row(t, j), Log(t, j))
<1>1. jobs[j] \in Job \cup {NoJob} /\ log[j] \in Seq(Event) /\ Chain(jobs[j], log[j])
  BY DEF TypeOK, Histories
<1>2. CASE draft[j].by = t
  <2>1. draft[j] \in [by: Txns, row: Job, log: Seq(Event)]
    BY <1>2, LedgerAssumption DEF TypeOK, NoDraft
  <2>2. draft[j].by # None
    BY <1>2, LedgerAssumption
  <2> QED BY <1>2, <2>1, <2>2 DEF Row, Log, Drafts
<1>3. CASE draft[j].by # t
  BY <1>1, <1>3, ContinuesItself DEF Row, Log
<1> QED BY <1>2, <1>3

-------------------------------------------------------------------------------
(* The steps.                                                              *)

\* Nothing is written yet.
LEMMA InitIInv == Init => IInv
<1> SUFFICES ASSUME Init PROVE IInv
  OBVIOUS
<1> USE LedgerAssumption
<1>1. TypeOK
  BY DEF Init, TypeOK
<1>2. Histories
  BY DEF Init, Histories, Chain
<1>3. Drafts
  BY DEF Init, Drafts, NoDraft
<1>4. Usages /\ Entries /\ Single
  BY DEF Init, Usages, Entries, Single
<1> QED BY <1>1, <1>2, <1>3, <1>4 DEF IInv

\* A version that a transaction writes continues the one it saw, and is seen by nobody else.
LEMMA WriteStep ==
  ASSUME IInv, NEW t \in Txns, NEW j \in Jobs, NEW new \in Job,
         MayShare(t, j), Guarded(Row(t, j), new), Write(t, j, new),
         UNCHANGED <<jobs, log, sharers, usage, wallet>>
  PROVE  IInv'
<1> USE LedgerAssumption
<1> DEFINE nlog == RecordJobStatus(Log(t, j), Row(t, j), new)
<1> HIDE DEF nlog
<1>1. TypeOK /\ Histories /\ Drafts /\ Usages /\ Entries /\ Single
  BY DEF IInv
<1>2. /\ Row(t, j) \in Job \cup {NoJob} /\ Log(t, j) \in Seq(Event)
      /\ Chain(Row(t, j), Log(t, j))
      /\ Continues(jobs[j], log[j], Row(t, j), Log(t, j))
  BY <1>1, SeenContinues
<1>3. nlog \in Seq(Event) /\ Chain(new, nlog) /\ Continues(Row(t, j), Log(t, j), new, nlog)
  BY <1>2, RecordContinues DEF nlog
<1>4. Continues(jobs[j], log[j], new, nlog)
  <2>1. log[j] \in Seq(Event)
    BY <1>1 DEF TypeOK
  <2> QED BY <1>2, <1>3, <2>1, ContinuesTransitive
<1>5. draft' = [draft EXCEPT ![j] = [by |-> t, row |-> new, log |-> nlog]]
  BY DEF Write, nlog
<1>6. TypeOK'
  BY <1>1, <1>3, <1>5 DEF TypeOK
<1>7. Histories'
  BY <1>1 DEF Histories
<1>8. Drafts'
  <2> SUFFICES ASSUME NEW i \in Jobs, draft'[i].by # None
               PROVE  /\ Chain(draft'[i].row, draft'[i].log)
                      /\ Continues(jobs[i], log[i], draft'[i].row, draft'[i].log)
    BY DEF Drafts
  <2>1. CASE i = j
    <3>1. draft'[i] = [by |-> t, row |-> new, log |-> nlog]
      BY <1>1, <1>5, <2>1 DEF TypeOK
    <3> QED BY <1>3, <1>4, <2>1, <3>1
  <2>2. CASE i # j
    <3>1. draft'[i] = draft[i]
      BY <1>1, <1>5, <2>2 DEF TypeOK
    <3> QED BY <1>1, <3>1 DEF Drafts
  <2> QED BY <2>1, <2>2
<1>9. \A w \in Txns \cup {Kept}, i \in Jobs :
        Row(w, i).status \in Terminal => Row(w, i)' = Row(w, i)
  <2> SUFFICES ASSUME NEW w \in Txns \cup {Kept}, NEW i \in Jobs, Row(w, i).status \in Terminal
               PROVE  Row(w, i)' = Row(w, i)
    OBVIOUS
  <2>1. CASE i # j
    <3>1. draft'[i] = draft[i]
      BY <1>1, <1>5, <2>1 DEF TypeOK
    <3> QED BY <3>1 DEF Row
  <2>2. CASE i = j /\ w = t
    <3>1. new = Row(t, j)
      BY <2>2 DEF Guarded, GuardJob, NoJob, Terminal
    <3>2. draft'[j].by = t /\ draft'[j].row = new
      BY <1>1, <1>5 DEF TypeOK
    <3> QED BY <2>2, <3>1, <3>2 DEF Row
  <2>3. CASE i = j /\ w # t
    <3>1. draft'[j].by = t
      BY <1>1, <1>5 DEF TypeOK
    <3>2. draft[j].by # w
      BY <2>3 DEF MayShare
    <3> QED BY <2>3, <3>1, <3>2 DEF Row
  <2> QED BY <2>1, <2>2, <2>3
<1>10. Usages'
  <2> SUFFICES ASSUME NEW i \in Jobs, usage[i] # None PROVE CheckUsage(Row(usage[i], i)')
    BY DEF Usages, CheckUsage
  <2>1. usage[i] \in Txns \cup {Kept}
    BY <1>1 DEF TypeOK
  <2>2. CheckUsage(Row(usage[i], i))
    BY <1>1 DEF Usages
  <2> QED BY <1>9, <2>1, <2>2 DEF CheckUsage
<1>11. Entries'
  <2> SUFFICES ASSUME NEW k \in Keys, wallet[k] # NoEntry PROVE Justified(k)'
    BY DEF Entries
  <2>1. wallet[k].by \in Txns \cup {Kept} /\ wallet[k].job \in Jobs
    BY <1>1 DEF TypeOK, Entry
  <2>2. Justified(k)
    BY <1>1 DEF Entries
  <2>3. Row(wallet[k].by, wallet[k].job)' = Row(wallet[k].by, wallet[k].job)
    BY <1>9, <2>1, <2>2 DEF Justified, Terminal
  <2> QED BY <2>2, <2>3 DEF Justified
<1>12. Single'
  BY <1>1 DEF Single
<1> QED BY <1>6, <1>7, <1>8, <1>10, <1>11, <1>12 DEF IInv

\* INSERT INTO jobs sees no row.
LEMMA InsertJobIInv ==
  ASSUME IInv, NEW t \in Txns, NEW j \in Jobs, NEW c \in Users, NEW p \in Nodes \cup {None},
         InsertJob(t, j, c, p)
  PROVE  IInv'
<1> DEFINE new == [consumer |-> c, provider |-> p, status |-> "queued"]
<1>1. new \in Job
  BY DEF Job, Status
<1>2. MayShare(t, j) /\ Row(t, j) = NoJob
  BY LedgerAssumption DEF InsertJob, MayShare, Row
<1>3. Guarded(Row(t, j), new)
  BY <1>2 DEF Guarded
<1> QED BY <1>1, <1>2, <1>3, WriteStep DEF InsertJob

\* UPDATE jobs passed the trigger.
LEMMA UpdateJobIInv ==
  ASSUME IInv, NEW t \in Txns, NEW j \in Jobs, NEW new \in Job, UpdateJob(t, j, new)
  PROVE  IInv'
<1>1. MayShare(t, j) /\ Guarded(Row(t, j), new)
  BY DEF UpdateJob, MayWrite, Guarded
<1> QED BY <1>1, WriteStep DEF UpdateJob

\* A usage record is justified in the view of its transaction.
LEMMA InsertUsageIInv ==
  ASSUME IInv, NEW t \in Txns, NEW j \in Jobs, InsertUsage(t, j)
  PROVE  IInv'
<1> USE LedgerAssumption
<1>1. TypeOK /\ Histories /\ Drafts /\ Usages /\ Entries /\ Single
  BY DEF IInv
<1>2. UNCHANGED <<jobs, log, draft, wallet>> /\ usage[j] = None /\ CheckUsage(Row(t, j))
      /\ usage' = [usage EXCEPT ![j] = t] /\ sharers' = [sharers EXCEPT ![j] = @ \cup {t}]
  BY DEF InsertUsage, Share
<1>3. TypeOK'
  BY <1>1, <1>2 DEF TypeOK
<1>4. Histories' /\ Drafts' /\ Single'
  BY <1>1, <1>2 DEF Histories, Drafts, Single
<1>5. Usages'
  <2> SUFFICES ASSUME NEW i \in Jobs, usage'[i] # None PROVE CheckUsage(Row(usage'[i], i))
    BY <1>2 DEF Usages, CheckUsage, Row
  <2> QED BY <1>1, <1>2 DEF Usages, TypeOK
<1>6. Entries'
  <2> SUFFICES ASSUME NEW k \in Keys, wallet[k] # NoEntry PROVE Justified(k)'
    BY <1>2 DEF Entries
  <2>1. Justified(k) /\ wallet[k].by \in Txns \cup {Kept} /\ wallet[k].job \in Jobs
    BY <1>1 DEF Entries, TypeOK, Entry
  <2>2. usage'[wallet[k].job] = usage[wallet[k].job]
    BY <1>1, <1>2, <2>1 DEF Justified, TypeOK
  <2> QED BY <1>2, <2>1, <2>2 DEF Justified, Row
<1> QED BY <1>3, <1>4, <1>5, <1>6 DEF IInv

\* An entry is justified in the view of its transaction, and the only one of its kind.
LEMMA InsertEntryIInv ==
  ASSUME IInv, NEW t \in Txns, NEW k \in Keys, NEW j \in Jobs, NEW kind \in Kind, NEW u \in Users,
         InsertEntry(t, k, j, kind, u)
  PROVE  IInv'
<1> USE LedgerAssumption
<1> DEFINE e == [job |-> j, kind |-> kind, user |-> u, by |-> t]
<1>1. TypeOK /\ Histories /\ Drafts /\ Usages /\ Entries /\ Single
  BY DEF IInv
<1>2. UNCHANGED <<jobs, log, draft, usage>> /\ CheckWallet(t, j, kind, u)
      /\ OneEntryPerKind(t, j, kind)
      /\ wallet' = [wallet EXCEPT ![k] = e] /\ sharers' = [sharers EXCEPT ![j] = @ \cup {t}]
  BY DEF InsertEntry, Share
<1>3. e \in Entry
  BY DEF Entry
<1>4. wallet'[k] = e /\ \A l \in Keys \ {k} : wallet'[l] = wallet[l]
  BY <1>1, <1>2 DEF TypeOK
<1>5. TypeOK'
  BY <1>1, <1>2, <1>3 DEF TypeOK
<1>6. Histories' /\ Drafts'
  BY <1>1, <1>2 DEF Histories, Drafts
<1>7. Usages'
  BY <1>1, <1>2 DEF Usages, Row
<1>8. Entries'
  <2> SUFFICES ASSUME NEW l \in Keys, wallet'[l] # NoEntry PROVE Justified(l)'
    BY DEF Entries
  <2>1. CASE l = k
    BY <1>2, <1>4, <2>1 DEF Justified, CheckWallet, Row
  <2>2. CASE l # k
    <3>1. wallet'[l] = wallet[l] /\ Justified(l)
      BY <1>1, <1>4, <2>2 DEF Entries
    <3> QED BY <1>2, <3>1 DEF Justified, Row
  <2> QED BY <2>1, <2>2
<1>9. Single'
  BY <1>1, <1>2, <1>4 DEF Single, OneEntryPerKind
<1> QED BY <1>5, <1>6, <1>7, <1>8, <1>9 DEF IInv

\* What the commit of t makes of the committed job, and of the views of the others.
LEMMA CommitView ==
  ASSUME IInv, NEW t \in Txns, Commit(t), NEW j \in Jobs
  PROVE  /\ jobs'[j] = Row(t, j) /\ log'[j] = Log(t, j)
         /\ Row(Kept, j) = jobs[j] /\ Row(Kept, j)' = Row(t, j)
         /\ \A w \in (Txns \cup {Kept}) \ {t} :
              Row(w, j).status \in Terminal => Row(w, j)' = Row(w, j)
<1> USE LedgerAssumption
<1>1. TypeOK /\ Histories /\ Drafts
  BY DEF IInv
<1>2. jobs'[j] = Row(t, j) /\ log'[j] = Log(t, j)
      /\ draft'[j] = IF draft[j].by = t THEN NoDraft ELSE draft[j]
  BY DEF Commit, End
<1>3. draft[j].by \in Txns \cup {None} /\ draft'[j].by \in (Txns \cup {None}) \ {t}
  BY <1>1, <1>2 DEF TypeOK, NoDraft
<1>4. Continues(jobs[j], log[j], Row(t, j), Log(t, j))
  BY <1>1, SeenContinues
<1>5. Row(Kept, j) = jobs[j] /\ Row(Kept, j)' = Row(t, j)
  BY <1>2, <1>3 DEF Row
<1>6. ASSUME NEW w \in (Txns \cup {Kept}) \ {t}, Row(w, j).status \in Terminal
      PROVE  Row(w, j)' = Row(w, j)
  <2>1. CASE draft[j].by = w
    BY <1>2, <1>6, <2>1 DEF Row
  <2>2. CASE draft[j].by # w
    <3>1. Row(w, j) = jobs[j] /\ Row(t, j) = jobs[j]
      BY <1>4, <1>6, <2>2 DEF Row, Continues
    <3>2. draft'[j].by # w
      BY <1>2, <1>6, <2>2 DEF NoDraft
    <3> QED BY <1>2, <3>1, <3>2 DEF Row
  <2> QED BY <2>1, <2>2
<1> QED BY <1>2, <1>5, <1>6

\* What t wrote becomes everybody's, and leaves what the others saw of terminal jobs alone.
LEMMA CommitIInv == ASSUME IInv, NEW t \in Txns, Commit(t) PROVE IInv'
<1> USE LedgerAssumption
<1>1. TypeOK /\ Histories /\ Drafts /\ Usages /\ Entries /\ Single
  BY DEF IInv
<1>2. \A j \in Jobs : /\ jobs'[j] = Row(t, j) /\ log'[j] = Log(t, j)
                      /\ Row(Kept, j) = jobs[j] /\ Row(Kept, j)' = Row(t, j)
                      /\ \A w \in (Txns \cup {Kept}) \ {t} :
                           Row(w, j).status \in Terminal => Row(w, j)' = Row(w, j)
  BY CommitView
<1>3. \A j \in Jobs : /\ Row(t, j) \in Job \cup {NoJob} /\ Log(t, j) \in Seq(Event)
                      /\ Chain(Row(t, j), Log(t, j))
  BY <1>1, SeenContinues
<1>4. \A j \in Jobs : draft'[j] = IF draft[j].by = t THEN NoDraft ELSE draft[j]
  BY DEF Commit, End
<1>5. \A j \in Jobs : usage'[j] = IF usage[j] = t THEN Kept ELSE usage[j]
  BY DEF Commit
<1>6. /\ \A k \in Keys : wallet[k].by # t => wallet'[k] = wallet[k]
      /\ \A k \in Keys : wallet[k].by = t =>
           /\ wallet'[k].by = Kept /\ wallet'[k].job = wallet[k].job
           /\ wallet'[k].kind = wallet[k].kind /\ wallet'[k].user = wallet[k].user
  <2>1. \A k \in Keys : wallet'[k] = IF wallet[k].by = t THEN Confirmed(wallet[k]) ELSE wallet[k]
    BY DEF Commit
  <2>2. \A e : /\ Confirmed(e).by = Kept /\ Confirmed(e).job = e.job
               /\ Confirmed(e).kind = e.kind /\ Confirmed(e).user = e.user
    BY DEF Confirmed
  <2> QED BY <2>1, <2>2
<1>7. TypeOK'
  <2>1. jobs' \in [Jobs -> Job \cup {NoJob}] /\ log' \in [Jobs -> Seq(Event)]
    BY <1>3 DEF Commit
  <2>2. /\ draft' \in [Jobs -> [by: Txns, row: Job, log: Seq(Event)] \cup {NoDraft}]
        /\ sharers' \in [Jobs -> SUBSET Txns]
    BY <1>1 DEF Commit, End, TypeOK
  <2>3. usage' \in [Jobs -> Txns \cup {None, Kept}]
    BY <1>1 DEF Commit, TypeOK
  <2>4. wallet' \in [Keys -> Entry \cup {NoEntry}]
    <3>1. \A k \in Keys : wallet[k] \in Entry \cup {NoEntry}
      BY <1>1 DEF TypeOK
    <3>2. \A e \in Entry : Confirmed(e) \in Entry
      BY DEF Confirmed, Entry
    <3>3. \A k \in Keys : wallet[k].by = t => wallet[k] \in Entry
      BY <3>1 DEF NoEntry
    <3> QED BY <3>1, <3>2, <3>3 DEF Commit
  <2> QED BY <2>1, <2>2, <2>3, <2>4 DEF TypeOK
<1>8. Histories'
  BY <1>2, <1>3 DEF Histories
<1>9. Drafts'
  <2> SUFFICES ASSUME NEW j \in Jobs, draft'[j].by # None
               PROVE  /\ Chain(draft'[j].row, draft'[j].log)
                      /\ Continues(jobs'[j], log'[j], draft'[j].row, draft'[j].log)
    BY DEF Drafts
  <2>1. draft[j].by # t /\ draft'[j] = draft[j]
    BY <1>4 DEF NoDraft
  <2>2. jobs'[j] = jobs[j] /\ log'[j] = log[j]
    BY <1>2, <2>1 DEF Row, Log
  <2> QED BY <1>1, <2>1, <2>2 DEF Drafts
<1>10. Usages'
  <2> SUFFICES ASSUME NEW j \in Jobs, NEW w \in Txns \cup {Kept}, usage'[j] = w
               PROVE  CheckUsage(Row(w, j)')
    BY <1>7 DEF Usages, CheckUsage, Row, TypeOK
  <2>1. CASE usage[j] = t
    <3>1. w = Kept /\ CheckUsage(Row(t, j))
      BY <1>1, <1>5, <2>1 DEF Usages
    <3> QED BY <1>2, <3>1 DEF CheckUsage
  <2>2. CASE usage[j] # t
    <3>1. usage[j] = w /\ CheckUsage(Row(w, j)) /\ w # t
      BY <1>1, <1>5, <2>2 DEF Usages
    <3> QED BY <1>2, <3>1 DEF CheckUsage
  <2> QED BY <2>1, <2>2
<1>11. Entries'
  <2> SUFFICES ASSUME NEW k \in Keys, wallet'[k] # NoEntry PROVE Justified(k)'
    BY DEF Entries
  <2>1. wallet[k] # NoEntry
    BY <1>6 DEF NoEntry
  <2>2. Justified(k) /\ wallet[k] \in Entry
    BY <1>1, <2>1 DEF Entries, TypeOK
  <2>3. PICK w \in Txns \cup {Kept}, j \in Jobs : w = wallet[k].by /\ j = wallet[k].job
    BY <2>2 DEF Entry
  <2>4. CASE w = t
    <3>1. wallet'[k].by = Kept /\ wallet'[k].job = j /\ wallet'[k].kind = wallet[k].kind
          /\ wallet'[k].user = wallet[k].user
      BY <1>6, <2>3, <2>4
    <3>2. usage'[j] = Kept
      BY <1>5, <2>2, <2>3, <2>4 DEF Justified
    <3>3. Row(Kept, j)' = Row(w, j)
      BY <1>2, <2>4
    <3> QED BY <2>2, <2>3, <3>1, <3>2, <3>3 DEF Justified, Row
  <2>5. CASE w # t
    <3>1. wallet'[k] = wallet[k]
      BY <1>6, <2>3, <2>5
    <3>2. usage'[j] \in {w, Kept}
      BY <1>5, <2>2, <2>3, <2>5 DEF Justified
    <3>3. Row(w, j).status = "completed"
      BY <2>2, <2>3 DEF Justified
    <3>4. Row(w, j)' = Row(w, j)
      BY <1>2, <2>5, <3>3 DEF Terminal
    <3> QED BY <2>2, <2>3, <3>1, <3>2, <3>4 DEF Justified, Row
  <2> QED BY <2>4, <2>5
<1>12. Single'
  <2>1. \A k \in Keys : wallet'[k] # NoEntry =>
          wallet[k] # NoEntry /\ wallet'[k].job = wallet[k].job /\ wallet'[k].kind = wallet[k].kind
    BY <1>6 DEF NoEntry
  <2> QED BY <1>1, <2>1 DEF Single
<1> QED BY <1>7, <1>8, <1>9, <1>10, <1>11, <1>12 DEF IInv

\* What t wrote disappears, together with everything that was justified by it.
LEMMA RollbackIInv == ASSUME IInv, NEW t \in Txns, Rollback(t) PROVE IInv'
<1> USE LedgerAssumption
<1>1. TypeOK /\ Histories /\ Drafts /\ Usages /\ Entries /\ Single
  BY DEF IInv
<1>2. UNCHANGED <<jobs, log>>
      /\ (\A j \in Jobs : draft'[j] = IF draft[j].by = t THEN NoDraft ELSE draft[j])
      /\ (\A j \in Jobs : usage'[j] = IF usage[j] = t THEN None ELSE usage[j])
      /\ (\A k \in Keys : wallet'[k] = IF wallet[k].by = t THEN NoEntry ELSE wallet[k])
  BY DEF Rollback, End
<1>3. TypeOK'
  BY <1>1 DEF Rollback, End, TypeOK
<1>4. Histories' /\ Drafts'
  BY <1>1, <1>2 DEF Histories, Drafts, NoDraft
<1>5. \A w \in (Txns \cup {Kept}) \ {t}, j \in Jobs : Row(w, j)' = Row(w, j)
  BY <1>2 DEF Row, NoDraft
<1>6. Usages'
  <2> SUFFICES ASSUME NEW j \in Jobs, NEW w \in Txns \cup {Kept}, usage'[j] = w
               PROVE  CheckUsage(Row(w, j)')
    BY <1>3 DEF Usages, CheckUsage, Row, TypeOK
  <2>1. usage[j] = w /\ w # t /\ w # None
    BY <1>2
  <2>2. Row(w, j)' = Row(w, j) /\ CheckUsage(Row(w, j))
    BY <1>1, <1>5, <2>1 DEF Usages
  <2> QED BY <2>2
<1>7. Entries'
  <2> SUFFICES ASSUME NEW k \in Keys, wallet'[k] # NoEntry PROVE Justified(k)'
    BY DEF Entries
  <2>1. wallet'[k] = wallet[k] /\ wallet[k].by # t /\ Justified(k) /\ wallet[k] \in Entry
    BY <1>1, <1>2 DEF Entries, TypeOK
  <2>2. PICK w \in Txns \cup {Kept}, j \in Jobs : w = wallet[k].by /\ j = wallet[k].job
    BY <2>1 DEF Entry
  <2>3. usage'[j] = usage[j]
    BY <1>2, <2>1, <2>2 DEF Justified
  <2>4. Row(w, j)' = Row(w, j)
    BY <1>5, <2>1, <2>2
  <2> QED BY <2>1, <2>2, <2>3, <2>4 DEF Justified, Row
<1>8. Single'
  BY <1>1, <1>2 DEF Single
<1> QED BY <1>3, <1>4, <1>6, <1>7, <1>8 DEF IInv

LEMMA NextIInv == ASSUME IInv, [Next]_vars PROVE IInv'
<1>1. CASE UNCHANGED vars
  BY <1>1 DEF vars, IInv, TypeOK, Histories, Drafts, Usages, Entries, Single, Justified, Row
<1>2. ASSUME NEW t \in Txns, NEW j \in Jobs, NEW c \in Users, NEW p \in Nodes \cup {None},
             InsertJob(t, j, c, p)
      PROVE  IInv'
  BY <1>2, InsertJobIInv
<1>3. ASSUME NEW t \in Txns, NEW j \in Jobs, NEW new \in Job, UpdateJob(t, j, new) PROVE IInv'
  BY <1>3, UpdateJobIInv
<1>4. ASSUME NEW t \in Txns, NEW j \in Jobs, InsertUsage(t, j) PROVE IInv'
  BY <1>4, InsertUsageIInv
<1>5. ASSUME NEW t \in Txns, NEW j \in Jobs, NEW k \in Keys, NEW kind \in Kind, NEW u \in Users,
             InsertEntry(t, k, j, kind, u)
      PROVE  IInv'
  BY <1>5, InsertEntryIInv
<1>6. ASSUME NEW t \in Txns, Commit(t) PROVE IInv'
  BY <1>6, CommitIInv
<1>7. ASSUME NEW t \in Txns, Rollback(t) PROVE IInv'
  BY <1>7, RollbackIInv
<1> QED BY <1>1, <1>2, <1>3, <1>4, <1>5, <1>6, <1>7 DEF Next

-------------------------------------------------------------------------------

\* Drafts, usage records and entries are always justified in the view of their writer.
THEOREM InductiveInvariant == Spec => []IInv
  BY InitIInv, NextIInv, PTL DEF Spec

\* Every table keeps its type.
THEOREM TypeCorrect == Spec => []TypeOK
<1>1. IInv => TypeOK
  BY DEF IInv
<1> QED BY <1>1, InductiveInvariant, PTL

\* Nothing that a booked entry was checked against is ever rolled back or changed
\* (meshalot_check_wallet).
THEOREM LedgerIsJustified == Spec => []EntriesAreJustified
<1>1. IInv => EntriesAreJustified
  <2> SUFFICES ASSUME IInv, NEW k \in Booked
               PROVE  /\ jobs[wallet[k].job].status = "completed"
                      /\ usage[wallet[k].job] = Kept
                      /\ wallet[k].user = IF wallet[k].kind = "earning"
                                            THEN NodeUser[jobs[wallet[k].job].provider]
                                            ELSE jobs[wallet[k].job].consumer
    BY DEF EntriesAreJustified
  <2>1. k \in Keys /\ wallet[k].by = Kept /\ wallet[k] # NoEntry
    BY LedgerAssumption DEF Booked, NoEntry
  <2>2. Justified(k) /\ wallet[k].job \in Jobs
    BY <2>1 DEF IInv, Entries, TypeOK, Entry
  <2>3. draft[wallet[k].job].by # Kept
    BY <2>2, LedgerAssumption DEF IInv, TypeOK, NoDraft
  <2> QED BY <2>1, <2>2, <2>3 DEF Justified, Row
<1> QED BY <1>1, InductiveInvariant, PTL

\* No job is paid or charged twice, under whichever idempotency keys
\* (wallet_one_entry_per_kind).
THEOREM JobsArePaidOnce == Spec => []PaidOnce
<1>1. IInv => PaidOnce
  BY LedgerAssumption DEF IInv, Single, PaidOnce, Booked, NoEntry
<1> QED BY <1>1, InductiveInvariant, PTL

\* The view job_usage_parties finds both parties of every usage record.
THEOREM UsageHasParties == Spec => []UsageIsTraceable
<1>1. IInv => UsageIsTraceable
  <2> SUFFICES ASSUME IInv, NEW j \in Jobs, usage[j] = Kept
               PROVE  jobs[j].status \in Terminal /\ jobs[j].provider \in Nodes
    BY DEF UsageIsTraceable
  <2>1. draft[j].by # Kept /\ jobs[j] \in Job \cup {NoJob}
    BY LedgerAssumption DEF IInv, TypeOK, NoDraft
  <2>2. CheckUsage(jobs[j])
    BY <2>1, LedgerAssumption DEF IInv, Usages, Row
  <2> QED BY <2>1, <2>2 DEF CheckUsage, Job, NoJob
<1> QED BY <1>1, InductiveInvariant, PTL

\* The committed events of a job are its history, without gaps
\* (meshalot_record_job_status).
THEOREM AuditIsComplete == Spec => []HistoryIsComplete
<1>1. IInv => HistoryIsComplete
  BY DEF IInv, Histories, Chain, HistoryIsComplete
<1> QED BY <1>1, InductiveInvariant, PTL

\* No step changes a terminal job, the parties of a job, or what the log says of it
\* (meshalot_guard_job and the append-only triggers).
THEOREM AuditIsFinal == Spec => HistoryIsFinal
<1> DEFINE Final(j) ==
             /\ jobs[j].status \in Terminal => jobs'[j] = jobs[j] /\ log'[j] = log[j]
             /\ jobs[j] # NoJob => jobs'[j].consumer = jobs[j].consumer
             /\ jobs[j].provider # None => jobs'[j].provider = jobs[j].provider
             /\ Len(log'[j]) >= Len(log[j]) /\ \A i \in 1 .. Len(log[j]) : log'[j][i] = log[j][i]
<1>1. ASSUME IInv, [Next]_vars PROVE [\A j \in Jobs : Final(j)]_vars
  <2>1. ASSUME UNCHANGED <<jobs, log>>, NEW j \in Jobs PROVE Final(j)
    <3>1. Len(log[j]) \in Nat
      BY <1>1 DEF IInv, TypeOK
    <3> QED BY <2>1, <3>1
  <2>2. ASSUME NEW t \in Txns, Commit(t), NEW j \in Jobs PROVE Final(j)
    <3>1. jobs'[j] = Row(t, j) /\ log'[j] = Log(t, j)
      BY <1>1, <2>2, CommitView
    <3>2. Continues(jobs[j], log[j], Row(t, j), Log(t, j))
      BY <1>1, SeenContinues DEF IInv
    <3> QED BY <3>1, <3>2 DEF Continues
  <2>3. Next => UNCHANGED <<jobs, log>> \/ \E t \in Txns : Commit(t)
    BY DEF Next, InsertJob, UpdateJob, InsertUsage, InsertEntry, Rollback
  <2> QED BY <1>1, <2>1, <2>2, <2>3
<1> QED BY <1>1, InductiveInvariant, PTL DEF HistoryIsFinal, Spec

===============================================================================
